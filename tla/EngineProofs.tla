---------------------------- MODULE EngineProofs ----------------------------
(***************************************************************************)
(* Proofs about the engines.  First ShardExport and ShardEngine, in the    *)
(* specification of the latter: for any number of layers, options and runs *)
(* of the two scripts, each killed anywhere, which export or which kill    *)
(* each file of the directory comes from (DirInv); on top of it, for       *)
(* any prompt, window and pool, what the pool, the caches, the carried     *)
(* hidden states and the logits are at every point of the engine's two     *)
(* sweeps (EngineInv).  Then TokenGraph: for any layers, chunk, prompt,    *)
(* split of the linears and layers a submit, what is queued leads from     *)
(* what the buffers hold to what the host expects (GraphInv).              *)
(***************************************************************************)
EXTENDS ShardEngine, TokenGraph, FiniteSetTheorems, SequenceTheorems,
        WellFoundedInduction, TLAPS

Count(o) == (NLayers + o.lps - 1) \div o.lps

\* There is a shard, and no more of them than layers.
LEMMA Quotient ==
    ASSUME NEW N \in Nat \ {0}, NEW l \in Nat \ {0}
    PROVE  (N + l - 1) \div l \in 1 .. N
<1> DEFINE q == (N + l - 1) \div l
<1>1. q \in Int /\ l * q <= N + l - 1 /\ N + l - 1 < l * (q + 1)
  OBVIOUS
<1> HIDE DEF q
<1>2. q >= 1
  <2> SUFFICES ASSUME q + 1 <= 1 PROVE FALSE
    BY <1>1
  <2>1. l * (q + 1) <= l * 1
    BY <1>1
  <2> QED
    BY <1>1, <2>1
<1>3. q <= N
  <2> SUFFICES ASSUME q >= N + 1 PROVE FALSE
    BY <1>1
  <2>1. l * q >= l * (N + 1)
    BY <1>1
  <2>2. l * (N + 1) = l * N + l /\ l * N >= N
    OBVIOUS
  <2>3. l * q \in Int /\ l * (N + 1) \in Int /\ l * N \in Int
    BY <1>1
  <2> QED
    BY <1>1, <2>1, <2>2, <2>3
<1> QED
  BY <1>1, <1>2, <1>3 DEF q

\* The shards a layout lists are numbered from 0, one at least.
LEMMA ShardsOf ==
    ASSUME NEW o \in Options
    PROVE  /\ Count(o) \in 1 .. NLayers
           /\ DOMAIN Shards(o) = 0 .. Count(o) - 1
           /\ DOMAIN Shards(o) \subseteq Indices
           /\ 0 \in DOMAIN Shards(o)
<1>1. o.lps \in Nat \ {0}
  BY ShardExportAssumption
<1>2. Count(o) \in 1 .. NLayers
  BY <1>1, Quotient, ShardExportAssumption DEF Count
<1>3. DOMAIN Shards(o) = 0 .. Count(o) - 1
  BY DEF Shards, Count
<1> QED
  BY <1>2, <1>3, ShardExportAssumption DEF Indices

-----------------------------------------------------------------------------
(* The invariant of the directory *)

\* A whole file is a shard of a layout some export has written.
FilesOK ==
    /\ file = [i \in Indices |-> file[i]]
    /\ \A i \in Indices :
         \/ file[i] = Absent
         \/ file[i] = Torn
         \/ \E o \in layouts : i \in DOMAIN Shards(o) /\ file[i] = Shards(o)[i]

ContextsOK ==
    /\ ctx = [i \in Indices |-> ctx[i]]
    /\ ContextIsItsShard

\* The shards before the exporter's are there, and the one it saves is torn.
ExporterOK ==
    \/ exporter = [phase |-> "off"]
    \/ \E i \in DOMAIN Shards(meta), saving \in BOOLEAN :
         /\ meta \in layouts
         /\ exporter = [phase |-> "exporting", si |-> i, opt |-> meta, saving |-> saving]
         /\ \A t \in 0 .. i - 1 : file[t] # Absent
         /\ saving => file[i] = Torn
    \/ /\ meta \in layouts
       /\ exporter = [phase |-> "done", opt |-> meta]
       /\ \A t \in DOMAIN Shards(meta) : file[t] # Absent

\* What the compiler's session was built from is still the file.
CompilerOK ==
    \/ compiler = [phase |-> "off"]
    \/ \E i \in Indices, count \in 1 .. NLayers, open \in BOOLEAN :
         /\ compiler = [phase |-> "compiling", s |-> i, NSH |-> count,
                        from |-> IF open THEN file[i] ELSE Absent]
         /\ open => file[i].state = "whole"

\* A torn file is the one being saved, or one an exporter was killed at.
TornOK ==
    \A i \in Indices :
        file[i] = Torn => i \in cut \/ (Exporting /\ exporter.saving /\ exporter.si = i)

DirInv ==
    /\ layouts \subseteq Options
    /\ FilesOK /\ ContextsOK /\ ExporterOK /\ CompilerOK /\ TornOK

\* A whole shard is neither absent nor torn, and computes the layers of its number.
LEMMA States ==
    /\ Absent.state = "absent" /\ Torn.state = "torn" /\ Absent # Torn
    /\ \A o \in Options : \A i \in DOMAIN Shards(o) :
           /\ Shards(o)[i].state = "whole"
           /\ Shards(o)[i] # Absent /\ Shards(o)[i] # Torn
           /\ Shards(o)[i].lo = i * o.lps
           /\ Shards(o)[i].hi = IF (i + 1) * o.lps <= NLayers THEN (i + 1) * o.lps ELSE NLayers
<1>1. Absent.state = "absent" /\ Torn.state = "torn" /\ Absent # Torn
  BY DEF Absent, Torn
<1>2. ASSUME NEW o \in Options, NEW i \in DOMAIN Shards(o)
      PROVE  /\ Shards(o)[i].state = "whole"
             /\ Shards(o)[i].lo = i * o.lps
             /\ Shards(o)[i].hi = IF (i + 1) * o.lps <= NLayers THEN (i + 1) * o.lps ELSE NLayers
  BY DEF Shards, Whole
<1> QED
  BY <1>1, <1>2

\* A file that is not whole is written; whoever read a whole one does not notice.
LEMMA FileWritten ==
    ASSUME DirInv, NEW i \in Indices, file[i].state # "whole", NEW v,
           file' = [file EXCEPT ![i] = v],
           v = Torn \/ \E o \in layouts : i \in DOMAIN Shards(o) /\ v = Shards(o)[i],
           UNCHANGED <<ctx, compiler, layouts>>
    PROVE  FilesOK' /\ ContextsOK' /\ CompilerOK'
<1>1. file'[i] = v /\ \A j \in Indices \ {i} : file'[j] = file[j]
  BY DEF DirInv, FilesOK
<1>2. FilesOK'
  <2>1. file' = [j \in Indices |-> file'[j]]
    BY DEF DirInv, FilesOK
  <2>2. ASSUME NEW j \in Indices
        PROVE  \/ file'[j] = Absent
               \/ file'[j] = Torn
               \/ \E o \in layouts : j \in DOMAIN Shards(o) /\ file'[j] = Shards(o)[j]
    BY <1>1 DEF DirInv, FilesOK
  <2>3. layouts' = layouts
    OBVIOUS
  <2> QED
    BY <2>1, <2>2, <2>3 DEF FilesOK
<1>3. ContextsOK'
  <2>1. ASSUME NEW j \in Indices, ctx[j].state = "whole" PROVE ctx[j] = file'[j]
    BY <1>1, <2>1 DEF DirInv, ContextsOK, ContextIsItsShard
  <2> QED
    BY <2>1 DEF DirInv, ContextsOK, ContextIsItsShard
<1>4. CompilerOK'
  <2>1. CASE compiler = [phase |-> "off"]
    BY <2>1 DEF CompilerOK
  <2>2. ASSUME NEW j \in Indices, NEW count \in 1 .. NLayers, NEW open \in BOOLEAN,
               compiler = [phase |-> "compiling", s |-> j, NSH |-> count,
                           from |-> IF open THEN file[j] ELSE Absent],
               open => file[j].state = "whole"
        PROVE  CompilerOK'
    <3>1. open => file'[j] = file[j]
      BY <1>1, <2>2
    <3> QED
      BY <2>2, <3>1 DEF CompilerOK
  <2> QED
    BY <2>1, <2>2 DEF DirInv, CompilerOK
<1> QED
  BY <1>2, <1>3, <1>4

\* An exporter that is exporting, with its shard named.
LEMMA ExportingAt ==
    ASSUME DirInv, Exporting
    PROVE  \E i \in DOMAIN Shards(meta), saving \in BOOLEAN :
              /\ meta \in layouts /\ meta \in Options
              /\ exporter = [phase |-> "exporting", si |-> i, opt |-> meta, saving |-> saving]
              /\ \A t \in 0 .. i - 1 : file[t] # Absent
              /\ saving => file[i] = Torn
BY DEF DirInv, ExporterOK, Exporting

\* The exporter leaves a shard that is there (export_shards.py:264-272).
LEMMA NextShardOK ==
    ASSUME NEW i \in DOMAIN Shards(meta), NEW saving \in BOOLEAN,
           meta \in Options, meta \in layouts, UNCHANGED <<meta, layouts>>,
           exporter = [phase |-> "exporting", si |-> i, opt |-> meta, saving |-> saving],
           \A t \in 0 .. i : file'[t] # Absent,
           NextShard
    PROVE  ExporterOK'
<1>1. i \in Nat /\ Count(meta) \in Nat /\ DOMAIN Shards(meta) = 0 .. Count(meta) - 1
  BY ShardsOf
<1>2. exporter.si = i /\ exporter.opt = meta
  OBVIOUS
<1>3. Shards(meta)' = Shards(meta)
  BY DEF Shards
<1>4. CASE i + 1 \in DOMAIN Shards(meta)
  <2>1. exporter' = [exporter EXCEPT !.si = @ + 1, !.saving = FALSE]
    BY <1>2, <1>4 DEF NextShard
  <2>2. exporter' = [phase |-> "exporting", si |-> i + 1, opt |-> meta, saving |-> FALSE]
    BY <2>1
  <2>3. \A t \in 0 .. (i + 1) - 1 : file'[t] # Absent
    BY <1>1
  <2> QED
    BY <1>3, <1>4, <2>2, <2>3 DEF ExporterOK
<1>5. CASE i + 1 \notin DOMAIN Shards(meta)
  <2>1. exporter' = [phase |-> "done", opt |-> meta]
    BY <1>2, <1>5 DEF NextShard
  <2>2. \A t \in DOMAIN Shards(meta) : t \in 0 .. i
    BY <1>1, <1>5
  <2> QED
    BY <1>3, <2>1, <2>2 DEF ExporterOK
<1> QED
  BY <1>4, <1>5

-----------------------------------------------------------------------------
(* The exporter *)

\* An export begins, whatever the last one left.
LEMMA StartExportStep ==
    ASSUME DirInv, NEW o \in Options, StartExport(o)
    PROVE  DirInv'
<1>1. /\ exporter' = [phase |-> "exporting", si |-> 0, opt |-> o, saving |-> FALSE]
      /\ meta' = o /\ layouts' = layouts \cup {o}
      /\ file' = file /\ ctx' = ctx /\ compiler' = compiler /\ cut' = cut
      /\ ~Exporting
  BY DEF StartExport, comVars, Exporting
<1>2. FilesOK' /\ ContextsOK' /\ CompilerOK'
  BY <1>1 DEF DirInv, FilesOK, ContextsOK, ContextIsItsShard, CompilerOK
<1>3. ExporterOK'
  <2>1. 0 \in DOMAIN Shards(o) /\ \A t \in 0 .. 0 - 1 : file'[t] # Absent
    BY ShardsOf
  <2>2. Shards(meta)' = Shards(o)
    BY <1>1 DEF Shards
  <2> QED
    BY <1>1, <2>1, <2>2 DEF ExporterOK
<1>4. TornOK'
  BY <1>1 DEF DirInv, TornOK
<1> QED
  BY <1>1, <1>2, <1>3, <1>4 DEF DirInv

\* A shard that exists is skipped, torn or not.
LEMMA SkipExistingStep ==
    ASSUME DirInv, SkipExisting
    PROVE  DirInv'
<1>1. PICK i \in DOMAIN Shards(meta), saving \in BOOLEAN :
         /\ meta \in layouts /\ meta \in Options
         /\ exporter = [phase |-> "exporting", si |-> i, opt |-> meta, saving |-> saving]
         /\ \A t \in 0 .. i - 1 : file[t] # Absent
         /\ saving => file[i] = Torn
  BY ExportingAt DEF SkipExisting
<1>2. /\ file' = file /\ ctx' = ctx /\ compiler' = compiler /\ meta' = meta
      /\ layouts' = layouts /\ NextShard /\ file[exporter.si] # Absent
      /\ cut' = cut /\ ~exporter.saving
  BY DEF SkipExisting, dirVars, comVars, histVars, Kept
<1>3. \A t \in 0 .. i : file'[t] # Absent
  <2>1. i \in Nat /\ exporter.si = i
    BY <1>1, ShardsOf
  <2> QED
    BY <1>1, <1>2, <2>1
<1>4. ExporterOK'
  BY <1>1, <1>2, <1>3, NextShardOK
<1>5. TornOK'
  BY <1>2 DEF DirInv, TornOK
<1> QED
  BY <1>2, <1>4, <1>5 DEF DirInv, FilesOK, ContextsOK, ContextIsItsShard, CompilerOK

\* A shard is torn while it is saved ...
LEMMA BeginSaveStep ==
    ASSUME DirInv, BeginSave
    PROVE  DirInv'
<1>1. PICK i \in DOMAIN Shards(meta), saving \in BOOLEAN :
         /\ meta \in layouts /\ meta \in Options
         /\ exporter = [phase |-> "exporting", si |-> i, opt |-> meta, saving |-> saving]
         /\ \A t \in 0 .. i - 1 : file[t] # Absent
         /\ saving => file[i] = Torn
  BY ExportingAt DEF BeginSave
<1>2. /\ file[i] = Absent /\ file' = [file EXCEPT ![i] = Torn]
      /\ exporter' = [exporter EXCEPT !.saving = TRUE]
      /\ UNCHANGED <<ctx, compiler, meta, layouts, cut>> /\ ~exporter.saving
  BY <1>1 DEF BeginSave, comVars, histVars, Kept
<1>3. i \in Indices /\ i \in Nat
  BY <1>1, ShardsOf
<1>4. FilesOK' /\ ContextsOK' /\ CompilerOK'
  BY <1>2, <1>3, FileWritten, States
<1>5. ExporterOK'
  <2>1. exporter' = [phase |-> "exporting", si |-> i, opt |-> meta, saving |-> TRUE]
    BY <1>1, <1>2
  <2>2. file'[i] = Torn /\ \A t \in 0 .. i - 1 : file'[t] # Absent
    <3>1. \A t \in 0 .. i - 1 : t \in Indices /\ t # i
      BY <1>3, ShardExportAssumption DEF Indices
    <3> QED
      BY <1>1, <1>2, <1>3, <3>1 DEF DirInv, FilesOK
  <2>3. Shards(meta)' = Shards(meta)
    BY <1>2 DEF Shards
  <2> QED
    BY <1>1, <1>2, <2>1, <2>2, <2>3 DEF ExporterOK
<1>6. TornOK'
  <2>1. Exporting' /\ exporter'.saving /\ exporter'.si = i
    BY <1>1, <1>2 DEF Exporting
  <2>2. \A j \in Indices \ {i} : file'[j] = file[j]
    BY <1>2 DEF DirInv, FilesOK
  <2>3. \A j \in Indices \ {i} : file'[j] = Torn => j \in cut'
    BY <1>2, <2>2 DEF DirInv, TornOK
  <2> QED
    BY <2>1, <2>3 DEF TornOK
<1> QED
  BY <1>2, <1>4, <1>5, <1>6 DEF DirInv

\* ... and whole when it has been.
LEMMA EndSaveStep ==
    ASSUME DirInv, EndSave
    PROVE  DirInv'
<1>1. PICK i \in DOMAIN Shards(meta), saving \in BOOLEAN :
         /\ meta \in layouts /\ meta \in Options
         /\ exporter = [phase |-> "exporting", si |-> i, opt |-> meta, saving |-> saving]
         /\ \A t \in 0 .. i - 1 : file[t] # Absent
         /\ saving => file[i] = Torn
  BY ExportingAt DEF EndSave
<1>2. /\ file[i] = Torn /\ file' = [file EXCEPT ![i] = Shards(meta)[i]]
      /\ NextShard /\ UNCHANGED <<ctx, compiler, meta, layouts, cut>>
  BY <1>1 DEF EndSave, comVars, histVars
<1>3. i \in Indices /\ i \in Nat
  BY <1>1, ShardsOf
<1>4. FilesOK' /\ ContextsOK' /\ CompilerOK'
  BY <1>1, <1>2, <1>3, FileWritten, States
<1>5. \A t \in 0 .. i : file'[t] # Absent
  <2>1. \A t \in 0 .. i : t \in Indices /\ (t = i \/ t \in 0 .. i - 1)
    BY <1>3, ShardExportAssumption DEF Indices
  <2>2. file'[i] # Absent
    BY <1>1, <1>2, <1>3, States DEF DirInv, FilesOK
  <2> QED
    BY <1>1, <1>2, <1>3, <2>1, <2>2 DEF DirInv, FilesOK
<1>6. ExporterOK'
  BY <1>1, <1>2, <1>5, NextShardOK
<1>7. TornOK'
  <2>1. exporter.si = i
    BY <1>1
  <2>2. file'[i] # Torn /\ \A j \in Indices \ {i} : file'[j] = file[j]
    BY <1>1, <1>2, <1>3, States DEF DirInv, FilesOK
  <2>3. \A j \in Indices \ {i} : file'[j] = Torn => j \in cut'
    BY <1>2, <2>1, <2>2 DEF DirInv, TornOK
  <2> QED
    BY <2>2, <2>3 DEF TornOK
<1> QED
  BY <1>2, <1>4, <1>6, <1>7 DEF DirInv

\* The exporter is killed; the files stay, the one it was saving torn.
LEMMA ExportDiesStep ==
    ASSUME DirInv, ExportDies
    PROVE  DirInv'
<1>1. /\ exporter' = [phase |-> "off"] /\ file' = file /\ ctx' = ctx
      /\ compiler' = compiler /\ layouts' = layouts
      /\ cut' = IF exporter.saving THEN cut \cup {exporter.si} ELSE cut
  BY DEF ExportDies, dirVars, comVars
<1>2. TornOK'
  BY <1>1 DEF DirInv, TornOK
<1> QED
  BY <1>1, <1>2 DEF DirInv, FilesOK, ContextsOK, ContextIsItsShard, CompilerOK, ExporterOK

-----------------------------------------------------------------------------
(* The compiler *)

\* What a compiler at work has in its hands.
LEMMA CompilingAt ==
    ASSUME DirInv, Compiling
    PROVE  \E i \in Indices, count \in 1 .. NLayers, open \in BOOLEAN :
              /\ compiler = [phase |-> "compiling", s |-> i, NSH |-> count,
                             from |-> IF open THEN file[i] ELSE Absent]
              /\ open => file[i].state = "whole"
BY DEF DirInv, CompilerOK, Compiling

\* The exporter's side does not change with the compiler's.
LEMMA OnlyCompiler ==
    ASSUME DirInv, UNCHANGED <<meta, file, exporter, layouts, cut>>, ContextsOK', CompilerOK'
    PROVE  DirInv'
<1>1. Shards(meta)' = Shards(meta)
  BY DEF Shards
<1>2. ExporterOK'
  BY <1>1 DEF DirInv, ExporterOK
<1>3. TornOK'
  BY DEF DirInv, TornOK, Exporting
<1> QED
  BY <1>2, <1>3 DEF DirInv, FilesOK

\* The compiler goes to the next shard or ends.
LEMMA NextContextOK ==
    ASSUME NEW i \in Indices, NEW count \in 1 .. NLayers, NEW from,
           compiler = [phase |-> "compiling", s |-> i, NSH |-> count, from |-> from],
           NextContext
    PROVE  CompilerOK'
<1>1. compiler.s = i /\ compiler.NSH = count
  OBVIOUS
<1>2. CASE i + 1 < count
  <2>1. compiler' = [phase |-> "compiling", s |-> i + 1, NSH |-> count, from |-> Absent]
    BY <1>1, <1>2 DEF NextContext
  <2>2. i + 1 \in Indices
    BY <1>2, ShardExportAssumption DEF Indices
  <2>3. Absent \in {Absent, file'[i + 1]}
    OBVIOUS
  <2> QED
    BY <2>1, <2>2, <2>3 DEF CompilerOK
<1>3. CASE ~(i + 1 < count)
  BY <1>1, <1>3 DEF NextContext, CompilerOK
<1> QED
  BY <1>2, <1>3

\* A compilation counts the shards there are.
LEMMA StartCompileStep ==
    ASSUME DirInv, StartCompile
    PROVE  DirInv'
<1> DEFINE count == Cardinality({i \in Indices : file[i] # Absent})
<1>1. /\ UNCHANGED <<meta, file, ctx, exporter, layouts, cut>>
      /\ compiler' = IF count = 0 THEN [phase |-> "off"]
                     ELSE [phase |-> "compiling", s |-> 0, NSH |-> count, from |-> Absent]
  BY DEF StartCompile, dirVars, expVars, histVars
<1>2. count \in 0 .. NLayers
  <2>1. IsFiniteSet(Indices) /\ Cardinality(Indices) = NLayers
    BY FS_Interval, ShardExportAssumption DEF Indices
  <2>2. {i \in Indices : file[i] # Absent} \subseteq Indices
    OBVIOUS
  <2>3. IsFiniteSet({i \in Indices : file[i] # Absent}) /\ count <= NLayers
    BY <2>1, <2>2, FS_Subset
  <2>4. count \in Nat
    BY <2>3, FS_CardinalityType
  <2> QED
    BY <2>3, <2>4, ShardExportAssumption
<1> HIDE DEF count
<1>3. CompilerOK'
  <2>1. CASE count = 0
    BY <1>1, <2>1 DEF CompilerOK
  <2>2. CASE count # 0
    <3>1. count \in 1 .. NLayers /\ 0 \in Indices
      BY <1>2, <2>2, ShardExportAssumption DEF Indices
    <3>2. compiler' = [phase |-> "compiling", s |-> 0, NSH |-> count, from |-> Absent]
      BY <1>1, <2>2
    <3> QED
      BY <3>1, <3>2 DEF CompilerOK
  <2> QED
    BY <2>1, <2>2
<1>4. ContextsOK'
  BY <1>1 DEF DirInv, ContextsOK, ContextIsItsShard
<1> QED
  BY <1>1, <1>3, <1>4, OnlyCompiler

\* A context that exists is skipped.
LEMMA SkipCompiledStep ==
    ASSUME DirInv, SkipCompiled
    PROVE  DirInv'
<1>1. UNCHANGED <<meta, file, ctx, exporter, layouts, cut>> /\ NextContext /\ Compiling
  BY DEF SkipCompiled, dirVars, expVars, histVars
<1>2. CompilerOK'
  BY <1>1, CompilingAt, NextContextOK
<1>3. ContextsOK'
  BY <1>1 DEF DirInv, ContextsOK, ContextIsItsShard
<1> QED
  BY <1>1, <1>2, <1>3, OnlyCompiler

\* A context is torn while it is compiled from a whole shard ...
LEMMA BeginCompileStep ==
    ASSUME DirInv, BeginCompile
    PROVE  DirInv'
<1>1. PICK i \in Indices, count \in 1 .. NLayers, open \in BOOLEAN :
         /\ compiler = [phase |-> "compiling", s |-> i, NSH |-> count,
                        from |-> IF open THEN file[i] ELSE Absent]
         /\ open => file[i].state = "whole"
  BY CompilingAt DEF BeginCompile
<1>2. /\ compiler.s = i /\ ctx[i] = Absent
      /\ UNCHANGED <<meta, file, exporter, layouts, cut>>
  BY <1>1 DEF BeginCompile, expVars, histVars
<1>3. CASE file[i].state = "whole"
  <2>1. /\ compiler' = [compiler EXCEPT !.from = file[i]]
        /\ ctx' = [ctx EXCEPT ![i] = Torn]
    BY <1>2, <1>3 DEF BeginCompile
  <2>2. compiler' = [phase |-> "compiling", s |-> i, NSH |-> count, from |-> file[i]]
    BY <1>1, <2>1
  <2>3. CompilerOK'
    <3>1. file'[i] = file[i] /\ TRUE \in BOOLEAN
      BY <1>2
    <3>2. file[i] = IF TRUE THEN file'[i] ELSE Absent
      BY <3>1
    <3> QED
      BY <1>3, <2>2, <3>1, <3>2 DEF CompilerOK
  <2>4. ContextsOK'
    <3>1. ctx'[i] = Torn /\ \A j \in Indices \ {i} : ctx'[j] = ctx[j]
      BY <2>1 DEF DirInv, ContextsOK
    <3>2. ctx' = [j \in Indices |-> ctx'[j]]
      BY <2>1 DEF DirInv, ContextsOK
    <3> QED
      BY <1>2, <3>1, <3>2, States DEF DirInv, ContextsOK, ContextIsItsShard
  <2> QED
    BY <1>2, <2>3, <2>4, OnlyCompiler
<1>4. CASE file[i].state # "whole"
  <2>1. compiler' = [phase |-> "off"] /\ ctx' = ctx
    BY <1>2, <1>4 DEF BeginCompile
  <2>2. CompilerOK' /\ ContextsOK'
    BY <1>2, <2>1 DEF DirInv, CompilerOK, ContextsOK, ContextIsItsShard
  <2> QED
    BY <1>2, <2>2, OnlyCompiler
<1> QED
  BY <1>3, <1>4

\* ... and is that shard when it has been: nobody rewrites a whole file.
LEMMA EndCompileStep ==
    ASSUME DirInv, EndCompile
    PROVE  DirInv'
<1>1. PICK i \in Indices, count \in 1 .. NLayers, open \in BOOLEAN :
         /\ compiler = [phase |-> "compiling", s |-> i, NSH |-> count,
                        from |-> IF open THEN file[i] ELSE Absent]
         /\ open => file[i].state = "whole"
  BY CompilingAt DEF EndCompile
<1>2. /\ compiler.s = i /\ compiler.from = file[i]
  <2>1. compiler.s = i /\ compiler.from = IF open THEN file[i] ELSE Absent
    BY <1>1
  <2> QED
    BY <2>1 DEF EndCompile
<1>3. /\ ctx' = [ctx EXCEPT ![i] = file[i]] /\ NextContext
      /\ UNCHANGED <<meta, file, exporter, layouts, cut>>
  BY <1>1, <1>2 DEF EndCompile, expVars, histVars
<1>4. CompilerOK'
  BY <1>1, <1>3, NextContextOK
<1>5. ContextsOK'
  <2>1. ctx'[i] = file[i] /\ \A j \in Indices \ {i} : ctx'[j] = ctx[j]
    BY <1>3 DEF DirInv, ContextsOK
  <2>2. ctx' = [j \in Indices |-> ctx'[j]]
    BY <1>3 DEF DirInv, ContextsOK
  <2> QED
    BY <1>3, <2>1, <2>2 DEF DirInv, ContextsOK, ContextIsItsShard
<1> QED
  BY <1>3, <1>4, <1>5, OnlyCompiler

\* The compiler is killed; the files stay.
LEMMA CompileDiesStep ==
    ASSUME DirInv, CompileDies
    PROVE  DirInv'
<1>1. UNCHANGED <<meta, file, ctx, exporter, layouts, cut>> /\ compiler' = [phase |-> "off"]
  BY DEF CompileDies, dirVars, expVars, histVars
<1>2. CompilerOK' /\ ContextsOK'
  BY <1>1 DEF DirInv, CompilerOK, ContextsOK, ContextIsItsShard
<1> QED
  BY <1>1, <1>2, OnlyCompiler

-----------------------------------------------------------------------------
\* The directory is empty and neither script runs.
LEMMA Initially == Init => DirInv
<1> SUFFICES ASSUME Init PROVE DirInv
  OBVIOUS
<1>1. /\ file = [i \in Indices |-> Absent] /\ ctx = [i \in Indices |-> Absent]
      /\ exporter = [phase |-> "off"] /\ compiler = [phase |-> "off"] /\ layouts = {}
      /\ cut = {}
  BY DEF Init, DirInit
<1>2. ContextsOK
  BY <1>1, States DEF ContextsOK, ContextIsItsShard
<1>3. TornOK
  BY <1>1, States DEF TornOK
<1> QED
  BY <1>1, <1>2, <1>3 DEF DirInv, FilesOK, ExporterOK, CompilerOK

\* The engine reads the directory and writes nothing to it.
LEMMA Untouched ==
    ASSUME DirInv, UNCHANGED <<meta, file, ctx, exporter, compiler, layouts, cut>>
    PROVE  DirInv'
<1>1. CompilerOK' /\ ContextsOK'
  BY DEF DirInv, CompilerOK, ContextsOK, ContextIsItsShard
<1> QED
  BY <1>1, OnlyCompiler

\* Every step keeps the invariant, one lemma a case.
LEMMA Preserved == DirInv /\ [Next]_vars => DirInv'
<1> SUFFICES ASSUME DirInv, [Next]_vars PROVE DirInv'
  OBVIOUS
<1>1. CASE DirNext
  BY <1>1, StartExportStep, SkipExistingStep, BeginSaveStep, EndSaveStep, ExportDiesStep,
     StartCompileStep, SkipCompiledStep, BeginCompileStep, EndCompileStep, CompileDiesStep
     DEF DirNext
<1>2. CASE UNCHANGED <<dirVars, expVars, comVars, histVars>>
  <2>1. UNCHANGED <<meta, file, ctx, exporter, compiler, layouts, cut>>
    BY <1>2 DEF dirVars, expVars, comVars, histVars
  <2> QED
    BY <2>1, Untouched
<1>3. CASE UNCHANGED vars
  <2>1. UNCHANGED <<meta, file, ctx, exporter, compiler, layouts, cut>>
    BY <1>3 DEF vars, histVars
  <2> QED
    BY <2>1, Untouched
<1> QED
  BY <1>1, <1>2, <1>3 DEF Next

\* A finished exporter has left every shard it lists, each as the invariant
\* says and none being saved.
LEMMA AsListed == DirInv => DoneAsListed
<1> SUFFICES ASSUME DirInv, exporter.phase = "done", NEW i \in DOMAIN Shards(meta)
             PROVE  \/ file[i] = Torn /\ i \in cut
                    \/ \E o \in layouts : i \in DOMAIN Shards(o) /\ file[i] = Shards(o)[i]
  BY DEF DoneAsListed
<1>1. meta \in layouts /\ file[i] # Absent
  BY DEF DirInv, ExporterOK
<1>2. i \in Indices
  BY <1>1, ShardsOf DEF DirInv
<1>3. CASE file[i] = Torn
  BY <1>2, <1>3 DEF DirInv, TornOK, Exporting
<1>4. CASE file[i] # Torn
  BY <1>1, <1>2, <1>4 DEF DirInv, FilesOK
<1> QED
  BY <1>3, <1>4

\* Whatever options the runs of the exporter were given and wherever they were
\* killed: when one reports DONE, each shard shards.json lists is exactly what
\* some export into the directory was asked for, in layers and window, or the
\* torn file of an export killed while it saved that shard
\* (export_shards.py:264-272).
THEOREM DirectoryCorrect == Spec => []DoneAsListed
<1>1. Init => DirInv
  BY Initially
<1>2. DirInv /\ [Next]_vars => DirInv'
  BY Preserved
<1>3. DirInv => DoneAsListed
  BY AsListed
<1> QED
  BY <1>1, <1>2, <1>3, PTL DEF Spec

\* A context binary that loads computes what its shard file does, layers and
\* window, however the runs of the two scripts overlap and wherever they are
\* killed (compile_contexts.py:27-43, export_shards.py:266-267).
THEOREM ContextsCorrect == Spec => []ContextIsItsShard
<1>1. Init => DirInv
  BY Initially
<1>2. DirInv /\ [Next]_vars => DirInv'
  BY Preserved
<1>3. DirInv => ContextIsItsShard
  BY DEF DirInv, ContextsOK
<1> QED
  BY <1>1, <1>2, <1>3, PTL DEF Spec

-----------------------------------------------------------------------------
(* The engine: what the pool, the sweep, the caches and the carries hold *)

\* The layers before shard k, all of them for the one past the last.
Layer(k) == IF k * desc.lps <= NLayers THEN k * desc.lps ELSE NLayers

\* A cache through which the first count positions of the prompt have gone.
Roll(count) ==
    [j \in 1 .. desc.win |->
        IF j <= desc.win - count THEN Zero ELSE Entry(gen, count - desc.win + j - 1)]

Sweeping == phase = "prefill" /\ pos < Prompt

\* How many positions have gone through shard i.
Through(i) ==
    IF Sweeping THEN IF i < s THEN Prompt ELSE IF i = s THEN pos ELSE 0
    ELSE IF i < s THEN pos + 1 ELSE pos

AnyHidden == [gen : Nat, pos : Nat, at : Nat]

IsShard(i, sess) == \E o \in layouts : i \in DOMAIN Shards(o) /\ sess = Shards(o)[i]

PoolOK ==
    /\ lru \in Seq(Indices)
    /\ \A a, b \in 1 .. Len(lru) : lru[a] = lru[b] => a = b
    /\ DOMAIN live = ToSet(lru)
    /\ Len(lru) <= MaxLive
    /\ \A i \in DOMAIN live : IsShard(i, live[i])

\* The session prefill refers to is the last one used, or the one before it.
HeldOK ==
    /\ phase \in {"off", "ready", "decode"} => held = -1
    /\ held # -1 =>
         /\ MaxLive >= 2 => held \in DOMAIN live
         /\ phase = "prefill" /\ ~InUse(s) => InUse(held)

\* Where the sweep is, and how many logits it has computed.
SweepOK ==
    /\ phase \in {"off", "ready", "prefill", "decode", "raised"}
    /\ phase # "off" => desc \in layouts
    /\ phase = "off" => told = <<>>
    /\ phase \in {"off", "ready"} => gen = 0 /\ DOMAIN caches = {}
    /\ phase = "ready" => told = <<>>
    /\ phase \in {"prefill", "decode"} => s \in 0 .. NSH - 1 /\ gen \in Nat \ {0} /\ pos \in Nat
    /\ phase = "prefill" =>
         /\ pos <= Prompt /\ (pos = Prompt => s = 0)
         /\ Len(told) = (gen - 1) * (NGen + 1) + (IF pos = Prompt THEN 1 ELSE 0)
         /\ pos < Prompt => carries \in [1 .. Prompt -> AnyHidden]
    /\ phase = "decode" =>
         /\ s > 0 => carries[1] \in AnyHidden
         /\ pos \in Prompt .. Prompt + NGen /\ (pos = Prompt + NGen => s = 0)
         /\ Len(told) = (gen - 1) * (NGen + 1) + (pos - Prompt) + 1

\* What the shards have computed, if all were cut alike.
DataOK ==
    OneLayout /\ phase \in {"prefill", "decode"} =>
        /\ \A i \in 0 .. NSH - 1 : Cache(i) = Roll(Through(i))
        /\ DOMAIN caches \subseteq 0 .. NSH - 1
        /\ Sweeping => DOMAIN caches \subseteq 0 .. s
        /\ Sweeping =>
             carries = [j \in 1 .. Prompt |-> Hidden(gen, j - 1, Layer(IF j <= pos THEN s + 1 ELSE s))]
        /\ phase = "decode" /\ s > 0 => carries = <<Hidden(gen, pos, Layer(s))>>

ToldOK == told \in Seq(AnyHidden) /\ LogitsExact

\* The metadata that is read when an engine is built is some export's.
MetaOK == meta # NoMeta => meta \in layouts

EngineInv == MetaOK /\ PoolOK /\ HeldOK /\ SweepOK /\ DataOK /\ ToldOK

-----------------------------------------------------------------------------
(* Facts about layers, caches and windows *)

\* The engine's shards are numbered from 0 and NSH is their number.
LEMMA NumberOfShards ==
    ASSUME desc \in Options
    PROVE  /\ NSH = Count(desc) /\ NSH \in 1 .. NLayers
           /\ DOMAIN Shards(desc) = 0 .. NSH - 1
<1>1. Count(desc) \in 1 .. NLayers /\ DOMAIN Shards(desc) = 0 .. Count(desc) - 1
  BY ShardsOf
<1>2. Cardinality(0 .. Count(desc) - 1) = Count(desc)
  BY <1>1, FS_Interval
<1> QED
  BY <1>1, <1>2 DEF NSH

\* Shard i has the layers from Layer(i) up to Layer(i + 1).
LEMMA LayersOf ==
    ASSUME desc \in Options
    PROVE  /\ Layer(0) = 0 /\ Layer(NSH) = NLayers
           /\ \A i \in 0 .. NSH : Layer(i) \in Nat
           /\ \A i \in 0 .. NSH - 1 : Layer(i) = i * desc.lps
<1> DEFINE l == desc.lps
           count == (NLayers + l - 1) \div l
<1>1. l \in Nat \ {0} /\ NLayers \in Nat \ {0}
  BY ShardExportAssumption
<1>2. count \in Int /\ l * count <= NLayers + l - 1 /\ NLayers + l - 1 < l * (count + 1)
  BY <1>1
<1>3. NSH = count /\ NSH \in 1 .. NLayers
  BY NumberOfShards DEF Count
<1> HIDE DEF l, count
<1>4. ASSUME NEW i \in 0 .. NSH PROVE i * l \in Nat
  <2>1. i \in Nat
    BY <1>3
  <2> QED
    BY <2>1, <1>1
<1>5. ASSUME NEW i \in 0 .. NSH - 1 PROVE i * l <= NLayers
  <2>1. i \in Nat /\ i <= count - 1
    BY <1>3
  <2>2. i * l <= (count - 1) * l
    BY <1>1, <1>2, <2>1
  <2>3. (count - 1) * l = l * count - l
    BY <1>1, <1>2
  <2>4. i * l \in Int /\ l * count \in Int
    BY <1>1, <1>2, <2>1
  <2> QED
    BY <1>1, <1>2, <2>2, <2>3, <2>4
<1>6. NSH * l >= NLayers
  <2>1. l * (count + 1) = count * l + l /\ count * l \in Int
    BY <1>1, <1>2
  <2> QED
    BY <1>1, <1>2, <1>3, <2>1
<1>7. Layer(0) = 0
  <2>1. 0 * l = 0 /\ 0 <= NLayers
    BY <1>1
  <2> QED
    BY <2>1 DEF Layer, l
<1>8. Layer(NSH) = NLayers
  BY <1>1, <1>3, <1>4, <1>6 DEF Layer, l
<1>9. \A i \in 0 .. NSH - 1 : Layer(i) = i * desc.lps
  BY <1>5 DEF Layer, l
<1>10. \A i \in 0 .. NSH : Layer(i) \in Nat
  BY <1>1, <1>4 DEF Layer, l
<1> QED
  BY <1>7, <1>8, <1>9, <1>10

\* What the layers of a shard are, when every layout cut them alike.
LEMMA ShardLayers ==
    ASSUME OneLayout, layouts \subseteq Options, desc \in layouts,
           NEW i \in 0 .. NSH - 1, NEW sess, IsShard(i, sess)
    PROVE  sess.lo = Layer(i) /\ sess.hi = Layer(i + 1)
<1>1. PICK o \in layouts : i \in DOMAIN Shards(o) /\ sess = Shards(o)[i]
  BY DEF IsShard
<1>2. o \in Options /\ o.lps = desc.lps
  BY <1>1 DEF OneLayout
<1>3. sess.lo = i * o.lps /\ sess.hi = IF (i + 1) * o.lps <= NLayers THEN (i + 1) * o.lps ELSE NLayers
  BY <1>1, <1>2, States
<1> QED
  BY <1>2, <1>3, LayersOf DEF Layer

\* A shard computes a hidden state whatever it is given.
LEMMA RanType ==
    ASSUME layouts \subseteq Options, NEW i, NEW j, NEW sess, IsShard(j, sess), NEW h \in AnyHidden
    PROVE  Ran(sess, i, h) \in AnyHidden
<1>1. PICK o \in layouts : j \in DOMAIN Shards(o) /\ sess = Shards(o)[j]
  BY DEF IsShard
<1>2. o \in Options /\ o.lps \in Nat
  BY <1>1, ShardExportAssumption
<1>3. j \in Nat
  BY <1>1, <1>2, ShardsOf
<1>4. sess.hi = IF (j + 1) * o.lps <= NLayers THEN (j + 1) * o.lps ELSE NLayers
  BY <1>1, <1>2, States
<1>5. (j + 1) * o.lps \in Nat /\ NLayers \in Nat
  BY <1>2, <1>3, ShardExportAssumption
<1>6. sess.hi \in Nat
  BY <1>4, <1>5
<1>7. Hidden(h.gen, h.pos, sess.hi) \in AnyHidden /\ Junk \in AnyHidden
  BY <1>6 DEF AnyHidden, Hidden, Junk
<1> QED
  BY <1>7 DEF Ran

AnyEntry == [gen : Nat, pos : Nat]

\* A rolled cache is a window of entries.
LEMMA RollType ==
    ASSUME desc \in Options, gen \in Nat, NEW p \in Nat
    PROVE  /\ Roll(p) \in Seq(AnyEntry) /\ Len(Roll(p)) = desc.win
           /\ Entry(gen, p) \in AnyEntry /\ Zero \in AnyEntry
<1>1. desc.win \in Nat \ {0}
  BY ShardExportAssumption
<1>2. Zero \in AnyEntry /\ \A k \in Nat : Entry(gen, k) \in AnyEntry
  BY DEF Zero, Entry, AnyEntry
<1>3. ASSUME NEW j \in 1 .. desc.win
      PROVE  (IF j <= desc.win - p THEN Zero ELSE Entry(gen, p - desc.win + j - 1)) \in AnyEntry
  <2>1. CASE j <= desc.win - p
    BY <1>2, <2>1
  <2>2. CASE ~(j <= desc.win - p)
    <3>1. p - desc.win + j - 1 \in Nat
      BY <1>1, <2>2
    <3> QED
      BY <1>2, <2>2, <3>1
  <2> QED
    BY <2>1, <2>2
<1>4. Roll(p) \in [1 .. desc.win -> AnyEntry]
  BY <1>3 DEF Roll
<1> QED
  BY <1>1, <1>2, <1>4

\* What is visible of a cache is the past of the next position ...
LEMMA VisibleIsPast ==
    ASSUME desc \in Options, gen \in Nat, NEW i, NEW p \in Nat, Cache(i) = Roll(p)
    PROVE  Visible(i, p) = Past(p)
<1> DEFINE win == desc.win
           hidden == IF p < win THEN win - p ELSE 0
<1>1. win \in Nat \ {0}
  BY ShardExportAssumption
<1>2. Len(Cache(i)) = win /\ DOMAIN Cache(i) = 1 .. win
  BY <1>1 DEF Roll
<1>3. win + 1 - Valid(p) = hidden /\ hidden \in 0 .. win
  BY <1>1 DEF Valid
<1>4. Visible(i, p) = SubSeq(Cache(i), hidden + 1, win)
  BY <1>2, <1>3 DEF Visible, Drop
<1>5. SubSeq(Cache(i), hidden + 1, win) = [j \in 1 .. win - hidden |-> Cache(i)[hidden + j]]
  <2>1. Cache(i) \in Seq(AnyEntry)
    BY RollType
  <2>2. hidden + 1 \in 1 .. Len(Cache(i)) + 1 /\ win \in hidden .. Len(Cache(i))
    BY <1>1, <1>2, <1>3
  <2> DEFINE sub == SubSeq(Cache(i), hidden + 1, win)
  <2>3. sub \in Seq(AnyEntry) /\ Len(sub) = win - hidden
        /\ \A j \in 1 .. win - hidden : sub[j] = Cache(i)[hidden + j]
    <3>1. \A j \in hidden + 1 .. win : Cache(i)[j] \in AnyEntry
      BY <1>2, <1>3, <2>1
    <3>2. hidden + 1 \in Int /\ win \in Int
      BY <1>1, <1>3
    <3>3. /\ sub \in Seq(AnyEntry)
          /\ Len(sub) = IF hidden + 1 <= win THEN win - (hidden + 1) + 1 ELSE 0
          /\ \A j \in 1 .. win - (hidden + 1) + 1 : sub[j] = Cache(i)[(hidden + 1) + j - 1]
      BY <3>1, <3>2, SubSeqProperties
    <3> HIDE DEF sub, hidden
    <3>4. Len(sub) = win - hidden /\ win - (hidden + 1) + 1 = win - hidden
      BY <1>1, <1>3, <3>3
    <3>5. ASSUME NEW j \in 1 .. win - hidden PROVE (hidden + 1) + j - 1 = hidden + j
      BY <1>1, <1>3
    <3> QED
      BY <3>3, <3>4, <3>5
  <2> HIDE DEF sub
  <2>4. sub = [j \in 1 .. win - hidden |-> sub[j]]
    BY <2>3
  <2> QED
    BY <2>3, <2>4 DEF sub
<1>6. Past(p) = [j \in 1 .. win - hidden |-> Entry(gen, p - (win - hidden) + j - 1)]
  BY <1>1 DEF Past
<1>7. ASSUME NEW j \in 1 .. win - hidden
      PROVE  Cache(i)[hidden + j] = Entry(gen, p - (win - hidden) + j - 1)
  <2>1. hidden + j \in 1 .. win /\ ~(hidden + j <= win - p)
    BY <1>1, <1>3
  <2>2. p - win + (hidden + j) - 1 = p - (win - hidden) + j - 1
    BY <1>1, <1>3
  <2>3. Roll(p)[hidden + j] = Entry(gen, p - win + (hidden + j) - 1)
    BY <2>1 DEF Roll
  <2> QED
    BY <2>2, <2>3
<1> QED
  BY <1>4, <1>5, <1>6, <1>7

\* ... and rolling it puts that position behind it.
LEMMA RollsOn ==
    ASSUME desc \in Options, gen \in Nat, NEW i, NEW p \in Nat, Cache(i) = Roll(p),
           NEW h, h # Junk, h.gen = gen, h.pos = p
    PROVE  Rolled(i, h) = Roll(p + 1)
<1> DEFINE win == desc.win
           old == Roll(p)
           new == Append(Tail(old), Entry(gen, p))
<1>1. win \in Nat \ {0}
  BY ShardExportAssumption
<1>2. old \in Seq(AnyEntry) /\ Len(old) = win /\ Entry(gen, p) \in AnyEntry
  BY RollType
<1>3. old # <<>>
  BY <1>1, <1>2
<1>4. /\ Tail(old) \in Seq(AnyEntry) /\ Len(Tail(old)) = win - 1
      /\ \A j \in 1 .. win - 1 : Tail(old)[j] = old[j + 1]
  BY <1>2, <1>3, HeadTailProperties
<1>5. /\ new \in Seq(AnyEntry) /\ Len(new) = win
      /\ \A j \in 1 .. win - 1 : new[j] = old[j + 1]
      /\ new[win] = Entry(gen, p)
  BY <1>1, <1>2, <1>4, AppendProperties
<1>6. Roll(p + 1) \in Seq(AnyEntry) /\ Len(Roll(p + 1)) = win
  BY RollType, SMTT(30)
<1>7. ASSUME NEW j \in 1 .. win PROVE new[j] = Roll(p + 1)[j]
  <2>1. CASE j < win
    <3>1. new[j] = old[j + 1] /\ j + 1 \in 1 .. win
      BY <1>1, <1>5, <2>1
    <3>2. (j + 1 <= win - p) = (j <= win - (p + 1)) /\ p - win + (j + 1) - 1 = (p + 1) - win + j - 1
      BY <1>1
    <3> QED
      BY <3>1, <3>2 DEF Roll
  <2>2. CASE j = win
    <3>1. ~(j <= win - (p + 1)) /\ (p + 1) - win + j - 1 = p
      BY <1>1, <2>2
    <3> QED
      BY <1>5, <2>2, <3>1 DEF Roll
  <2>3. j < win \/ j = win
    BY <1>1
  <2> QED
    BY <2>1, <2>2, <2>3
<1>8. new = Roll(p + 1)
  <2> HIDE DEF new
  <2> QED
    BY <1>5, <1>6, <1>7, SeqEqual
<1>9. Rolled(i, h) = new
  BY DEF Rolled
<1> QED
  BY <1>8, <1>9

\* A shard that runs on the hidden state of its layers, with the past in its
\* cache, hands on the hidden state of the next one's.
LEMMA RunsExactly ==
    ASSUME OneLayout, layouts \subseteq Options, desc \in layouts, gen \in Nat \ {0},
           NEW i \in 0 .. NSH - 1, NEW sess, IsShard(i, sess),
           NEW p \in Nat, Cache(i) = Roll(p)
    PROVE  /\ Ran(sess, i, Hidden(gen, p, Layer(i))) = Hidden(gen, p, Layer(i + 1))
           /\ Rolled(i, Hidden(gen, p, Layer(i))) = Roll(p + 1)
<1> DEFINE h == Hidden(gen, p, Layer(i))
<1>1. h # Junk /\ h.gen = gen /\ h.pos = p /\ h.at = Layer(i)
  BY DEF Hidden, Junk
<1>2. desc \in Options
  OBVIOUS
<1>3. sess.lo = Layer(i) /\ sess.hi = Layer(i + 1)
  BY ShardLayers
<1>4. Visible(i, p) = Past(p)
  BY <1>2, VisibleIsPast
<1>5. Rolled(i, h) = Roll(p + 1)
  BY <1>1, <1>2, RollsOn
<1> QED
  BY <1>1, <1>3, <1>4, <1>5 DEF Ran

-----------------------------------------------------------------------------
(* The pool *)

\* Taking the one occurrence of e out of a sequence closes the gap.
LEMMA RemoveFirstIs ==
    ASSUME NEW S, NEW q \in Seq(S), NEW k \in 1 .. Len(q), NEW e, q[k] = e,
           \A a, b \in 1 .. Len(q) : q[a] = q[b] => a = b
    PROVE  /\ RemoveFirst(q, e) \in Seq(S)
           /\ Len(RemoveFirst(q, e)) = Len(q) - 1
           /\ \A j \in 1 .. Len(q) - 1 : RemoveFirst(q, e)[j] = IF j < k THEN q[j] ELSE q[j + 1]
<1> DEFINE I == {j \in 1 .. Len(q) : q[j] = e}
           left == SubSeq(q, 1, k - 1)
           right == SubSeq(q, k + 1, Len(q))
<1>1. I = {k}
  OBVIOUS
<1>2. Min(I) = k
  BY <1>1 DEF Min
<1>3. SelectInSeq(q, LAMBDA v : v = e) = k
  BY <1>1, <1>2 DEF SelectInSeq
<1>4. RemoveFirst(q, e) = left \o right
  BY <1>3 DEF RemoveFirst, RemoveAt
<1>5. k \in Int /\ k >= 1 /\ k <= Len(q) /\ Len(q) \in Nat
  OBVIOUS
<1>6. /\ left \in Seq(S) /\ Len(left) = k - 1
      /\ \A j \in 1 .. k - 1 : left[j] = q[j]
  <2>1. \A j \in 1 .. k - 1 : q[j] \in S
    BY <1>5
  <2>2. /\ left \in Seq(S) /\ Len(left) = IF 1 <= k - 1 THEN (k - 1) - 1 + 1 ELSE 0
        /\ \A j \in 1 .. (k - 1) - 1 + 1 : left[j] = q[1 + j - 1]
    BY <1>5, <2>1, SubSeqProperties
  <2> HIDE DEF left
  <2> QED
    BY <1>5, <2>2
<1>7. /\ right \in Seq(S) /\ Len(right) = Len(q) - k
      /\ \A j \in 1 .. Len(q) - k : right[j] = q[k + j]
  <2>1. \A j \in k + 1 .. Len(q) : q[j] \in S
    BY <1>5
  <2>2. /\ right \in Seq(S) /\ Len(right) = IF k + 1 <= Len(q) THEN Len(q) - (k + 1) + 1 ELSE 0
        /\ \A j \in 1 .. Len(q) - (k + 1) + 1 : right[j] = q[(k + 1) + j - 1]
    BY <1>5, <2>1, SubSeqProperties
  <2> HIDE DEF right
  <2>3. \A j \in 1 .. Len(q) - k : j \in 1 .. Len(q) - (k + 1) + 1 /\ (k + 1) + j - 1 = k + j
    BY <1>5
  <2>4. Len(right) = Len(q) - k
    BY <1>5, <2>2
  <2> QED
    BY <2>2, <2>3, <2>4
<1> HIDE DEF left, right
<1>8. /\ left \o right \in Seq(S) /\ Len(left \o right) = Len(q) - 1
      /\ \A j \in 1 .. Len(q) - 1 :
           (left \o right)[j] = IF j <= k - 1 THEN left[j] ELSE right[j - (k - 1)]
  <2>1. /\ left \o right \in Seq(S) /\ Len(left \o right) = Len(left) + Len(right)
        /\ \A j \in 1 .. Len(left) + Len(right) :
             (left \o right)[j] = IF j <= Len(left) THEN left[j] ELSE right[j - Len(left)]
    <3>1. left \in Seq(S) /\ right \in Seq(S)
      BY <1>6, <1>7
    <3> QED
      BY <3>1, ConcatProperties
  <2>2. Len(left) + Len(right) = Len(q) - 1
    BY <1>5, <1>6, <1>7
  <2> QED
    BY <1>6, <2>1, <2>2
<1>9. ASSUME NEW j \in 1 .. Len(q) - 1
      PROVE  (left \o right)[j] = IF j < k THEN q[j] ELSE q[j + 1]
  <2>1. CASE j < k
    BY <1>5, <1>6, <1>8, <2>1
  <2>2. CASE ~(j < k)
    <3>1. j - (k - 1) \in 1 .. Len(q) - k /\ k + (j - (k - 1)) = j + 1 /\ ~(j <= k - 1)
      BY <1>5, <2>2
    <3> QED
      BY <1>7, <1>8, <2>2, <3>1
  <2> QED
    BY <2>1, <2>2
<1> QED
  BY <1>4, <1>8, <1>9

\* A file the engine can load is a shard of some layout: a context that loads
\* is its shard (compile_contexts.py:27-43).
LEMMA LoadedIsShard ==
    ASSUME DirInv, NEW i \in Indices, Path(i).state = "whole"
    PROVE  IsShard(i, Path(i))
<1>1. file[i].state = "whole" => IsShard(i, file[i])
  BY States DEF DirInv, FilesOK, IsShard
<1>2. ctx[i].state = "whole" => ctx[i] = file[i]
  BY DEF DirInv, ContextsOK, ContextIsItsShard
<1> QED
  BY <1>1, <1>2 DEF Path

\* What _session leaves: the pool within its limit, the session just used at
\* its end, and with room for two the one used before it still open.
LEMMA SessionPool ==
    ASSUME DirInv, PoolOK, NEW i \in Indices, Loads(i),
           NEW u, u = Used(i)
    PROVE  /\ u.lru \in Seq(Indices)
           /\ \A a, b \in 1 .. Len(u.lru) : u.lru[a] = u.lru[b] => a = b
           /\ DOMAIN u.live = ToSet(u.lru)
           /\ Len(u.lru) <= MaxLive
           /\ \A j \in DOMAIN u.live : IsShard(j, u.live[j])
           /\ i \in DOMAIN u.live
           /\ u.lru # <<>> /\ u.lru[Len(u.lru)] = i
           /\ \A j \in Indices : InUse(j) /\ MaxLive >= 2 => j \in DOMAIN u.live
<1>1. /\ lru \in Seq(Indices) /\ Len(lru) \in Nat /\ Len(lru) <= MaxLive
      /\ \A a, b \in 1 .. Len(lru) : lru[a] = lru[b] => a = b
      /\ \A a \in 1 .. Len(lru) : lru[a] \in Indices
      /\ DOMAIN live = {lru[a] : a \in 1 .. Len(lru)}
      /\ \A j \in DOMAIN live : IsShard(j, live[j])
      /\ MaxLive \in Nat \ {0}
  BY ShardEngineAssumption DEF PoolOK, ToSet
<1>2. CASE i \in DOMAIN live
  <2> DEFINE rest == RemoveFirst(lru, i)
  <2>1. PICK k \in 1 .. Len(lru) : lru[k] = i
    BY <1>1, <1>2
  <2>2. /\ rest \in Seq(Indices) /\ Len(rest) = Len(lru) - 1
        /\ \A j \in 1 .. Len(lru) - 1 : rest[j] = IF j < k THEN lru[j] ELSE lru[j + 1]
    <3>1. lru \in Seq(Indices)
      BY <1>1
    <3>2. \A a, b \in 1 .. Len(lru) : lru[a] = lru[b] => a = b
      BY <1>1
    <3>3. k \in 1 .. Len(lru) /\ lru[k] = i
      BY <2>1
    <3>4. RemoveFirst(lru, i) \in Seq(Indices) /\ Len(RemoveFirst(lru, i)) = Len(lru) - 1
      BY <3>1, <3>2, <3>3, RemoveFirstIs, Zenon
    <3>5. ASSUME NEW j \in 1 .. Len(lru) - 1
          PROVE  RemoveFirst(lru, i)[j] = IF j < k THEN lru[j] ELSE lru[j + 1]
      BY <3>1, <3>2, <3>3, RemoveFirstIs
    <3> QED
      BY <3>4, <3>5
  <2>3. u = [lru |-> Append(rest, i), live |-> live]
    BY <1>2 DEF Used
  <2> HIDE DEF rest
  <2>4. /\ u.lru \in Seq(Indices) /\ Len(u.lru) = Len(lru)
        /\ u.lru[Len(lru)] = i
        /\ \A j \in 1 .. Len(lru) - 1 : u.lru[j] = IF j < k THEN lru[j] ELSE lru[j + 1]
    <3>1. /\ Append(rest, i) \in Seq(Indices) /\ Len(Append(rest, i)) = Len(rest) + 1
          /\ \A j \in 1 .. Len(rest) : Append(rest, i)[j] = rest[j]
          /\ Append(rest, i)[Len(rest) + 1] = i
      BY <2>2, AppendProperties
    <3>2. Len(rest) + 1 = Len(lru)
      BY <1>1, <2>2
    <3> QED
      BY <2>2, <2>3, <3>1, <3>2
  <2>5. ASSUME NEW a \in 1 .. Len(lru), NEW b \in 1 .. Len(lru), u.lru[a] = u.lru[b]
        PROVE  a = b
    BY <1>1, <2>1, <2>4, <2>5, SMTT(30)
  <2>6. ToSet(u.lru) = DOMAIN live
    <3>1. DOMAIN u.lru = 1 .. Len(lru)
      BY <2>4
    <3>2. ASSUME NEW a \in 1 .. Len(lru) PROVE u.lru[a] \in DOMAIN live
      BY <1>1, <1>2, <2>1, <2>4
    <3>3. ASSUME NEW a \in 1 .. Len(lru) PROVE \E b \in 1 .. Len(lru) : u.lru[b] = lru[a]
      <4>1. CASE a < k
        <5>1. a \in 1 .. Len(lru) - 1
          BY <1>1, <4>1
        <5> QED
          BY <2>4, <4>1, <5>1
      <4>2. CASE a = k
        BY <1>1, <2>1, <2>4, <4>2
      <4>3. CASE a > k
        <5>1. a - 1 \in 1 .. Len(lru) - 1 /\ ~(a - 1 < k) /\ (a - 1) + 1 = a
          BY <1>1, <4>3
        <5>2. u.lru[a - 1] = lru[(a - 1) + 1] /\ a - 1 \in 1 .. Len(lru)
          BY <1>1, <2>4, <5>1
        <5> QED
          BY <5>1, <5>2
      <4> QED
        BY <4>1, <4>2, <4>3
    <3>4. ToSet(u.lru) = {u.lru[a] : a \in 1 .. Len(lru)}
      BY <3>1 DEF ToSet
    <3>5. ToSet(u.lru) \subseteq DOMAIN live
      BY <3>2, <3>4
    <3>6. DOMAIN live \subseteq ToSet(u.lru)
      <4>1. DOMAIN live = {lru[a] : a \in 1 .. Len(lru)}
        BY <1>1
      <4> QED
        BY <3>3, <3>4, <4>1
    <3> QED
      BY <3>5, <3>6
  <2>7. \A j \in Indices : InUse(j) => j \in DOMAIN live
    BY <1>1 DEF InUse
  <2>8. u.live = live
    BY <2>3
  <2>9. u.lru # <<>> /\ u.lru[Len(u.lru)] = i
    BY <1>1, <2>1, <2>4
  <2>10. \A a, b \in 1 .. Len(u.lru) : u.lru[a] = u.lru[b] => a = b
    BY <2>4, <2>5
  <2>11. Len(u.lru) <= MaxLive
    BY <1>1, <2>4
  <2> QED
    BY <1>1, <1>2, <2>4, <2>6, <2>7, <2>8, <2>9, <2>10, <2>11, Zenon
<1>3. CASE i \notin DOMAIN live
  <2> DEFINE x == Excess(lru)
             kept == Drop(lru, x)
  <2>1. x \in 0 .. Len(lru) /\ Len(lru) - x < MaxLive /\ (MaxLive >= 2 /\ Len(lru) > 0 => x < Len(lru))
    BY <1>1 DEF Excess
  <2> HIDE DEF x
  <2>2. /\ kept \in Seq(Indices) /\ Len(kept) = Len(lru) - x
        /\ \A j \in 1 .. Len(lru) - x : kept[j] = lru[x + j]
    <3>1. \A j \in x + 1 .. Len(lru) : lru[j] \in Indices
      BY <1>1, <2>1
    <3>2. /\ kept \in Seq(Indices)
          /\ Len(kept) = IF x + 1 <= Len(lru) THEN Len(lru) - (x + 1) + 1 ELSE 0
          /\ \A j \in 1 .. Len(lru) - (x + 1) + 1 : kept[j] = lru[(x + 1) + j - 1]
      BY <1>1, <2>1, <3>1, SubSeqProperties DEF Drop
    <3> HIDE DEF kept
    <3>3. \A j \in 1 .. Len(lru) - x : j \in 1 .. Len(lru) - (x + 1) + 1 /\ (x + 1) + j - 1 = x + j
      BY <1>1, <2>1
    <3>4. Len(kept) = Len(lru) - x
      BY <1>1, <2>1, <3>2
    <3> QED
      BY <3>2, <3>3, <3>4
  <2>3. u = [lru |-> Append(kept, i),
             live |-> [j \in ToSet(kept) \cup {i} |-> IF j = i THEN Path(i) ELSE live[j]]]
    BY <1>3 DEF Used, x
  <2> HIDE DEF kept
  <2> DEFINE n == Len(lru) - x
  <2>4. n \in Nat /\ n < MaxLive /\ n + 1 <= MaxLive
    BY <1>1, <2>1
  <2>5. /\ u.lru \in Seq(Indices) /\ Len(u.lru) = n + 1
        /\ u.lru[n + 1] = i
        /\ \A j \in 1 .. n : u.lru[j] = lru[x + j] /\ x + j \in 1 .. Len(lru)
    <3>1. /\ Append(kept, i) \in Seq(Indices) /\ Len(Append(kept, i)) = Len(kept) + 1
          /\ \A j \in 1 .. Len(kept) : Append(kept, i)[j] = kept[j]
          /\ Append(kept, i)[Len(kept) + 1] = i
      BY <2>2, AppendProperties
    <3>2. \A j \in 1 .. n : x + j \in 1 .. Len(lru)
      BY <1>1, <2>1
    <3> QED
      BY <2>2, <2>3, <3>1, <3>2
  <2>6. ToSet(kept) = {lru[x + j] : j \in 1 .. n} /\ DOMAIN kept = 1 .. n
    BY <2>2, <2>4 DEF ToSet
  <2>7. DOMAIN u.live = ToSet(u.lru)
    <3>1. DOMAIN u.lru = 1 .. n + 1
      BY <2>4, <2>5
    <3>2. ToSet(u.lru) = {u.lru[j] : j \in 1 .. n + 1}
      BY <3>1 DEF ToSet
    <3>3. 1 .. n + 1 = (1 .. n) \cup {n + 1}
      BY <2>4
    <3>4. DOMAIN u.live = {lru[x + j] : j \in 1 .. n} \cup {i}
      BY <2>3, <2>6
    <3> HIDE DEF n
    <3> QED
      BY <2>5, <3>2, <3>3, <3>4
  <2>8. ASSUME NEW a \in 1 .. n + 1, NEW b \in 1 .. n + 1, u.lru[a] = u.lru[b]
        PROVE  a = b
    <3>1. \A j \in 1 .. n : u.lru[j] # i
      BY <1>1, <1>3, <2>5
    <3>2. CASE a \in 1 .. n /\ b \in 1 .. n
      <4>1. x + a = x + b
        BY <1>1, <2>5, <2>8, <3>2
      <4> QED
        BY <2>1, <3>2, <4>1
    <3>3. a \in 1 .. n \/ a = n + 1
      BY <2>4
    <3>4. b \in 1 .. n \/ b = n + 1
      BY <2>4
    <3> QED
      BY <2>5, <2>8, <3>1, <3>2, <3>3, <3>4
  <2>9. ASSUME NEW j \in DOMAIN u.live PROVE IsShard(j, u.live[j])
    <3>1. CASE j = i
      <4>1. Path(i).state = "whole"
        BY <1>3 DEF Loads
      <4> QED
        BY <2>3, <3>1, <4>1, LoadedIsShard
    <3>2. CASE j # i
      <4>1. j \in ToSet(kept) /\ u.live[j] = live[j]
        BY <2>3, <3>2
      <4>2. j \in DOMAIN live
        BY <1>1, <2>5, <2>6, <4>1
      <4> QED
        BY <1>1, <4>1, <4>2
    <3> QED
      BY <3>1, <3>2
  <2>10. ASSUME NEW j \in Indices, InUse(j), MaxLive >= 2 PROVE j \in DOMAIN u.live
    <3>1. Len(lru) > 0 /\ lru[Len(lru)] = j
      BY <1>1, <2>10 DEF InUse
    <3>2. n \in 1 .. n /\ x + n = Len(lru)
      BY <1>1, <2>1, <2>10, <3>1
    <3>3. j \in ToSet(kept)
      BY <2>6, <3>1, <3>2
    <3> QED
      BY <2>3, <3>3
  <2>11. i \in DOMAIN u.live
    BY <2>3
  <2>12. u.lru # <<>> /\ u.lru[Len(u.lru)] = i
    BY <2>4, <2>5
  <2>13. \A a, b \in 1 .. Len(u.lru) : u.lru[a] = u.lru[b] => a = b
    BY <2>5, <2>8
  <2>14. Len(u.lru) <= MaxLive
    BY <2>4, <2>5
  <2> QED
    BY <2>5, <2>7, <2>9, <2>10, <2>11, <2>12, <2>13, <2>14, Zenon
<1> QED
  BY <1>2, <1>3

-----------------------------------------------------------------------------
(* What one step computes *)

\* i = g * size + k lies in the g-th block of size, at its place k.
LEMMA BlockAndPlace ==
    ASSUME NEW size \in Nat \ {0}, NEW g \in Nat, NEW k \in 0 .. size - 1
    PROVE  (g * size + k) \div size = g /\ (g * size + k) % size = k
<1> DEFINE i == g * size + k
           d == i \div size
           r == i % size
<1>1. i \in Nat /\ d \in Int /\ r \in 0 .. size - 1 /\ i = d * size + r
  OBVIOUS
<1>2. i = g * size + k
  OBVIOUS
<1> HIDE DEF i, d, r
<1>3. (d - g) * size = k - r
  BY <1>1, <1>2
<1>4. k - r < size /\ k - r > -size
  BY <1>1
<1>5. ~(d - g >= 1)
  <2> SUFFICES ASSUME d - g >= 1 PROVE FALSE
    OBVIOUS
  <2>1. (d - g) * size >= size
    BY <1>1
  <2> QED
    BY <1>1, <1>3, <1>4, <2>1
<1>6. ~(d - g <= -1)
  <2> SUFFICES ASSUME d - g <= -1 PROVE FALSE
    OBVIOUS
  <2>1. (g - d) * size >= size
    BY <1>1
  <2>2. (g - d) * size = -((d - g) * size)
    BY <1>1
  <2> QED
    BY <1>1, <1>3, <1>4, <2>1, <2>2
<1>7. d = g
  BY <1>1, <1>5, <1>6
<1>8. r = k
  BY <1>1, <1>2, <1>7
<1> QED
  BY <1>7, <1>8 DEF i, d, r

\* The logits of the next token in turn are told.
LEMMA TellsNext ==
    ASSUME ToldOK, UNCHANGED layouts, gen \in Nat \ {0}, NEW k \in 0 .. NGen,
           Len(told) = (gen - 1) * (NGen + 1) + k,
           NEW h \in AnyHidden, OneLayout => h = Hidden(gen, Prompt - 1 + k, NLayers),
           LogitsOf(h)
    PROVE  ToldOK' /\ Len(told') = Len(told) + 1
<1> DEFINE size == NGen + 1
           last == Len(told) + 1
<1>1. size \in Nat \ {0} /\ k \in 0 .. size - 1 /\ gen - 1 \in Nat
  BY ShardEngineAssumption
<1>2. told \in Seq(AnyHidden) /\ told' = Append(told, h)
  BY DEF ToldOK, LogitsOf
<1>3. /\ told' \in Seq(AnyHidden) /\ Len(told') = last
      /\ \A i \in 1 .. Len(told) : told'[i] = told[i]
      /\ told'[last] = h
  BY <1>2, AppendProperties
<1>4. OneLayout' = OneLayout
  BY DEF OneLayout
<1>5. ((last - 1) \div size) + 1 = gen /\ (last - 1) % size = k
  <2>1. last - 1 = (gen - 1) * size + k
    BY <1>1, <1>2
  <2>2. ((gen - 1) * size + k) \div size = gen - 1 /\ ((gen - 1) * size + k) % size = k
    BY <1>1, BlockAndPlace
  <2> HIDE DEF size, last
  <2> QED
    BY <2>1, <2>2
<1> HIDE DEF size, last
<1>6. ASSUME OneLayout, NEW i \in DOMAIN told'
      PROVE  told'[i] = Hidden(((i - 1) \div size) + 1, Prompt - 1 + ((i - 1) % size), NLayers)
  <2>1. CASE i = last
    BY <1>3, <1>5, <1>6, <2>1
  <2>2. CASE i # last
    <3>1. i \in 1 .. Len(told) /\ i \in DOMAIN told
      BY <1>2, <1>3, <2>2 DEF last
    <3> QED
      BY <1>3, <1>6, <3>1 DEF ToldOK, LogitsExact, size
  <2> QED
    BY <2>1, <2>2
<1> QED
  BY <1>3, <1>4, <1>6 DEF ToldOK, LogitsExact, size, last

\* The cache of one shard is another, the rest as they were.
LEMMA CacheOfOne ==
    ASSUME NEW i, NEW v, UNCHANGED desc,
           caches' = [j \in DOMAIN caches \cup {i} |-> IF j = i THEN v ELSE caches[j]]
    PROVE  /\ Cache(i)' = v
           /\ \A j : j # i => Cache(j)' = Cache(j)
           /\ DOMAIN caches' = DOMAIN caches \cup {i}
<1>1. caches'[i] = v /\ DOMAIN caches' = DOMAIN caches \cup {i}
  OBVIOUS
<1>2. ASSUME NEW j, j # i PROVE Cache(j)' = Cache(j)
  <2>1. j \in DOMAIN caches' <=> j \in DOMAIN caches
    BY <1>1, <1>2
  <2>2. j \in DOMAIN caches => caches'[j] = caches[j]
    BY <1>2
  <2> QED
    BY <2>1, <2>2 DEF Cache
<1>3. Cache(i)' = v
  BY <1>1 DEF Cache
<1> QED
  BY <1>1, <1>2, <1>3

\* What a shard that runs leaves, for both sweeps.
LEMMA ShardRuns ==
    ASSUME DirInv, PoolOK, desc \in layouts, UNCHANGED <<desc, layouts>>,
           NEW i \in 0 .. NSH - 1, NEW h, RunShard(i, h), phase' # "raised"
    PROVE  /\ phase' = phase
           /\ PoolOK'
           /\ lru' # <<>> /\ lru'[Len(lru')] = i /\ i \in DOMAIN live'
           /\ IsShard(i, live'[i])
           /\ Cache(i)' = Rolled(i, h)
           /\ \A j : j # i => Cache(j)' = Cache(j)
           /\ DOMAIN caches' = DOMAIN caches \cup {i}
<1>1. /\ Loads(i) /\ live' = Used(i).live /\ lru' = Used(i).lru /\ phase' = phase
      /\ caches' = [j \in DOMAIN caches \cup {i} |-> IF j = i THEN Rolled(i, h) ELSE caches[j]]
  BY DEF RunShard
<1>2. desc \in Options
  BY DEF DirInv
<1>3. i \in Indices
  BY <1>2, NumberOfShards, ShardExportAssumption DEF Indices
<1>4. /\ lru' \in Seq(Indices)
      /\ \A a, b \in 1 .. Len(lru') : lru'[a] = lru'[b] => a = b
      /\ DOMAIN live' = ToSet(lru')
      /\ Len(lru') <= MaxLive
      /\ \A j \in DOMAIN live' : IsShard(j, live'[j])
      /\ i \in DOMAIN live'
      /\ lru' # <<>> /\ lru'[Len(lru')] = i
  BY <1>1, <1>3, SessionPool
<1>5. \A j \in DOMAIN live' : IsShard(j, live[j])'
  BY <1>4 DEF IsShard
<1>6. PoolOK'
  BY <1>4, <1>5 DEF PoolOK
<1>7. /\ Cache(i)' = Rolled(i, h)
      /\ \A j : j # i => Cache(j)' = Cache(j)
      /\ DOMAIN caches' = DOMAIN caches \cup {i}
  <2> DEFINE v == Rolled(i, h)
  <2>1. caches' = [j \in DOMAIN caches \cup {i} |-> IF j = i THEN v ELSE caches[j]]
    BY <1>1
  <2> HIDE DEF v
  <2>2. v = Rolled(i, h)
    BY DEF v
  <2>3. /\ Cache(i)' = v
        /\ \A j : j # i => Cache(j)' = Cache(j)
        /\ DOMAIN caches' = DOMAIN caches \cup {i}
    <3>1. desc' = desc
      OBVIOUS
    <3> QED
      BY <2>1, <3>1, CacheOfOne
  <2> QED
    BY <2>2, <2>3
<1>8. IsShard(i, live'[i])
  BY <1>4
<1> QED
  BY <1>1, <1>4, <1>6, <1>7, <1>8, Zenon

-----------------------------------------------------------------------------
(* The steps *)

\* What only depends on the engine's description stays.
LEMMA Same ==
    ASSUME UNCHANGED <<desc, layouts>>
    PROVE  /\ NSH' = NSH /\ OneLayout' = OneLayout
           /\ \A k : Layer(k)' = Layer(k)
           /\ gen' = gen => \A n : Roll(n)' = Roll(n)
<1>1. desc' = desc /\ layouts' = layouts
  OBVIOUS
<1>2. NSH' = NSH /\ OneLayout' = OneLayout
  BY <1>1 DEF NSH, OneLayout
<1>3. \A k : Layer(k)' = Layer(k)
  BY <1>1 DEF Layer
<1>4. gen' = gen => \A n : Roll(n)' = Roll(n)
  BY <1>1 DEF Roll
<1> QED
  BY <1>2, <1>3, <1>4

\* The pool and the logits do not change by themselves.
LEMMA PoolKept ==
    ASSUME PoolOK, UNCHANGED <<live, lru, layouts>>
    PROVE  PoolOK' /\ \A i : InUse(i)' = InUse(i)
BY DEF PoolOK, IsShard, InUse

LEMMA ToldKept ==
    ASSUME ToldOK, UNCHANGED <<told, layouts>>
    PROVE  ToldOK'
BY DEF ToldOK, LogitsExact, OneLayout

\* The scripts may go on while the engine runs: another layout ends what the
\* properties promise and a new one of the same cut changes nothing.
LEMMA DirectoryMoves ==
    ASSUME EngineInv, UNCHANGED engVars, MetaOK', layouts \subseteq layouts'
    PROVE  EngineInv'
<1>1. UNCHANGED <<phase, desc, cpuTail, live, lru, held, caches, carries, s, pos, gen, told>>
  BY DEF engVars
<1>2. OneLayout' => OneLayout
  BY DEF OneLayout
<1>3. /\ NSH' = NSH /\ \A k : Layer(k)' = Layer(k)
      /\ \A n : Roll(n)' = Roll(n)
      /\ \A i : Cache(i)' = Cache(i) /\ Through(i)' = Through(i)
      /\ Sweeping' = Sweeping
  BY <1>1 DEF NSH, Layer, Roll, Cache, Through, Sweeping
<1>4. PoolOK'
  <2>1. \A i, sess : IsShard(i, sess) => IsShard(i, sess)'
    BY DEF IsShard
  <2>2. \A i \in DOMAIN live' : IsShard(i, live[i])'
    BY <1>1, <2>1 DEF EngineInv, PoolOK
  <2> QED
    BY <1>1, <2>2 DEF EngineInv, PoolOK, IsShard
<1>5. HeldOK'
  BY <1>1 DEF EngineInv, HeldOK, InUse
<1>6. SweepOK'
  BY <1>1, <1>3 DEF EngineInv, SweepOK
<1>7. DataOK'
  BY <1>1, <1>2, <1>3 DEF EngineInv, DataOK
<1>8. ToldOK'
  BY <1>1, <1>2 DEF EngineInv, ToldOK, LogitsExact
<1> QED
  BY <1>4, <1>5, <1>6, <1>7, <1>8 DEF EngineInv

\* The engine reads the metadata of some export.
LEMMA BuildStep ==
    ASSUME DirInv, EngineInv, Build, UNCHANGED <<meta, layouts>>
    PROVE  EngineInv'
<1>1. /\ phase = "off" /\ meta # NoMeta /\ phase' = "ready" /\ desc' = meta
      /\ UNCHANGED <<live, lru, held, caches, carries, s, pos, gen, told>>
  BY DEF Build
<1>2. PoolOK' /\ ToldOK' /\ MetaOK'
  BY <1>1, PoolKept, ToldKept DEF EngineInv, MetaOK
<1>3. HeldOK'
  BY <1>1 DEF EngineInv, HeldOK, InUse
<1>4. SweepOK'
  BY <1>1 DEF EngineInv, SweepOK, MetaOK
<1>5. DataOK'
  BY <1>1 DEF DataOK
<1> QED
  BY <1>2, <1>3, <1>4, <1>5 DEF EngineInv

\* A reset leaves no cached position and starts with the embeddings.
LEMMA StartPromptStep ==
    ASSUME DirInv, EngineInv, StartPrompt, UNCHANGED <<meta, layouts>>
    PROVE  EngineInv'
<1>1. /\ phase = "ready" \/ (phase = "decode" /\ s = 0 /\ pos = Prompt + NGen)
      /\ phase' = "prefill" /\ gen' = gen + 1 /\ caches' = << >>
      /\ carries' = [i \in 1 .. Prompt |-> Hidden(gen + 1, i - 1, 0)]
      /\ s' = 0 /\ pos' = 0
      /\ UNCHANGED <<desc, cpuTail, live, lru, held, told>>
  BY DEF StartPrompt, Reset
<1>2. desc \in layouts /\ desc \in Options /\ desc.win \in Nat \ {0}
  BY <1>1, ShardExportAssumption DEF EngineInv, SweepOK, DirInv
<1>3. PoolOK' /\ ToldOK' /\ MetaOK'
  BY <1>1, PoolKept, ToldKept DEF EngineInv, MetaOK
<1>4. HeldOK'
  BY <1>1 DEF EngineInv, HeldOK
<1>5. gen \in Nat /\ Len(told) = gen * (NGen + 1)
  <2>1. CASE phase = "ready"
    <3>1. gen = 0 /\ told = <<>> /\ 0 * (NGen + 1) = 0
      BY <2>1, ShardEngineAssumption DEF EngineInv, SweepOK
    <3> QED
      BY <3>1
  <2>2. CASE phase = "decode"
    <3>1. gen \in Nat \ {0} /\ Len(told) = (gen - 1) * (NGen + 1) + (pos - Prompt) + 1
          /\ pos = Prompt + NGen
      BY <1>1, <2>2 DEF EngineInv, SweepOK
    <3>2. (gen - 1) * (NGen + 1) + NGen + 1 = gen * (NGen + 1)
      BY <3>1, ShardEngineAssumption
    <3>3. pos - Prompt = NGen
      BY <3>1, ShardEngineAssumption
    <3> QED
      BY <3>1, <3>2, <3>3
  <2> QED
    BY <1>1, <2>1, <2>2
<1>6. carries' \in [1 .. Prompt -> AnyHidden]
  BY <1>1, <1>5 DEF Hidden, AnyHidden
<1>7. NSH' = NSH /\ NSH \in 1 .. NLayers
  BY <1>1, <1>2, Same, NumberOfShards
<1>8. SweepOK'
  <2>1. gen' - 1 = gen /\ gen' \in Nat \ {0} /\ 0 <= Prompt /\ 0 # Prompt
    BY <1>1, <1>5, ShardEngineAssumption
  <2>2. Len(told') = (gen' - 1) * (NGen + 1) + 0
    BY <1>1, <1>5, <2>1, ShardEngineAssumption
  <2>3. s' \in 0 .. NSH' - 1
    BY <1>1, <1>7
  <2> QED
    BY <1>1, <1>2, <1>6, <2>1, <2>2, <2>3 DEF SweepOK
<1>9. Sweeping' /\ \A i \in 0 .. NSH' - 1 : Through(i)' = 0
  BY <1>1, <1>7, ShardEngineAssumption DEF Sweeping, Through
<1>10. \A i \in 0 .. NSH' - 1 : Cache(i)' = Roll(0)'
  <2>1. \A j \in 1 .. desc.win : j <= desc.win - 0
    BY <1>2
  <2> QED
    BY <1>1, <2>1 DEF Cache, Roll
<1>11. \A j \in 1 .. Prompt : Layer(IF j <= pos THEN s + 1 ELSE s)' = 0
  <2>1. \A j \in 1 .. Prompt : (IF j <= pos' THEN s' + 1 ELSE s') = 0
    BY <1>1
  <2>2. desc.lps \in Nat /\ NLayers \in Nat /\ desc' = desc
    BY <1>1, <1>2, ShardExportAssumption
  <2>3. 0 * desc'.lps = 0 /\ 0 <= NLayers
    BY <2>2
  <2> QED
    BY <2>1, <2>3 DEF Layer
<1>12. DataOK'
  <2>1. DOMAIN caches' = {}
    BY <1>1
  <2>2. \A i \in 0 .. NSH' - 1 : Cache(i)' = Roll(Through(i))'
    BY <1>9, <1>10
  <2>3. (carries = [j \in 1 .. Prompt |-> Hidden(gen, j - 1, Layer(IF j <= pos THEN s + 1 ELSE s))])'
    BY <1>1, <1>11
  <2>4. phase' # "decode"
    BY <1>1
  <2> QED
    BY <2>1, <2>2, <2>3, <2>4 DEF DataOK
<1> QED
  BY <1>3, <1>4, <1>8, <1>12 DEF EngineInv

\* A step that raises leaves the pool and nothing more to say of the data.
LEMMA Raises ==
    ASSUME EngineInv, phase' = "raised", UNCHANGED <<desc, live, lru, told, meta, layouts>>,
           phase # "off", held' = held \/ held' \in DOMAIN live
    PROVE  EngineInv'
<1>1. PoolOK' /\ ToldOK' /\ MetaOK'
  BY PoolKept, ToldKept DEF EngineInv, MetaOK
<1>2. HeldOK'
  BY DEF EngineInv, HeldOK
<1>3. SweepOK'
  BY DEF EngineInv, SweepOK
<1>4. DataOK'
  BY DEF DataOK
<1> QED
  BY <1>1, <1>2, <1>3, <1>4 DEF EngineInv

\* prefill opens the session of the next shard.
LEMMA PrefillOpenStep ==
    ASSUME DirInv, EngineInv, PrefillOpen, UNCHANGED <<meta, layouts>>
    PROVE  EngineInv'
<1>1. /\ phase = "prefill" /\ pos = 0 /\ held # s /\ ~InUse(s)
      /\ IF Loads(s) THEN live' = Used(s).live /\ lru' = Used(s).lru /\ phase' = phase
         ELSE phase' = "raised" /\ UNCHANGED <<live, lru>>
      /\ UNCHANGED <<desc, cpuTail, held, caches, carries, s, pos, gen, told>>
  BY DEF PrefillOpen
<1>2. CASE ~Loads(s)
  BY <1>1, <1>2, Raises
<1>3. CASE Loads(s)
  <2>1. PoolOK /\ HeldOK /\ s \in 0 .. NSH - 1 /\ desc \in Options
    BY <1>1 DEF EngineInv, SweepOK, DirInv
  <2>2. s \in Indices
    BY <2>1, NumberOfShards, ShardExportAssumption DEF Indices
  <2>3. /\ lru' \in Seq(Indices)
        /\ \A a, b \in 1 .. Len(lru') : lru'[a] = lru'[b] => a = b
        /\ DOMAIN live' = ToSet(lru')
        /\ Len(lru') <= MaxLive
        /\ \A j \in DOMAIN live' : IsShard(j, live'[j])
        /\ lru' # <<>> /\ lru'[Len(lru')] = s
        /\ \A j \in Indices : InUse(j) /\ MaxLive >= 2 => j \in DOMAIN live'
    BY <1>1, <1>3, <2>1, <2>2, SessionPool
  <2>4. \A j \in DOMAIN live' : IsShard(j, live[j])'
    BY <2>3 DEF IsShard
  <2>5. PoolOK'
    BY <2>3, <2>4 DEF PoolOK
  <2>6. HeldOK'
    <3>1. InUse(s)'
      BY <1>1, <2>3 DEF InUse
    <3>2. ASSUME held # -1, MaxLive >= 2 PROVE held \in DOMAIN live'
      <4>1. InUse(held)
        BY <1>1, <2>1, <3>2 DEF HeldOK
      <4>2. held \in Indices
        BY <2>1, <4>1 DEF InUse, PoolOK
      <4> QED
        BY <2>3, <3>2, <4>1, <4>2
    <3> QED
      BY <1>1, <1>3, <3>1, <3>2 DEF HeldOK
  <2>7. ToldOK' /\ MetaOK'
    BY <1>1, ToldKept DEF EngineInv, MetaOK
  <2>8. SweepOK'
    <3>1. NSH' = NSH
      BY <1>1, Same
    <3> QED
      BY <1>1, <1>3, <3>1 DEF EngineInv, SweepOK
  <2>9. DataOK'
    <3>1. /\ NSH' = NSH /\ OneLayout' = OneLayout /\ \A k : Layer(k)' = Layer(k)
          /\ \A n : Roll(n)' = Roll(n)
      BY <1>1, Same
    <3>2. /\ \A i : Cache(i)' = Cache(i) /\ Through(i)' = Through(i)
          /\ Sweeping' = Sweeping
      BY <1>1, <1>3 DEF Cache, Through, Sweeping
    <3> QED
      BY <1>1, <1>3, <3>1, <3>2 DEF EngineInv, DataOK
  <2> QED
    BY <2>5, <2>6, <2>7, <2>8, <2>9 DEF EngineInv
<1> QED
  BY <1>2, <1>3

\* The next token of the sweep through shard s.
LEMMA PrefillShardStep ==
    ASSUME DirInv, EngineInv, PrefillShard, UNCHANGED <<meta, layouts>>
    PROVE  EngineInv'
<1>0. PICK i : i = s
  OBVIOUS
<1> DEFINE h == carries[pos + 1]
<1>1. /\ phase = "prefill" /\ pos < Prompt /\ InUse(i) /\ RunShard(i, h) /\ held' = i
      /\ UNCHANGED <<desc, cpuTail, gen>>
  BY <1>0 DEF PrefillShard
<1>2. /\ desc \in layouts /\ i \in 0 .. NSH - 1 /\ gen \in Nat \ {0} /\ pos \in 0 .. Prompt - 1
      /\ Len(told) = (gen - 1) * (NGen + 1) + 0
      /\ carries \in [1 .. Prompt -> AnyHidden]
  BY <1>0, <1>1, ShardEngineAssumption DEF EngineInv, SweepOK
<1>3. desc \in Options /\ layouts \subseteq Options /\ NSH \in 1 .. NLayers /\ NSH \in Nat
  BY <1>2, NumberOfShards, ShardExportAssumption DEF DirInv
<1>4. CASE phase' = "raised"
  <2>1. UNCHANGED <<live, lru, caches, told>>
    BY <1>1, <1>4 DEF PrefillShard, RunShard
  <2>2. i \in DOMAIN live
    <3>1. lru \in Seq(Indices) /\ lru # <<>> /\ lru[Len(lru)] = i /\ DOMAIN live = ToSet(lru)
      BY <1>1 DEF InUse, EngineInv, PoolOK
    <3> QED
      BY <3>1 DEF ToSet
  <2> QED
    BY <1>1, <1>4, <2>1, <2>2, Raises
<1>5. CASE phase' # "raised"
  <2> DEFINE out == Ran(live'[i], i, h)
  <2>1. /\ carries' = [carries EXCEPT ![pos + 1] = out]
        /\ \/ pos + 1 < Prompt /\ pos' = pos + 1 /\ s' = s /\ told' = told
           \/ pos + 1 = Prompt /\ i + 1 < NSH /\ pos' = 0 /\ s' = i + 1 /\ told' = told
           \/ pos + 1 = Prompt /\ i + 1 = NSH /\ pos' = Prompt /\ s' = 0 /\ LogitsOf(out)
    BY <1>0, <1>2, <1>3, <1>5, ShardEngineAssumption DEF PrefillShard
  <2>2. i = s
    BY <1>0
  <2>3. /\ phase' = phase /\ PoolOK'
        /\ lru' # <<>> /\ lru'[Len(lru')] = i /\ i \in DOMAIN live'
        /\ IsShard(i, live'[i])
        /\ Cache(i)' = Rolled(i, h)
        /\ \A j : j # i => Cache(j)' = Cache(j)
        /\ DOMAIN caches' = DOMAIN caches \cup {i}
    <3>1. UNCHANGED <<desc, layouts>> /\ PoolOK /\ RunShard(i, h)
      BY <1>1 DEF EngineInv
    <3> HIDE DEF h
    <3> QED
      BY <1>2, <1>5, <3>1, ShardRuns
  <2>4. h \in AnyHidden /\ out \in AnyHidden
    <3>1. h \in AnyHidden
      <4>1. pos + 1 \in 1 .. Prompt
        BY <1>2, ShardEngineAssumption
      <4> QED
        BY <1>2, <4>1
    <3> HIDE DEF h
    <3> QED
      BY <1>3, <2>3, <3>1, RanType
  <2>5. OneLayout =>
          /\ h = Hidden(gen, pos, Layer(i)) /\ out = Hidden(gen, pos, Layer(i + 1))
          /\ Cache(i)' = Roll(pos + 1)
          /\ \A j \in 1 .. Prompt :
                carries'[j] = Hidden(gen, j - 1, Layer(IF j <= pos + 1 THEN i + 1 ELSE i))
    <3> SUFFICES ASSUME OneLayout
                 PROVE  /\ h = Hidden(gen, pos, Layer(i)) /\ out = Hidden(gen, pos, Layer(i + 1))
                        /\ Cache(i)' = Roll(pos + 1)
                        /\ \A j \in 1 .. Prompt :
                              carries'[j] = Hidden(gen, j - 1, Layer(IF j <= pos + 1 THEN i + 1 ELSE i))
      OBVIOUS
    <3>1. /\ Cache(i) = Roll(Through(i)) /\ Sweeping
          /\ carries = [j \in 1 .. Prompt |-> Hidden(gen, j - 1, Layer(IF j <= pos THEN i + 1 ELSE i))]
      BY <1>1, <1>2, <2>2 DEF EngineInv, DataOK, Sweeping
    <3>2. Through(i) = pos
      BY <1>2, <2>2, <3>1 DEF Through
    <3>3. pos + 1 \in 1 .. Prompt /\ ~(pos + 1 <= pos) /\ (pos + 1) - 1 = pos
      BY <1>2, ShardEngineAssumption
    <3>4. h = Hidden(gen, pos, Layer(i))
      BY <3>1, <3>3
    <3>5. /\ Ran(live'[i], i, Hidden(gen, pos, Layer(i))) = Hidden(gen, pos, Layer(i + 1))
          /\ Rolled(i, Hidden(gen, pos, Layer(i))) = Roll(pos + 1)
      BY <1>2, <1>3, <2>3, <3>1, <3>2, RunsExactly
    <3>6. out = Hidden(gen, pos, Layer(i + 1)) /\ Cache(i)' = Roll(pos + 1)
      BY <2>3, <3>4, <3>5
    <3>7. ASSUME NEW j \in 1 .. Prompt
          PROVE  carries'[j] = Hidden(gen, j - 1, Layer(IF j <= pos + 1 THEN i + 1 ELSE i))
      <4> HIDE DEF out
      <4>1. CASE j = pos + 1
        <5>1. carries'[j] = out
          BY <1>2, <2>1, <4>1
        <5>2. j <= pos + 1 /\ j - 1 = pos
          BY <1>2, <4>1
        <5> QED
          BY <3>6, <5>1, <5>2
      <4>2. CASE j # pos + 1
        <5>1. carries'[j] = carries[j]
          BY <1>2, <2>1, <4>2
        <5>2. (j <= pos + 1) <=> (j <= pos)
          BY <1>2, <4>2
        <5> QED
          BY <3>1, <5>1, <5>2
      <4> QED
        BY <4>1, <4>2
    <3> QED
      BY <3>4, <3>6, <3>7
  <2>6. carries' \in [1 .. Prompt -> AnyHidden]
    <3> HIDE DEF out
    <3> QED
      BY <1>2, <2>1, <2>4
  <2> HIDE DEF out, h
  <2>7. HeldOK'
    <3>1. \A j : InUse(j)' <=> j = i
      BY <2>3 DEF InUse
    <3> QED
      BY <1>1, <2>3, <3>1 DEF HeldOK
  <2>8. /\ NSH' = NSH /\ OneLayout' = OneLayout /\ \A k : Layer(k)' = Layer(k)
        /\ \A n : Roll(n)' = Roll(n)
    BY <1>1, Same
  <2>9. ToldOK' /\ Len(told') = (gen - 1) * (NGen + 1) + (IF pos' = Prompt THEN 1 ELSE 0)
    <3>1. CASE told' = told /\ pos' # Prompt
      BY <1>2, <3>1, ToldKept DEF EngineInv
    <3>2. CASE pos' = Prompt /\ pos + 1 = Prompt /\ i + 1 = NSH /\ LogitsOf(out)
      <4>1. OneLayout => out = Hidden(gen, Prompt - 1 + 0, NLayers)
        <5>1. Layer(NSH) = NLayers
          BY <1>3, LayersOf
        <5>2. pos = Prompt - 1 + 0
          BY <1>2, <3>2, ShardEngineAssumption
        <5> QED
          BY <2>5, <3>2, <5>1, <5>2
      <4>2. ToldOK /\ UNCHANGED layouts /\ 0 \in 0 .. NGen
        BY ShardEngineAssumption DEF EngineInv
      <4>3. ToldOK' /\ Len(told') = Len(told) + 1
        BY <1>2, <2>4, <3>2, <4>1, <4>2, TellsNext
      <4>4. (gen - 1) * (NGen + 1) \in Int
        BY <1>2, ShardEngineAssumption
      <4> QED
        BY <1>2, <3>2, <4>3, <4>4
    <3> QED
      BY <1>2, <2>1, <3>1, <3>2, ShardEngineAssumption
  <2>10. s' \in 0 .. NSH' - 1 /\ pos' \in Nat /\ pos' <= Prompt /\ (pos' = Prompt => s' = 0)
    BY <1>2, <1>3, <2>1, <2>2, <2>8, ShardEngineAssumption
  <2>11. SweepOK'
    BY <1>1, <1>2, <2>3, <2>6, <2>9, <2>10 DEF SweepOK
  <2>12. DataOK'
    <3> SUFFICES ASSUME OneLayout
                 PROVE  /\ \A j \in 0 .. NSH - 1 : Cache(j)' = Roll(Through(j))'
                        /\ DOMAIN caches' \subseteq 0 .. NSH - 1
                        /\ Sweeping' => DOMAIN caches' \subseteq 0 .. s'
                        /\ Sweeping' =>
                             (carries = [j \in 1 .. Prompt |->
                                          Hidden(gen, j - 1, Layer(IF j <= pos THEN s + 1 ELSE s))])'
      BY <1>1, <2>3, <2>8 DEF DataOK
    <3>1. Sweeping /\ DOMAIN caches \subseteq 0 .. i /\ \A j \in 0 .. NSH - 1 : Cache(j) = Roll(Through(j))
      BY <1>1, <2>2 DEF EngineInv, DataOK, Sweeping
    <3>2. DOMAIN caches' \subseteq 0 .. i /\ DOMAIN caches' \subseteq 0 .. NSH - 1
      BY <1>2, <1>3, <2>3, <3>1
    <3>3. Sweeping' => DOMAIN caches' \subseteq 0 .. s'
      BY <1>2, <2>1, <2>2, <3>2 DEF Sweeping
    <3>4. ASSUME NEW j \in 0 .. NSH - 1
          PROVE  /\ j # i => Through(j)' = Through(j)
                 /\ j = i => Through(j)' = pos + 1
      BY <1>1, <1>2, <1>3, <2>1, <2>2, <2>3, <3>1, ShardEngineAssumption DEF Through, Sweeping
    <3>5. ASSUME NEW j \in 0 .. NSH - 1 PROVE Cache(j)' = Roll(Through(j))'
      <4>1. CASE j = i
        <5>1. Through(j)' = pos + 1 /\ Cache(j)' = Roll(pos + 1)
          BY <2>5, <3>4, <4>1
        <5> QED
          BY <2>8, <5>1
      <4>2. CASE j # i
        BY <2>3, <2>8, <3>1, <3>4, <4>2
      <4> QED
        BY <4>1, <4>2
    <3>6. ASSUME Sweeping', NEW j \in 1 .. Prompt
          PROVE  (IF j <= pos + 1 THEN i + 1 ELSE i) = (IF j <= pos' THEN s' + 1 ELSE s')
      BY <1>2, <2>1, <2>2, <3>6, ShardEngineAssumption DEF Sweeping
    <3>7. ASSUME Sweeping'
          PROVE  (carries = [j \in 1 .. Prompt |->
                              Hidden(gen, j - 1, Layer(IF j <= pos THEN s + 1 ELSE s))])'
      <4>1. \A j \in 1 .. Prompt :
              carries'[j] = Hidden(gen, j - 1, Layer(IF j <= pos THEN s + 1 ELSE s))'
        BY <1>1, <2>5, <2>8, <3>6, <3>7
      <4> QED
        BY <1>1, <2>6, <4>1
    <3> QED
      BY <3>2, <3>3, <3>5, <3>7
  <2>13. MetaOK'
    BY DEF EngineInv, MetaOK
  <2> QED
    BY <2>3, <2>7, <2>9, <2>11, <2>12, <2>13 DEF EngineInv
<1> QED
  BY <1>4, <1>5

\* prefill returns with every shard's caches full and its variable gone.
LEMMA PrefillReturnsStep ==
    ASSUME DirInv, EngineInv, PrefillReturns, UNCHANGED <<meta, layouts>>
    PROVE  EngineInv'
<1>1. /\ phase = "prefill" /\ pos = Prompt /\ phase' = "decode" /\ held' = -1
      /\ UNCHANGED <<desc, cpuTail, live, lru, caches, carries, s, pos, gen, told>>
  BY DEF PrefillReturns
<1>2. /\ NSH' = NSH /\ OneLayout' = OneLayout /\ \A k : Layer(k)' = Layer(k)
      /\ \A n : Roll(n)' = Roll(n)
  BY <1>1, Same
<1>3. PoolOK' /\ ToldOK' /\ MetaOK'
  BY <1>1, PoolKept, ToldKept DEF EngineInv, MetaOK
<1>4. HeldOK'
  BY <1>1 DEF HeldOK
<1>5. s = 0 /\ gen \in Nat \ {0} /\ Len(told) = (gen - 1) * (NGen + 1) + 1
      /\ desc \in layouts /\ s \in 0 .. NSH - 1
  BY <1>1 DEF EngineInv, SweepOK
<1>6. SweepOK'
  <2>1. pos' \in Prompt .. Prompt + NGen /\ pos' - Prompt = 0 /\ pos' \in Nat
    BY <1>1, ShardEngineAssumption
  <2>2. (gen - 1) * (NGen + 1) \in Int
    BY <1>5, ShardEngineAssumption
  <2>3. Len(told') = (gen' - 1) * (NGen + 1) + (pos' - Prompt) + 1
    BY <1>1, <1>5, <2>1, <2>2
  <2> QED
    BY <1>1, <1>2, <1>5, <2>1, <2>3 DEF SweepOK
<1>7. DataOK'
  <2>1. \A i : Cache(i)' = Cache(i) /\ Through(i)' = Through(i)
    BY <1>1, ShardEngineAssumption DEF Cache, Through, Sweeping
  <2>2. ~Sweeping' /\ ~(s' > 0)
    BY <1>1, <1>5 DEF Sweeping
  <2> QED
    BY <1>1, <1>2, <2>1, <2>2 DEF EngineInv, DataOK
<1> QED
  BY <1>3, <1>4, <1>6, <1>7 DEF EngineInv

\* The token that is decoded goes through one more shard.
LEMMA ForwardShardStep ==
    ASSUME DirInv, EngineInv, ForwardShard, UNCHANGED <<meta, layouts>>
    PROVE  EngineInv'
<1>1. PICK i : i = s
  OBVIOUS
<1> DEFINE h == IF i = 0 THEN Hidden(gen, pos, 0) ELSE carries[1]
<1>2. /\ phase = "decode" /\ pos < Prompt + NGen /\ RunShard(i, h)
      /\ UNCHANGED <<desc, cpuTail, held, gen>>
  BY <1>1 DEF ForwardShard
<1>3. /\ desc \in layouts /\ i \in 0 .. NSH - 1 /\ gen \in Nat \ {0}
      /\ pos \in Prompt .. Prompt + NGen - 1
      /\ Len(told) = (gen - 1) * (NGen + 1) + (pos - Prompt) + 1
      /\ i > 0 => carries[1] \in AnyHidden
  BY <1>1, <1>2, ShardEngineAssumption DEF EngineInv, SweepOK
<1>4. desc \in Options /\ layouts \subseteq Options /\ NSH \in 1 .. NLayers /\ NSH \in Nat
      /\ pos \in Nat
  BY <1>3, NumberOfShards, ShardExportAssumption, ShardEngineAssumption DEF DirInv
<1>5. CASE phase' = "raised"
  <2>1. UNCHANGED <<live, lru, caches, told>>
    BY <1>1, <1>5 DEF ForwardShard, RunShard
  <2> QED
    BY <1>2, <1>5, <2>1, Raises
<1>6. CASE phase' # "raised"
  <2> DEFINE out == Ran(live'[i], i, h)
  <2>1. /\ carries' = <<out>>
        /\ \/ i + 1 < NSH /\ s' = i + 1 /\ pos' = pos /\ told' = told
           \/ i + 1 = NSH /\ s' = 0 /\ pos' = pos + 1 /\ LogitsOf(out)
    BY <1>1, <1>3, <1>4, <1>6 DEF ForwardShard
  <2>2. /\ phase' = phase /\ PoolOK'
        /\ lru' # <<>> /\ lru'[Len(lru')] = i /\ i \in DOMAIN live'
        /\ IsShard(i, live'[i])
        /\ Cache(i)' = Rolled(i, h)
        /\ \A j : j # i => Cache(j)' = Cache(j)
        /\ DOMAIN caches' = DOMAIN caches \cup {i}
    <3>1. UNCHANGED <<desc, layouts>> /\ PoolOK /\ RunShard(i, h)
      BY <1>2 DEF EngineInv
    <3> HIDE DEF h
    <3> QED
      BY <1>3, <1>6, <3>1, ShardRuns
  <2>3. h \in AnyHidden /\ out \in AnyHidden
    <3>1. Hidden(gen, pos, 0) \in AnyHidden
      BY <1>3, <1>4 DEF Hidden, AnyHidden
    <3>2. h \in AnyHidden
      BY <1>3, <3>1
    <3> HIDE DEF h
    <3> QED
      BY <1>4, <2>2, <3>2, RanType
  <2>4. OneLayout => out = Hidden(gen, pos, Layer(i + 1)) /\ Cache(i)' = Roll(pos + 1)
    <3> SUFFICES ASSUME OneLayout
                 PROVE  out = Hidden(gen, pos, Layer(i + 1)) /\ Cache(i)' = Roll(pos + 1)
      OBVIOUS
    <3>1. Cache(i) = Roll(Through(i)) /\ (i > 0 => carries = <<Hidden(gen, pos, Layer(i))>>)
      BY <1>1, <1>2, <1>3 DEF EngineInv, DataOK
    <3>2. Through(i) = pos
      BY <1>1, <1>2, <1>3, <1>4 DEF Through, Sweeping
    <3>3. h = Hidden(gen, pos, Layer(i))
      <4>1. Layer(0) = 0
        BY <1>4, LayersOf
      <4> QED
        BY <1>3, <3>1, <4>1
    <3>4. /\ Ran(live'[i], i, Hidden(gen, pos, Layer(i))) = Hidden(gen, pos, Layer(i + 1))
          /\ Rolled(i, Hidden(gen, pos, Layer(i))) = Roll(pos + 1)
      BY <1>3, <1>4, <2>2, <3>1, <3>2, RunsExactly
    <3> QED
      BY <2>2, <3>3, <3>4
  <2> HIDE DEF out, h
  <2>5. HeldOK'
    BY <1>2, <2>2 DEF EngineInv, HeldOK
  <2>6. /\ NSH' = NSH /\ OneLayout' = OneLayout /\ \A k : Layer(k)' = Layer(k)
        /\ \A n : Roll(n)' = Roll(n)
    BY <1>2, Same
  <2>7. ToldOK' /\ Len(told') = (gen - 1) * (NGen + 1) + (pos' - Prompt) + 1
    <3>1. CASE told' = told /\ pos' = pos
      BY <1>3, <3>1, ToldKept DEF EngineInv
    <3>2. CASE pos' = pos + 1 /\ i + 1 = NSH /\ LogitsOf(out)
      <4> DEFINE k == pos - Prompt + 1
                 base == (gen - 1) * (NGen + 1)
      <4>1. k \in 0 .. NGen /\ Prompt - 1 + k = pos /\ pos' - Prompt = k
        BY <1>3, <3>2, ShardEngineAssumption
      <4>2. base \in Int
        BY <1>3, ShardEngineAssumption
      <4>3. Len(told) = base + k
        <5> HIDE DEF base
        <5> QED
          BY <1>3, <1>4, <4>2, ShardEngineAssumption DEF base
      <4> HIDE DEF k
      <4>4. OneLayout => out = Hidden(gen, Prompt - 1 + k, NLayers)
        BY <1>4, <2>4, <3>2, <4>1, LayersOf
      <4>5. ToldOK /\ UNCHANGED layouts
        BY DEF EngineInv
      <4>6. ToldOK' /\ Len(told') = Len(told) + 1
        BY <1>3, <2>3, <3>2, <4>1, <4>3, <4>4, <4>5, TellsNext
      <4> HIDE DEF base
      <4>7. Len(told') = base + (pos' - Prompt) + 1
        BY <4>1, <4>2, <4>3, <4>6
      <4> QED
        BY <4>6, <4>7 DEF base
    <3> QED
      BY <2>1, <3>1, <3>2
  <2>8. /\ s' \in 0 .. NSH' - 1 /\ pos' \in Nat /\ pos' \in Prompt .. Prompt + NGen
        /\ (pos' = Prompt + NGen => s' = 0)
    BY <1>3, <1>4, <2>1, <2>6, ShardEngineAssumption
  <2>9. SweepOK'
    BY <1>2, <1>3, <2>1, <2>2, <2>3, <2>7, <2>8 DEF SweepOK
  <2>10. DataOK'
    <3> SUFFICES ASSUME OneLayout
                 PROVE  /\ \A j \in 0 .. NSH - 1 : Cache(j)' = Roll(Through(j))'
                        /\ DOMAIN caches' \subseteq 0 .. NSH - 1
                        /\ s' > 0 => (carries = <<Hidden(gen, pos, Layer(s))>>)'
      BY <1>2, <2>2, <2>6 DEF DataOK, Sweeping
    <3>1. DOMAIN caches \subseteq 0 .. NSH - 1 /\ \A j \in 0 .. NSH - 1 : Cache(j) = Roll(Through(j))
      BY <1>2 DEF EngineInv, DataOK
    <3>2. DOMAIN caches' \subseteq 0 .. NSH - 1
      BY <1>3, <2>2, <3>1
    <3>3. ASSUME NEW j \in 0 .. NSH - 1
          PROVE  /\ j # i => Through(j)' = Through(j)
                 /\ j = i => Through(j)' = pos + 1
      BY <1>1, <1>2, <1>3, <1>4, <2>1, <2>2 DEF Through, Sweeping
    <3>4. ASSUME NEW j \in 0 .. NSH - 1 PROVE Cache(j)' = Roll(Through(j))'
      <4>1. CASE j = i
        <5>1. Through(j)' = pos + 1 /\ Cache(j)' = Roll(pos + 1)
          BY <2>4, <3>3, <4>1
        <5> QED
          BY <2>6, <5>1
      <4>2. CASE j # i
        BY <2>2, <2>6, <3>1, <3>3, <4>2
      <4> QED
        BY <4>1, <4>2
    <3>5. ASSUME s' > 0 PROVE (carries = <<Hidden(gen, pos, Layer(s))>>)'
      <4>1. s' = i + 1 /\ pos' = pos /\ gen' = gen /\ carries' = <<out>>
        BY <1>2, <2>1, <3>5
      <4>2. Layer(i + 1)' = Layer(i + 1)
        BY <2>6
      <4> QED
        BY <2>4, <4>1, <4>2
    <3> QED
      BY <3>2, <3>4, <3>5
  <2>11. MetaOK'
    BY DEF EngineInv, MetaOK
  <2> QED
    BY <2>2, <2>5, <2>7, <2>9, <2>10, <2>11 DEF EngineInv
<1> QED
  BY <1>5, <1>6

\* The engine is off, whatever the scripts go on to do.
LEMMA EngineInitially == Init => EngineInv
<1> SUFFICES ASSUME Init PROVE EngineInv
  OBVIOUS
<1>1. /\ phase = "off" /\ held = -1 /\ live = << >> /\ lru = <<>> /\ caches = << >>
      /\ gen = 0 /\ told = <<>> /\ meta = NoMeta
  BY DEF Init, EngineInit, DirInit
<1>2. DOMAIN live = {} /\ ToSet(lru) = {} /\ Len(lru) = 0 /\ lru \in Seq(Indices)
  BY <1>1 DEF ToSet
<1>3. PoolOK
  BY <1>2, ShardEngineAssumption DEF PoolOK
<1>4. HeldOK /\ MetaOK
  BY <1>1 DEF HeldOK, MetaOK
<1>5. SweepOK /\ DataOK
  BY <1>1 DEF SweepOK, DataOK
<1>6. ToldOK
  <2>1. told \in Seq(AnyHidden) /\ DOMAIN told = {}
    BY <1>1
  <2> QED
    BY <2>1 DEF ToldOK, LogitsExact
<1> QED
  BY <1>3, <1>4, <1>5, <1>6 DEF EngineInv

\* Every step keeps the invariant, one lemma a case.
LEMMA EnginePreserved == DirInv /\ EngineInv /\ [Next]_vars => EngineInv'
<1> SUFFICES ASSUME DirInv, EngineInv, [Next]_vars PROVE EngineInv'
  OBVIOUS
<1>1. CASE DirNext /\ UNCHANGED engVars
  <2>1. layouts \subseteq layouts' /\ MetaOK'
    <3>1. CASE \E o \in Options : StartExport(o)
      BY <3>1 DEF StartExport, MetaOK
    <3>2. CASE UNCHANGED <<meta, layouts>>
      BY <3>2 DEF EngineInv, MetaOK
    <3>3. (\E o \in Options : StartExport(o)) \/ UNCHANGED <<meta, layouts>>
      BY <1>1 DEF DirNext, SkipExisting, BeginSave, EndSave, ExportDies, StartCompile, SkipCompiled,
         BeginCompile, EndCompile, CompileDies, dirVars, expVars, histVars
    <3> QED
      BY <3>1, <3>2, <3>3
  <2> QED
    BY <1>1, <2>1, DirectoryMoves
<1>2. CASE Engine /\ UNCHANGED <<dirVars, expVars, comVars, histVars>>
  <2>1. UNCHANGED <<meta, layouts>>
    BY <1>2 DEF dirVars, histVars
  <2> QED
    BY <1>2, <2>1, BuildStep, StartPromptStep, PrefillOpenStep, PrefillShardStep,
       PrefillReturnsStep, ForwardShardStep DEF Engine
<1>3. CASE UNCHANGED vars
  <2>1. UNCHANGED engVars /\ UNCHANGED <<meta, layouts>>
    BY <1>3 DEF vars, engVars, histVars
  <2>2. MetaOK'
    BY <2>1 DEF EngineInv, MetaOK
  <2> QED
    BY <2>1, <2>2, DirectoryMoves
<1> QED
  BY <1>1, <1>2, <1>3 DEF Next

\* Both invariants hold from the start on.
LEMMA EngineInvariant == Spec => [](DirInv /\ EngineInv)
<1>1. Init => DirInv /\ EngineInv
  BY Initially, EngineInitially
<1>2. DirInv /\ EngineInv /\ [Next]_vars => (DirInv /\ EngineInv)'
  BY Preserved, EnginePreserved
<1> QED
  BY <1>1, <1>2, PTL DEF Spec

-----------------------------------------------------------------------------
\* The logits of every token come from that token after all the layers, each
\* run once on exactly the positions its window holds: for every number of
\* layers and shards, window, pool, prompt and number of prompts, and whatever
\* the scripts died in the middle of (engine_gemma.py:156-174).
THEOREM LogitsCorrect == Spec => []LogitsExact
<1>1. EngineInv => LogitsExact
  BY DEF EngineInv, ToldOK
<1> QED
  BY <1>1, EngineInvariant, PTL

\* What the invariant says of a cache is what the property asks.
LEMMA RollIs ==
    ASSUME desc.win \in Nat, NEW t \in Nat
    PROVE  Roll(t) = LET n == IF t < desc.win THEN t ELSE desc.win
                     IN  [j \in 1 .. desc.win |->
                            IF j <= desc.win - n THEN Zero ELSE Entry(gen, t - desc.win + j - 1)]
BY DEF Roll

\* Every cache holds the last positions this prompt sent through its shard.
LEMMA CachesAre ==
    ASSUME DirInv, EngineInv
    PROVE  CachesRoll
<1> SUFFICES ASSUME OneLayout, NEW i \in DOMAIN caches, phase # "raised"
             PROVE  LET through == IF phase = "prefill" /\ pos < Prompt
                                   THEN IF i < s THEN Prompt ELSE pos
                                   ELSE IF i < s THEN pos + 1 ELSE pos
                        n == IF through < desc.win THEN through ELSE desc.win
                    IN  caches[i] = [j \in 1 .. desc.win |->
                          IF j <= desc.win - n THEN Zero ELSE Entry(gen, through - desc.win + j - 1)]
  BY DEF CachesRoll
<1>1. phase \in {"prefill", "decode"}
  BY DEF EngineInv, SweepOK
<1>2. s \in 0 .. NSH - 1 /\ pos \in Nat /\ desc \in layouts
  BY <1>1 DEF EngineInv, SweepOK
<1>3. desc.win \in Nat /\ NSH \in Nat
  BY <1>2, NumberOfShards, ShardExportAssumption DEF DirInv
<1>4. i \in 0 .. NSH - 1 /\ caches[i] = Roll(Through(i)) /\ (Sweeping => i <= s)
  BY <1>1, <1>2, <1>3 DEF EngineInv, DataOK, Cache
<1>5. Through(i) = IF phase = "prefill" /\ pos < Prompt
                   THEN IF i < s THEN Prompt ELSE pos
                   ELSE IF i < s THEN pos + 1 ELSE pos
  BY <1>2, <1>3, <1>4 DEF Through, Sweeping
<1>6. Through(i) \in Nat
  BY <1>2, <1>5, ShardEngineAssumption
<1> DEFINE t == Through(i)
<1> HIDE DEF t
<1>7. caches[i] = LET n == IF t < desc.win THEN t ELSE desc.win
                  IN  [j \in 1 .. desc.win |->
                         IF j <= desc.win - n THEN Zero ELSE Entry(gen, t - desc.win + j - 1)]
  <2>1. t \in Nat /\ caches[i] = Roll(t)
    BY <1>4, <1>6 DEF t
  <2> QED
    BY <1>3, <2>1, RollIs
<1> QED
  BY <1>5, <1>7 DEF t

\* A shard's cache holds, right-aligned, the last positions this prompt sent
\* through it and never one of an earlier prompt (engine_gemma.py:101-140).
THEOREM CachesCorrect == Spec => []CachesRoll
<1>1. DirInv /\ EngineInv => CachesRoll
  BY CachesAre
<1> QED
  BY <1>1, EngineInvariant, PTL

\* The pool is as its order of use lists it, and prefill's variable keeps no
\* session open that the pool has dropped, if the pool has room for two.
LEMMA PoolFits ==
    ASSUME MaxLive >= 2, EngineInv
    PROVE  PoolWithinLimit
<1>1. /\ lru \in Seq(Indices) /\ \A a, b \in 1 .. Len(lru) : lru[a] = lru[b] => a = b
      /\ DOMAIN live = ToSet(lru) /\ Len(lru) <= MaxLive
  BY DEF EngineInv, PoolOK
<1>2. Len(lru) \in Nat /\ DOMAIN lru = 1 .. Len(lru)
  BY <1>1
<1>3. lru \in Bijection(1 .. Len(lru), DOMAIN live)
  <2>1. \A a \in 1 .. Len(lru) : lru[a] \in DOMAIN live
    BY <1>1, <1>2 DEF ToSet
  <2>2. \A l \in DOMAIN live : \E a \in 1 .. Len(lru) : lru[a] = l
    BY <1>1, <1>2 DEF ToSet
  <2>3. lru = [a \in 1 .. Len(lru) |-> lru[a]]
    BY <1>1
  <2>4. lru \in [1 .. Len(lru) -> DOMAIN live]
    BY <2>1, <2>3
  <2> QED
    BY <1>1, <2>2, <2>4 DEF Bijection, Injection, Surjection, IsInjective
<1>4. Cardinality(DOMAIN live) = Len(lru)
  <2>1. ExistsBijection(1 .. Len(lru), DOMAIN live)
    BY <1>3 DEF ExistsBijection
  <2> QED
    BY <1>2, <2>1, FS_CountingElements
<1>5. DOMAIN live \cup ({held} \ {-1}) = DOMAIN live
  BY DEF EngineInv, HeldOK
<1> QED
  BY <1>1, <1>4, <1>5 DEF PoolWithinLimit

\* No more sessions are open than the accelerator has contexts for, counting
\* the one prefill's own variable keeps alive.  A pool of one would not do:
\* the new session is opened before the variable lets the old one go
\* (engine_gemma.py:76-99, 170-174).
THEOREM PoolCorrect ==
    ASSUME MaxLive >= 2
    PROVE  Spec => []PoolWithinLimit
<1>1. EngineInv => PoolWithinLimit
  BY PoolFits
<1> QED
  BY <1>1, EngineInvariant, PTL

-----------------------------------------------------------------------------
(* Memory *)

AllBuffers == Buffers \cup {"qkv"}

MemOK(m) == DOMAIN m = AllBuffers /\ \A b \in AllBuffers : DOMAIN m[b] = 0 .. Units(b) - 1

RegionOK(r) ==
    /\ r.buf \in AllBuffers /\ r.off \in Nat /\ r.n \in Nat \ {0}
    /\ r.off + r.n <= Units(r.buf)

Apart(r, q) == r.buf # q.buf \/ r.off + r.n <= q.off \/ q.off + q.n <= r.off

\* All units of a region are those of one value.
Holds(m, r, v) == \A j \in 0 .. r.n - 1 : m[r.buf][r.off + j] = [v |-> v, unit |-> j]

LEMMA UnitsAre == ASSUME NEW b PROVE Units(b) \in Nat \ {0}
BY DEF Units, QkvUnits

\* Such a region is read as that value.
LEMMA ReadHeld ==
    ASSUME NEW m, NEW r, NEW v, RegionOK(r), Holds(m, r, v)
    PROVE  Read(m, r) = v
<1>1. m[r.buf][r.off] = [v |-> v, unit |-> 0]
  <2>1. 0 \in 0 .. r.n - 1 /\ r.off + 0 = r.off
    BY DEF RegionOK
  <2> QED
    BY <2>1 DEF Holds
<1>2. m[r.buf][r.off].v = v
  BY <1>1
<1> QED
  BY <1>2 DEF Read, Holds

\* A write gives its region the value ...
LEMMA WriteGives ==
    ASSUME NEW m, NEW r, NEW v, MemOK(m), RegionOK(r)
    PROVE  MemOK(Write(m, r, v)) /\ Holds(Write(m, r, v), r, v)
<1>1. DOMAIN Write(m, r, v) = AllBuffers
  BY DEF Write, MemOK
<1>2. \A b \in AllBuffers : b # r.buf => Write(m, r, v)[b] = m[b]
  BY DEF Write, MemOK
<1>3. Write(m, r, v)[r.buf] =
        [j \in DOMAIN m[r.buf] |->
            IF j \in r.off .. r.off + r.n - 1 THEN [v |-> v, unit |-> j - r.off] ELSE m[r.buf][j]]
  BY DEF Write, MemOK, RegionOK
<1>4. DOMAIN m[r.buf] = 0 .. Units(r.buf) - 1 /\ DOMAIN Write(m, r, v)[r.buf] = DOMAIN m[r.buf]
  BY <1>3 DEF MemOK, RegionOK
<1>5. ASSUME NEW j \in 0 .. r.n - 1
      PROVE  Write(m, r, v)[r.buf][r.off + j] = [v |-> v, unit |-> j]
  <2>1. r.off + j \in 0 .. Units(r.buf) - 1 /\ r.off + j \in r.off .. r.off + r.n - 1
        /\ (r.off + j) - r.off = j
    BY UnitsAre DEF RegionOK
  <2> QED
    BY <1>3, <1>4, <2>1
<1>6. MemOK(Write(m, r, v))
  BY <1>1, <1>2, <1>4 DEF MemOK
<1> QED
  BY <1>5, <1>6 DEF Holds

\* ... and leaves alone what is apart from it.
LEMMA WriteKeeps ==
    ASSUME NEW m, NEW r, NEW v, NEW q, NEW w, MemOK(m), RegionOK(r), RegionOK(q),
           Apart(q, r), Holds(m, q, w)
    PROVE  Holds(Write(m, r, v), q, w)
<1> SUFFICES ASSUME NEW j \in 0 .. q.n - 1
             PROVE  Write(m, r, v)[q.buf][q.off + j] = [v |-> w, unit |-> j]
  BY DEF Holds
<1>1. m[q.buf][q.off + j] = [v |-> w, unit |-> j]
  BY DEF Holds
<1>2. CASE q.buf # r.buf
  <2>1. Write(m, r, v)[q.buf] = m[q.buf]
    BY <1>2 DEF Write, MemOK, RegionOK
  <2> QED
    BY <1>1, <2>1
<1>3. CASE q.buf = r.buf
  <2>1. Write(m, r, v)[r.buf] =
          [k \in DOMAIN m[r.buf] |->
              IF k \in r.off .. r.off + r.n - 1 THEN [v |-> v, unit |-> k - r.off] ELSE m[r.buf][k]]
    BY DEF Write, MemOK, RegionOK
  <2>2. q.off + j \in DOMAIN m[r.buf] /\ q.off + j \notin r.off .. r.off + r.n - 1
    BY <1>3, UnitsAre, SMTT(30) DEF MemOK, RegionOK, Apart
  <2> QED
    BY <1>1, <1>3, <2>1, <2>2
<1> QED
  BY <1>2, <1>3

-----------------------------------------------------------------------------
(* Facts: which regions hold which values, and how far the cache of every    *)
(* layer goes.                                                               *)

Sat(m, F) == \A f \in F.mem : RegionOK(f[1]) /\ Holds(m, f[1], f[2])

CacheOf(u) == [l \in Layers |-> [p \in Positions |-> IF p < u[l] THEN KVOf(l, p) ELSE NoKV]]

IsStore(d) == d.k \in {"store", "storekv"}

\* A result that is stored while the facts are F gives the facts G.
Stores(a, b, F, z, G) ==
    \/ /\ z.k = "store" /\ z.val # Stale /\ RegionOK(z.out) /\ G.upto = F.upto
       /\ \A g \in G.mem : g = <<z.out, z.val>> \/ (g \in F.mem /\ Apart(g[1], z.out))
    \/ /\ z.k = "storekv" /\ z.out \in Layers /\ F.upto[z.out] = a
       /\ z.val = [p \in a .. b |-> KVOf(z.out, p)]
       /\ G.mem \subseteq F.mem /\ G.upto = [F.upto EXCEPT ![z.out] = b + 1]

Reads(F, d, vals) ==
    /\ vals = [j \in DOMAIN d.ins |-> vals[j]]
    /\ \A j \in DOMAIN d.ins : <<d.ins[j], vals[j]>> \in F.mem

\* A command run while the facts are F gives the facts G.
Does(a, b, F, d, G) ==
    \/ d = Bar /\ G = F
    \/ d # Bar /\ IsStore(d) /\ Stores(a, b, F, d, G)
    \/ /\ d # Bar /\ ~IsStore(d)
       /\ \E vals : Reads(F, d, vals) /\ Stores(a, b, F, Result(d, vals, CacheOf(F.upto)[d.l]), G)

\* Commands run in their order lead from F to G.
Derives(a, b, F, ds, G) ==
    /\ \E C : ds \in Seq(C)
    /\ \A i \in 1 .. Len(ds) : ds[i] # Bar => i < Len(ds) /\ ds[i + 1] = Bar
    /\ \E at : /\ at[0] = F /\ at[Len(ds)] = G
               /\ \A i \in 1 .. Len(ds) : Does(a, b, at[i - 1], ds[i], at[i])

LEMMA DerivesNothing ==
    ASSUME NEW a, NEW b, NEW F
    PROVE  Derives(a, b, F, <<>>, F)
<1>1. <<>> \in Seq({}) /\ Len(<<>>) = 0
  OBVIOUS
<1> DEFINE at == [i \in {0} |-> F]
<1>2. at[0] = F
  OBVIOUS
<1> HIDE DEF at
<1>3. \A i \in 1 .. Len(<<>>) : FALSE
  BY <1>1
<1> QED
  BY <1>1, <1>2, <1>3 DEF Derives

LEMMA NothingDerives ==
    ASSUME NEW a, NEW b, NEW F, NEW G, Derives(a, b, F, <<>>, G)
    PROVE  F = G
<1>1. Len(<<>>) = 0
  OBVIOUS
<1> QED
  BY <1>1 DEF Derives

\* One command and its barrier.
LEMMA DerivesOne ==
    ASSUME NEW a, NEW b, NEW F, NEW d, NEW G, d # Bar, Does(a, b, F, d, G)
    PROVE  Derives(a, b, F, <<d, Bar>>, G)
<1> DEFINE ds == <<d, Bar>>
           at == [i \in 0 .. 2 |-> IF i = 0 THEN F ELSE G]
<1>1. ds \in Seq({d, Bar}) /\ Len(ds) = 2 /\ ds[1] = d /\ ds[2] = Bar
  OBVIOUS
<1>2. at[0] = F /\ at[1] = G /\ at[2] = G
  OBVIOUS
<1> HIDE DEF ds, at
<1>3. \A i \in 1 .. Len(ds) : i = 1 \/ i = 2
  BY <1>1
<1>4. Does(a, b, G, Bar, G)
  BY DEF Does
<1>5. ASSUME NEW i \in 1 .. Len(ds) PROVE Does(a, b, at[i - 1], ds[i], at[i])
  <2>1. CASE i = 1
    BY <1>1, <1>2, <2>1
  <2>2. CASE i = 2
    BY <1>1, <1>2, <1>4, <2>2
  <2> QED
    BY <1>3, <2>1, <2>2
<1>6. \A i \in 1 .. Len(ds) : ds[i] # Bar => i < Len(ds) /\ ds[i + 1] = Bar
  BY <1>1, <1>3
<1>7. Derives(a, b, F, ds, G)
  BY <1>1, <1>2, <1>5, <1>6 DEF Derives
<1> QED
  BY <1>7 DEF ds

\* One sequence after another.
LEMMA DerivesBoth ==
    ASSUME NEW a, NEW b, NEW F, NEW ds, NEW G, NEW es, NEW H,
           Derives(a, b, F, ds, G), Derives(a, b, G, es, H)
    PROVE  Derives(a, b, F, ds \o es, H)
<1>1. PICK C : ds \in Seq(C)
  BY DEF Derives
<1>2. PICK E : es \in Seq(E)
  BY DEF Derives
<1>3. PICK at : /\ at[0] = F /\ at[Len(ds)] = G
                /\ \A i \in 1 .. Len(ds) : Does(a, b, at[i - 1], ds[i], at[i])
  BY DEF Derives
<1>4. PICK bt : /\ bt[0] = G /\ bt[Len(es)] = H
                /\ \A i \in 1 .. Len(es) : Does(a, b, bt[i - 1], es[i], bt[i])
  BY DEF Derives
<1> DEFINE n == Len(ds)
           m == Len(es)
           fs == ds \o es
           ct == [i \in 0 .. n + m |-> IF i <= n THEN at[i] ELSE bt[i - n]]
<1>5. n \in Nat /\ m \in Nat
  BY <1>1, <1>2
<1>6. ds \in Seq(C \cup E) /\ es \in Seq(C \cup E)
  BY <1>1, <1>2
<1>7. /\ fs \in Seq(C \cup E) /\ Len(fs) = n + m
      /\ \A i \in 1 .. n : fs[i] = ds[i]
      /\ \A i \in 1 .. m : fs[n + i] = es[i]
  BY <1>6
<1>8. /\ \A i \in 0 .. n : ct[i] = at[i]
      /\ \A i \in 0 .. m : ct[n + i] = bt[i]
  <2>1. \A i \in 0 .. n : ct[i] = at[i]
    BY <1>5
  <2>2. ASSUME NEW i \in 0 .. m PROVE ct[n + i] = bt[i]
    <3>1. CASE i = 0
      BY <1>3, <1>4, <1>5, <3>1
    <3>2. CASE i # 0
      BY <1>5, <3>2
    <3> QED
      BY <3>1, <3>2
  <2> QED
    BY <2>1, <2>2
<1> HIDE DEF fs, ct
<1>9. ASSUME NEW i \in 1 .. n + m
      PROVE  Does(a, b, ct[i - 1], fs[i], ct[i]) /\ (fs[i] # Bar => i < n + m /\ fs[i + 1] = Bar)
  <2>1. CASE i <= n
    <3>1. i \in 1 .. n /\ i - 1 \in 0 .. n /\ i \in 0 .. n
      BY <1>5, <2>1
    <3>2. Does(a, b, ct[i - 1], fs[i], ct[i])
      BY <1>3, <1>7, <1>8, <3>1
    <3>3. ASSUME fs[i] # Bar PROVE i < n + m /\ fs[i + 1] = Bar
      <4>1. i < n /\ ds[i + 1] = Bar
        BY <1>7, <3>1, <3>3 DEF Derives
      <4>2. i + 1 \in 1 .. n
        BY <1>5, <3>1, <4>1
      <4> QED
        BY <1>5, <1>7, <4>1, <4>2
    <3> QED
      BY <3>2, <3>3
  <2>2. CASE ~(i <= n)
    <3> DEFINE j == i - n
    <3>1. j \in 1 .. m /\ j - 1 \in 0 .. m /\ j \in 0 .. m /\ n + j = i /\ n + (j - 1) = i - 1
      BY <1>5, <2>2
    <3> HIDE DEF j
    <3>2. Does(a, b, ct[i - 1], fs[i], ct[i])
      BY <1>4, <1>7, <1>8, <3>1
    <3>3. ASSUME fs[i] # Bar PROVE i < n + m /\ fs[i + 1] = Bar
      <4>1. j < m /\ es[j + 1] = Bar
        BY <1>7, <3>1, <3>3, Zenon DEF Derives
      <4>2. j + 1 \in 1 .. m /\ n + (j + 1) = i + 1
        BY <1>5, <3>1, <4>1
      <4> QED
        BY <1>5, <1>7, <3>1, <4>1, <4>2, SMTT(30)
    <3> QED
      BY <3>2, <3>3
  <2> QED
    BY <2>1, <2>2
<1>10. ct[0] = F /\ ct[n + m] = H
  <2>1. 0 \in 0 .. n /\ m \in 0 .. m
    BY <1>5
  <2> QED
    BY <1>3, <1>4, <1>8, <2>1
<1>11. Derives(a, b, F, fs, H)
  BY <1>7, <1>9, <1>10 DEF Derives
<1> QED
  BY <1>11 DEF fs

-----------------------------------------------------------------------------
(* Many sequences, flattened *)

LessThan == {nn \in Nat \X Nat : nn[1] < nn[2]}

\* A set of numbers has a least one.
LEMMA LeastOf ==
    ASSUME NEW S \in SUBSET Nat, S # {}
    PROVE  \E x \in S : \A y \in S : x <= y
<1>1. IsWellFoundedOn(LessThan, Nat)
  BY NatLessThanWellFounded, Zenon DEF OpToRel, LessThan
<1>2. PICK x \in S : \A y \in S : ~(<<y, x>> \in LessThan)
  BY <1>1, WFMin, Zenon
<1>3. ASSUME NEW y \in S PROVE x <= y
  <2>1. x \in Nat /\ y \in Nat /\ (<<y, x>> \in LessThan) = (y < x)
    BY DEF LessThan
  <2> QED
    BY <1>2, <2>1
<1> QED
  BY <1>3

\* What holds of 0 and of the next number holds of all.
LEMMA Induction ==
    ASSUME NEW S, 0 \in S, \A k \in Nat : k \in S => k + 1 \in S
    PROVE  Nat \subseteq S
<1> SUFFICES ASSUME Nat \ S # {} PROVE FALSE
  OBVIOUS
<1>1. PICK x \in Nat \ S : \A y \in Nat \ S : x <= y
  <2>1. (Nat \ S) \in SUBSET Nat
    OBVIOUS
  <2> QED
    BY <2>1, LeastOf, Zenon
<1>2. x # 0 /\ x - 1 \in Nat
  BY <1>1
<1> QED
  BY <1>1, <1>2

\* The function FlattenSeq recurs by, up to n.
Flattens(f, seqs, n) == f = [i \in 1 .. n |-> IF i = 1 THEN seqs[i] ELSE f[i - 1] \o seqs[i]]

LEMMA FlattensExists ==
    ASSUME NEW seqs, NEW n \in Nat
    PROVE  \E f : Flattens(f, seqs, n)
<1> DEFINE S == {k \in Nat : \E f : Flattens(f, seqs, k)}
<1>1. 0 \in S
  <2> DEFINE f == [i \in 1 .. 0 |-> <<>>]
  <2>1. f = [i \in 1 .. 0 |-> IF i = 1 THEN seqs[i] ELSE f[i - 1] \o seqs[i]]
    OBVIOUS
  <2> QED
    BY <2>1, Zenon DEF Flattens
<1>2. ASSUME NEW k \in Nat, k \in S PROVE k + 1 \in S
  <2>1. PICK f : Flattens(f, seqs, k)
    BY <1>2
  <2> DEFINE v == IF k = 0 THEN seqs[1] ELSE f[k] \o seqs[k + 1]
             g == [j \in 1 .. k + 1 |-> IF j = k + 1 THEN v ELSE f[j]]
  <2>2. ASSUME NEW j \in 1 .. k + 1
        PROVE  g[j] = IF j = 1 THEN seqs[j] ELSE g[j - 1] \o seqs[j]
    <3>1. CASE j = k + 1
      <4>1. g[j] = v /\ (k = 0 <=> j = 1) /\ j - 1 = k
        BY <3>1
      <4>2. k # 0 => g[j - 1] = f[k]
        BY <4>1
      <4> QED
        BY <3>1, <4>1, <4>2
    <3>2. CASE j # k + 1
      <4>1. j \in 1 .. k /\ g[j] = f[j]
        BY <3>2
      <4>2. f[j] = IF j = 1 THEN seqs[j] ELSE f[j - 1] \o seqs[j]
        BY <2>1, <4>1, Zenon DEF Flattens
      <4>3. j # 1 => g[j - 1] = f[j - 1]
        BY <4>1
      <4> QED
        BY <4>1, <4>2, <4>3
    <3> QED
      BY <3>1, <3>2
  <2>3. Flattens(g, seqs, k + 1)
    <3>1. g = [j \in 1 .. k + 1 |-> g[j]]
      OBVIOUS
    <3> HIDE DEF g
    <3> QED
      BY <2>2, <3>1, Zenon DEF Flattens
  <2> QED
    BY <2>3
<1> HIDE DEF S
<1>3. Nat \subseteq S
  BY <1>1, <1>2, Induction
<1> QED
  BY <1>3 DEF S

LEMMA FlattenIs ==
    ASSUME NEW seqs, NEW n \in Nat \ {0}, Len(seqs) = n
    PROVE  \E f : /\ FlattenSeq(seqs) = f[n] /\ f[1] = seqs[1]
                  /\ \A k \in 2 .. n : f[k] = f[k - 1] \o seqs[k]
<1>1. \E g : Flattens(g, seqs, n)
  BY FlattensExists
<1> DEFINE f == CHOOSE g : Flattens(g, seqs, n)
<1>2. Flattens(f, seqs, n)
  BY <1>1
<1>3. FlattenSeq(seqs) = f[n]
  BY DEF FlattenSeq, Flattens
<1> HIDE DEF f
<1>4. \A k \in 1 .. n : f[k] = IF k = 1 THEN seqs[k] ELSE f[k - 1] \o seqs[k]
  BY <1>2, Zenon DEF Flattens
<1>5. f[1] = seqs[1]
  BY <1>4
<1>6. ASSUME NEW k \in 2 .. n PROVE f[k] = f[k - 1] \o seqs[k]
  <2>1. k \in 1 .. n /\ k # 1
    OBVIOUS
  <2> QED
    BY <1>4, <2>1, Zenon
<1> QED
  BY <1>3, <1>5, <1>6, Zenon

LEMMA DerivesAll ==
    ASSUME NEW a, NEW b, NEW n \in Nat, NEW seqs, seqs = [k \in 1 .. n |-> seqs[k]], NEW at,
           \A k \in 1 .. n : Derives(a, b, at[k - 1], seqs[k], at[k])
    PROVE  Derives(a, b, at[0], FlattenSeq(seqs), at[n])
<1>1. Len(seqs) = n
  OBVIOUS
<1>2. CASE n = 0
  <2>1. FlattenSeq(seqs) = <<>>
    BY <1>1, <1>2 DEF FlattenSeq
  <2> QED
    BY <1>2, <2>1, DerivesNothing
<1>3. CASE n # 0
  <2>0. n \in Nat \ {0}
    BY <1>3
  <2>1. PICK f : /\ FlattenSeq(seqs) = f[n] /\ f[1] = seqs[1]
                 /\ \A k \in 2 .. n : f[k] = f[k - 1] \o seqs[k]
    BY <1>1, <2>0, FlattenIs, Zenon
  <2> DEFINE S == {k \in Nat : k + 1 <= n => Derives(a, b, at[0], f[k + 1], at[k + 1])}
  <2>2. 0 \in S
    <3>1. 1 \in 1 .. n /\ 1 - 1 = 0
      BY <1>3
    <3> QED
      BY <2>1, <3>1
  <2>3. ASSUME NEW k \in Nat, k \in S PROVE k + 1 \in S
    <3> SUFFICES ASSUME k + 2 <= n PROVE Derives(a, b, at[0], f[k + 2], at[k + 2])
      OBVIOUS
    <3>1. Derives(a, b, at[0], f[k + 1], at[k + 1])
      BY <2>3
    <3>2. k + 2 \in 2 .. n /\ k + 2 \in 1 .. n /\ (k + 2) - 1 = k + 1
      OBVIOUS
    <3>3. Derives(a, b, at[k + 1], seqs[k + 2], at[k + 2]) /\ f[k + 2] = f[k + 1] \o seqs[k + 2]
      BY <2>1, <3>2, Zenon
    <3> QED
      BY <3>1, <3>3, DerivesBoth
  <2> HIDE DEF S
  <2>4. Nat \subseteq S
    BY <2>2, <2>3, Induction
  <2>5. n - 1 \in Nat /\ (n - 1) + 1 = n
    BY <1>3
  <2> QED
    BY <2>1, <2>4, <2>5 DEF S
<1> QED
  BY <1>2, <1>3

-----------------------------------------------------------------------------
(* The queue: what is begun and what is finished *)

\* With a barrier behind every dispatch only the first is ever ready.
LEMMA OnlyFirst ==
    ASSUME NEW a, NEW b, NEW F, NEW q, NEW G, Derives(a, b, F, q, G),
           NEW i \in DOMAIN q, \A j \in 1 .. i : q[j] # Bar
    PROVE  i = 1 /\ Len(q) \in Nat /\ Len(q) > 1 /\ q[1] # Bar /\ q[2] = Bar
<1>1. PICK C : q \in Seq(C)
  BY DEF Derives
<1>2. Len(q) \in Nat /\ i \in 1 .. Len(q) /\ 1 \in 1 .. i
  BY <1>1
<1>3. q[1] # Bar /\ 1 < Len(q) /\ q[2] = Bar
  BY <1>2 DEF Derives
<1>4. ~(2 \in 1 .. i)
  BY <1>3
<1> QED
  BY <1>2, <1>3, <1>4

\* A dispatch that reads what the facts say becomes the store of its result.
LEMMA StartFirst ==
    ASSUME NEW a, NEW b, NEW F, NEW q, NEW G, Derives(a, b, F, q, G), NEW m, Sat(m, F),
           Len(q) > 1, q[1] # Bar, ~IsStore(q[1]),
           NEW res, res = Result(q[1], [j \in DOMAIN q[1].ins |-> Read(m, q[1].ins[j])],
                                 CacheOf(F.upto)[q[1].l])
    PROVE  Derives(a, b, F, [q EXCEPT ![1] = res], G)
<1>1. PICK C : q \in Seq(C)
  BY DEF Derives
<1>2. PICK at : /\ at[0] = F /\ at[Len(q)] = G
                /\ \A i \in 1 .. Len(q) : Does(a, b, at[i - 1], q[i], at[i])
  BY DEF Derives
<1>3. Len(q) \in Nat /\ 1 \in 1 .. Len(q)
  BY <1>1
<1>4. Does(a, b, F, q[1], at[1])
  BY <1>2, <1>3
<1>5. PICK vals : Reads(F, q[1], vals)
                  /\ Stores(a, b, F, Result(q[1], vals, CacheOf(F.upto)[q[1].l]), at[1])
  BY <1>4 DEF Does
<1>6. vals = [j \in DOMAIN q[1].ins |-> Read(m, q[1].ins[j])]
  <2>1. ASSUME NEW j \in DOMAIN q[1].ins PROVE vals[j] = Read(m, q[1].ins[j])
    <3> DEFINE f == <<q[1].ins[j], vals[j]>>
    <3>1. f \in F.mem
      BY <1>5 DEF Reads
    <3>2. RegionOK(f[1]) /\ Holds(m, f[1], f[2])
      BY <3>1, Zenon DEF Sat
    <3>3. RegionOK(q[1].ins[j]) /\ Holds(m, q[1].ins[j], vals[j])
      BY <3>2
    <3> QED
      BY <3>3, ReadHeld
  <2>2. vals = [j \in DOMAIN q[1].ins |-> vals[j]]
    BY <1>5 DEF Reads
  <2> QED
    BY <2>1, <2>2, Zenon
<1>7. IsStore(res) /\ res # Bar
  BY DEF Result, IsStore, Bar
<1>8. Does(a, b, F, res, at[1])
  BY <1>5, <1>6, <1>7 DEF Does
<1> DEFINE p == [q EXCEPT ![1] = res]
<1>9. /\ p \in Seq(C \cup {res}) /\ Len(p) = Len(q) /\ p[1] = res
      /\ \A i \in 1 .. Len(q) : i # 1 => p[i] = q[i]
  BY <1>1, <1>3
<1> HIDE DEF p
<1>10. ASSUME NEW i \in 1 .. Len(p)
       PROVE  Does(a, b, at[i - 1], p[i], at[i]) /\ (p[i] # Bar => i < Len(p) /\ p[i + 1] = Bar)
  <2>1. CASE i = 1
    <3>1. 2 \in 1 .. Len(q) /\ q[2] = Bar
      BY <1>3 DEF Derives
    <3>2. p[2] = Bar
      BY <1>9, <3>1
    <3> QED
      BY <1>2, <1>3, <1>8, <1>9, <2>1, <3>2
  <2>2. CASE i # 1
    <3>1. p[i] = q[i] /\ i \in 1 .. Len(q)
      BY <1>9, <2>2
    <3>2. q[i] # Bar => i < Len(q) /\ q[i + 1] = Bar /\ i + 1 \in 1 .. Len(q) /\ i + 1 # 1
      BY <1>3, <3>1 DEF Derives
    <3> QED
      BY <1>2, <1>9, <3>1, <3>2
  <2> QED
    BY <2>1, <2>2
<1> QED
  BY <1>2, <1>9, <1>10 DEF Derives, p

\* When it has been stored its barrier is passed.
LEMMA FinishFirst ==
    ASSUME NEW a, NEW b, NEW F, NEW q, NEW G, Derives(a, b, F, q, G),
           Len(q) > 1, q[1] # Bar, q[2] = Bar, IsStore(q[1])
    PROVE  /\ RemoveAt(q, 1) # <<>> /\ Head(RemoveAt(q, 1)) = Bar
           /\ \E H : Stores(a, b, F, q[1], H) /\ Derives(a, b, H, Tail(RemoveAt(q, 1)), G)
<1>1. PICK C : q \in Seq(C)
  BY DEF Derives
<1>2. PICK at : /\ at[0] = F /\ at[Len(q)] = G
                /\ \A i \in 1 .. Len(q) : Does(a, b, at[i - 1], q[i], at[i])
  BY DEF Derives
<1>3. Len(q) \in Nat /\ 1 \in 1 .. Len(q) /\ 2 \in 1 .. Len(q)
  BY <1>1
<1> DEFINE t == RemoveAt(q, 1)
           r == Tail(t)
<1>4. t \in Seq(C) /\ Len(t) = Len(q) - 1 /\ \A i \in 1 .. Len(q) - 1 : t[i] = q[i + 1]
  <2>1. SubSeq(q, 1, 1 - 1) = <<>>
    OBVIOUS
  <2>2. /\ SubSeq(q, 2, Len(q)) \in Seq(C) /\ Len(SubSeq(q, 2, Len(q))) = Len(q) - 1
        /\ \A i \in 1 .. Len(q) - 1 : SubSeq(q, 2, Len(q))[i] = q[i + 1]
    BY <1>1, <1>3
  <2>3. t = <<>> \o SubSeq(q, 2, Len(q))
    BY <2>1 DEF RemoveAt
  <2>4. t = SubSeq(q, 2, Len(q))
    BY <2>2, <2>3
  <2> QED
    BY <2>2, <2>4, Zenon
<1> HIDE DEF t
<1>5. t # <<>> /\ Head(t) = Bar
  <2>1. t[1] = q[2] /\ Len(t) > 0
    BY <1>3, <1>4
  <2> QED
    BY <1>4, <2>1
<1>6. r \in Seq(C) /\ Len(r) = Len(q) - 2 /\ \A i \in 1 .. Len(q) - 2 : r[i] = q[i + 2]
  <2>1. r \in Seq(C) /\ Len(r) = Len(t) - 1 /\ \A i \in 1 .. Len(t) - 1 : r[i] = t[i + 1]
    BY <1>4, <1>5
  <2>2. ASSUME NEW i \in 1 .. Len(q) - 2 PROVE r[i] = q[i + 2]
    <3>1. i \in 1 .. Len(t) - 1 /\ i + 1 \in 1 .. Len(q) - 1 /\ (i + 1) + 1 = i + 2
      BY <1>3, <1>4
    <3> QED
      BY <1>4, <2>1, <3>1
  <2> QED
    BY <1>3, <1>4, <2>1, <2>2
<1> HIDE DEF r
<1>7. Stores(a, b, F, q[1], at[1])
  <2>1. Does(a, b, F, q[1], at[1])
    BY <1>2, <1>3
  <2> QED
    BY <2>1 DEF Does
<1>8. at[2] = at[1]
  <2>1. Does(a, b, at[1], Bar, at[2])
    BY <1>2, <1>3
  <2> QED
    BY <2>1 DEF Does
<1> DEFINE bt == [i \in 0 .. Len(r) |-> at[i + 2]]
<1>9. \A i \in 0 .. Len(r) : bt[i] = at[i + 2]
  OBVIOUS
<1> HIDE DEF bt
<1>10. bt[0] = at[1] /\ bt[Len(r)] = G
  <2>1. 0 \in 0 .. Len(r) /\ Len(r) \in 0 .. Len(r) /\ Len(r) + 2 = Len(q) /\ 0 + 2 = 2
    BY <1>3, <1>6
  <2> QED
    BY <1>2, <1>8, <1>9, <2>1
<1>11. ASSUME NEW i \in 1 .. Len(r)
       PROVE  Does(a, b, bt[i - 1], r[i], bt[i]) /\ (r[i] # Bar => i < Len(r) /\ r[i + 1] = Bar)
  <2>1. /\ i \in 0 .. Len(r) /\ i - 1 \in 0 .. Len(r) /\ (i - 1) + 2 = (i + 2) - 1
        /\ i + 2 \in 1 .. Len(q) /\ r[i] = q[i + 2]
    BY <1>3, <1>6
  <2>2. Does(a, b, bt[i - 1], r[i], bt[i])
    BY <1>2, <1>9, <2>1
  <2>3. ASSUME r[i] # Bar PROVE i < Len(r) /\ r[i + 1] = Bar
    <3>1. i + 2 < Len(q) /\ q[(i + 2) + 1] = Bar
      BY <2>1, <2>3 DEF Derives
    <3>2. i + 1 \in 1 .. Len(q) - 2 /\ (i + 1) + 2 = (i + 2) + 1
      BY <1>3, <1>6, <3>1
    <3> QED
      BY <1>3, <1>6, <3>1, <3>2
  <2> QED
    BY <2>2, <2>3
<1>12. Derives(a, b, at[1], r, G)
  BY <1>6, <1>10, <1>11 DEF Derives
<1> QED
  BY <1>5, <1>7, <1>12 DEF t, r

\* A stored region: the facts G hold of the memory.
LEMMA StoreSound ==
    ASSUME NEW a, NEW b, NEW F, NEW z, NEW G, NEW m, MemOK(m), Sat(m, F),
           z.k = "store", Stores(a, b, F, z, G)
    PROVE  MemOK(Write(m, z.out, z.val)) /\ Sat(Write(m, z.out, z.val), G) /\ G.upto = F.upto
<1>1. /\ RegionOK(z.out) /\ G.upto = F.upto
      /\ \A g \in G.mem : g = <<z.out, z.val>> \/ (g \in F.mem /\ Apart(g[1], z.out))
  BY DEF Stores
<1>2. MemOK(Write(m, z.out, z.val)) /\ Holds(Write(m, z.out, z.val), z.out, z.val)
  BY <1>1, WriteGives
<1>3. ASSUME NEW g \in G.mem PROVE RegionOK(g[1]) /\ Holds(Write(m, z.out, z.val), g[1], g[2])
  <2>1. CASE g = <<z.out, z.val>>
    <3>1. g[1] = z.out /\ g[2] = z.val
      BY <2>1
    <3> QED
      BY <1>1, <1>2, <3>1
  <2>2. CASE g \in F.mem /\ Apart(g[1], z.out)
    <3>1. RegionOK(g[1]) /\ Holds(m, g[1], g[2])
      BY <2>2 DEF Sat
    <3> QED
      BY <1>1, <2>2, <3>1, WriteKeeps
  <2> QED
    BY <1>1, <2>1, <2>2
<1> QED
  BY <1>1, <1>2, <1>3 DEF Sat

WithRow(k, l, row) == [k EXCEPT ![l] = row]

Filled(k, z) == [p \in Positions |-> IF p \in DOMAIN z.val THEN z.val[p] ELSE k[z.out][p]]

LEMMA WithRowIs ==
    ASSUME NEW u, NEW w, NEW l \in Layers, NEW row, row = CacheOf(w)[l],
           \A i \in Layers : i # l => CacheOf(u)[i] = CacheOf(w)[i]
    PROVE  WithRow(CacheOf(u), l, row) = CacheOf(w)
<1>1. DOMAIN CacheOf(u) = Layers /\ CacheOf(w) = [i \in Layers |-> CacheOf(w)[i]]
  BY DEF CacheOf
<1> DEFINE C == CacheOf(u)
<1>2. DOMAIN C = Layers /\ \A i \in Layers : i # l => C[i] = CacheOf(w)[i]
  BY <1>1
<1> HIDE DEF C
<1>3. WithRow(C, l, row) = [i \in Layers |-> IF i = l THEN row ELSE C[i]]
  BY <1>2, Zenon DEF WithRow
<1>4. WithRow(C, l, row) = CacheOf(w)
  BY <1>1, <1>2, <1>3
<1> QED
  BY <1>4 DEF C

\* Stored entries: the cache goes as far as the facts G say.
LEMMA StoreKVSound ==
    ASSUME NEW a \in Int, NEW b \in Int, a <= b, a .. b \subseteq Positions,
           NEW F, F.upto \in [Layers -> {a, b + 1}], NEW z, NEW G, NEW m, Sat(m, F),
           z.k = "storekv", Stores(a, b, F, z, G)
    PROVE  /\ Sat(m, G) /\ G.upto \in [Layers -> {a, b + 1}]
           /\ WithRow(CacheOf(F.upto), z.out, Filled(CacheOf(F.upto), z)) = CacheOf(G.upto)
<1>1. /\ z.out \in Layers /\ F.upto[z.out] = a
      /\ z.val = [p \in a .. b |-> KVOf(z.out, p)]
      /\ G.mem \subseteq F.mem /\ G.upto = [F.upto EXCEPT ![z.out] = b + 1]
  BY DEF Stores
<1>2. Sat(m, G)
  BY <1>1 DEF Sat
<1>3. G.upto \in [Layers -> {a, b + 1}] /\ G.upto[z.out] = b + 1
      /\ \A l \in Layers : l # z.out => G.upto[l] = F.upto[l]
  BY <1>1
<1> DEFINE C == CacheOf(F.upto)
           row == [p \in Positions |-> IF p \in DOMAIN z.val THEN z.val[p] ELSE C[z.out][p]]
<1>4. row = CacheOf(G.upto)[z.out]
  <2>1. CacheOf(G.upto)[z.out] =
          [p \in Positions |-> IF p < b + 1 THEN KVOf(z.out, p) ELSE NoKV]
    BY <1>1, <1>3 DEF CacheOf
  <2>2. C[z.out] = [p \in Positions |-> IF p < a THEN KVOf(z.out, p) ELSE NoKV]
    BY <1>1 DEF CacheOf
  <2>3. ASSUME NEW p \in Positions
        PROVE  row[p] = IF p < b + 1 THEN KVOf(z.out, p) ELSE NoKV
    <3>0. p \in Int
      BY DEF Positions
    <3>1. CASE p \in a .. b
      BY <1>1, <3>1
    <3>2. CASE p \notin a .. b
      <4>1. row[p] = C[z.out][p]
        BY <1>1, <3>2
      <4>2. (p < a) = (p < b + 1)
        BY <3>0, <3>2
      <4> QED
        BY <2>2, <4>1, <4>2
    <3> QED
      BY <3>1, <3>2
  <2> QED
    BY <2>1, <2>3
<1>5. \A l \in Layers : l # z.out => C[l] = CacheOf(G.upto)[l]
  BY <1>3 DEF CacheOf
<1>6. WithRow(C, z.out, Filled(C, z)) = CacheOf(G.upto)
  <2>1. Filled(C, z) = CacheOf(G.upto)[z.out]
    BY <1>4 DEF Filled
  <2> QED
    <3> DEFINE l == z.out
               u == F.upto
               w == G.upto
               y == Filled(C, z)
    <3>1. l \in Layers /\ y = CacheOf(w)[l]
      BY <1>1, <2>1
    <3>2. \A i \in Layers : i # l => CacheOf(u)[i] = CacheOf(w)[i]
      BY <1>5
    <3> HIDE DEF l, u, w, y
    <3>3. WithRow(CacheOf(u), l, y) = CacheOf(w)
      BY <3>1, <3>2, WithRowIs
    <3> QED
      BY <3>3 DEF l, u, w, y
<1> QED
  BY <1>2, <1>3, <1>6

-----------------------------------------------------------------------------
(* The equations of a layer *)

LEMMA NotStale ==
    ASSUME NEW name, name # "junk", NEW l, NEW S
    PROVE  Q(name, l, S) # Stale /\ Q(name, l, S).block = S
BY DEF Q, Stale

\* A value goes through partial sums or a staged form and comes out as itself.
LEMMA ThereAndBack ==
    ASSUME NEW name, name # "junk", NEW l, NEW S, NEW form
    PROVE  /\ As(Q(name, l, S), form) # Stale
           /\ Was(As(Q(name, l, S), form), form) = Q(name, l, S)
<1>1. As(Q(name, l, S), form) = [name |-> name, layer |-> l, block |-> S, form |-> form]
  BY NotStale DEF As, Q
<1>2. As(Q(name, l, S), form) # Stale
  BY <1>1 DEF Stale, Q
<1> QED
  BY <1>1, <1>2 DEF Was, As, Q

LEMMA OneInput ==
    ASSUME NEW op, NEW from, NEW to, NEW l, NEW S, op # "scale",
           Arch[op].of = <<from>>, Arch[op].is = to
    PROVE  Apply(op, l, <<Q(from, l, S)>>) = Q(to, l, S)
<1> DEFINE vals == <<Q(from, l, S)>>
<1>1. vals[1] = Q(from, l, S) /\ vals[1].block = S
  BY DEF Q
<1>2. Len(Arch[op].of) = 1 /\ Arch[op].of[1] = from
  OBVIOUS
<1> HIDE DEF vals
<1>3. \A i \in 1 .. Len(Arch[op].of) : vals[i] = Q(Arch[op].of[i], l, vals[1].block)
  BY <1>1, <1>2
<1>4. Apply(op, l, vals) = Q(to, l, S)
  BY <1>1, <1>3 DEF Apply
<1> QED
  BY <1>4 DEF vals

LEMMA TwoInputs ==
    ASSUME NEW op, NEW from, NEW with, NEW to, NEW l, NEW S, op # "scale",
           Arch[op].of = <<from, with>>, Arch[op].is = to
    PROVE  Apply(op, l, <<Q(from, l, S), Q(with, l, S)>>) = Q(to, l, S)
<1> DEFINE vals == <<Q(from, l, S), Q(with, l, S)>>
<1>1. vals[1] = Q(from, l, S) /\ vals[1].block = S /\ vals[2] = Q(with, l, S)
  BY DEF Q
<1>2. Len(Arch[op].of) = 2 /\ Arch[op].of[1] = from /\ Arch[op].of[2] = with
  OBVIOUS
<1> HIDE DEF vals
<1>3. \A i \in 1 .. Len(Arch[op].of) : vals[i] = Q(Arch[op].of[i], l, vals[1].block)
  BY <1>1, <1>2
<1>4. Apply(op, l, vals) = Q(to, l, S)
  BY <1>1, <1>3 DEF Apply
<1> QED
  BY <1>4 DEF vals

\* What every operation gives for the inputs the layer defines.
LEMMA Equations ==
    ASSUME NEW l, NEW S
    PROVE  /\ Apply("in", l, <<Q("x", l, S)>>) = Q("n", l, S)
           /\ Apply("q", l, <<Q("n", l, S)>>) = Q("q", l, S)
           /\ Apply("k", l, <<Q("n", l, S)>>) = Q("k", l, S)
           /\ Apply("v", l, <<Q("n", l, S)>>) = Q("v", l, S)
           /\ Apply("o", l, <<Q("a", l, S)>>) = Q("o", l, S)
           /\ Apply("pa", l, <<Q("o", l, S)>>) = Q("t", l, S)
           /\ Apply("addA", l, <<Q("x", l, S), Q("t", l, S)>>) = Q("y", l, S)
           /\ Apply("pf", l, <<Q("y", l, S)>>) = Q("m", l, S)
           /\ Apply("g", l, <<Q("m", l, S)>>) = Q("g", l, S)
           /\ Apply("u", l, <<Q("m", l, S)>>) = Q("u", l, S)
           /\ Apply("gm", l, <<Q("g", l, S), Q("u", l, S)>>) = Q("c", l, S)
           /\ Apply("d", l, <<Q("c", l, S)>>) = Q("d", l, S)
           /\ Apply("of", l, <<Q("d", l, S)>>) = Q("t", l, S)
           /\ Apply("addM", l, <<Q("y", l, S), Q("t", l, S)>>) = Q("z", l, S)
           /\ Apply("scale", l, <<Q("z", l, S)>>) = Q("x", l + 1, S)
           /\ Apply("fin", l, <<Q("x", l, S)>>) = Q("f", l, S)
           /\ Apply("lm", l, <<Q("f", l, S)>>) = Q("logits", l, S)
           /\ Apply("cap", l, <<Q("logits", l, S)>>) = Q("capped", l, S)
<1>1. Apply("in", l, <<Q("x", l, S)>>) = Q("n", l, S)
  BY OneInput, SMTT(30) DEF Arch
<1>2. Apply("q", l, <<Q("n", l, S)>>) = Q("q", l, S)
  BY OneInput, SMTT(30) DEF Arch
<1>3. Apply("k", l, <<Q("n", l, S)>>) = Q("k", l, S)
  BY OneInput, SMTT(30) DEF Arch
<1>4. Apply("v", l, <<Q("n", l, S)>>) = Q("v", l, S)
  BY OneInput, SMTT(30) DEF Arch
<1>5. Apply("o", l, <<Q("a", l, S)>>) = Q("o", l, S)
  BY OneInput, SMTT(30) DEF Arch
<1>6. Apply("pa", l, <<Q("o", l, S)>>) = Q("t", l, S)
  BY OneInput, SMTT(30) DEF Arch
<1>7. Apply("addA", l, <<Q("x", l, S), Q("t", l, S)>>) = Q("y", l, S)
  BY TwoInputs, SMTT(30) DEF Arch
<1>8. Apply("pf", l, <<Q("y", l, S)>>) = Q("m", l, S)
  BY OneInput, SMTT(30) DEF Arch
<1>9. Apply("g", l, <<Q("m", l, S)>>) = Q("g", l, S)
  BY OneInput, SMTT(30) DEF Arch
<1>10. Apply("u", l, <<Q("m", l, S)>>) = Q("u", l, S)
  BY OneInput, SMTT(30) DEF Arch
<1>11. Apply("gm", l, <<Q("g", l, S), Q("u", l, S)>>) = Q("c", l, S)
  BY TwoInputs, SMTT(30) DEF Arch
<1>12. Apply("d", l, <<Q("c", l, S)>>) = Q("d", l, S)
  BY OneInput, SMTT(30) DEF Arch
<1>13. Apply("of", l, <<Q("d", l, S)>>) = Q("t", l, S)
  BY OneInput, SMTT(30) DEF Arch
<1>14. Apply("addM", l, <<Q("y", l, S), Q("t", l, S)>>) = Q("z", l, S)
  BY TwoInputs, SMTT(30) DEF Arch
<1>15. Apply("scale", l, <<Q("z", l, S)>>) = Q("x", l + 1, S)
  <2> DEFINE vals == <<Q("z", l, S)>>
  <2>1. vals[1] = Q("z", l, S) /\ vals[1].block = S
    BY DEF Q
  <2>2. Arch["scale"].of = <<"z">> /\ Arch["scale"].is = "x"
    BY DEF Arch
  <2>3. Len(Arch["scale"].of) = 1 /\ Arch["scale"].of[1] = "z"
    BY <2>2
  <2> HIDE DEF vals
  <2>4. \A i \in 1 .. Len(Arch["scale"].of) : vals[i] = Q(Arch["scale"].of[i], l, vals[1].block)
    BY <2>1, <2>3
  <2>5. Apply("scale", l, vals) = Q("x", l + 1, S)
    BY <2>1, <2>2, <2>4 DEF Apply
  <2> QED
    BY <2>5 DEF vals
<1>16. Apply("fin", l, <<Q("x", l, S)>>) = Q("f", l, S)
  BY OneInput, SMTT(30) DEF Arch
<1>17. Apply("lm", l, <<Q("f", l, S)>>) = Q("logits", l, S)
  BY OneInput, SMTT(30) DEF Arch
<1>18. Apply("cap", l, <<Q("logits", l, S)>>) = Q("capped", l, S)
  BY OneInput, SMTT(30) DEF Arch
<1> QED
  BY <1>1, <1>2, <1>3, <1>4, <1>5, <1>6, <1>7, <1>8, <1>9, <1>10, <1>11, <1>12, <1>13, <1>14,
     <1>15, <1>16, <1>17, <1>18, Zenon

-----------------------------------------------------------------------------
(* Rules, one for each way a value is computed *)

\* The facts G are that out holds val, and what F says of regions that are
\* apart from it and from the scratch used on the way.
Framed(F, G, out, val, scratch) ==
    /\ val # Stale /\ RegionOK(out) /\ G.upto = F.upto
    /\ \A g \in G.mem : \/ g = <<out, val>>
                        \/ g \in F.mem /\ Apart(g[1], out) /\ \A r \in scratch : Apart(g[1], r)

Kernels == {"RMSNORM", "NORM_ADD", "ADD", "SCALE", "GELUMUL", "SOFTCAP", "GEMV", "DIRECT",
            "REDUCE", "CASTDOWN", "CGEMM16", "W8A8", "CASTUP", "ATTN"}

\* A kernel whose inputs are among the facts.
LEMMA KernelDerives ==
    ASSUME NEW a, NEW b, NEW F, NEW G, NEW kernel \in Kernels, NEW op, NEW l, NEW ins, NEW out,
           NEW vals, Reads(F, D(kernel, op, l, ins, out), vals),
           Framed(F, G, out, Stored(D(kernel, op, l, ins, out), vals, CacheOf(F.upto)[l]), {})
    PROVE  Derives(a, b, F, disp(D(kernel, op, l, ins, out)), G)
<1> DEFINE d == D(kernel, op, l, ins, out)
           z == Result(d, vals, CacheOf(F.upto)[d.l])
<1>1. d.k = kernel /\ d.out = out /\ d.l = l
  BY DEF D
<1>2. d.k \notin {"bar", "store", "storekv", "PREP_KV"}
  BY <1>1 DEF Kernels
<1>3. d # Bar /\ ~IsStore(d)
  BY <1>2 DEF Bar, IsStore
<1>4. z.k = "store" /\ z.out = out /\ z.val = Stored(d, vals, CacheOf(F.upto)[l])
  BY <1>1, <1>2 DEF Result
<1> HIDE DEF d, z
<1>5. Stores(a, b, F, z, G)
  BY <1>4 DEF Stores, Framed, d
<1>6. Does(a, b, F, d, G)
  BY <1>3, <1>5 DEF Does, d, z
<1>7. Derives(a, b, F, disp(d), G)
  BY <1>3, <1>6, DerivesOne DEF disp
<1> QED
  BY <1>7 DEF d

LEMMA OneRead ==
    ASSUME NEW F, NEW kernel, NEW op, NEW l, NEW in, NEW out, NEW v, <<in, v>> \in F.mem
    PROVE  \E vals : Reads(F, D(kernel, op, l, <<in>>, out), vals) /\ vals[1] = v
<1> DEFINE ins == <<in>>
           vals == [j \in DOMAIN ins |-> v]
<1>1. DOMAIN ins = {1} /\ ins[1] = in
  OBVIOUS
<1>2. D(kernel, op, l, ins, out).ins = ins
  BY DEF D
<1> HIDE DEF ins
<1>3. vals[1] = v /\ vals = [j \in DOMAIN ins |-> vals[j]]
  BY <1>1
<1> HIDE DEF vals
<1>4. \A j \in DOMAIN ins : <<ins[j], vals[j]>> \in F.mem
  BY <1>1, <1>3
<1>5. Reads(F, D(kernel, op, l, ins, out), vals)
  BY <1>2, <1>3, <1>4 DEF Reads
<1> QED
  BY <1>3, <1>5 DEF ins

LEMMA TwoReads ==
    ASSUME NEW F, NEW kernel, NEW op, NEW l, NEW in, NEW in2, NEW out, NEW v, NEW w,
           <<in, v>> \in F.mem, <<in2, w>> \in F.mem
    PROVE  \E vals : /\ Reads(F, D(kernel, op, l, <<in, in2>>, out), vals)
                     /\ vals[1] = v /\ vals[2] = w
<1> DEFINE ins == <<in, in2>>
           vals == [j \in DOMAIN ins |-> IF j = 1 THEN v ELSE w]
<1>1. DOMAIN ins = {1, 2} /\ ins[1] = in /\ ins[2] = in2
  OBVIOUS
<1>2. D(kernel, op, l, ins, out).ins = ins
  BY DEF D
<1> HIDE DEF ins
<1>3. vals[1] = v /\ vals[2] = w /\ vals = [j \in DOMAIN ins |-> vals[j]]
  BY <1>1
<1> HIDE DEF vals
<1>4. \A j \in DOMAIN ins : <<ins[j], vals[j]>> \in F.mem
  BY <1>1, <1>3
<1>5. Reads(F, D(kernel, op, l, ins, out), vals)
  BY <1>2, <1>3, <1>4 DEF Reads
<1> QED
  BY <1>3, <1>5 DEF ins

LEMMA NormDerives ==
    ASSUME NEW a, NEW b, NEW F, NEW G, NEW w, NEW l, NEW in, NEW out, NEW v,
           <<R(in), v>> \in F.mem, Framed(F, G, R(out), Apply(w, l, <<v>>), {})
    PROVE  Derives(a, b, F, norm(w, l, in, out), G)
<1>1. PICK vals : Reads(F, D("RMSNORM", w, l, <<R(in)>>, R(out)), vals) /\ vals[1] = v
  BY OneRead
<1>2. Stored(D("RMSNORM", w, l, <<R(in)>>, R(out)), vals, CacheOf(F.upto)[l]) = RMSNORM(w, l, vals)
  BY DEF Stored, D
<1>4. RMSNORM(w, l, vals) = Apply(w, l, <<v>>)
  BY <1>1 DEF RMSNORM
<1>3. "RMSNORM" \in Kernels
  BY DEF Kernels
<1> QED
  BY <1>1, <1>2, <1>3, <1>4, KernelDerives DEF norm

\* A split GEMV leaves its partial sums in bp.
LEMMA ChainDerives ==
    ASSUME NEW a, NEW b, NEW F, NEW G, NEW op, NEW l, NEW in, NEW out, NEW v,
           NEW name, name # "junk", NEW S, <<in, v>> \in F.mem,
           Apply(op, l, <<v>>) = Q(name, l, S),
           Framed(F, G, out, Q(name, l, S), {R("bp")})
    PROVE  Derives(a, b, F, chain(op, l, in, out), G)
<1> DEFINE z == Q(name, l, S)
           bp == R("bp")
           H == [mem |-> {g \in F.mem : Apart(g[1], bp)} \cup {<<bp, As(z, "part")>>},
                 upto |-> F.upto]
<1>1. RegionOK(bp)
  BY DEF RegionOK, R, At, AllBuffers, Buffers, Units
<1>2. As(z, "part") # Stale /\ Was(As(z, "part"), "part") = z
  BY ThereAndBack
<1>3. "GEMV" \in Kernels /\ "REDUCE" \in Kernels
  BY DEF Kernels
<1>4. PICK vals : Reads(F, D("GEMV", op, l, <<in>>, bp), vals) /\ vals[1] = v
  BY OneRead
<1>5. Stored(D("GEMV", op, l, <<in>>, bp), vals, CacheOf(F.upto)[l]) = As(z, "part")
  <2>1. Stored(D("GEMV", op, l, <<in>>, bp), vals, CacheOf(F.upto)[l]) = GEMV(op, l, vals)
    BY DEF Stored, D
  <2>2. GEMV(op, l, vals) = As(z, "part")
    BY <1>4 DEF GEMV
  <2> QED
    BY <2>1, <2>2
<1> HIDE DEF bp, z
<1>6. Framed(F, H, bp, As(z, "part"), {})
  BY <1>1, <1>2 DEF Framed
<1>7. Derives(a, b, F, disp(D("GEMV", op, l, <<in>>, bp)), H)
  BY <1>3, <1>4, <1>5, <1>6, KernelDerives
<1>12. <<bp, As(z, "part")>> \in H.mem
  OBVIOUS
<1>10. Framed(H, G, out, z, {})
  BY DEF Framed, z, bp
<1> HIDE DEF H
<1>8. PICK was : Reads(H, D("REDUCE", op, l, <<bp>>, out), was) /\ was[1] = As(z, "part")
  BY <1>12, OneRead
<1>9. Stored(D("REDUCE", op, l, <<bp>>, out), was, CacheOf(H.upto)[l]) = z
  <2>1. Stored(D("REDUCE", op, l, <<bp>>, out), was, CacheOf(H.upto)[l]) = REDUCE(was)
    BY DEF Stored, D
  <2>2. REDUCE(was) = z
    BY <1>2, <1>8 DEF REDUCE
  <2> QED
    BY <2>1, <2>2
<1>11. Derives(a, b, H, disp(D("REDUCE", op, l, <<bp>>, out)), G)
  BY <1>3, <1>8, <1>9, <1>10, KernelDerives
<1> QED
  BY <1>7, <1>11, DerivesBoth DEF chain, bp

LEMMA GemvDerives ==
    ASSUME NEW a, NEW b, NEW F, NEW G, NEW direct, NEW op, NEW l, NEW in, NEW out, NEW v,
           NEW name, name # "junk", NEW S, <<in, v>> \in F.mem,
           Apply(op, l, <<v>>) = Q(name, l, S),
           Framed(F, G, out, Q(name, l, S), {R("bp")})
    PROVE  Derives(a, b, F, gemv(direct, op, l, in, out), G)
<1>1. CASE op \in direct
  <2>1. PICK vals : Reads(F, D("DIRECT", op, l, <<in>>, out), vals) /\ vals[1] = v
    BY OneRead, SMTT(30)
  <2>2. Stored(D("DIRECT", op, l, <<in>>, out), vals, CacheOf(F.upto)[l]) = Q(name, l, S)
    <3>1. Stored(D("DIRECT", op, l, <<in>>, out), vals, CacheOf(F.upto)[l]) = DIRECT(op, l, vals)
      BY DEF Stored, D
    <3>2. DIRECT(op, l, vals) = Q(name, l, S)
      BY <2>1 DEF DIRECT
    <3> QED
      BY <3>1, <3>2
  <2>3. Framed(F, G, out, Q(name, l, S), {})
    BY DEF Framed
  <2>4. "DIRECT" \in Kernels
    BY DEF Kernels
  <2>5. Derives(a, b, F, disp(D("DIRECT", op, l, <<in>>, out)), G)
    BY <2>1, <2>2, <2>3, <2>4, KernelDerives
  <2> QED
    BY <1>1, <2>5 DEF gemv
<1>2. CASE op \notin direct
  <2>1. Derives(a, b, F, chain(op, l, in, out), G)
    BY ChainDerives
  <2> QED
    BY <1>2, <2>1 DEF gemv, chain
<1> QED
  BY <1>1, <1>2

\* A staged GEMM leaves its input in staged and its result in Yf16.
LEMMA GmmDerives ==
    ASSUME NEW a, NEW b, NEW F, NEW G, NEW i8, NEW op, NEW l, NEW in, NEW out,
           NEW from, from # "junk", NEW name, name # "junk", NEW S,
           <<in, Q(from, l, S)>> \in F.mem,
           Apply(op, l, <<Q(from, l, S)>>) = Q(name, l, S),
           Framed(F, G, out, Q(name, l, S), {R("staged"), R("Yf16")})
    PROVE  Derives(a, b, F, gmm(i8, op, l, in, out), G)
<1> DEFINE v == Q(from, l, S)
           z == Q(name, l, S)
           form == IF i8 THEN "i8" ELSE "f16"
           kernel == IF i8 THEN "W8A8" ELSE "CGEMM16"
           st == R("staged")
           yf == R("Yf16")
           H1 == [mem |-> {g \in F.mem : Apart(g[1], st)} \cup {<<st, As(v, form)>>},
                  upto |-> F.upto]
           H2 == [mem |-> {g \in H1.mem : Apart(g[1], yf)} \cup {<<yf, As(z, "f16")>>},
                  upto |-> F.upto]
<1>1. RegionOK(st) /\ RegionOK(yf)
  BY DEF RegionOK, R, At, AllBuffers, Buffers, Units
<1>2. /\ As(v, form) # Stale /\ Was(As(v, form), form) = v
      /\ As(z, "f16") # Stale /\ Was(As(z, "f16"), "f16") = z
  BY ThereAndBack
<1>3. kernel \in Kernels /\ "CASTDOWN" \in Kernels /\ "CASTUP" \in Kernels
  BY DEF Kernels
<1>4. ASSUME NEW kv, NEW vals, vals[1] = As(v, form)
      PROVE  Stored(D(kernel, op, l, <<st>>, yf), vals, kv) = As(z, "f16")
  <2>1. Stored(D(kernel, op, l, <<st>>, yf), vals, kv) = COOPGEMM(op, l, form, vals)
    <3>1. CASE i8
      <4>1. kernel = "W8A8" /\ form = "i8"
        BY <3>1
      <4> HIDE DEF kernel, form
      <4> QED
        BY <4>1 DEF Stored, D
    <3>2. CASE ~i8
      <4>1. kernel = "CGEMM16" /\ form = "f16"
        BY <3>2
      <4> HIDE DEF kernel, form
      <4> QED
        BY <4>1 DEF Stored, D
    <3> QED
      BY <3>1, <3>2
  <2>2. COOPGEMM(op, l, form, vals) = As(z, "f16")
    BY <1>2, <1>4 DEF COOPGEMM
  <2> QED
    BY <2>1, <2>2
<1>5. Framed(F, H1, st, As(v, form), {})
  BY <1>1, <1>2 DEF Framed
<1>6. Framed(H1, H2, yf, As(z, "f16"), {})
  BY <1>1, <1>2 DEF Framed
<1>7. Framed(H2, G, out, z, {})
  BY DEF Framed
<1>8. <<st, As(v, form)>> \in H1.mem /\ <<yf, As(z, "f16")>> \in H2.mem
  OBVIOUS
<1> HIDE DEF v, z, form, kernel, st, yf, H1, H2
<1>9. Derives(a, b, F, disp(D("CASTDOWN", form, l, <<in>>, st)), H1)
  <2>1. PICK vals : Reads(F, D("CASTDOWN", form, l, <<in>>, st), vals) /\ vals[1] = v
    BY OneRead DEF v
  <2>2. Stored(D("CASTDOWN", form, l, <<in>>, st), vals, CacheOf(F.upto)[l]) = CASTDOWN(form, vals)
    BY DEF Stored, D
  <2>3. CASTDOWN(form, vals) = As(v, form)
    BY <2>1 DEF CASTDOWN
  <2> QED
    BY <1>3, <1>5, <2>1, <2>2, <2>3, KernelDerives
<1>10. Derives(a, b, H1, disp(D(kernel, op, l, <<st>>, yf)), H2)
  <2>1. PICK vals : Reads(H1, D(kernel, op, l, <<st>>, yf), vals) /\ vals[1] = As(v, form)
    BY <1>8, OneRead, SMTT(30)
  <2>2. Stored(D(kernel, op, l, <<st>>, yf), vals, CacheOf(H1.upto)[l]) = As(z, "f16")
    BY <1>4, <2>1
  <2> QED
    BY <1>3, <1>6, <2>1, <2>2, KernelDerives
<1>11. Derives(a, b, H2, disp(D("CASTUP", op, l, <<yf>>, out)), G)
  <2>1. PICK vals : Reads(H2, D("CASTUP", op, l, <<yf>>, out), vals) /\ vals[1] = As(z, "f16")
    BY <1>8, OneRead
  <2>2. Stored(D("CASTUP", op, l, <<yf>>, out), vals, CacheOf(H2.upto)[l]) = CASTUP(vals)
    BY DEF Stored, D
  <2>3. CASTUP(vals) = z
    BY <1>2, <2>1 DEF CASTUP
  <2> QED
    BY <1>3, <1>7, <2>1, <2>2, <2>3, KernelDerives
<1>12. Derives(a, b, F, disp(D("CASTDOWN", form, l, <<in>>, st))
                        \o disp(D(kernel, op, l, <<st>>, yf)), H2)
  BY <1>9, <1>10, DerivesBoth
<1>13. Derives(a, b, F, disp(D("CASTDOWN", form, l, <<in>>, st))
                        \o disp(D(kernel, op, l, <<st>>, yf))
                        \o disp(D("CASTUP", op, l, <<yf>>, out)), G)
  BY <1>11, <1>12, DerivesBoth
<1> QED
  BY <1>13, Zenon DEF gmm, form, kernel, st, yf

LEMMA GeluDerives ==
    ASSUME NEW a, NEW b, NEW F, NEW G, NEW l, NEW in, NEW in2, NEW out, NEW S,
           <<in, Q("g", l, S)>> \in F.mem, <<in2, Q("u", l, S)>> \in F.mem,
           Framed(F, G, out, Q("c", l, S), {})
    PROVE  Derives(a, b, F, disp(D("GELUMUL", "gm", l, <<in, in2>>, out)), G)
<1> DEFINE d == D("GELUMUL", "gm", l, <<in, in2>>, out)
<1>1. PICK vals : Reads(F, d, vals) /\ vals[1] = Q("g", l, S) /\ vals[2] = Q("u", l, S)
  BY TwoReads
<1>2. Stored(d, vals, CacheOf(F.upto)[l]) = GELUMUL(l, vals)
  BY DEF Stored, D
<1>3. GELUMUL(l, vals) = Q("c", l, S)
  BY <1>1, Equations, ZenonT(30) DEF GELUMUL
<1>4. "GELUMUL" \in Kernels
  BY DEF Kernels
<1> QED
  BY <1>1, <1>2, <1>3, <1>4, KernelDerives

LEMMA AddDerives ==
    ASSUME NEW a, NEW b, NEW F, NEW G, NEW op, NEW l, NEW in, NEW in2, NEW out, NEW v, NEW w,
           <<in, v>> \in F.mem, <<in2, w>> \in F.mem,
           Framed(F, G, out, Apply(op, l, <<v, w>>), {})
    PROVE  Derives(a, b, F, disp(D("ADD", op, l, <<in, in2>>, out)), G)
<1> DEFINE d == D("ADD", op, l, <<in, in2>>, out)
<1>1. PICK vals : Reads(F, d, vals) /\ vals[1] = v /\ vals[2] = w
  BY TwoReads
<1>2. Stored(d, vals, CacheOf(F.upto)[l]) = ADD(op, l, vals)
  BY DEF Stored, D
<1>3. ADD(op, l, vals) = Apply(op, l, <<v, w>>)
  BY <1>1 DEF ADD
<1>4. "ADD" \in Kernels
  BY DEF Kernels
<1> QED
  BY <1>1, <1>2, <1>3, <1>4, KernelDerives

LEMMA ScaleDerives ==
    ASSUME NEW a, NEW b, NEW F, NEW G, NEW op, NEW l, NEW in, NEW out, NEW S,
           <<in, Q("z", l, S)>> \in F.mem, Framed(F, G, out, Q("x", l + 1, S), {})
    PROVE  Derives(a, b, F, disp(D("SCALE", op, l, <<in>>, out)), G)
<1> DEFINE d == D("SCALE", op, l, <<in>>, out)
<1>1. PICK vals : Reads(F, d, vals) /\ vals[1] = Q("z", l, S)
  BY OneRead
<1>2. Stored(d, vals, CacheOf(F.upto)[l]) = SCALE(l, vals)
  BY DEF Stored, D
<1>3. SCALE(l, vals) = Q("x", l + 1, S)
  BY <1>1, Equations, ZenonT(30) DEF SCALE
<1>4. "SCALE" \in Kernels
  BY DEF Kernels
<1> QED
  BY <1>1, <1>2, <1>3, <1>4, KernelDerives

LEMMA SoftcapDerives ==
    ASSUME NEW a, NEW b, NEW F, NEW G, NEW op, NEW l, NEW in, NEW out, NEW S,
           <<in, Q("logits", l, S)>> \in F.mem, Framed(F, G, out, Q("capped", l, S), {})
    PROVE  Derives(a, b, F, disp(D("SOFTCAP", op, l, <<in>>, out)), G)
<1> DEFINE d == D("SOFTCAP", op, l, <<in>>, out)
<1>1. PICK vals : Reads(F, d, vals) /\ vals[1] = Q("logits", l, S)
  BY OneRead, SMTT(30)
<1>2. Stored(d, vals, CacheOf(F.upto)[l]) = SOFTCAP(l, vals)
  BY DEF Stored, D
<1>3. SOFTCAP(l, vals) = Q("capped", l, S)
  BY <1>1, Equations, ZenonT(30) DEF SOFTCAP
<1>4. "SOFTCAP" \in Kernels
  BY DEF Kernels
<1> QED
  BY <1>1, <1>2, <1>3, <1>4, KernelDerives

\* The fused norm and residual add after the attention ...
LEMMA AttnAddDerives ==
    ASSUME NEW a, NEW b, NEW F, NEW G, NEW l, NEW in, NEW h, NEW S,
           <<R(in), Q("o", l, S)>> \in F.mem, <<R(h), Q("x", l, S)>> \in F.mem,
           Framed(F, G, R(h), Q("y", l, S), {})
    PROVE  Derives(a, b, F, normadd("pa", l, in, h), G)
<1> DEFINE d == D("NORM_ADD", "pa", l, <<R(in), R(h)>>, R(h))
<1>1. PICK vals : Reads(F, d, vals) /\ vals[1] = Q("o", l, S) /\ vals[2] = Q("x", l, S)
  BY TwoReads
<1>2. Stored(d, vals, CacheOf(F.upto)[l]) = NORM_ADD("pa", l, vals)
  BY DEF Stored, D
<1>3. NORM_ADD("pa", l, vals) = Q("y", l, S)
  <2>1. RMSNORM("pa", l, vals) = Q("t", l, S)
    BY <1>1, Equations, ZenonT(30) DEF RMSNORM
  <2>2. ADD("addA", l, <<Q("x", l, S), Q("t", l, S)>>) = Q("y", l, S)
    BY Equations, Zenon DEF ADD
  <2> QED
    BY <1>1, <2>1, <2>2 DEF NORM_ADD
<1>4. "NORM_ADD" \in Kernels
  BY DEF Kernels
<1> QED
  BY <1>1, <1>2, <1>3, <1>4, KernelDerives DEF normadd

\* ... and after the MLP, scaled.
LEMMA MlpAddDerives ==
    ASSUME NEW a, NEW b, NEW F, NEW G, NEW l, NEW in, NEW h, NEW S,
           <<R(in), Q("d", l, S)>> \in F.mem, <<R(h), Q("y", l, S)>> \in F.mem,
           Framed(F, G, R(h), Q("x", l + 1, S), {})
    PROVE  Derives(a, b, F, normadd("of", l, in, h), G)
<1> DEFINE d == D("NORM_ADD", "of", l, <<R(in), R(h)>>, R(h))
<1>1. PICK vals : Reads(F, d, vals) /\ vals[1] = Q("d", l, S) /\ vals[2] = Q("y", l, S)
  BY TwoReads
<1>2. Stored(d, vals, CacheOf(F.upto)[l]) = NORM_ADD("of", l, vals)
  BY DEF Stored, D
<1>3. NORM_ADD("of", l, vals) = Q("x", l + 1, S)
  <2>1. RMSNORM("of", l, vals) = Q("t", l, S)
    BY <1>1, Equations, ZenonT(30) DEF RMSNORM
  <2>2. ADD("addM", l, <<Q("y", l, S), Q("t", l, S)>>) = Q("z", l, S)
    BY Equations, Zenon DEF ADD
  <2>3. SCALE(l, <<Q("z", l, S)>>) = Q("x", l + 1, S)
    BY Equations, Zenon DEF SCALE
  <2> QED
    BY <1>1, <2>1, <2>2, <2>3 DEF NORM_ADD
<1>4. "NORM_ADD" \in Kernels
  BY DEF Kernels
<1> QED
  BY <1>1, <1>2, <1>3, <1>4, KernelDerives DEF normadd

\* The block of positions a .. b the host is at lies in the context.
InContext(a, b) == a \in Nat /\ b \in Nat /\ a <= b /\ a .. b \subseteq Positions

\* K and V of the block are new to the layer's cache, and go into it.
LEMMA PrepDerives ==
    ASSUME NEW a, NEW b, NEW F, NEW G, NEW l \in Layers, NEW kr, NEW vr, NEW dr, NEW rr,
           F.upto[l] = a, G.mem \subseteq F.mem, G.upto = [F.upto EXCEPT ![l] = b + 1],
           <<kr, Q("k", l, a .. b)>> \in F.mem,
           <<vr, Q(IF KEqV(l) THEN "k" ELSE "v", l, a .. b)>> \in F.mem,
           <<dr, Q("dyn", 0, a .. b)>> \in F.mem, <<rr, Q("rope", 0, a .. b)>> \in F.mem
    PROVE  Derives(a, b, F, disp(D("PREP_KV", "kv", l, <<kr, vr, dr, rr>>, l)), G)
<1> DEFINE S == a .. b
           ins == <<kr, vr, dr, rr>>
           d == D("PREP_KV", "kv", l, ins, l)
           vk == Q("k", l, S)
           vv == Q(IF KEqV(l) THEN "k" ELSE "v", l, S)
           vd == Q("dyn", 0, S)
           ve == Q("rope", 0, S)
           vals == [j \in DOMAIN ins |-> IF j = 1 THEN vk ELSE IF j = 2 THEN vv
                                         ELSE IF j = 3 THEN vd ELSE ve]
<1>1. DOMAIN ins = {1, 2, 3, 4} /\ ins[1] = kr /\ ins[2] = vr /\ ins[3] = dr /\ ins[4] = rr
  OBVIOUS
<1>2. d.ins = ins /\ d.k = "PREP_KV" /\ d.l = l
  BY DEF D
<1>3. <<kr, vk>> \in F.mem /\ <<vr, vv>> \in F.mem /\ <<dr, vd>> \in F.mem /\ <<rr, ve>> \in F.mem
  OBVIOUS
<1>4. vd.block = S
  BY DEF Q
<1> HIDE DEF ins, d, vk, vv, vd, ve
<1>5. /\ vals[1] = vk /\ vals[2] = vv /\ vals[3] = vd /\ vals[4] = ve
      /\ vals = [j \in DOMAIN ins |-> vals[j]]
  BY <1>1
<1> HIDE DEF vals
<1>6. \A j \in DOMAIN ins : <<ins[j], vals[j]>> \in F.mem
  BY <1>1, <1>3, <1>5
<1>7. Reads(F, d, vals)
  BY <1>2, <1>5, <1>6 DEF Reads
<1>8. PREP_KV(l, vals) = [p \in S |-> KVOf(l, p)]
  <2>1. PREP_KV(l, vals) = [p \in S |-> [k |-> Q("K", l, {p}), v |-> Q("V", l, {p})]]
    BY <1>4, <1>5 DEF PREP_KV, vk, vv, vd, ve
  <2> QED
    BY <2>1 DEF KVOf
<1>9. d # Bar /\ ~IsStore(d)
  BY <1>2 DEF Bar, IsStore
<1> DEFINE z == Result(d, vals, CacheOf(F.upto)[d.l])
<1>10. z.k = "storekv" /\ z.out = l /\ z.val = [p \in S |-> KVOf(l, p)]
  BY <1>2, <1>8 DEF Result
<1> HIDE DEF z
<1>11. Stores(a, b, F, z, G)
  BY <1>10 DEF Stores
<1>12. Does(a, b, F, d, G)
  BY <1>7, <1>9, <1>11 DEF Does, z
<1>13. Derives(a, b, F, disp(d), G)
  BY <1>9, <1>12, DerivesOne DEF disp
<1> QED
  BY <1>13 DEF d, ins

\* With them every position up to its own is there to attend to.
LEMMA AttnIs ==
    ASSUME NEW a, NEW b, InContext(a, b), NEW l \in Layers, NEW u, u[l] = b + 1, NEW vals,
           vals[1] = Q("q", l, a .. b), vals[2] = Q("dyn", 0, a .. b),
           vals[3] = Q("rope", 0, a .. b)
    PROVE  ATTN(l, vals, CacheOf(u)[l]) = Q("a", l, a .. b)
<1> DEFINE S == a .. b
           kv == CacheOf(u)[l]
<1>1. vals[2].block = S
  BY DEF Q
<1>2. kv = [p \in Positions |-> IF p < b + 1 THEN KVOf(l, p) ELSE NoKV]
  BY DEF CacheOf
<1>3. ASSUME NEW p \in S, NEW j \in 0 .. p PROVE kv[j] = KVOf(l, j)
  <2>1. p \in Positions /\ p \in Nat /\ p < b + 1
    BY DEF InContext
  <2>2. NPositions \in Int
    BY TokenGraphAssumption DEF NPositions
  <2>3. j \in Positions /\ j < b + 1
    BY <2>1, <2>2 DEF Positions, InContext
  <2> QED
    BY <1>2, <2>3
<1> HIDE DEF kv
<1> QED
  BY <1>1, <1>3, Zenon DEF ATTN, kv

LEMMA AttnDerives ==
    ASSUME NEW a, NEW b, InContext(a, b), NEW F, NEW G, NEW l \in Layers,
           NEW qr, NEW dr, NEW rr, NEW out,
           F.upto[l] = b + 1, <<qr, Q("q", l, a .. b)>> \in F.mem,
           <<dr, Q("dyn", 0, a .. b)>> \in F.mem, <<rr, Q("rope", 0, a .. b)>> \in F.mem,
           Framed(F, G, out, Q("a", l, a .. b), {})
    PROVE  Derives(a, b, F, disp(D("ATTN", "a", l, <<qr, dr, rr>>, out)), G)
<1> DEFINE S == a .. b
           ins == <<qr, dr, rr>>
           d == D("ATTN", "a", l, ins, out)
           vq == Q("q", l, S)
           vd == Q("dyn", 0, S)
           ve == Q("rope", 0, S)
           vals == [j \in DOMAIN ins |-> IF j = 1 THEN vq ELSE IF j = 2 THEN vd ELSE ve]
<1>1. DOMAIN ins = {1, 2, 3} /\ ins[1] = qr /\ ins[2] = dr /\ ins[3] = rr
  OBVIOUS
<1>2. d.ins = ins
  BY DEF D
<1>3. <<qr, vq>> \in F.mem /\ <<dr, vd>> \in F.mem /\ <<rr, ve>> \in F.mem
  OBVIOUS
<1> HIDE DEF ins, d, vq, vd, ve
<1>5. /\ vals[1] = vq /\ vals[2] = vd /\ vals[3] = ve
      /\ vals = [j \in DOMAIN ins |-> vals[j]]
  BY <1>1
<1> HIDE DEF vals
<1>6. \A j \in DOMAIN ins : <<ins[j], vals[j]>> \in F.mem
  BY <1>1, <1>3, <1>5
<1>7. Reads(F, d, vals)
  BY <1>2, <1>5, <1>6 DEF Reads
<1>8. Stored(d, vals, CacheOf(F.upto)[l]) = ATTN(l, vals, CacheOf(F.upto)[l])
  BY DEF Stored, D, d
<1>9. ATTN(l, vals, CacheOf(F.upto)[l]) = Q("a", l, S)
  BY <1>5, AttnIs DEF vq, vd, ve
<1>10. "ATTN" \in Kernels
  BY DEF Kernels
<1>11. Derives(a, b, F, disp(d), G)
  BY <1>7, <1>8, <1>9, <1>10, KernelDerives DEF d
<1> QED
  BY <1>11 DEF d, ins

-----------------------------------------------------------------------------
(* From one layer's input to the next *)

Facts(m, u) == [mem |-> m, upto |-> u]

Clear(m, r) == \A g \in m : Apart(g[1], r)

\* The regions of q, k and v in the qkv buffer.
QOf(l) == At("qkv", 0, NQ(l))
VOf(l) == IF KEqV(l) THEN K(l) ELSE V(l)
VName(l) == IF KEqV(l) THEN "k" ELSE "v"

LEMMA RegionsAre ==
    ASSUME NEW l
    PROVE  /\ \A b \in Buffers : RegionOK(R(b))
           /\ RegionOK(QOf(l)) /\ RegionOK(K(l)) /\ RegionOK(V(l))
           /\ Apart(QOf(l), K(l)) /\ Apart(QOf(l), V(l)) /\ Apart(K(l), V(l))
           /\ \A b, c : b # c => Apart(R(b), R(c))
           /\ \A b \in Buffers : /\ Apart(R(b), QOf(l)) /\ Apart(R(b), K(l)) /\ Apart(R(b), V(l))
                                 /\ Apart(QOf(l), R(b)) /\ Apart(K(l), R(b)) /\ Apart(V(l), R(b))
<1>1. \A b \in Buffers : b # "qkv"
  BY DEF Buffers
<1>2. \A b \in Buffers : RegionOK(R(b))
  BY <1>1 DEF RegionOK, R, At, Units, AllBuffers
<1>3. RegionOK(QOf(l)) /\ RegionOK(K(l)) /\ RegionOK(V(l))
  BY DEF RegionOK, QOf, K, V, At, Units, QkvUnits, AllBuffers, NQ, NK
<1>4. Apart(QOf(l), K(l)) /\ Apart(QOf(l), V(l)) /\ Apart(K(l), V(l))
  BY DEF Apart, QOf, K, V, At, NQ, NK
<1>5. \A b, c : b # c => Apart(R(b), R(c))
  BY DEF Apart, R, At
<1>6. \A b \in Buffers : /\ Apart(R(b), QOf(l)) /\ Apart(R(b), K(l)) /\ Apart(R(b), V(l))
                         /\ Apart(QOf(l), R(b)) /\ Apart(K(l), R(b)) /\ Apart(V(l), R(b))
  BY <1>1 DEF Apart, R, QOf, K, V, At
<1> QED
  BY <1>2, <1>3, <1>4, <1>5, <1>6, Zenon

\* The facts after a write are those kept, all apart from it, and its value.
LEMMA NextFacts ==
    ASSUME NEW m, NEW kept, NEW u, NEW out, NEW val, NEW scratch, val # Stale, RegionOK(out),
           kept \subseteq m, Clear(kept, out), \A r \in scratch : Clear(kept, r)
    PROVE  Framed(Facts(m, u), Facts(kept \cup {<<out, val>>}, u), out, val, scratch)
BY DEF Framed, Facts, Clear

\* The rules once more, from facts to facts.
LEMMA NormStep ==
    ASSUME NEW a, NEW b, NEW m, NEW kept, NEW u, NEW w, NEW l, NEW in, NEW out \in Buffers,
           NEW v, NEW name, name # "junk", NEW S, <<R(in), v>> \in m, kept \subseteq m,
           Apply(w, l, <<v>>) = Q(name, l, S), Clear(kept, R(out))
    PROVE  Derives(a, b, Facts(m, u), norm(w, l, in, out),
                   Facts(kept \cup {<<R(out), Q(name, l, S)>>}, u))
<1>1. Framed(Facts(m, u), Facts(kept \cup {<<R(out), Q(name, l, S)>>}, u), R(out),
             Q(name, l, S), {})
  BY NotStale, RegionsAre, NextFacts
<1>2. <<R(in), v>> \in Facts(m, u).mem
  BY DEF Facts
<1> QED
  BY <1>1, <1>2, NormDerives

LEMMA GemvStep ==
    ASSUME NEW a, NEW b, NEW m, NEW kept, NEW u, NEW direct, NEW op, NEW l, NEW in, NEW out,
           NEW v, NEW name, name # "junk", NEW S, <<in, v>> \in m, kept \subseteq m,
           RegionOK(out), Apply(op, l, <<v>>) = Q(name, l, S), Clear(kept, out),
           Clear(kept, R("bp"))
    PROVE  Derives(a, b, Facts(m, u), gemv(direct, op, l, in, out),
                   Facts(kept \cup {<<out, Q(name, l, S)>>}, u))
<1>1. Framed(Facts(m, u), Facts(kept \cup {<<out, Q(name, l, S)>>}, u), out,
             Q(name, l, S), {R("bp")})
  BY NotStale, NextFacts
<1>2. <<in, v>> \in Facts(m, u).mem
  BY DEF Facts
<1> QED
  BY <1>1, <1>2, GemvDerives

LEMMA GmmStep ==
    ASSUME NEW a, NEW b, NEW m, NEW kept, NEW u, NEW i8, NEW op, NEW l, NEW in, NEW out,
           NEW from, from # "junk", NEW name, name # "junk", NEW S,
           <<in, Q(from, l, S)>> \in m, kept \subseteq m, RegionOK(out),
           Apply(op, l, <<Q(from, l, S)>>) = Q(name, l, S), Clear(kept, out),
           Clear(kept, R("staged")), Clear(kept, R("Yf16"))
    PROVE  Derives(a, b, Facts(m, u), gmm(i8, op, l, in, out),
                   Facts(kept \cup {<<out, Q(name, l, S)>>}, u))
<1>1. Framed(Facts(m, u), Facts(kept \cup {<<out, Q(name, l, S)>>}, u), out,
             Q(name, l, S), {R("staged"), R("Yf16")})
  BY NotStale, NextFacts
<1>2. <<in, Q(from, l, S)>> \in Facts(m, u).mem
  BY DEF Facts
<1> QED
  BY <1>1, <1>2, GmmDerives

LEMMA GeluStep ==
    ASSUME NEW a, NEW b, NEW m, NEW kept, NEW u, NEW l, NEW in, NEW in2, NEW out, NEW S,
           <<in, Q("g", l, S)>> \in m, <<in2, Q("u", l, S)>> \in m, kept \subseteq m,
           RegionOK(out), Clear(kept, out)
    PROVE  Derives(a, b, Facts(m, u), disp(D("GELUMUL", "gm", l, <<in, in2>>, out)),
                   Facts(kept \cup {<<out, Q("c", l, S)>>}, u))
<1>1. Framed(Facts(m, u), Facts(kept \cup {<<out, Q("c", l, S)>>}, u), out, Q("c", l, S), {})
  BY NotStale, NextFacts
<1>2. <<in, Q("g", l, S)>> \in Facts(m, u).mem /\ <<in2, Q("u", l, S)>> \in Facts(m, u).mem
  BY DEF Facts
<1> QED
  BY <1>1, <1>2, GeluDerives, Zenon

LEMMA AddStep ==
    ASSUME NEW a, NEW b, NEW m, NEW kept, NEW u, NEW op, NEW l, NEW in, NEW in2, NEW out,
           NEW v, NEW w, NEW name, name # "junk", NEW S,
           <<in, v>> \in m, <<in2, w>> \in m, kept \subseteq m, RegionOK(out),
           Apply(op, l, <<v, w>>) = Q(name, l, S), Clear(kept, out)
    PROVE  Derives(a, b, Facts(m, u), disp(D("ADD", op, l, <<in, in2>>, out)),
                   Facts(kept \cup {<<out, Q(name, l, S)>>}, u))
<1>1. Framed(Facts(m, u), Facts(kept \cup {<<out, Q(name, l, S)>>}, u), out, Q(name, l, S), {})
  BY NotStale, NextFacts
<1>2. <<in, v>> \in Facts(m, u).mem /\ <<in2, w>> \in Facts(m, u).mem
  BY DEF Facts
<1> QED
  BY <1>1, <1>2, AddDerives, Zenon

LEMMA ScaleStep ==
    ASSUME NEW a, NEW b, NEW m, NEW kept, NEW u, NEW op, NEW l, NEW in, NEW out, NEW S,
           <<in, Q("z", l, S)>> \in m, kept \subseteq m, RegionOK(out), Clear(kept, out)
    PROVE  Derives(a, b, Facts(m, u), disp(D("SCALE", op, l, <<in>>, out)),
                   Facts(kept \cup {<<out, Q("x", l + 1, S)>>}, u))
<1>1. Framed(Facts(m, u), Facts(kept \cup {<<out, Q("x", l + 1, S)>>}, u), out,
             Q("x", l + 1, S), {})
  BY NotStale, NextFacts
<1>2. <<in, Q("z", l, S)>> \in Facts(m, u).mem
  BY DEF Facts
<1> QED
  BY <1>1, <1>2, ScaleDerives, Zenon

LEMMA SoftcapStep ==
    ASSUME NEW a, NEW b, NEW m, NEW kept, NEW u, NEW op, NEW l, NEW in, NEW out, NEW S,
           <<in, Q("logits", l, S)>> \in m, kept \subseteq m, RegionOK(out), Clear(kept, out)
    PROVE  Derives(a, b, Facts(m, u), disp(D("SOFTCAP", op, l, <<in>>, out)),
                   Facts(kept \cup {<<out, Q("capped", l, S)>>}, u))
<1>1. Framed(Facts(m, u), Facts(kept \cup {<<out, Q("capped", l, S)>>}, u), out,
             Q("capped", l, S), {})
  BY NotStale, NextFacts
<1>2. <<in, Q("logits", l, S)>> \in Facts(m, u).mem
  BY DEF Facts
<1> QED
  BY <1>1, <1>2, SoftcapDerives

LEMMA AttnAddStep ==
    ASSUME NEW a, NEW b, NEW m, NEW kept, NEW u, NEW l, NEW in, NEW h \in Buffers, NEW S,
           <<R(in), Q("o", l, S)>> \in m, <<R(h), Q("x", l, S)>> \in m, kept \subseteq m,
           Clear(kept, R(h))
    PROVE  Derives(a, b, Facts(m, u), normadd("pa", l, in, h),
                   Facts(kept \cup {<<R(h), Q("y", l, S)>>}, u))
<1>1. Framed(Facts(m, u), Facts(kept \cup {<<R(h), Q("y", l, S)>>}, u), R(h), Q("y", l, S), {})
  BY NotStale, RegionsAre, NextFacts
<1>2. <<R(in), Q("o", l, S)>> \in Facts(m, u).mem /\ <<R(h), Q("x", l, S)>> \in Facts(m, u).mem
  BY DEF Facts
<1> QED
  BY <1>1, <1>2, AttnAddDerives, Zenon

LEMMA MlpAddStep ==
    ASSUME NEW a, NEW b, NEW m, NEW kept, NEW u, NEW l, NEW in, NEW h \in Buffers, NEW S,
           <<R(in), Q("d", l, S)>> \in m, <<R(h), Q("y", l, S)>> \in m, kept \subseteq m,
           Clear(kept, R(h))
    PROVE  Derives(a, b, Facts(m, u), normadd("of", l, in, h),
                   Facts(kept \cup {<<R(h), Q("x", l + 1, S)>>}, u))
<1>1. Framed(Facts(m, u), Facts(kept \cup {<<R(h), Q("x", l + 1, S)>>}, u), R(h),
             Q("x", l + 1, S), {})
  BY NotStale, RegionsAre, NextFacts
<1>2. <<R(in), Q("d", l, S)>> \in Facts(m, u).mem /\ <<R(h), Q("y", l, S)>> \in Facts(m, u).mem
  BY DEF Facts
<1> QED
  BY <1>1, <1>2, MlpAddDerives, Zenon

LEMMA PrepStep ==
    ASSUME NEW a, NEW b, NEW m, NEW kept, NEW u, NEW l \in Layers, NEW kr, NEW vr, NEW dr,
           NEW rr, u[l] = a, kept \subseteq m,
           <<kr, Q("k", l, a .. b)>> \in m, <<vr, Q(VName(l), l, a .. b)>> \in m,
           <<dr, Q("dyn", 0, a .. b)>> \in m, <<rr, Q("rope", 0, a .. b)>> \in m
    PROVE  Derives(a, b, Facts(m, u), disp(D("PREP_KV", "kv", l, <<kr, vr, dr, rr>>, l)),
                   Facts(kept, [u EXCEPT ![l] = b + 1]))
<1>1. Facts(m, u).mem = m /\ Facts(m, u).upto = u
  BY DEF Facts
<1>2. /\ Facts(kept, [u EXCEPT ![l] = b + 1]).mem = kept
      /\ Facts(kept, [u EXCEPT ![l] = b + 1]).upto = [u EXCEPT ![l] = b + 1]
  BY DEF Facts
<1> QED
  BY <1>1, <1>2, PrepDerives, Zenon DEF VName

LEMMA AttnStep ==
    ASSUME NEW a, NEW b, InContext(a, b), NEW m, NEW kept, NEW u, NEW l \in Layers, NEW qr,
           NEW dr, NEW rr, NEW out, u[l] = b + 1, kept \subseteq m, RegionOK(out),
           <<qr, Q("q", l, a .. b)>> \in m, <<dr, Q("dyn", 0, a .. b)>> \in m,
           <<rr, Q("rope", 0, a .. b)>> \in m, Clear(kept, out)
    PROVE  Derives(a, b, Facts(m, u), disp(D("ATTN", "a", l, <<qr, dr, rr>>, out)),
                   Facts(kept \cup {<<out, Q("a", l, a .. b)>>}, u))
<1>1. Framed(Facts(m, u), Facts(kept \cup {<<out, Q("a", l, a .. b)>>}, u), out,
             Q("a", l, a .. b), {})
  BY NotStale, NextFacts
<1>2. Facts(m, u).mem = m /\ Facts(m, u).upto = u
  BY DEF Facts
<1> QED
  BY <1>1, <1>2, AttnDerives, Zenon

\* What a block's inputs are: no kernel writes them.
Inputs == {R("dyn"), R("rope_sliding"), R("rope_full")}
Fixed(X) == \A g \in X : g[1] \in Inputs

LEMMA FixedClear ==
    ASSUME NEW X, Fixed(X), NEW l
    PROVE  /\ \A b \in Buffers \ {"dyn", "rope_sliding", "rope_full"} : Clear(X, R(b))
           /\ Clear(X, QOf(l)) /\ Clear(X, K(l)) /\ Clear(X, V(l))
<1>0. {"dyn", "rope_sliding", "rope_full"} \subseteq Buffers
  BY DEF Buffers
<1>1. ASSUME NEW b \in Buffers \ {"dyn", "rope_sliding", "rope_full"} PROVE Clear(X, R(b))
  BY RegionsAre DEF Clear, Fixed, Inputs
<1>2. ASSUME NEW g \in X PROVE Apart(g[1], QOf(l)) /\ Apart(g[1], K(l)) /\ Apart(g[1], V(l))
  BY <1>0, RegionsAre DEF Fixed, Inputs
<1> QED
  BY <1>1, <1>2 DEF Clear

Pack(direct, l) ==
    norm("in", l, "h", "normed")
    \o gemv(direct, "q", l, R("normed"), QOf(l)) \o gemv(direct, "k", l, R("normed"), K(l))
    \o (IF KEqV(l) THEN <<>> ELSE gemv(direct, "v", l, R("normed"), V(l)))

\* The norm and the linears of q, k and v.
LEMMA PackDerives ==
    ASSUME NEW a, NEW b, NEW X, Fixed(X), NEW l, NEW S, NEW u, NEW direct
    PROVE  Derives(a, b, Facts(X \cup {<<R("h"), Q("x", l, S)>>}, u), Pack(direct, l),
                   Facts(X \cup {<<R("h"), Q("x", l, S)>>, <<QOf(l), Q("q", l, S)>>,
                                 <<K(l), Q("k", l, S)>>, <<VOf(l), Q(VName(l), l, S)>>}, u))
<1> DEFINE h == <<R("h"), Q("x", l, S)>>
           n == <<R("normed"), Q("n", l, S)>>
           q == <<QOf(l), Q("q", l, S)>>
           k == <<K(l), Q("k", l, S)>>
           v == <<VOf(l), Q(VName(l), l, S)>>
<1>1. /\ h[1] = R("h") /\ n[1] = R("normed") /\ q[1] = QOf(l) /\ k[1] = K(l)
  OBVIOUS
<1>2. {"h", "normed", "bp"} \subseteq Buffers \ {"dyn", "rope_sliding", "rope_full"}
  BY DEF Buffers
<1> HIDE DEF h, n, q, k, v
<1>3. /\ Clear(X, R("normed")) /\ Clear(X, R("bp"))
      /\ Clear(X, QOf(l)) /\ Clear(X, K(l)) /\ Clear(X, V(l))
  BY <1>2, FixedClear
<1>4. Derives(a, b, Facts(X \cup {h}, u), norm("in", l, "h", "normed"), Facts(X \cup {h} \cup {n}, u))
  <2>1. Clear(X \cup {h}, R("normed"))
    BY <1>1, <1>3, RegionsAre DEF Clear
  <2>2. <<R("h"), Q("x", l, S)>> \in X \cup {h}
    BY DEF h
  <2>3. Apply("in", l, <<Q("x", l, S)>>) = Q("n", l, S)
    BY Equations, Zenon
  <2> QED
    BY <1>2, <2>1, <2>2, <2>3, NormStep DEF n
<1>5. Derives(a, b, Facts(X \cup {h} \cup {n}, u), gemv(direct, "q", l, R("normed"), QOf(l)),
              Facts(X \cup {h, n} \cup {q}, u))
  <2>1. Clear(X \cup {h, n}, QOf(l)) /\ Clear(X \cup {h, n}, R("bp"))
    BY <1>1, <1>2, <1>3, RegionsAre DEF Clear
  <2>2. X \cup {h} \cup {n} = X \cup {h, n} 
        /\ <<R("normed"), Q("n", l, S)>> \in X \cup {h, n}
    BY DEF n
  <2>3. Apply("q", l, <<Q("n", l, S)>>) = Q("q", l, S)
    BY Equations, Zenon
  <2> QED
    BY <2>1, <2>2, <2>3, RegionsAre, GemvStep DEF q
<1>6. Derives(a, b, Facts(X \cup {h, n} \cup {q}, u), gemv(direct, "k", l, R("normed"), K(l)),
              Facts(X \cup {h, n, q} \cup {k}, u))
  <2>1. Clear(X \cup {h, n, q}, K(l)) /\ Clear(X \cup {h, n, q}, R("bp"))
    BY <1>1, <1>2, <1>3, RegionsAre DEF Clear
  <2>2. X \cup {h, n} \cup {q} = X \cup {h, n, q} 
        /\ <<R("normed"), Q("n", l, S)>> \in X \cup {h, n, q}
    BY DEF n
  <2>3. Apply("k", l, <<Q("n", l, S)>>) = Q("k", l, S)
    BY Equations, Zenon
  <2> QED
    BY <2>1, <2>2, <2>3, RegionsAre, GemvStep DEF k
<1>7. Derives(a, b, Facts(X \cup {h, n} \cup {q}, u), gemv(direct, "k", l, R("normed"), K(l)),
              Facts(X \cup {h, q} \cup {k}, u))
  <2>1. Clear(X \cup {h, q}, K(l)) /\ Clear(X \cup {h, q}, R("bp"))
    BY <1>1, <1>2, <1>3, RegionsAre DEF Clear
  <2>2. X \cup {h, q} \subseteq X \cup {h, n} \cup {q}
        /\ <<R("normed"), Q("n", l, S)>> \in X \cup {h, n} \cup {q}
    BY DEF n
  <2>3. Apply("k", l, <<Q("n", l, S)>>) = Q("k", l, S)
    BY Equations, Zenon
  <2> QED
    BY <2>1, <2>2, <2>3, RegionsAre, GemvStep DEF k
<1>8. ASSUME ~KEqV(l)
      PROVE  Derives(a, b, Facts(X \cup {h, n, q} \cup {k}, u),
                     gemv(direct, "v", l, R("normed"), V(l)), Facts(X \cup {h, q, k} \cup {v}, u))
  <2>1. Clear(X \cup {h, q, k}, V(l)) /\ Clear(X \cup {h, q, k}, R("bp"))
    BY <1>1, <1>2, <1>3, RegionsAre DEF Clear
  <2>2. X \cup {h, q, k} \subseteq X \cup {h, n, q} \cup {k}
        /\ <<R("normed"), Q("n", l, S)>> \in X \cup {h, n, q} \cup {k}
    BY DEF n
  <2>3. Apply("v", l, <<Q("n", l, S)>>) = Q("v", l, S)
    BY Equations, Zenon
  <2>4. v = <<V(l), Q("v", l, S)>>
    BY <1>8 DEF v, VOf, VName
  <2> QED
    BY <2>1, <2>2, <2>3, <2>4, RegionsAre, GemvStep
<1>9. Derives(a, b, Facts(X \cup {h}, u),
              norm("in", l, "h", "normed") \o gemv(direct, "q", l, R("normed"), QOf(l)),
              Facts(X \cup {h, n} \cup {q}, u))
  BY <1>4, <1>5, DerivesBoth
<1>10. Derives(a, b, Facts(X \cup {h}, u), Pack(direct, l), Facts(X \cup {h, q, k, v}, u))
  <2>1. CASE KEqV(l)
    <3>1. Derives(a, b, Facts(X \cup {h}, u),
                  norm("in", l, "h", "normed") \o gemv(direct, "q", l, R("normed"), QOf(l))
                  \o gemv(direct, "k", l, R("normed"), K(l)), Facts(X \cup {h, q} \cup {k}, u))
      BY <1>7, <1>9, DerivesBoth
    <3>2. X \cup {h, q} \cup {k} = X \cup {h, q, k, v}
      BY <2>1 DEF v, k, VOf, VName
    <3>3. Derives(a, b, Facts(X \cup {h, q} \cup {k}, u), <<>>, Facts(X \cup {h, q} \cup {k}, u))
      BY DerivesNothing
    <3>4. Derives(a, b, Facts(X \cup {h}, u),
                  norm("in", l, "h", "normed") \o gemv(direct, "q", l, R("normed"), QOf(l))
                  \o gemv(direct, "k", l, R("normed"), K(l)) \o <<>>,
                  Facts(X \cup {h, q} \cup {k}, u))
      BY <3>1, <3>3, DerivesBoth
    <3> QED
      BY <2>1, <3>2, <3>4 DEF Pack
  <2>2. CASE ~KEqV(l)
    <3>1. Derives(a, b, Facts(X \cup {h}, u),
                  norm("in", l, "h", "normed") \o gemv(direct, "q", l, R("normed"), QOf(l))
                  \o gemv(direct, "k", l, R("normed"), K(l)), Facts(X \cup {h, n, q} \cup {k}, u))
      BY <1>6, <1>9, DerivesBoth
    <3>2. X \cup {h, q, k} \cup {v} = X \cup {h, q, k, v}
      OBVIOUS
    <3>4. Derives(a, b, Facts(X \cup {h}, u),
                  norm("in", l, "h", "normed") \o gemv(direct, "q", l, R("normed"), QOf(l))
                  \o gemv(direct, "k", l, R("normed"), K(l))
                  \o gemv(direct, "v", l, R("normed"), V(l)),
                  Facts(X \cup {h, q, k} \cup {v}, u))
      BY <1>8, <2>2, <3>1, DerivesBoth
    <3> QED
      BY <2>2, <3>2, <3>4 DEF Pack
  <2> QED
    BY <2>1, <2>2
<1> QED
  BY <1>10 DEF h, q, k, v

\* A layer: its input in h becomes the next layer's, and its K/V are cached.
LEMMA VkLayerDerives ==
    ASSUME NEW a, NEW b, InContext(a, b), NEW X, Fixed(X), NEW l \in Layers, NEW u,
           DOMAIN u = Layers, u[l] = a, NEW direct, <<R("dyn"), Q("dyn", 0, a .. b)>> \in X,
           <<Rope(l), Q("rope", 0, a .. b)>> \in X
    PROVE  Derives(a, b, Facts(X \cup {<<R("h"), Q("x", l, a .. b)>>}, u), VkLayer(direct, l),
                   Facts(X \cup {<<R("h"), Q("x", l + 1, a .. b)>>}, [u EXCEPT ![l] = b + 1]))
<1> DEFINE S == a .. b
           w == [u EXCEPT ![l] = b + 1]
           hx == <<R("h"), Q("x", l, S)>>
           q == <<QOf(l), Q("q", l, S)>>
           k == <<K(l), Q("k", l, S)>>
           v == <<VOf(l), Q(VName(l), l, S)>>
           at == <<R("attn"), Q("a", l, S)>>
           o == <<R("o"), Q("o", l, S)>>
           hy == <<R("h"), Q("y", l, S)>>
           n == <<R("normed2"), Q("m", l, S)>>
           g == <<R("gate"), Q("g", l, S)>>
           up == <<R("up"), Q("u", l, S)>>
           c == <<R("act"), Q("c", l, S)>>
           dn == <<R("down"), Q("d", l, S)>>
           hz == <<R("h"), Q("x", l + 1, S)>>
           F == Facts(X \cup {hx}, u)
           p1 == Pack(direct, l) \o disp(VkPrep(l))
           p2 == p1 \o disp(VkAttn(l))
           p3 == p2 \o gemv(direct, "o", l, R("attn"), R("o"))
           p4 == p3 \o normadd("pa", l, "o", "h")
           p5 == p4 \o norm("pf", l, "h", "normed2")
           p6 == p5 \o gemv(direct, "g", l, R("normed2"), R("gate"))
           p7 == p6 \o gemv(direct, "u", l, R("normed2"), R("up"))
           p8 == p7 \o disp(D("GELUMUL", "gm", l, <<R("gate"), R("up")>>, R("act")))
           p9 == p8 \o gemv(direct, "d", l, R("act"), R("down"))
           p10 == p9 \o normadd("of", l, "down", "h")
<1>1. VkLayer(direct, l) = p10
  BY DEF VkLayer, Pack, QOf
<1>2. /\ hx[1] = R("h") /\ q[1] = QOf(l) /\ at[1] = R("attn") /\ o[1] = R("o")
      /\ hy[1] = R("h") /\ n[1] = R("normed2") /\ g[1] = R("gate") /\ up[1] = R("up")
      /\ c[1] = R("act") /\ dn[1] = R("down")
  OBVIOUS
<1>3. {"h", "normed2", "bp", "attn", "o", "gate", "up", "act", "down"}
        \subseteq Buffers \ {"dyn", "rope_sliding", "rope_full"}
  BY DEF Buffers
<1>4. w[l] = b + 1
  OBVIOUS
<1>5. Derives(a, b, F, Pack(direct, l), Facts(X \cup {hx, q, k, v}, u))
  BY PackDerives, Zenon
<1> HIDE DEF S, w, hx, q, k, v, at, o, hy, n, g, up, c, dn, hz, F, p1, p2, p3, p4, p5, p6, p7, p8, p9, p10
<1>6. /\ Clear(X, R("h")) /\ Clear(X, R("normed2")) /\ Clear(X, R("bp")) /\ Clear(X, R("attn"))
      /\ Clear(X, R("o")) /\ Clear(X, R("gate")) /\ Clear(X, R("up")) /\ Clear(X, R("act"))
      /\ Clear(X, R("down"))
  BY <1>3, FixedClear
<1>7. Derives(a, b, F, p1, Facts(X \cup {hx, q}, w))
  <2>1. X \cup {hx, q} \subseteq X \cup {hx, q, k, v}
    OBVIOUS
  <2>2. /\ <<K(l), Q("k", l, a .. b)>> \in X \cup {hx, q, k, v}
        /\ <<VOf(l), Q(VName(l), l, a .. b)>> \in X \cup {hx, q, k, v}
        /\ <<R("dyn"), Q("dyn", 0, a .. b)>> \in X \cup {hx, q, k, v}
        /\ <<Rope(l), Q("rope", 0, a .. b)>> \in X \cup {hx, q, k, v}
    BY DEF k, v, S
  <2>3. Derives(a, b, Facts(X \cup {hx, q, k, v}, u),
                disp(D("PREP_KV", "kv", l, <<K(l), VOf(l), R("dyn"), Rope(l)>>, l)),
                Facts(X \cup {hx, q}, w))
    BY <2>1, <2>2, PrepStep, Zenon DEF w
  <2>4. VkPrep(l) = D("PREP_KV", "kv", l, <<K(l), VOf(l), R("dyn"), Rope(l)>>, l)
    BY DEF VkPrep, VOf
  <2> QED
    BY <1>5, <2>3, <2>4, DerivesBoth DEF p1
<1>8. Derives(a, b, F, p2, Facts(X \cup {hx} \cup {at}, w))
  <2>1. X \cup {hx} \subseteq X \cup {hx, q} /\ Clear(X \cup {hx}, R("attn"))
    BY <1>2, <1>6, RegionsAre DEF Clear
  <2>2. /\ <<QOf(l), Q("q", l, a .. b)>> \in X \cup {hx, q}
        /\ <<R("dyn"), Q("dyn", 0, a .. b)>> \in X \cup {hx, q}
        /\ <<Rope(l), Q("rope", 0, a .. b)>> \in X \cup {hx, q}
    BY DEF q, S
  <2>3. Derives(a, b, Facts(X \cup {hx, q}, w),
                disp(D("ATTN", "a", l, <<QOf(l), R("dyn"), Rope(l)>>, R("attn"))),
                Facts(X \cup {hx} \cup {at}, w))
    BY <1>3, <1>4, <2>1, <2>2, RegionsAre, AttnStep, Zenon DEF at, S
  <2> QED
    BY <1>7, <2>3, DerivesBoth DEF p2, VkAttn, QOf
<1>9. Derives(a, b, F, p3, Facts(X \cup {hx} \cup {o}, w))
  <2>1. X \cup {hx} \subseteq X \cup {hx} \cup {at} /\ Clear(X \cup {hx}, R("o"))
        /\ Clear(X \cup {hx}, R("bp"))
    BY <1>2, <1>6, RegionsAre DEF Clear
  <2>2. <<R("attn"), Q("a", l, S)>> \in X \cup {hx} \cup {at}
    BY DEF at
  <2>3. Apply("o", l, <<Q("a", l, S)>>) = Q("o", l, S)
    BY Equations, Zenon
  <2>4. Derives(a, b, Facts(X \cup {hx} \cup {at}, w), gemv(direct, "o", l, R("attn"), R("o")),
                Facts(X \cup {hx} \cup {o}, w))
    BY <1>3, <2>1, <2>2, <2>3, RegionsAre, GemvStep DEF o
  <2> QED
    BY <1>8, <2>4, DerivesBoth DEF p3
<1>10. Derives(a, b, F, p4, Facts(X \cup {hy}, w))
  <2>1. X \subseteq X \cup {hx} \cup {o} /\ Clear(X, R("h"))
    BY <1>2, <1>6, RegionsAre DEF Clear
  <2>2. <<R("o"), Q("o", l, S)>> \in X \cup {hx} \cup {o}
        /\ <<R("h"), Q("x", l, S)>> \in X \cup {hx} \cup {o}
    BY DEF o, hx
  <2>4. Derives(a, b, Facts(X \cup {hx} \cup {o}, w), normadd("pa", l, "o", "h"),
                Facts(X \cup {hy}, w))
    BY <1>3, <2>1, <2>2, RegionsAre, AttnAddStep, Zenon DEF hy
  <2> QED
    BY <1>9, <2>4, DerivesBoth DEF p4
<1>11. Derives(a, b, F, p5, Facts(X \cup {hy} \cup {n}, w))
  <2>1. X \cup {hy} \subseteq X \cup {hy} /\ Clear(X \cup {hy}, R("normed2"))
    BY <1>2, <1>6, RegionsAre DEF Clear
  <2>2. <<R("h"), Q("y", l, S)>> \in X \cup {hy}
    BY DEF hy
  <2>3. Apply("pf", l, <<Q("y", l, S)>>) = Q("m", l, S)
    BY Equations, Zenon
  <2>4. Derives(a, b, Facts(X \cup {hy}, w), norm("pf", l, "h", "normed2"),
                Facts(X \cup {hy} \cup {n}, w))
    BY <1>3, <2>1, <2>2, <2>3, RegionsAre, NormStep, Zenon DEF n
  <2> QED
    BY <1>10, <2>4, DerivesBoth DEF p5
<1>12. Derives(a, b, F, p6, Facts(X \cup {hy, n} \cup {g}, w))
  <2>1. X \cup {hy, n} \subseteq X \cup {hy} \cup {n} /\ Clear(X \cup {hy, n}, R("gate"))
        /\ Clear(X \cup {hy, n}, R("bp"))
    BY <1>2, <1>6, RegionsAre DEF Clear
  <2>2. <<R("normed2"), Q("m", l, S)>> \in X \cup {hy} \cup {n}
    BY DEF n
  <2>3. Apply("g", l, <<Q("m", l, S)>>) = Q("g", l, S)
    BY Equations, Zenon
  <2>4. Derives(a, b, Facts(X \cup {hy} \cup {n}, w), gemv(direct, "g", l, R("normed2"), R("gate")),
                Facts(X \cup {hy, n} \cup {g}, w))
    BY <1>3, <2>1, <2>2, <2>3, RegionsAre, GemvStep DEF g
  <2> QED
    BY <1>11, <2>4, DerivesBoth DEF p6
<1>13. Derives(a, b, F, p7, Facts(X \cup {hy, g} \cup {up}, w))
  <2>1. X \cup {hy, g} \subseteq X \cup {hy, n} \cup {g} /\ Clear(X \cup {hy, g}, R("up"))
        /\ Clear(X \cup {hy, g}, R("bp"))
    BY <1>2, <1>6, RegionsAre DEF Clear
  <2>2. <<R("normed2"), Q("m", l, S)>> \in X \cup {hy, n} \cup {g}
    BY DEF n
  <2>3. Apply("u", l, <<Q("m", l, S)>>) = Q("u", l, S)
    BY Equations, Zenon
  <2>4. Derives(a, b, Facts(X \cup {hy, n} \cup {g}, w), gemv(direct, "u", l, R("normed2"), R("up")),
                Facts(X \cup {hy, g} \cup {up}, w))
    BY <1>3, <2>1, <2>2, <2>3, RegionsAre, GemvStep DEF up
  <2> QED
    BY <1>12, <2>4, DerivesBoth DEF p7
<1>14. Derives(a, b, F, p8, Facts(X \cup {hy} \cup {c}, w))
  <2>1. X \cup {hy} \subseteq X \cup {hy, g} \cup {up} /\ Clear(X \cup {hy}, R("act"))
    BY <1>2, <1>6, RegionsAre DEF Clear
  <2>2. <<R("gate"), Q("g", l, S)>> \in X \cup {hy, g} \cup {up}
        /\ <<R("up"), Q("u", l, S)>> \in X \cup {hy, g} \cup {up}
    BY DEF g, up
  <2>4. Derives(a, b, Facts(X \cup {hy, g} \cup {up}, w), disp(D("GELUMUL", "gm", l, <<R("gate"), R("up")>>, R("act"))),
                Facts(X \cup {hy} \cup {c}, w))
    BY <1>3, <2>1, <2>2, RegionsAre, GeluStep, Zenon DEF c
  <2> QED
    BY <1>13, <2>4, DerivesBoth DEF p8
<1>15. Derives(a, b, F, p9, Facts(X \cup {hy} \cup {dn}, w))
  <2>1. X \cup {hy} \subseteq X \cup {hy} \cup {c} /\ Clear(X \cup {hy}, R("down"))
        /\ Clear(X \cup {hy}, R("bp"))
    BY <1>2, <1>6, RegionsAre DEF Clear
  <2>2. <<R("act"), Q("c", l, S)>> \in X \cup {hy} \cup {c}
    BY DEF c
  <2>3. Apply("d", l, <<Q("c", l, S)>>) = Q("d", l, S)
    BY Equations, Zenon
  <2>4. Derives(a, b, Facts(X \cup {hy} \cup {c}, w), gemv(direct, "d", l, R("act"), R("down")),
                Facts(X \cup {hy} \cup {dn}, w))
    BY <1>3, <2>1, <2>2, <2>3, RegionsAre, GemvStep DEF dn
  <2> QED
    BY <1>14, <2>4, DerivesBoth DEF p9
<1>16. Derives(a, b, F, p10, Facts(X \cup {hz}, w))
  <2>1. X \subseteq X \cup {hy} \cup {dn} /\ Clear(X, R("h"))
    BY <1>2, <1>6, RegionsAre DEF Clear
  <2>2. <<R("down"), Q("d", l, S)>> \in X \cup {hy} \cup {dn}
        /\ <<R("h"), Q("y", l, S)>> \in X \cup {hy} \cup {dn}
    BY DEF dn, hy
  <2>4. Derives(a, b, Facts(X \cup {hy} \cup {dn}, w), normadd("of", l, "down", "h"),
                Facts(X \cup {hz}, w))
    BY <1>3, <2>1, <2>2, RegionsAre, MlpAddStep, Zenon DEF hz
  <2> QED
    BY <1>15, <2>4, DerivesBoth DEF p10
<1> QED
  BY <1>1, <1>16 DEF F, hx, hz, w, S

LEMMA FullLayerIs == ASSUME NEW l PROVE FullLayer(l) = VkLayer({}, l)
<1>1. \A op, in, out : gemv({}, op, l, in, out) = chain(op, l, in, out)
  BY DEF gemv, chain
<1> QED
  BY <1>1, Zenon DEF FullLayer, VkLayer

\* How far the caches go when k layers have run.
Reached(a, b, k) == [l \in Layers |-> IF l <= k THEN b + 1 ELSE a]

LEMMA ReachedIs ==
    ASSUME NEW a, NEW b, NEW l \in Layers
    PROVE  /\ DOMAIN Reached(a, b, l - 1) = Layers /\ Reached(a, b, l - 1)[l] = a
           /\ [Reached(a, b, l - 1) EXCEPT ![l] = b + 1] = Reached(a, b, l)
           /\ Reached(a, b, l)[l] = b + 1
<1>1. l \in Nat
  BY TokenGraphAssumption DEF Layers, LastLayer
<1>2. DOMAIN Reached(a, b, l - 1) = Layers /\ Reached(a, b, l - 1)[l] = a /\ Reached(a, b, l)[l] = b + 1
  BY <1>1 DEF Reached
<1>3. ASSUME NEW i \in Layers
      PROVE  [Reached(a, b, l - 1) EXCEPT ![l] = b + 1][i] = IF i <= l THEN b + 1 ELSE a
  <2>1. i \in Nat
    BY TokenGraphAssumption DEF Layers, LastLayer
  <2> QED
    BY <1>1, <2>1 DEF Reached
<1>4. [Reached(a, b, l - 1) EXCEPT ![l] = b + 1] = [i \in Layers |-> IF i <= l THEN b + 1 ELSE a]
  BY <1>3, Zenon DEF Reached
<1> QED
  BY <1>2, <1>4 DEF Reached

\* The inputs of the kernels of a block.
FixedOf(S) == {<<R("dyn"), Q("dyn", 0, S)>>, <<R("rope_sliding"), Q("rope", 0, S)>>,
               <<R("rope_full"), Q("rope", 0, S)>>}

LEMMA FixedOfIs ==
    ASSUME NEW S
    PROVE  /\ Fixed(FixedOf(S)) /\ <<R("dyn"), Q("dyn", 0, S)>> \in FixedOf(S)
           /\ \A l : <<Rope(l), Q("rope", 0, S)>> \in FixedOf(S)
<1>1. ASSUME NEW g \in FixedOf(S) PROVE g[1] \in Inputs
  BY DEF FixedOf, Inputs
<1>2. \A l : <<Rope(l), Q("rope", 0, S)>> \in FixedOf(S)
  BY DEF FixedOf, Rope
<1>3. <<R("dyn"), Q("dyn", 0, S)>> \in FixedOf(S)
  BY DEF FixedOf
<1> QED
  BY <1>1, <1>2, <1>3 DEF Fixed

\* All layers one after another.
LEMMA VkLayersDerive ==
    ASSUME NEW a, NEW b, InContext(a, b), NEW direct
    PROVE  Derives(a, b, Facts(FixedOf(a .. b) \cup {<<R("h"), Q("x", 1, a .. b)>>}, Reached(a, b, 0)),
                   FlattenSeq([l \in Layers |-> VkLayer(direct, l)]),
                   Facts(FixedOf(a .. b) \cup {<<R("h"), Q("x", LastLayer + 1, a .. b)>>},
                         Reached(a, b, LastLayer)))
<1> DEFINE X == FixedOf(a .. b)
           at == [k \in 0 .. LastLayer |->
                    Facts(X \cup {<<R("h"), Q("x", k + 1, a .. b)>>}, Reached(a, b, k))]
           seqs == [l \in Layers |-> VkLayer(direct, l)]
<1>1. LastLayer \in Nat /\ Layers = 1 .. LastLayer
  BY TokenGraphAssumption DEF Layers, LastLayer
<1>2. ASSUME NEW l \in 1 .. LastLayer PROVE Derives(a, b, at[l - 1], seqs[l], at[l])
  <2>1. Derives(a, b, Facts(X \cup {<<R("h"), Q("x", l, a .. b)>>}, Reached(a, b, l - 1)),
                VkLayer(direct, l),
                Facts(X \cup {<<R("h"), Q("x", l + 1, a .. b)>>}, Reached(a, b, l)))
    <3>1. /\ Fixed(X) /\ <<R("dyn"), Q("dyn", 0, a .. b)>> \in X
          /\ <<Rope(l), Q("rope", 0, a .. b)>> \in X
      BY FixedOfIs
    <3>2. /\ DOMAIN Reached(a, b, l - 1) = Layers /\ Reached(a, b, l - 1)[l] = a
          /\ [Reached(a, b, l - 1) EXCEPT ![l] = b + 1] = Reached(a, b, l)
      BY <1>1, ReachedIs
    <3> HIDE DEF X
    <3> QED
      BY <1>1, <3>1, <3>2, VkLayerDerives
  <2>2. l - 1 \in 0 .. LastLayer /\ l \in 0 .. LastLayer /\ (l - 1) + 1 = l
    BY <1>1
  <2>3. /\ at[l - 1] = Facts(X \cup {<<R("h"), Q("x", l, a .. b)>>}, Reached(a, b, l - 1))
        /\ at[l] = Facts(X \cup {<<R("h"), Q("x", l + 1, a .. b)>>}, Reached(a, b, l))
    BY <2>2
  <2>4. seqs[l] = VkLayer(direct, l)
    BY <1>1
  <2> QED
    BY <2>1, <2>3, <2>4
<1>3. /\ at[0] = Facts(X \cup {<<R("h"), Q("x", 1, a .. b)>>}, Reached(a, b, 0))
      /\ at[LastLayer] = Facts(X \cup {<<R("h"), Q("x", LastLayer + 1, a .. b)>>},
                               Reached(a, b, LastLayer))
  BY <1>1
<1>4. seqs = [l \in 1 .. LastLayer |-> seqs[l]]
  BY <1>1
<1> HIDE DEF at, seqs
<1>5. Derives(a, b, at[0], FlattenSeq(seqs), at[LastLayer])
  BY <1>1, <1>2, <1>4, DerivesAll, Zenon
<1> QED
  BY <1>3, <1>5 DEF seqs

\* The final norm, the head and the softcap.
LEMMA HeadDerives ==
    ASSUME NEW a, NEW b, NEW X, Fixed(X), NEW l, NEW S, NEW u, NEW direct
    PROVE  /\ Derives(a, b, Facts(X \cup {<<R("h"), Q("x", l, S)>>}, u),
                      norm("fin", l, "h", "normed_f"),
                      Facts(X \cup {<<R("normed_f"), Q("f", l, S)>>}, u))
           /\ Derives(a, b, Facts(X \cup {<<R("normed_f"), Q("f", l, S)>>}, u),
                      gemv(direct, "lm", l, R("normed_f"), R("logits")),
                      Facts(X \cup {<<R("logits"), Q("logits", l, S)>>}, u))
           /\ Derives(a, b, Facts(X \cup {<<R("logits"), Q("logits", l, S)>>}, u),
                      disp(D("SOFTCAP", "cap", l, <<R("logits")>>, R("logits"))),
                      Facts(X \cup {<<R("logits"), Q("capped", l, S)>>}, u))
<1>1. {"normed_f", "logits", "bp"} \subseteq Buffers \ {"dyn", "rope_sliding", "rope_full"}
  BY DEF Buffers
<1>2. Clear(X, R("normed_f")) /\ Clear(X, R("logits")) /\ Clear(X, R("bp"))
  BY <1>1, FixedClear
<1>3. Apply("fin", l, <<Q("x", l, S)>>) = Q("f", l, S)
      /\ Apply("lm", l, <<Q("f", l, S)>>) = Q("logits", l, S)
  BY Equations, Zenon
<1>4. Derives(a, b, Facts(X \cup {<<R("h"), Q("x", l, S)>>}, u),
              norm("fin", l, "h", "normed_f"),
              Facts(X \cup {<<R("normed_f"), Q("f", l, S)>>}, u))
  BY <1>1, <1>2, <1>3, NormStep, ZenonT(30)
<1>5. Derives(a, b, Facts(X \cup {<<R("normed_f"), Q("f", l, S)>>}, u),
              gemv(direct, "lm", l, R("normed_f"), R("logits")),
              Facts(X \cup {<<R("logits"), Q("logits", l, S)>>}, u))
  BY <1>1, <1>2, <1>3, RegionsAre, GemvStep, ZenonT(30)
<1>6. Derives(a, b, Facts(X \cup {<<R("logits"), Q("logits", l, S)>>}, u),
              disp(D("SOFTCAP", "cap", l, <<R("logits")>>, R("logits"))),
              Facts(X \cup {<<R("logits"), Q("capped", l, S)>>}, u))
  BY <1>1, <1>2, RegionsAre, SoftcapStep, Zenon
<1> QED
  BY <1>4, <1>5, <1>6

LEMMA VkTokenDerives ==
    ASSUME NEW a, NEW b, InContext(a, b), NEW direct
    PROVE  Derives(a, b, Facts(FixedOf(a .. b) \cup {<<R("h"), Q("x", 1, a .. b)>>}, Reached(a, b, 0)),
                   VkToken(direct),
                   Facts(FixedOf(a .. b) \cup {<<R("logits"), Q("logits", LastLayer + 1, a .. b)>>},
                         Reached(a, b, LastLayer)))
<1> DEFINE X == FixedOf(a .. b)
           u == Reached(a, b, LastLayer)
           l == LastLayer + 1
           F == Facts(X \cup {<<R("h"), Q("x", 1, a .. b)>>}, Reached(a, b, 0))
           all == FlattenSeq([k \in Layers |-> VkLayer(direct, k)])
<1>1. Derives(a, b, F, all, Facts(X \cup {<<R("h"), Q("x", l, a .. b)>>}, u))
  BY VkLayersDerive
<1>2. Fixed(X)
  BY FixedOfIs, Zenon
<1>3. VkToken(direct) = all \o norm("fin", l, "h", "normed_f")
                            \o gemv(direct, "lm", l, R("normed_f"), R("logits"))
  BY DEF VkToken
<1> HIDE DEF X, u, l, F, all
<1>4. Derives(a, b, F, all \o norm("fin", l, "h", "normed_f"),
              Facts(X \cup {<<R("normed_f"), Q("f", l, a .. b)>>}, u))
  BY <1>1, <1>2, HeadDerives, DerivesBoth, Zenon
<1>5. Derives(a, b, F, all \o norm("fin", l, "h", "normed_f")
                           \o gemv(direct, "lm", l, R("normed_f"), R("logits")),
              Facts(X \cup {<<R("logits"), Q("logits", l, a .. b)>>}, u))
  <2>1. Derives(a, b, Facts(X \cup {<<R("normed_f"), Q("f", l, a .. b)>>}, u),
                gemv(direct, "lm", l, R("normed_f"), R("logits")),
                Facts(X \cup {<<R("logits"), Q("logits", l, a .. b)>>}, u))
    BY <1>2, HeadDerives, Zenon
  <2> QED
    BY <1>4, <2>1, DerivesBoth
<1> QED
  BY <1>3, <1>5 DEF X, u, l, F

LEMMA FullTokenDerives ==
    ASSUME NEW a, NEW b, InContext(a, b)
    PROVE  Derives(a, b, Facts(FixedOf(a .. b) \cup {<<R("h"), Q("x", 1, a .. b)>>}, Reached(a, b, 0)),
                   full_token,
                   Facts(FixedOf(a .. b) \cup {<<R("logits"), Q("capped", LastLayer + 1, a .. b)>>},
                         Reached(a, b, LastLayer)))
<1> DEFINE X == FixedOf(a .. b)
           u == Reached(a, b, LastLayer)
           l == LastLayer + 1
           F == Facts(X \cup {<<R("h"), Q("x", 1, a .. b)>>}, Reached(a, b, 0))
           cap == disp(D("SOFTCAP", "cap", l, <<R("logits")>>, R("logits")))
<1>1. Derives(a, b, F, VkToken({}), Facts(X \cup {<<R("logits"), Q("logits", l, a .. b)>>}, u))
  BY VkTokenDerives
<1>2. Fixed(X)
  BY FixedOfIs, Zenon
<1>3. full_token = VkToken({}) \o cap
  <2>1. [k \in Layers |-> FullLayer(k)] = [k \in Layers |-> VkLayer({}, k)]
    BY FullLayerIs
  <2>2. gemv({}, "lm", l, R("normed_f"), R("logits")) = chain("lm", l, R("normed_f"), R("logits"))
    BY DEF gemv, chain
  <2> QED
    BY <2>1, <2>2, Zenon DEF full_token, VkToken
<1> HIDE DEF X, u, l, F
<1>4. Derives(a, b, F, VkToken({}) \o cap, Facts(X \cup {<<R("logits"), Q("capped", l, a .. b)>>}, u))
  BY <1>1, <1>2, HeadDerives, DerivesBoth, Zenon
<1> QED
  BY <1>3, <1>4 DEF X, u, l, F

\* With attention on the CPU: what the first submit of a layer leaves ...
LEMMA ResidentQkvDerives ==
    ASSUME NEW a, NEW b, NEW l, NEW S, NEW u
    PROVE  Derives(a, b, Facts({<<R("h"), Q("x", l, S)>>}, u), ResidentQKV(l),
                   Facts({<<R("h"), Q("x", l, S)>>, <<QOf(l), Q("q", l, S)>>,
                          <<K(l), Q("k", l, S)>>, <<VOf(l), Q(VName(l), l, S)>>}, u))
<1>1. \A op, in, out : gemv({}, op, l, in, out) = chain(op, l, in, out)
  BY DEF gemv, chain
<1>2. ResidentQKV(l) = Pack({}, l)
  BY <1>1, Zenon DEF ResidentQKV, Pack, QOf
<1> DEFINE X == {}
<1>3. Fixed(X)
  BY DEF Fixed
<1>4. Derives(a, b, Facts(X \cup {<<R("h"), Q("x", l, S)>>}, u), Pack({}, l),
              Facts(X \cup {<<R("h"), Q("x", l, S)>>, <<QOf(l), Q("q", l, S)>>,
                            <<K(l), Q("k", l, S)>>, <<VOf(l), Q(VName(l), l, S)>>}, u))
  <2> HIDE DEF X
  <2> QED
    BY <1>3, PackDerives
<1> QED
  BY <1>2, <1>4

\* ... and the second, once the attended values are there.
LEMMA ResidentMlpDerives ==
    ASSUME NEW a, NEW b, NEW l, NEW S, NEW u
    PROVE  Derives(a, b, Facts({<<R("h"), Q("x", l, S)>>, <<R("attn"), Q("a", l, S)>>}, u),
                   ResidentMLP(l), Facts({<<R("h"), Q("x", l + 1, S)>>}, u))
<1> DEFINE hx == <<R("h"), Q("x", l, S)>>
           at == <<R("attn"), Q("a", l, S)>>
           o == <<R("o"), Q("o", l, S)>>
           t == <<R("t"), Q("t", l, S)>>
           hy == <<R("h"), Q("y", l, S)>>
           n == <<R("normed2"), Q("m", l, S)>>
           g == <<R("gate"), Q("g", l, S)>>
           up == <<R("up"), Q("u", l, S)>>
           c == <<R("act"), Q("c", l, S)>>
           dn == <<R("down"), Q("d", l, S)>>
           t2 == <<R("t2"), Q("t", l, S)>>
           hw == <<R("h"), Q("z", l, S)>>
           hz == <<R("h"), Q("x", l + 1, S)>>
           F == Facts({hx, at}, u)
           p1 == gemv({}, "o", l, R("attn"), R("o"))
           p2 == p1 \o norm("pa", l, "o", "t")
           p3 == p2 \o disp(D("ADD", "addA", l, <<R("h"), R("t")>>, R("h")))
           p4 == p3 \o norm("pf", l, "h", "normed2")
           p5 == p4 \o gemv({}, "g", l, R("normed2"), R("gate"))
           p6 == p5 \o gemv({}, "u", l, R("normed2"), R("up"))
           p7 == p6 \o disp(D("GELUMUL", "gm", l, <<R("gate"), R("up")>>, R("act")))
           p8 == p7 \o gemv({}, "d", l, R("act"), R("down"))
           p9 == p8 \o norm("of", l, "down", "t2")
           p10 == p9 \o disp(D("ADD", "addM", l, <<R("h"), R("t2")>>, R("h")))
           p11 == p10 \o disp(D("SCALE", "scale", l, <<R("h")>>, R("h")))
<1>1. ResidentMLP(l) = p11
  <2>1. \A op, in, out : gemv({}, op, l, in, out) = chain(op, l, in, out)
    BY DEF gemv, chain
  <2> DEFINE of(ins) == [i \in DOMAIN ins |-> R(ins[i])]
  <2>2. \A x, y : of(<<x, y>>) = <<R(x), R(y)>>
    OBVIOUS
  <2>3. \A x : of(<<x>>) = <<R(x)>>
    OBVIOUS
  <2>4. /\ of(<<"h", "t">>) = <<R("h"), R("t")>> /\ of(<<"gate", "up">>) = <<R("gate"), R("up")>>
        /\ of(<<"h", "t2">>) = <<R("h"), R("t2")>> /\ of(<<"h">>) = <<R("h")>>
    BY <2>2, <2>3
  <2> QED
    BY <2>1, <2>4, Zenon DEF ResidentMLP
<1>2. /\ hx[1] = R("h") /\ at[1] = R("attn") /\ o[1] = R("o") /\ t[1] = R("t") /\ t2[1] = R("t2")
      /\ hy[1] = R("h") /\ n[1] = R("normed2") /\ g[1] = R("gate") /\ up[1] = R("up")
      /\ c[1] = R("act") /\ dn[1] = R("down") /\ hw[1] = R("h")
  OBVIOUS
<1>3. {"h", "normed2", "bp", "attn", "o", "gate", "up", "act", "down", "t", "t2"} \subseteq Buffers
  BY DEF Buffers
<1> HIDE DEF hx, at, o, t, hy, n, g, up, c, dn, t2, hw, hz, F, p1, p2, p3, p4, p5, p6, p7, p8, p9, p10, p11
<1>4. Derives(a, b, F, p1, Facts({hx} \cup {o}, u))
  <2>1. {hx} \subseteq {hx, at} /\ Clear({hx}, R("o")) /\ Clear({hx}, R("bp"))
    BY <1>2, <1>3, RegionsAre DEF Clear
  <2>2. <<R("attn"), Q("a", l, S)>> \in {hx, at}
    BY DEF at
  <2>3. Apply("o", l, <<Q("a", l, S)>>) = Q("o", l, S)
    BY Equations, Zenon
  <2>4. Derives(a, b, Facts({hx, at}, u), gemv({}, "o", l, R("attn"), R("o")),
                Facts({hx} \cup {o}, u))
    BY <1>3, <2>1, <2>2, <2>3, RegionsAre, GemvStep DEF o
  <2> QED
    BY <2>4 DEF F, p1
<1>5. Derives(a, b, F, p2, Facts({hx} \cup {t}, u))
  <2>1. {hx} \subseteq {hx} \cup {o} /\ Clear({hx}, R("t"))
    BY <1>2, <1>3, RegionsAre DEF Clear
  <2>2. <<R("o"), Q("o", l, S)>> \in {hx} \cup {o}
    BY DEF o
  <2>3. Apply("pa", l, <<Q("o", l, S)>>) = Q("t", l, S)
    BY Equations, Zenon
  <2>4. Derives(a, b, Facts({hx} \cup {o}, u), norm("pa", l, "o", "t"),
                Facts({hx} \cup {t}, u))
    BY <1>3, <2>1, <2>2, <2>3, RegionsAre, NormStep DEF t
  <2> QED
    BY <1>4, <2>4, DerivesBoth DEF p2
<1>6. Derives(a, b, F, p3, Facts({} \cup {hy}, u))
  <2>1. {} \subseteq {hx} \cup {t} /\ Clear({}, R("h"))
    BY <1>2, <1>3, RegionsAre DEF Clear
  <2>2. <<R("h"), Q("x", l, S)>> \in {hx} \cup {t} /\ <<R("t"), Q("t", l, S)>> \in {hx} \cup {t}
    BY DEF hx, t
  <2>3. Apply("addA", l, <<Q("x", l, S), Q("t", l, S)>>) = Q("y", l, S)
    BY Equations, Zenon
  <2>4. Derives(a, b, Facts({hx} \cup {t}, u), disp(D("ADD", "addA", l, <<R("h"), R("t")>>, R("h"))),
                Facts({} \cup {hy}, u))
    BY <1>3, <2>1, <2>2, <2>3, RegionsAre, AddStep DEF hy
  <2> QED
    BY <1>5, <2>4, DerivesBoth DEF p3
<1>7. Derives(a, b, F, p4, Facts({hy} \cup {n}, u))
  <2>1. {hy} \subseteq {} \cup {hy} /\ Clear({hy}, R("normed2"))
    BY <1>2, <1>3, RegionsAre DEF Clear
  <2>2. <<R("h"), Q("y", l, S)>> \in {} \cup {hy}
    BY DEF hy
  <2>3. Apply("pf", l, <<Q("y", l, S)>>) = Q("m", l, S)
    BY Equations, Zenon
  <2>4. Derives(a, b, Facts({} \cup {hy}, u), norm("pf", l, "h", "normed2"),
                Facts({hy} \cup {n}, u))
    BY <1>3, <2>1, <2>2, <2>3, RegionsAre, NormStep DEF n
  <2> QED
    BY <1>6, <2>4, DerivesBoth DEF p4
<1>8. Derives(a, b, F, p5, Facts({hy, n} \cup {g}, u))
  <2>1. {hy, n} \subseteq {hy} \cup {n} /\ Clear({hy, n}, R("gate")) /\ Clear({hy, n}, R("bp"))
    BY <1>2, <1>3, RegionsAre DEF Clear
  <2>2. <<R("normed2"), Q("m", l, S)>> \in {hy} \cup {n}
    BY DEF n
  <2>3. Apply("g", l, <<Q("m", l, S)>>) = Q("g", l, S)
    BY Equations, Zenon
  <2>4. Derives(a, b, Facts({hy} \cup {n}, u), gemv({}, "g", l, R("normed2"), R("gate")),
                Facts({hy, n} \cup {g}, u))
    BY <1>3, <2>1, <2>2, <2>3, RegionsAre, GemvStep DEF g
  <2> QED
    BY <1>7, <2>4, DerivesBoth DEF p5
<1>9. Derives(a, b, F, p6, Facts({hy, g} \cup {up}, u))
  <2>1. {hy, g} \subseteq {hy, n} \cup {g} /\ Clear({hy, g}, R("up")) /\ Clear({hy, g}, R("bp"))
    BY <1>2, <1>3, RegionsAre DEF Clear
  <2>2. <<R("normed2"), Q("m", l, S)>> \in {hy, n} \cup {g}
    BY DEF n
  <2>3. Apply("u", l, <<Q("m", l, S)>>) = Q("u", l, S)
    BY Equations, Zenon
  <2>4. Derives(a, b, Facts({hy, n} \cup {g}, u), gemv({}, "u", l, R("normed2"), R("up")),
                Facts({hy, g} \cup {up}, u))
    BY <1>3, <2>1, <2>2, <2>3, RegionsAre, GemvStep DEF up
  <2> QED
    BY <1>8, <2>4, DerivesBoth DEF p6
<1>10. Derives(a, b, F, p7, Facts({hy} \cup {c}, u))
  <2>1. {hy} \subseteq {hy, g} \cup {up} /\ Clear({hy}, R("act"))
    BY <1>2, <1>3, RegionsAre DEF Clear
  <2>2. <<R("gate"), Q("g", l, S)>> \in {hy, g} \cup {up}
        /\ <<R("up"), Q("u", l, S)>> \in {hy, g} \cup {up}
    BY DEF g, up
  <2>4. Derives(a, b, Facts({hy, g} \cup {up}, u), disp(D("GELUMUL", "gm", l, <<R("gate"), R("up")>>, R("act"))),
                Facts({hy} \cup {c}, u))
    BY <1>3, <2>1, <2>2, RegionsAre, GeluStep DEF c
  <2> QED
    BY <1>9, <2>4, DerivesBoth DEF p7
<1>11. Derives(a, b, F, p8, Facts({hy} \cup {dn}, u))
  <2>1. {hy} \subseteq {hy} \cup {c} /\ Clear({hy}, R("down")) /\ Clear({hy}, R("bp"))
    BY <1>2, <1>3, RegionsAre DEF Clear
  <2>2. <<R("act"), Q("c", l, S)>> \in {hy} \cup {c}
    BY DEF c
  <2>3. Apply("d", l, <<Q("c", l, S)>>) = Q("d", l, S)
    BY Equations, Zenon
  <2>4. Derives(a, b, Facts({hy} \cup {c}, u), gemv({}, "d", l, R("act"), R("down")),
                Facts({hy} \cup {dn}, u))
    BY <1>3, <2>1, <2>2, <2>3, RegionsAre, GemvStep DEF dn
  <2> QED
    BY <1>10, <2>4, DerivesBoth DEF p8
<1>12. Derives(a, b, F, p9, Facts({hy} \cup {t2}, u))
  <2>1. {hy} \subseteq {hy} \cup {dn} /\ Clear({hy}, R("t2"))
    BY <1>2, <1>3, RegionsAre DEF Clear
  <2>2. <<R("down"), Q("d", l, S)>> \in {hy} \cup {dn}
    BY DEF dn
  <2>3. Apply("of", l, <<Q("d", l, S)>>) = Q("t", l, S)
    BY Equations, Zenon
  <2>4. Derives(a, b, Facts({hy} \cup {dn}, u), norm("of", l, "down", "t2"),
                Facts({hy} \cup {t2}, u))
    BY <1>3, <2>1, <2>2, <2>3, RegionsAre, NormStep DEF t2
  <2> QED
    BY <1>11, <2>4, DerivesBoth DEF p9
<1>13. Derives(a, b, F, p10, Facts({} \cup {hw}, u))
  <2>1. {} \subseteq {hy} \cup {t2} /\ Clear({}, R("h"))
    BY <1>2, <1>3, RegionsAre DEF Clear
  <2>2. <<R("h"), Q("y", l, S)>> \in {hy} \cup {t2} /\ <<R("t2"), Q("t", l, S)>> \in {hy} \cup {t2}
    BY DEF hy, t2
  <2>3. Apply("addM", l, <<Q("y", l, S), Q("t", l, S)>>) = Q("z", l, S)
    BY Equations, Zenon
  <2>4. Derives(a, b, Facts({hy} \cup {t2}, u), disp(D("ADD", "addM", l, <<R("h"), R("t2")>>, R("h"))),
                Facts({} \cup {hw}, u))
    BY <1>3, <2>1, <2>2, <2>3, RegionsAre, AddStep DEF hw
  <2> QED
    BY <1>12, <2>4, DerivesBoth DEF p10
<1>14. Derives(a, b, F, p11, Facts({} \cup {hz}, u))
  <2>1. {} \subseteq {} \cup {hw} /\ Clear({}, R("h"))
    BY <1>2, <1>3, RegionsAre DEF Clear
  <2>2. <<R("h"), Q("z", l, S)>> \in {} \cup {hw}
    BY DEF hw
  <2>4. Derives(a, b, Facts({} \cup {hw}, u), disp(D("SCALE", "scale", l, <<R("h")>>, R("h"))),
                Facts({} \cup {hz}, u))
    BY <1>3, <2>1, <2>2, RegionsAre, ScaleStep DEF hz
  <2> QED
    BY <1>13, <2>4, DerivesBoth DEF p11
<1>15. {} \cup {hz} = {hz}
  OBVIOUS
<1> QED
  BY <1>1, <1>14, <1>15 DEF F, hx, at, hz

LEMMA ResidentHeadDerives ==
    ASSUME NEW a, NEW b, NEW S, NEW u
    PROVE  Derives(a, b, Facts({<<R("h"), Q("x", LastLayer + 1, S)>>}, u), resident_head,
                   Facts({<<R("logits"), Q("capped", LastLayer + 1, S)>>}, u))
<1> DEFINE X == {}
           l == LastLayer + 1
           fin == norm("fin", l, "h", "normed_f")
           lm == gemv({}, "lm", l, R("normed_f"), R("logits"))
           cap == disp(D("SOFTCAP", "cap", l, <<R("logits")>>, R("logits")))
<1>1. Fixed(X)
  BY DEF Fixed
<1>2. resident_head = fin \o lm \o cap
  <2>1. lm = chain("lm", l, R("normed_f"), R("logits"))
    BY DEF gemv, chain
  <2> QED
    BY <2>1 DEF resident_head
<1>3. X \cup {<<R("h"), Q("x", l, S)>>} = {<<R("h"), Q("x", l, S)>>}
      /\ X \cup {<<R("logits"), Q("capped", l, S)>>} = {<<R("logits"), Q("capped", l, S)>>}
  OBVIOUS
<1>4. /\ Derives(a, b, Facts(X \cup {<<R("h"), Q("x", l, S)>>}, u), fin,
                 Facts(X \cup {<<R("normed_f"), Q("f", l, S)>>}, u))
      /\ Derives(a, b, Facts(X \cup {<<R("normed_f"), Q("f", l, S)>>}, u), lm,
                 Facts(X \cup {<<R("logits"), Q("logits", l, S)>>}, u))
      /\ Derives(a, b, Facts(X \cup {<<R("logits"), Q("logits", l, S)>>}, u), cap,
                 Facts(X \cup {<<R("logits"), Q("capped", l, S)>>}, u))
  <2> HIDE DEF X, l
  <2> QED
    BY <1>1, HeadDerives, Zenon
<1> HIDE DEF X, l, fin, lm, cap
<1>5. Derives(a, b, Facts(X \cup {<<R("h"), Q("x", l, S)>>}, u), fin \o lm,
              Facts(X \cup {<<R("logits"), Q("logits", l, S)>>}, u))
  BY <1>4, DerivesBoth
<1>6. Derives(a, b, Facts(X \cup {<<R("h"), Q("x", l, S)>>}, u), fin \o lm \o cap,
              Facts(X \cup {<<R("logits"), Q("capped", l, S)>>}, u))
  BY <1>4, <1>5, DerivesBoth
<1> QED
  BY <1>2, <1>3, <1>6, Zenon DEF l

\* The same of a chunk of rows.
InputsM == {R("dynp"), R("ropeM_sliding"), R("ropeM_full")}
FixedM(X) == \A g \in X : g[1] \in InputsM

LEMMA FixedMClear ==
    ASSUME NEW X, FixedM(X)
    PROVE  \A b \in Buffers \ {"dynp", "ropeM_sliding", "ropeM_full"} : Clear(X, R(b))
BY RegionsAre DEF Clear, FixedM, InputsM

LEMMA RecLayerDerives ==
    ASSUME NEW a, NEW b, InContext(a, b), NEW X, FixedM(X), NEW l \in Layers, NEW u,
           DOMAIN u = Layers, u[l] = a, NEW i8, <<R("dynp"), Q("dyn", 0, a .. b)>> \in X,
           <<RopeM(l), Q("rope", 0, a .. b)>> \in X
    PROVE  Derives(a, b, Facts(X \cup {<<R("Xp"), Q("x", l, a .. b)>>}, u), rec_layer(i8, l),
                   Facts(X \cup {<<R("Xp"), Q("x", l + 1, a .. b)>>}, [u EXCEPT ![l] = b + 1]))
<1> DEFINE S == a .. b
           w == [u EXCEPT ![l] = b + 1]
           vbuf == IF KEqV(l) THEN "Kp" ELSE "Vp"
           hx == <<R("Xp"), Q("x", l, S)>>
           n == <<R("Np"), Q("n", l, S)>>
           q == <<R("Qp"), Q("q", l, S)>>
           k == <<R("Kp"), Q("k", l, S)>>
           v == <<R(vbuf), Q(VName(l), l, S)>>
           at == <<R("Ap"), Q("a", l, S)>>
           o == <<R("Tp"), Q("o", l, S)>>
           hy == <<R("Xp"), Q("y", l, S)>>
           m == <<R("Np"), Q("m", l, S)>>
           g == <<R("Gp"), Q("g", l, S)>>
           up == <<R("Upp"), Q("u", l, S)>>
           c == <<R("ACp"), Q("c", l, S)>>
           dn == <<R("Tp"), Q("d", l, S)>>
           hz == <<R("Xp"), Q("x", l + 1, S)>>
           F == Facts(X \cup {hx}, u)
           p1 == norm("in", l, "Xp", "Np")
           p2 == p1 \o gmm(i8, "q", l, R("Np"), R("Qp"))
           p3 == p2 \o gmm(i8, "k", l, R("Np"), R("Kp"))
           p4 == p3 \o (IF KEqV(l) THEN <<>> ELSE gmm(i8, "v", l, R("Np"), R("Vp")))
           p5 == p4 \o PreKV(l)
           p6 == p5 \o gmm(i8, "o", l, R("Ap"), R("Tp"))
           p7 == p6 \o normadd("pa", l, "Tp", "Xp")
           p8 == p7 \o norm("pf", l, "Xp", "Np")
           p9 == p8 \o gmm(i8, "g", l, R("Np"), R("Gp"))
           p10 == p9 \o gmm(i8, "u", l, R("Np"), R("Upp"))
           p11 == p10 \o disp(D("GELUMUL", "gm", l, <<R("Gp"), R("Upp")>>, R("ACp")))
           p12 == p11 \o gmm(i8, "d", l, R("ACp"), R("Tp"))
           p13 == p12 \o normadd("of", l, "Tp", "Xp")
<1>1. rec_layer(i8, l) = p13
  BY DEF rec_layer
<1>2. /\ hx[1] = R("Xp") /\ n[1] = R("Np") /\ q[1] = R("Qp") /\ k[1] = R("Kp") /\ at[1] = R("Ap")
      /\ o[1] = R("Tp") /\ hy[1] = R("Xp") /\ m[1] = R("Np") /\ g[1] = R("Gp")
      /\ up[1] = R("Upp") /\ c[1] = R("ACp") /\ dn[1] = R("Tp")
  OBVIOUS
<1>3. {"Xp", "Np", "Qp", "Kp", "Vp", "Ap", "Tp", "Gp", "Upp", "ACp", "staged", "Yf16"}
        \subseteq Buffers \ {"dynp", "ropeM_sliding", "ropeM_full"}
  BY DEF Buffers
<1>4. w[l] = b + 1
  OBVIOUS
<1> HIDE DEF S, w, hx, n, q, k, v, at, o, hy, m, g, up, c, dn, hz, F, p1, p2, p3, p4, p5, p6, p7, p8,
             p9, p10, p11, p12, p13
<1>5. /\ Clear(X, R("Xp")) /\ Clear(X, R("Np")) /\ Clear(X, R("Qp")) /\ Clear(X, R("Kp"))
      /\ Clear(X, R("Vp")) /\ Clear(X, R("Ap")) /\ Clear(X, R("Tp")) /\ Clear(X, R("Gp"))
      /\ Clear(X, R("Upp")) /\ Clear(X, R("ACp")) /\ Clear(X, R("staged")) /\ Clear(X, R("Yf16"))
  BY <1>3, FixedMClear
<1>6. Derives(a, b, F, p1, Facts(X \cup {hx} \cup {n}, u))
  <2>1. X \cup {hx} \subseteq X \cup {hx} /\ Clear(X \cup {hx}, R("Np"))
    BY <1>2, <1>3, <1>5, RegionsAre DEF Clear
  <2>2. <<R("Xp"), Q("x", l, S)>> \in X \cup {hx}
    BY DEF hx
  <2>3. Apply("in", l, <<Q("x", l, S)>>) = Q("n", l, S)
    BY Equations, Zenon
  <2>4. Derives(a, b, Facts(X \cup {hx}, u), norm("in", l, "Xp", "Np"),
                Facts(X \cup {hx} \cup {n}, u))
    BY <1>3, <2>1, <2>2, <2>3, RegionsAre, NormStep, Zenon DEF n
  <2> QED
    BY <2>4 DEF F, p1
<1>7. Derives(a, b, F, p2, Facts(X \cup {hx, n} \cup {q}, u))
  <2>1. X \cup {hx, n} \subseteq X \cup {hx} \cup {n} /\ Clear(X \cup {hx, n}, R("Qp"))
        /\ Clear(X \cup {hx, n}, R("staged")) /\ Clear(X \cup {hx, n}, R("Yf16"))
    BY <1>2, <1>3, <1>5, RegionsAre DEF Clear
  <2>2. <<R("Np"), Q("n", l, S)>> \in X \cup {hx} \cup {n}
    BY DEF n
  <2>3. Apply("q", l, <<Q("n", l, S)>>) = Q("q", l, S)
    BY Equations, Zenon
  <2>4. Derives(a, b, Facts(X \cup {hx} \cup {n}, u), gmm(i8, "q", l, R("Np"), R("Qp")),
                Facts(X \cup {hx, n} \cup {q}, u))
    BY <1>3, <2>1, <2>2, <2>3, RegionsAre, GmmStep, Zenon DEF q
  <2> QED
    BY <1>6, <2>4, DerivesBoth DEF p2
<1>8. Derives(a, b, F, p3, Facts(X \cup {hx, n, q} \cup {k}, u))
  <2>1. X \cup {hx, n, q} \subseteq X \cup {hx, n} \cup {q} /\ Clear(X \cup {hx, n, q}, R("Kp"))
        /\ Clear(X \cup {hx, n, q}, R("staged")) /\ Clear(X \cup {hx, n, q}, R("Yf16"))
    BY <1>2, <1>3, <1>5, RegionsAre DEF Clear
  <2>2. <<R("Np"), Q("n", l, S)>> \in X \cup {hx, n} \cup {q}
    BY DEF n
  <2>3. Apply("k", l, <<Q("n", l, S)>>) = Q("k", l, S)
    BY Equations, Zenon
  <2>4. Derives(a, b, Facts(X \cup {hx, n} \cup {q}, u), gmm(i8, "k", l, R("Np"), R("Kp")),
                Facts(X \cup {hx, n, q} \cup {k}, u))
    BY <1>3, <2>1, <2>2, <2>3, RegionsAre, GmmStep, Zenon DEF k
  <2> QED
    BY <1>7, <2>4, DerivesBoth DEF p3
<1>9. Derives(a, b, F, p3, Facts(X \cup {hx, q} \cup {k}, u))
  <2>1. X \cup {hx, q} \subseteq X \cup {hx, n} \cup {q} /\ Clear(X \cup {hx, q}, R("Kp"))
        /\ Clear(X \cup {hx, q}, R("staged")) /\ Clear(X \cup {hx, q}, R("Yf16"))
    BY <1>2, <1>3, <1>5, RegionsAre DEF Clear
  <2>2. <<R("Np"), Q("n", l, S)>> \in X \cup {hx, n} \cup {q}
    BY DEF n
  <2>3. Apply("k", l, <<Q("n", l, S)>>) = Q("k", l, S)
    BY Equations, Zenon
  <2>4. Derives(a, b, Facts(X \cup {hx, n} \cup {q}, u), gmm(i8, "k", l, R("Np"), R("Kp")),
                Facts(X \cup {hx, q} \cup {k}, u))
    BY <1>3, <2>1, <2>2, <2>3, RegionsAre, GmmStep, Zenon DEF k
  <2> QED
    BY <1>7, <2>4, DerivesBoth DEF p3
<1>10. Derives(a, b, F, p4, Facts(X \cup {hx, q, k, v}, u))
  <2>1. CASE KEqV(l)
    <3>1. X \cup {hx, q} \cup {k} = X \cup {hx, q, k, v}
      BY <2>1 DEF v, k, VName
    <3>2. Derives(a, b, Facts(X \cup {hx, q, k, v}, u), <<>>, Facts(X \cup {hx, q, k, v}, u))
      BY DerivesNothing
    <3>3. p4 = p3 \o <<>>
      BY <2>1 DEF p4
    <3> QED
      BY <1>9, <3>1, <3>2, <3>3, DerivesBoth, Zenon
  <2>2. CASE ~KEqV(l)
    <3>1. X \cup {hx, q, k} \subseteq X \cup {hx, n, q} \cup {k} /\ Clear(X \cup {hx, q, k}, R("Vp"))
          /\ Clear(X \cup {hx, q, k}, R("staged")) /\ Clear(X \cup {hx, q, k}, R("Yf16"))
      BY <1>2, <1>3, <1>5, RegionsAre DEF Clear
    <3>2. <<R("Np"), Q("n", l, S)>> \in X \cup {hx, n, q} \cup {k}
      BY DEF n
    <3>3. Apply("v", l, <<Q("n", l, S)>>) = Q("v", l, S)
      BY Equations, Zenon
    <3>4. v = <<R("Vp"), Q("v", l, S)>>
      BY <2>2 DEF v, VName
    <3>5. Derives(a, b, Facts(X \cup {hx, n, q} \cup {k}, u), gmm(i8, "v", l, R("Np"), R("Vp")),
                  Facts(X \cup {hx, q, k} \cup {v}, u))
      BY <1>3, <3>1, <3>2, <3>3, <3>4, RegionsAre, GmmStep, Zenon
    <3>6. X \cup {hx, q, k} \cup {v} = X \cup {hx, q, k, v}
      OBVIOUS
    <3>7. p4 = p3 \o gmm(i8, "v", l, R("Np"), R("Vp"))
      BY <2>2 DEF p4
    <3> QED
      BY <1>8, <3>5, <3>6, <3>7, DerivesBoth, Zenon
  <2> QED
    BY <2>1, <2>2
<1>11. Derives(a, b, F, p5, Facts(X \cup {hx} \cup {at}, w))
  <2> DEFINE prep == D("PREP_KV", "kv", l, <<R("Kp"), R(vbuf), R("dynp"), RopeM(l)>>, l)
             attn == D("ATTN", "a", l, <<R("Qp"), R("dynp"), RopeM(l)>>, R("Ap"))
  <2>1. PreKV(l) = disp(prep) \o disp(attn)
    BY DEF PreKV
  <2>2. X \cup {hx, q} \subseteq X \cup {hx, q, k, v}
    OBVIOUS
  <2>3. /\ <<R("Kp"), Q("k", l, a .. b)>> \in X \cup {hx, q, k, v}
        /\ <<R(vbuf), Q(VName(l), l, a .. b)>> \in X \cup {hx, q, k, v}
        /\ <<R("dynp"), Q("dyn", 0, a .. b)>> \in X \cup {hx, q, k, v}
        /\ <<RopeM(l), Q("rope", 0, a .. b)>> \in X \cup {hx, q, k, v}
    BY DEF k, v, S
  <2>4. Derives(a, b, Facts(X \cup {hx, q, k, v}, u), disp(prep), Facts(X \cup {hx, q}, w))
    <3> HIDE DEF vbuf
    <3> QED
      BY <2>2, <2>3, PrepStep, Zenon DEF w
  <2>5. X \cup {hx} \subseteq X \cup {hx, q} /\ Clear(X \cup {hx}, R("Ap"))
    BY <1>2, <1>3, <1>5, RegionsAre DEF Clear
  <2>6. /\ <<R("Qp"), Q("q", l, a .. b)>> \in X \cup {hx, q}
        /\ <<R("dynp"), Q("dyn", 0, a .. b)>> \in X \cup {hx, q}
        /\ <<RopeM(l), Q("rope", 0, a .. b)>> \in X \cup {hx, q}
    BY DEF q, S
  <2>7. Derives(a, b, Facts(X \cup {hx, q}, w), disp(attn), Facts(X \cup {hx} \cup {at}, w))
    BY <1>3, <1>4, <2>5, <2>6, RegionsAre, AttnStep, Zenon DEF at, S
  <2>8. Derives(a, b, Facts(X \cup {hx, q, k, v}, u), PreKV(l), Facts(X \cup {hx} \cup {at}, w))
    BY <2>1, <2>4, <2>7, DerivesBoth, Zenon
  <2> QED
    BY <1>10, <2>8, DerivesBoth DEF p5
<1>12. Derives(a, b, F, p6, Facts(X \cup {hx} \cup {o}, w))
  <2>1. X \cup {hx} \subseteq X \cup {hx} \cup {at} /\ Clear(X \cup {hx}, R("Tp"))
        /\ Clear(X \cup {hx}, R("staged")) /\ Clear(X \cup {hx}, R("Yf16"))
    BY <1>2, <1>3, <1>5, RegionsAre DEF Clear
  <2>2. <<R("Ap"), Q("a", l, S)>> \in X \cup {hx} \cup {at}
    BY DEF at
  <2>3. Apply("o", l, <<Q("a", l, S)>>) = Q("o", l, S)
    BY Equations, Zenon
  <2>4. Derives(a, b, Facts(X \cup {hx} \cup {at}, w), gmm(i8, "o", l, R("Ap"), R("Tp")),
                Facts(X \cup {hx} \cup {o}, w))
    BY <1>3, <2>1, <2>2, <2>3, RegionsAre, GmmStep, Zenon DEF o
  <2> QED
    BY <1>11, <2>4, DerivesBoth DEF p6
<1>13. Derives(a, b, F, p7, Facts(X \cup {hy}, w))
  <2>1. X \subseteq X \cup {hx} \cup {o} /\ Clear(X, R("Xp"))
    BY <1>2, <1>3, <1>5, RegionsAre DEF Clear
  <2>2. <<R("Tp"), Q("o", l, S)>> \in X \cup {hx} \cup {o}
        /\ <<R("Xp"), Q("x", l, S)>> \in X \cup {hx} \cup {o}
    BY DEF o, hx
  <2>4. Derives(a, b, Facts(X \cup {hx} \cup {o}, w), normadd("pa", l, "Tp", "Xp"),
                Facts(X \cup {hy}, w))
    BY <1>3, <2>1, <2>2, RegionsAre, AttnAddStep, Zenon DEF hy
  <2> QED
    BY <1>12, <2>4, DerivesBoth DEF p7
<1>14. Derives(a, b, F, p8, Facts(X \cup {hy} \cup {m}, w))
  <2>1. X \cup {hy} \subseteq X \cup {hy} /\ Clear(X \cup {hy}, R("Np"))
    BY <1>2, <1>3, <1>5, RegionsAre DEF Clear
  <2>2. <<R("Xp"), Q("y", l, S)>> \in X \cup {hy}
    BY DEF hy
  <2>3. Apply("pf", l, <<Q("y", l, S)>>) = Q("m", l, S)
    BY Equations, Zenon
  <2>4. Derives(a, b, Facts(X \cup {hy}, w), norm("pf", l, "Xp", "Np"),
                Facts(X \cup {hy} \cup {m}, w))
    BY <1>3, <2>1, <2>2, <2>3, RegionsAre, NormStep, Zenon DEF m
  <2> QED
    BY <1>13, <2>4, DerivesBoth DEF p8
<1>15. Derives(a, b, F, p9, Facts(X \cup {hy, m} \cup {g}, w))
  <2>1. X \cup {hy, m} \subseteq X \cup {hy} \cup {m} /\ Clear(X \cup {hy, m}, R("Gp"))
        /\ Clear(X \cup {hy, m}, R("staged")) /\ Clear(X \cup {hy, m}, R("Yf16"))
    BY <1>2, <1>3, <1>5, RegionsAre DEF Clear
  <2>2. <<R("Np"), Q("m", l, S)>> \in X \cup {hy} \cup {m}
    BY DEF m
  <2>3. Apply("g", l, <<Q("m", l, S)>>) = Q("g", l, S)
    BY Equations, Zenon
  <2>4. Derives(a, b, Facts(X \cup {hy} \cup {m}, w), gmm(i8, "g", l, R("Np"), R("Gp")),
                Facts(X \cup {hy, m} \cup {g}, w))
    BY <1>3, <2>1, <2>2, <2>3, RegionsAre, GmmStep, Zenon DEF g
  <2> QED
    BY <1>14, <2>4, DerivesBoth DEF p9
<1>16. Derives(a, b, F, p10, Facts(X \cup {hy, g} \cup {up}, w))
  <2>1. X \cup {hy, g} \subseteq X \cup {hy, m} \cup {g} /\ Clear(X \cup {hy, g}, R("Upp"))
        /\ Clear(X \cup {hy, g}, R("staged")) /\ Clear(X \cup {hy, g}, R("Yf16"))
    BY <1>2, <1>3, <1>5, RegionsAre DEF Clear
  <2>2. <<R("Np"), Q("m", l, S)>> \in X \cup {hy, m} \cup {g}
    BY DEF m
  <2>3. Apply("u", l, <<Q("m", l, S)>>) = Q("u", l, S)
    BY Equations, Zenon
  <2>4. Derives(a, b, Facts(X \cup {hy, m} \cup {g}, w), gmm(i8, "u", l, R("Np"), R("Upp")),
                Facts(X \cup {hy, g} \cup {up}, w))
    BY <1>3, <2>1, <2>2, <2>3, RegionsAre, GmmStep, Zenon DEF up
  <2> QED
    BY <1>15, <2>4, DerivesBoth DEF p10
<1>17. Derives(a, b, F, p11, Facts(X \cup {hy} \cup {c}, w))
  <2>1. X \cup {hy} \subseteq X \cup {hy, g} \cup {up} /\ Clear(X \cup {hy}, R("ACp"))
    BY <1>2, <1>3, <1>5, RegionsAre DEF Clear
  <2>2. <<R("Gp"), Q("g", l, S)>> \in X \cup {hy, g} \cup {up}
        /\ <<R("Upp"), Q("u", l, S)>> \in X \cup {hy, g} \cup {up}
    BY DEF g, up
  <2>4. Derives(a, b, Facts(X \cup {hy, g} \cup {up}, w), disp(D("GELUMUL", "gm", l, <<R("Gp"), R("Upp")>>, R("ACp"))),
                Facts(X \cup {hy} \cup {c}, w))
    BY <1>3, <2>1, <2>2, RegionsAre, GeluStep, Zenon DEF c
  <2> QED
    BY <1>16, <2>4, DerivesBoth DEF p11
<1>18. Derives(a, b, F, p12, Facts(X \cup {hy} \cup {dn}, w))
  <2>1. X \cup {hy} \subseteq X \cup {hy} \cup {c} /\ Clear(X \cup {hy}, R("Tp"))
        /\ Clear(X \cup {hy}, R("staged")) /\ Clear(X \cup {hy}, R("Yf16"))
    BY <1>2, <1>3, <1>5, RegionsAre DEF Clear
  <2>2. <<R("ACp"), Q("c", l, S)>> \in X \cup {hy} \cup {c}
    BY DEF c
  <2>3. Apply("d", l, <<Q("c", l, S)>>) = Q("d", l, S)
    BY Equations, Zenon
  <2>4. Derives(a, b, Facts(X \cup {hy} \cup {c}, w), gmm(i8, "d", l, R("ACp"), R("Tp")),
                Facts(X \cup {hy} \cup {dn}, w))
    BY <1>3, <2>1, <2>2, <2>3, RegionsAre, GmmStep, Zenon DEF dn
  <2> QED
    BY <1>17, <2>4, DerivesBoth DEF p12
<1>19. Derives(a, b, F, p13, Facts(X \cup {hz}, w))
  <2>1. X \subseteq X \cup {hy} \cup {dn} /\ Clear(X, R("Xp"))
    BY <1>2, <1>3, <1>5, RegionsAre DEF Clear
  <2>2. <<R("Tp"), Q("d", l, S)>> \in X \cup {hy} \cup {dn}
        /\ <<R("Xp"), Q("y", l, S)>> \in X \cup {hy} \cup {dn}
    BY DEF dn, hy
  <2>4. Derives(a, b, Facts(X \cup {hy} \cup {dn}, w), normadd("of", l, "Tp", "Xp"),
                Facts(X \cup {hz}, w))
    BY <1>3, <2>1, <2>2, RegionsAre, MlpAddStep, Zenon DEF hz
  <2> QED
    BY <1>18, <2>4, DerivesBoth DEF p13
<1> QED
  BY <1>1, <1>19 DEF F, hx, hz, w, S

-----------------------------------------------------------------------------
(* The host: what it has recorded so far leads to these facts, whether it    *)
(* has waited for it, and how many answers of this block it has given.       *)

Hosts(F, gpu, said) == [facts |-> F, gpu |-> gpu, said |-> said]

HostDoes(a, b, ans, H, st, J) ==
    \/ /\ st.do = "mapped" /\ H.gpu = "idle" /\ J.gpu = "idle" /\ J.said = H.said
       /\ Stores(a, b, H.facts, [k |-> "store", out |-> R(st.buf), val |-> st.val], J.facts)
    \/ /\ st.do = "queued" /\ J.gpu = "busy" /\ J.said = H.said
       /\ Stores(a, b, H.facts, [k |-> "store", out |-> R(st.buf), val |-> st.val], J.facts)
    \/ /\ st.do = "submit" /\ J.gpu = "busy" /\ J.said = H.said
       /\ Derives(a, b, H.facts, st.ds, J.facts)
    \/ /\ st.do = "wait" /\ J.gpu = "idle" /\ J.said = H.said /\ J.facts = H.facts
    \/ /\ st.do = "attend" /\ H.gpu = "idle" /\ J.gpu = "busy" /\ J.said = H.said
       /\ a = b /\ st.l \in Layers /\ H.facts.upto[st.l] = a
       /\ {<<QOf(st.l), Q("q", st.l, a .. b)>>, <<K(st.l), Q("k", st.l, a .. b)>>,
           <<VOf(st.l), Q(VName(st.l), st.l, a .. b)>>} \subseteq H.facts.mem
       /\ J.facts.upto = [H.facts.upto EXCEPT ![st.l] = b + 1]
       /\ \A g \in J.facts.mem : \/ g = <<R("attn"), Q("a", st.l, a .. b)>>
                                 \/ g \in H.facts.mem /\ Apart(g[1], R("attn"))
    \/ /\ st.do = "return" /\ H.gpu = "idle" /\ J.gpu = "idle" /\ H.said = 0 /\ J.said = 1
       /\ J.facts = H.facts /\ ans # Stale /\ <<R("logits"), ans>> \in H.facts.mem

HostLeads(a, b, ans, H, steps, J) ==
    /\ \E C : steps \in Seq(C)
    /\ \E at : /\ at[0] = H /\ at[Len(steps)] = J
               /\ \A i \in 1 .. Len(steps) : HostDoes(a, b, ans, at[i - 1], steps[i], at[i])

LEMMA HostNothing ==
    ASSUME NEW a, NEW b, NEW ans, NEW H
    PROVE  HostLeads(a, b, ans, H, <<>>, H)
<1>1. <<>> \in Seq({}) /\ Len(<<>>) = 0
  OBVIOUS
<1> DEFINE at == [i \in {0} |-> H]
<1>2. at[0] = H
  OBVIOUS
<1> HIDE DEF at
<1>3. \A i \in 1 .. Len(<<>>) : FALSE
  BY <1>1
<1> QED
  BY <1>1, <1>2, <1>3 DEF HostLeads

LEMMA HostOne ==
    ASSUME NEW a, NEW b, NEW ans, NEW H, NEW st, NEW J, HostDoes(a, b, ans, H, st, J)
    PROVE  HostLeads(a, b, ans, H, <<st>>, J)
<1> DEFINE sts == <<st>>
           at == [i \in 0 .. 1 |-> IF i = 0 THEN H ELSE J]
<1>1. sts \in Seq({st}) /\ Len(sts) = 1 /\ sts[1] = st
  OBVIOUS
<1>2. at[0] = H /\ at[1] = J
  OBVIOUS
<1> HIDE DEF sts, at
<1>3. ASSUME NEW i \in 1 .. Len(sts) PROVE HostDoes(a, b, ans, at[i - 1], sts[i], at[i])
  <2>1. i = 1 /\ i - 1 = 0
    BY <1>1
  <2> QED
    BY <1>1, <1>2, <2>1
<1>4. HostLeads(a, b, ans, H, sts, J)
  BY <1>1, <1>2, <1>3 DEF HostLeads
<1> QED
  BY <1>4 DEF sts

LEMMA HostBoth ==
    ASSUME NEW a, NEW b, NEW ans, NEW F, NEW ds, NEW G, NEW es, NEW H,
           HostLeads(a, b, ans, F, ds, G), HostLeads(a, b, ans, G, es, H)
    PROVE  HostLeads(a, b, ans, F, ds \o es, H)
<1>1. PICK C : ds \in Seq(C)
  BY DEF HostLeads
<1>2. PICK E : es \in Seq(E)
  BY DEF HostLeads
<1>3. PICK at : /\ at[0] = F /\ at[Len(ds)] = G
                /\ \A i \in 1 .. Len(ds) : HostDoes(a, b, ans, at[i - 1], ds[i], at[i])
  BY DEF HostLeads
<1>4. PICK bt : /\ bt[0] = G /\ bt[Len(es)] = H
                /\ \A i \in 1 .. Len(es) : HostDoes(a, b, ans, bt[i - 1], es[i], bt[i])
  BY DEF HostLeads
<1> DEFINE n == Len(ds)
           m == Len(es)
           fs == ds \o es
           ct == [i \in 0 .. n + m |-> IF i <= n THEN at[i] ELSE bt[i - n]]
<1>5. n \in Nat /\ m \in Nat
  BY <1>1, <1>2
<1>6. ds \in Seq(C \cup E) /\ es \in Seq(C \cup E)
  BY <1>1, <1>2
<1>7. /\ fs \in Seq(C \cup E) /\ Len(fs) = n + m
      /\ \A i \in 1 .. n : fs[i] = ds[i]
      /\ \A i \in 1 .. m : fs[n + i] = es[i]
  BY <1>6
<1>8. /\ \A i \in 0 .. n : ct[i] = at[i]
      /\ \A i \in 0 .. m : ct[n + i] = bt[i]
  <2>1. \A i \in 0 .. n : ct[i] = at[i]
    BY <1>5
  <2>2. ASSUME NEW i \in 0 .. m PROVE ct[n + i] = bt[i]
    <3>1. CASE i = 0
      BY <1>3, <1>4, <1>5, <3>1
    <3>2. CASE i # 0
      BY <1>5, <3>2
    <3> QED
      BY <3>1, <3>2
  <2> QED
    BY <2>1, <2>2
<1> HIDE DEF fs, ct
<1>9. ASSUME NEW i \in 1 .. n + m
      PROVE  HostDoes(a, b, ans, ct[i - 1], fs[i], ct[i])
  <2>1. CASE i <= n
    <3>1. i \in 1 .. n /\ i - 1 \in 0 .. n /\ i \in 0 .. n
      BY <1>5, <2>1
    <3> QED
      BY <1>3, <1>7, <1>8, <3>1
  <2>2. CASE ~(i <= n)
    <3> DEFINE j == i - n
    <3>1. j \in 1 .. m /\ j - 1 \in 0 .. m /\ j \in 0 .. m /\ n + j = i /\ n + (j - 1) = i - 1
      BY <1>5, <2>2
    <3> HIDE DEF j
    <3> QED
      BY <1>4, <1>7, <1>8, <3>1, Zenon
  <2> QED
    BY <2>1, <2>2
<1>10. ct[0] = F /\ ct[n + m] = H
  <2>1. 0 \in 0 .. n /\ m \in 0 .. m
    BY <1>5
  <2> QED
    BY <1>3, <1>4, <1>8, <2>1
<1>11. HostLeads(a, b, ans, F, fs, H)
  BY <1>7, <1>9, <1>10 DEF HostLeads
<1> QED
  BY <1>11 DEF fs

LEMMA HostAll ==
    ASSUME NEW a, NEW b, NEW ans, NEW n \in Nat, NEW seqs, seqs = [k \in 1 .. n |-> seqs[k]], NEW at,
           \A k \in 1 .. n : HostLeads(a, b, ans, at[k - 1], seqs[k], at[k])
    PROVE  HostLeads(a, b, ans, at[0], FlattenSeq(seqs), at[n])
<1>1. Len(seqs) = n
  OBVIOUS
<1>2. CASE n = 0
  <2>1. FlattenSeq(seqs) = <<>>
    BY <1>1, <1>2 DEF FlattenSeq
  <2> QED
    BY <1>2, <2>1, HostNothing
<1>3. CASE n # 0
  <2>0. n \in Nat \ {0}
    BY <1>3
  <2>1. PICK f : /\ FlattenSeq(seqs) = f[n] /\ f[1] = seqs[1]
                 /\ \A k \in 2 .. n : f[k] = f[k - 1] \o seqs[k]
    BY <1>1, <2>0, FlattenIs, Zenon
  <2> DEFINE S == {k \in Nat : k + 1 <= n => HostLeads(a, b, ans, at[0], f[k + 1], at[k + 1])}
  <2>2. 0 \in S
    <3>1. 1 \in 1 .. n /\ 1 - 1 = 0
      BY <1>3
    <3> QED
      BY <2>1, <3>1
  <2>3. ASSUME NEW k \in Nat, k \in S PROVE k + 1 \in S
    <3> SUFFICES ASSUME k + 2 <= n PROVE HostLeads(a, b, ans, at[0], f[k + 2], at[k + 2])
      OBVIOUS
    <3>1. HostLeads(a, b, ans, at[0], f[k + 1], at[k + 1])
      BY <2>3
    <3>2. k + 2 \in 2 .. n /\ k + 2 \in 1 .. n /\ (k + 2) - 1 = k + 1
      OBVIOUS
    <3>3. HostLeads(a, b, ans, at[k + 1], seqs[k + 2], at[k + 2]) /\ f[k + 2] = f[k + 1] \o seqs[k + 2]
      BY <2>1, <3>2, Zenon
    <3> QED
      BY <3>1, <3>3, HostBoth
  <2> HIDE DEF S
  <2>4. Nat \subseteq S
    BY <2>2, <2>3, Induction
  <2>5. n - 1 \in Nat /\ (n - 1) + 1 = n
    BY <1>3
  <2> QED
    BY <2>1, <2>4, <2>5 DEF S
<1> QED
  BY <1>2, <1>3

LEMMA Two ==
    ASSUME NEW s1, NEW s2
    PROVE  <<s1, s2>> = <<s1>> \o <<s2>>
<1> DEFINE S == {s1, s2}
           t == <<s1, s2>>
           x == <<s1>>
           y == <<s2>>
<1>1. t \in Seq(S) /\ Len(t) = 2 /\ t[1] = s1 /\ t[2] = s2
  OBVIOUS
<1>2. x \in Seq(S) /\ Len(x) = 1 /\ x[1] = s1
  OBVIOUS
<1>3. y \in Seq(S) /\ Len(y) = 1 /\ y[1] = s2
  OBVIOUS
<1> HIDE DEF S, t, x, y
<1>4. /\ x \o y \in Seq(S) /\ Len(x \o y) = Len(x) + Len(y)
      /\ \A i \in 1 .. Len(x) + Len(y) :
            (x \o y)[i] = IF i <= Len(x) THEN x[i] ELSE y[i - Len(x)]
  BY <1>2, <1>3, ConcatProperties
<1>5. x \o y \in Seq(S) /\ Len(x \o y) = 2 /\ \A i \in 1 .. 2 : t[i] = (x \o y)[i]
  BY <1>1, <1>2, <1>3, <1>4
<1>6. t = x \o y
  BY <1>1, <1>5, SeqEqual, Zenon
<1> QED
  BY <1>6 DEF t, x, y

LEMMA Three ==
    ASSUME NEW s1, NEW s2, NEW s3
    PROVE  <<s1, s2, s3>> = <<s1, s2>> \o <<s3>>
<1> DEFINE S == {s1, s2, s3}
           t == <<s1, s2, s3>>
           x == <<s1, s2>>
           y == <<s3>>
<1>1. t \in Seq(S) /\ Len(t) = 3 /\ t[1] = s1 /\ t[2] = s2 /\ t[3] = s3
  OBVIOUS
<1>2. x \in Seq(S) /\ Len(x) = 2 /\ x[1] = s1 /\ x[2] = s2
  OBVIOUS
<1>3. y \in Seq(S) /\ Len(y) = 1 /\ y[1] = s3
  OBVIOUS
<1> HIDE DEF S, t, x, y
<1>4. /\ x \o y \in Seq(S) /\ Len(x \o y) = Len(x) + Len(y)
      /\ \A i \in 1 .. Len(x) + Len(y) :
            (x \o y)[i] = IF i <= Len(x) THEN x[i] ELSE y[i - Len(x)]
  BY <1>2, <1>3, ConcatProperties, Zenon
<1>5. x \o y \in Seq(S) /\ Len(x \o y) = 3 /\ \A i \in 1 .. 3 : t[i] = (x \o y)[i]
  BY <1>1, <1>2, <1>3, <1>4
<1>6. t = x \o y
  BY <1>1, <1>5, SeqEqual, Zenon
<1> QED
  BY <1>6 DEF t, x, y

LEMMA Four ==
    ASSUME NEW s1, NEW s2, NEW s3, NEW s4
    PROVE  <<s1, s2, s3, s4>> = <<s1, s2, s3>> \o <<s4>>
<1> DEFINE S == {s1, s2, s3, s4}
           t == <<s1, s2, s3, s4>>
           x == <<s1, s2, s3>>
           y == <<s4>>
<1>1. t \in Seq(S) /\ Len(t) = 4 /\ t[1] = s1 /\ t[2] = s2 /\ t[3] = s3 /\ t[4] = s4
  OBVIOUS
<1>2. x \in Seq(S) /\ Len(x) = 3 /\ x[1] = s1 /\ x[2] = s2 /\ x[3] = s3
  OBVIOUS
<1>3. y \in Seq(S) /\ Len(y) = 1 /\ y[1] = s4
  OBVIOUS
<1> HIDE DEF S, t, x, y
<1>4. /\ x \o y \in Seq(S) /\ Len(x \o y) = Len(x) + Len(y)
      /\ \A i \in 1 .. Len(x) + Len(y) :
            (x \o y)[i] = IF i <= Len(x) THEN x[i] ELSE y[i - Len(x)]
  BY <1>2, <1>3, ConcatProperties, Zenon
<1>5. x \o y \in Seq(S) /\ Len(x \o y) = 4 /\ \A i \in 1 .. 4 : t[i] = (x \o y)[i]
  BY <1>1, <1>2, <1>3, <1>4
<1>6. t = x \o y
  BY <1>1, <1>5, SeqEqual, Zenon
<1> QED
  BY <1>6 DEF t, x, y

LEMMA Seven ==
    ASSUME NEW s1, NEW s2, NEW s3, NEW s4, NEW s5, NEW s6, NEW s7
    PROVE  <<s1, s2, s3, s4, s5, s6, s7>> = <<s1, s2, s3, s4>> \o <<s5, s6, s7>>
<1> DEFINE S == {s1, s2, s3, s4, s5, s6, s7}
           t == <<s1, s2, s3, s4, s5, s6, s7>>
           x == <<s1, s2, s3, s4>>
           y == <<s5, s6, s7>>
<1>1. t \in Seq(S) /\ Len(t) = 7 /\ t[1] = s1 /\ t[2] = s2 /\ t[3] = s3 /\ t[4] = s4
      /\ t[5] = s5 /\ t[6] = s6 /\ t[7] = s7
  OBVIOUS
<1>2. x \in Seq(S) /\ Len(x) = 4 /\ x[1] = s1 /\ x[2] = s2 /\ x[3] = s3 /\ x[4] = s4
  OBVIOUS
<1>3. y \in Seq(S) /\ Len(y) = 3 /\ y[1] = s5 /\ y[2] = s6 /\ y[3] = s7
  OBVIOUS
<1> HIDE DEF S, t, x, y
<1>4. /\ x \o y \in Seq(S) /\ Len(x \o y) = Len(x) + Len(y)
      /\ \A i \in 1 .. Len(x) + Len(y) :
            (x \o y)[i] = IF i <= Len(x) THEN x[i] ELSE y[i - Len(x)]
  BY <1>2, <1>3, ConcatProperties, Zenon
<1>5. x \o y \in Seq(S) /\ Len(x \o y) = 7 /\ \A i \in 1 .. 7 : t[i] = (x \o y)[i]
  BY <1>1, <1>2, <1>3, <1>4, SMTT(30)
<1>6. t = x \o y
  BY <1>1, <1>5, SeqEqual, Zenon
<1> QED
  BY <1>6 DEF t, x, y

LEMMA HostsIs ==
    ASSUME NEW F, NEW gpu, NEW said
    PROVE  /\ Hosts(F, gpu, said).facts = F /\ Hosts(F, gpu, said).gpu = gpu
           /\ Hosts(F, gpu, said).said = said
BY DEF Hosts

LEMMA MappedLeads ==
    ASSUME NEW a, NEW b, NEW ans, NEW buf \in Buffers, NEW val, val # Stale,
           NEW kept, Clear(kept, R(buf)), NEW u, NEW said
    PROVE  /\ HostLeads(a, b, ans, Hosts(Facts(kept, u), "idle", said), <<Mapped(buf, val)>>,
                        Hosts(Facts(kept \cup {<<R(buf), val>>}, u), "idle", said))
           /\ \A gpu \in {"idle", "busy"} :
                HostLeads(a, b, ans, Hosts(Facts(kept, u), gpu, said), <<Queued(buf, val)>>,
                          Hosts(Facts(kept \cup {<<R(buf), val>>}, u), "busy", said))
<1> DEFINE F == Facts(kept, u)
           G == Facts(kept \cup {<<R(buf), val>>}, u)
           z == [k |-> "store", out |-> R(buf), val |-> val]
<1>1. Framed(F, G, R(buf), val, {})
  BY RegionsAre, NextFacts
<1>2. z.k = "store" /\ z.out = R(buf) /\ z.val = val
  OBVIOUS
<1> HIDE DEF F, G
<1>3. Stores(a, b, F, z, G)
  <2> HIDE DEF z
  <2> QED
    BY <1>1, <1>2 DEF Stores, Framed
<1>4. /\ Mapped(buf, val).do = "mapped" /\ Mapped(buf, val).buf = buf /\ Mapped(buf, val).val = val
      /\ Queued(buf, val).do = "queued" /\ Queued(buf, val).buf = buf /\ Queued(buf, val).val = val
  BY DEF Mapped, Queued
<1>5. HostDoes(a, b, ans, Hosts(F, "idle", said), Mapped(buf, val), Hosts(G, "idle", said))
  BY <1>3, <1>4, HostsIs DEF HostDoes
<1>6. ASSUME NEW gpu \in {"idle", "busy"}
      PROVE  HostDoes(a, b, ans, Hosts(F, gpu, said), Queued(buf, val), Hosts(G, "busy", said))
  BY <1>3, <1>4, HostsIs DEF HostDoes
<1> QED
  BY <1>5, <1>6, HostOne DEF F, G

LEMMA SubmitLeads ==
    ASSUME NEW a, NEW b, NEW ans, NEW F, NEW ds, NEW G, Derives(a, b, F, ds, G), NEW gpu, NEW said
    PROVE  HostLeads(a, b, ans, Hosts(F, gpu, said), <<Submit(ds)>>, Hosts(G, "busy", said))
<1>1. Submit(ds).do = "submit" /\ Submit(ds).ds = ds
  BY DEF Submit
<1>2. HostDoes(a, b, ans, Hosts(F, gpu, said), Submit(ds), Hosts(G, "busy", said))
  BY <1>1, HostsIs DEF HostDoes
<1> QED
  BY <1>2, HostOne

LEMMA WaitLeads ==
    ASSUME NEW a, NEW b, NEW ans, NEW F, NEW gpu, NEW said
    PROVE  HostLeads(a, b, ans, Hosts(F, gpu, said), <<Wait>>, Hosts(F, "idle", said))
<1>1. HostDoes(a, b, ans, Hosts(F, gpu, said), Wait, Hosts(F, "idle", said))
  BY HostsIs DEF HostDoes, Wait
<1> QED
  BY <1>1, HostOne

LEMMA ReturnLeads ==
    ASSUME NEW a, NEW b, NEW ans, ans # Stale, NEW F, <<R("logits"), ans>> \in F.mem
    PROVE  HostLeads(a, b, ans, Hosts(F, "idle", 0), <<Return>>, Hosts(F, "idle", 1))
<1>1. HostDoes(a, b, ans, Hosts(F, "idle", 0), Return, Hosts(F, "idle", 1))
  BY HostsIs DEF HostDoes, Return
<1> QED
  BY <1>1, HostOne

LEMMA AttendLeads ==
    ASSUME NEW a, NEW ans, NEW l \in Layers, NEW m, NEW kept, NEW u, u[l] = a, NEW said,
           {<<QOf(l), Q("q", l, a .. a)>>, <<K(l), Q("k", l, a .. a)>>,
            <<VOf(l), Q(VName(l), l, a .. a)>>} \subseteq m,
           kept \subseteq m, Clear(kept, R("attn"))
    PROVE  HostLeads(a, a, ans, Hosts(Facts(m, u), "idle", said), <<Attend(l)>>,
                     Hosts(Facts(kept \cup {<<R("attn"), Q("a", l, a .. a)>>},
                                 [u EXCEPT ![l] = a + 1]), "busy", said))
<1> DEFINE F == Facts(m, u)
           w == [u EXCEPT ![l] = a + 1]
           next == kept \cup {<<R("attn"), Q("a", l, a .. a)>>}
           G == Facts(next, w)
<1>1. F.mem = m /\ F.upto = u /\ G.mem = next /\ G.upto = w
  BY DEF Facts
<1>2. Attend(l).do = "attend" /\ Attend(l).l = l
  BY DEF Attend
<1>3. \A g \in next : g = <<R("attn"), Q("a", l, a .. a)>> \/ (g \in m /\ Apart(g[1], R("attn")))
  BY DEF Clear
<1> HIDE DEF F, G, next
<1>4. HostDoes(a, a, ans, Hosts(F, "idle", said), Attend(l), Hosts(G, "busy", said))
  <2>1. /\ Hosts(F, "idle", said).facts = F /\ Hosts(F, "idle", said).gpu = "idle"
        /\ Hosts(G, "busy", said).facts = G /\ Hosts(G, "busy", said).gpu = "busy"
        /\ Hosts(F, "idle", said).said = said /\ Hosts(G, "busy", said).said = said
    BY HostsIs
  <2> DEFINE H == Hosts(F, "idle", said)
             J == Hosts(G, "busy", said)
             st == Attend(l)
  <2>2. /\ st.do = "attend" /\ H.gpu = "idle" /\ J.gpu = "busy" /\ J.said = H.said
        /\ st.l \in Layers /\ H.facts.upto[st.l] = a
    BY <1>1, <1>2, <2>1
  <2>3. {<<QOf(st.l), Q("q", st.l, a .. a)>>, <<K(st.l), Q("k", st.l, a .. a)>>,
         <<VOf(st.l), Q(VName(st.l), st.l, a .. a)>>} \subseteq H.facts.mem
    BY <1>1, <1>2, <2>1
  <2>4. J.facts.upto = [H.facts.upto EXCEPT ![st.l] = a + 1]
    BY <1>1, <1>2, <2>1
  <2>5. \A g \in J.facts.mem :
            g = <<R("attn"), Q("a", st.l, a .. a)>> \/ (g \in H.facts.mem /\ Apart(g[1], R("attn")))
    <3>1. J.facts.mem = next /\ H.facts.mem = m /\ st.l = l
      BY <1>1, <1>2, <2>1
    <3> HIDE DEF H, J, st
    <3> QED
      BY <1>3, <3>1, Zenon
  <2> HIDE DEF H, J, st
  <2>6. HostDoes(a, a, ans, H, st, J)
    BY <2>2, <2>3, <2>4, <2>5, Zenon DEF HostDoes
  <2> QED
    BY <2>6 DEF H, J, st
<1> QED
  BY <1>4, HostOne DEF F, G, next

-----------------------------------------------------------------------------
(* The programs of the host *)

\* Where a block begins: nothing known of the activations, the GPU idle.
Fresh(a, b) == Hosts(Facts({}, Reached(a, b, 0)), "idle", 0)

\* The program of a block: it ends idle, every layer's cache holding the block.
Serves(a, b, ans, prog, said) ==
    /\ prog # <<>>
    /\ \E m : HostLeads(a, b, ans, Fresh(a, b), prog,
                        Hosts(Facts(m, Reached(a, b, LastLayer)), "idle", said))

LEMMA NotEmpty ==
    ASSUME NEW a, NEW b, NEW ans, NEW F, NEW ds, NEW G, NEW es, NEW H,
           HostLeads(a, b, ans, F, ds, G), HostLeads(a, b, ans, G, es, H), ds # <<>>
    PROVE  ds \o es # <<>>
<1>1. PICK C : ds \in Seq(C)
  BY DEF HostLeads
<1>2. PICK E : es \in Seq(E)
  BY DEF HostLeads
<1>3. Len(ds) \in Nat /\ Len(es) \in Nat /\ Len(ds) # 0
  BY <1>1, <1>2
<1>4. ds \in Seq(C \cup E) /\ es \in Seq(C \cup E)
  BY <1>1, <1>2
<1>5. Len(ds \o es) = Len(ds) + Len(es)
  BY <1>4
<1> QED
  BY <1>3, <1>5

\* An input is written, by the host or through the queue.
LEMMA LoadLeads ==
    ASSUME NEW a, NEW b, NEW ans, NEW buf \in Buffers, NEW val, val # Stale,
           NEW kept, Clear(kept, R(buf)), NEW next, next = kept \cup {<<R(buf), val>>},
           NEW u, NEW said
    PROVE  /\ HostLeads(a, b, ans, Hosts(Facts(kept, u), "idle", said), <<Mapped(buf, val)>>,
                        Hosts(Facts(next, u), "idle", said))
           /\ HostLeads(a, b, ans, Hosts(Facts(kept, u), "idle", said), <<Queued(buf, val)>>,
                        Hosts(Facts(next, u), "busy", said))
           /\ HostLeads(a, b, ans, Hosts(Facts(kept, u), "busy", said), <<Queued(buf, val)>>,
                        Hosts(Facts(next, u), "busy", said))
BY MappedLeads

\* The four inputs of a block are written.
LEMMA LoadsLead ==
    ASSUME NEW a, NEW b, NEW ans, NEW u, NEW said,
           NEW b1 \in Buffers, NEW b2 \in Buffers, NEW b3 \in Buffers, NEW b4 \in Buffers,
           b1 # b2, b1 # b3, b1 # b4, b2 # b3, b2 # b4, b3 # b4,
           NEW v1, NEW v2, NEW v3, NEW v4, v1 # Stale, v2 # Stale, v3 # Stale, v4 # Stale
    PROVE  /\ HostLeads(a, b, ans, Hosts(Facts({}, u), "idle", said),
                        <<Mapped(b1, v1), Mapped(b2, v2), Mapped(b3, v3), Mapped(b4, v4)>>,
                        Hosts(Facts({<<R(b1), v1>>, <<R(b2), v2>>, <<R(b3), v3>>, <<R(b4), v4>>}, u),
                              "idle", said))
           /\ HostLeads(a, b, ans, Hosts(Facts({}, u), "idle", said),
                        <<Queued(b1, v1), Queued(b2, v2), Queued(b3, v3), Queued(b4, v4)>>,
                        Hosts(Facts({<<R(b1), v1>>, <<R(b2), v2>>, <<R(b3), v3>>, <<R(b4), v4>>}, u),
                              "busy", said))
<1> DEFINE f1 == <<R(b1), v1>>
           f2 == <<R(b2), v2>>
           f3 == <<R(b3), v3>>
           f4 == <<R(b4), v4>>
           S1 == {f1}
           S2 == {f1, f2}
           S3 == {f1, f2, f3}
           S4 == {f1, f2, f3, f4}
           F0 == Facts({}, u)
           F1 == Facts(S1, u)
           F2 == Facts(S2, u)
           F3 == Facts(S3, u)
           F4 == Facts(S4, u)
<1>1. f1[1] = R(b1) /\ f2[1] = R(b2) /\ f3[1] = R(b3)
  OBVIOUS
<1> HIDE DEF f1, f2, f3, f4
<1>2. /\ Clear({}, R(b1)) /\ Clear(S1, R(b2)) /\ Clear(S2, R(b3)) /\ Clear(S3, R(b4))
  BY <1>1, RegionsAre DEF Clear
<1>3. /\ S1 = {} \cup {f1} /\ S2 = S1 \cup {f2} /\ S3 = S2 \cup {f3} /\ S4 = S3 \cup {f4}
  OBVIOUS
<1> HIDE DEF S1, S2, S3, S4
<1>4. /\ HostLeads(a, b, ans, Hosts(F0, "idle", said), <<Mapped(b1, v1)>>, Hosts(F1, "idle", said))
      /\ HostLeads(a, b, ans, Hosts(F0, "idle", said), <<Queued(b1, v1)>>, Hosts(F1, "busy", said))
  BY <1>2, <1>3, LoadLeads, Zenon DEF f1
<1>5. /\ HostLeads(a, b, ans, Hosts(F1, "idle", said), <<Mapped(b2, v2)>>, Hosts(F2, "idle", said))
      /\ HostLeads(a, b, ans, Hosts(F1, "busy", said), <<Queued(b2, v2)>>, Hosts(F2, "busy", said))
  BY <1>2, <1>3, LoadLeads, Zenon DEF f2
<1>6. /\ HostLeads(a, b, ans, Hosts(F2, "idle", said), <<Mapped(b3, v3)>>, Hosts(F3, "idle", said))
      /\ HostLeads(a, b, ans, Hosts(F2, "busy", said), <<Queued(b3, v3)>>, Hosts(F3, "busy", said))
  BY <1>2, <1>3, LoadLeads, Zenon DEF f3
<1>7. /\ HostLeads(a, b, ans, Hosts(F3, "idle", said), <<Mapped(b4, v4)>>, Hosts(F4, "idle", said))
      /\ HostLeads(a, b, ans, Hosts(F3, "busy", said), <<Queued(b4, v4)>>, Hosts(F4, "busy", said))
  BY <1>2, <1>3, LoadLeads, ZenonT(30) DEF f4
<1> HIDE DEF F0, F1, F2, F3, F4
<1>8. /\ HostLeads(a, b, ans, Hosts(F0, "idle", said), <<Mapped(b1, v1), Mapped(b2, v2)>>,
                   Hosts(F2, "idle", said))
      /\ HostLeads(a, b, ans, Hosts(F0, "idle", said), <<Queued(b1, v1), Queued(b2, v2)>>,
                   Hosts(F2, "busy", said))
  <2>1. /\ <<Mapped(b1, v1), Mapped(b2, v2)>> = <<Mapped(b1, v1)>> \o <<Mapped(b2, v2)>>
        /\ <<Queued(b1, v1), Queued(b2, v2)>> = <<Queued(b1, v1)>> \o <<Queued(b2, v2)>>
    BY Two
  <2> QED
    BY <1>4, <1>5, <2>1, HostBoth, Zenon
<1>9. /\ HostLeads(a, b, ans, Hosts(F0, "idle", said),
                   <<Mapped(b1, v1), Mapped(b2, v2), Mapped(b3, v3)>>, Hosts(F3, "idle", said))
      /\ HostLeads(a, b, ans, Hosts(F0, "idle", said),
                   <<Queued(b1, v1), Queued(b2, v2), Queued(b3, v3)>>, Hosts(F3, "busy", said))
  <2>1. /\ <<Mapped(b1, v1), Mapped(b2, v2), Mapped(b3, v3)>>
              = <<Mapped(b1, v1), Mapped(b2, v2)>> \o <<Mapped(b3, v3)>>
        /\ <<Queued(b1, v1), Queued(b2, v2), Queued(b3, v3)>>
              = <<Queued(b1, v1), Queued(b2, v2)>> \o <<Queued(b3, v3)>>
    BY Three, Zenon
  <2> QED
    BY <1>6, <1>8, <2>1, HostBoth, Zenon
<1>10. /\ HostLeads(a, b, ans, Hosts(F0, "idle", said),
                    <<Mapped(b1, v1), Mapped(b2, v2), Mapped(b3, v3), Mapped(b4, v4)>>,
                    Hosts(F4, "idle", said))
       /\ HostLeads(a, b, ans, Hosts(F0, "idle", said),
                    <<Queued(b1, v1), Queued(b2, v2), Queued(b3, v3), Queued(b4, v4)>>,
                    Hosts(F4, "busy", said))
  <2>1. /\ <<Mapped(b1, v1), Mapped(b2, v2), Mapped(b3, v3), Mapped(b4, v4)>>
              = <<Mapped(b1, v1), Mapped(b2, v2), Mapped(b3, v3)>> \o <<Mapped(b4, v4)>>
        /\ <<Queued(b1, v1), Queued(b2, v2), Queued(b3, v3), Queued(b4, v4)>>
              = <<Queued(b1, v1), Queued(b2, v2), Queued(b3, v3)>> \o <<Queued(b4, v4)>>
    BY Four, ZenonT(30)
  <2> QED
    BY <1>7, <1>9, <2>1, HostBoth, Zenon
<1> QED
  BY <1>10 DEF F0, F4, S4, f1, f2, f3, f4

\* The work is submitted, waited for, and the answer taken.
LEMMA AnswerLeads ==
    ASSUME NEW a, NEW b, NEW ans, NEW F, NEW ds, NEW G, Derives(a, b, F, ds, G),
           ans # Stale, <<R("logits"), ans>> \in G.mem, NEW gpu
    PROVE  HostLeads(a, b, ans, Hosts(F, gpu, 0), <<Submit(ds), Wait, Return>>, Hosts(G, "idle", 1))
<1>1. HostLeads(a, b, ans, Hosts(F, gpu, 0), <<Submit(ds)>>, Hosts(G, "busy", 0))
  BY SubmitLeads
<1>2. HostLeads(a, b, ans, Hosts(G, "busy", 0), <<Wait>>, Hosts(G, "idle", 0))
  BY WaitLeads
<1>3. HostLeads(a, b, ans, Hosts(G, "idle", 0), <<Return>>, Hosts(G, "idle", 1))
  BY ReturnLeads
<1>4. HostLeads(a, b, ans, Hosts(F, gpu, 0), <<Submit(ds), Wait>>, Hosts(G, "idle", 0))
  <2>1. <<Submit(ds), Wait>> = <<Submit(ds)>> \o <<Wait>>
    BY Two
  <2> QED
    BY <1>1, <1>2, <2>1, HostBoth, Zenon
<1>5. <<Submit(ds), Wait, Return>> = <<Submit(ds), Wait>> \o <<Return>>
  BY Three, Zenon
<1> QED
  BY <1>3, <1>4, <1>5, HostBoth, Zenon

LEMMA Loaded ==
    ASSUME NEW S
    PROVE  /\ {<<R("h"), Embedded(S)>>, <<R("dyn"), DynOf(S)>>, <<R("rope_sliding"), RopeOf(S)>>,
               <<R("rope_full"), RopeOf(S)>>} = FixedOf(S) \cup {<<R("h"), Q("x", 1, S)>>}
           /\ Embedded(S) # Stale /\ DynOf(S) # Stale /\ RopeOf(S) # Stale
<1>1. Embedded(S) # Stale /\ DynOf(S) # Stale /\ RopeOf(S) # Stale
  BY NotStale DEF Embedded, DynOf, RopeOf
<1>2. {<<R("h"), Embedded(S)>>, <<R("dyn"), DynOf(S)>>, <<R("rope_sliding"), RopeOf(S)>>,
       <<R("rope_full"), RopeOf(S)>>} = FixedOf(S) \cup {<<R("h"), Q("x", 1, S)>>}
  BY DEF FixedOf, Embedded, DynOf, RopeOf
<1> QED
  BY <1>1, <1>2

LEMMA ForwardServes ==
    ASSUME NEW a, NEW b, InContext(a, b), NEW c
    PROVE  Serves(a, b, Q("logits", LastLayer + 1, a .. b), forward(c, a .. b), 1)
<1> DEFINE S == a .. b
           ans == Q("logits", LastLayer + 1, S)
           in == FixedOf(S) \cup {<<R("h"), Q("x", 1, S)>>}
           out == FixedOf(S) \cup {<<R("logits"), ans>>}
           F == Facts(in, Reached(a, b, 0))
           G == Facts(out, Reached(a, b, LastLayer))
           loads == <<Mapped("h", Embedded(S)), Mapped("dyn", DynOf(S)),
                      Mapped("rope_sliding", RopeOf(S)), Mapped("rope_full", RopeOf(S))>>
           rest == <<Submit(VkToken(c.direct)), Wait, Return>>
<1>1. {"h", "dyn", "rope_sliding", "rope_full"} \subseteq Buffers
  BY DEF Buffers
<1>2. HostLeads(a, b, ans, Fresh(a, b), loads, Hosts(F, "idle", 0))
  <2>1. HostLeads(a, b, ans, Fresh(a, b), loads,
                  Hosts(Facts({<<R("h"), Embedded(S)>>, <<R("dyn"), DynOf(S)>>,
                               <<R("rope_sliding"), RopeOf(S)>>, <<R("rope_full"), RopeOf(S)>>},
                              Reached(a, b, 0)), "idle", 0))
    <3> Embedded(S) # Stale /\ DynOf(S) # Stale /\ RopeOf(S) # Stale
      BY Loaded
    <3> QED
      BY <1>1, LoadsLead, ZenonT(30) DEF Fresh
  <2> QED
    BY <2>1, Loaded, Zenon
<1>3. Derives(a, b, F, VkToken(c.direct), G)
  BY VkTokenDerives
<1>4. <<R("logits"), ans>> \in G.mem /\ ans # Stale
  BY NotStale DEF Facts
<1>5. forward(c, S) = loads \o rest
  BY Seven DEF forward
<1>8. loads # <<>>
  OBVIOUS
<1> HIDE DEF S, ans, in, F, loads, rest
<1>6. HostLeads(a, b, ans, Hosts(F, "idle", 0), rest, Hosts(G, "idle", 1))
  <2> HIDE DEF G
  <2> QED
    BY <1>3, <1>4, AnswerLeads DEF rest
<1>7. HostLeads(a, b, ans, Fresh(a, b), forward(c, S), Hosts(G, "idle", 1)) /\ forward(c, S) # <<>>
  BY <1>2, <1>5, <1>6, <1>8, HostBoth, NotEmpty
<1> QED
  BY <1>7 DEF Serves, S, ans

LEMMA FullForwardServes ==
    ASSUME NEW a, NEW b, InContext(a, b)
    PROVE  Serves(a, b, Q("capped", LastLayer + 1, a .. b), full_forward(a .. b), 1)
<1> DEFINE S == a .. b
           ans == Q("capped", LastLayer + 1, S)
           in == FixedOf(S) \cup {<<R("h"), Q("x", 1, S)>>}
           out == FixedOf(S) \cup {<<R("logits"), ans>>}
           F == Facts(in, Reached(a, b, 0))
           G == Facts(out, Reached(a, b, LastLayer))
           loads == <<Queued("h", Embedded(S)), Queued("dyn", DynOf(S)),
                      Queued("rope_sliding", RopeOf(S)), Queued("rope_full", RopeOf(S))>>
           rest == <<Submit(full_token), Wait, Return>>
<1>1. {"h", "dyn", "rope_sliding", "rope_full"} \subseteq Buffers
  BY DEF Buffers
<1>2. HostLeads(a, b, ans, Fresh(a, b), loads, Hosts(F, "busy", 0))
  <2>1. HostLeads(a, b, ans, Fresh(a, b), loads,
                  Hosts(Facts({<<R("h"), Embedded(S)>>, <<R("dyn"), DynOf(S)>>,
                               <<R("rope_sliding"), RopeOf(S)>>, <<R("rope_full"), RopeOf(S)>>},
                              Reached(a, b, 0)), "busy", 0))
    <3> Embedded(S) # Stale /\ DynOf(S) # Stale /\ RopeOf(S) # Stale
      BY Loaded
    <3> QED
      BY <1>1, LoadsLead, ZenonT(30) DEF Fresh
  <2> QED
    BY <2>1, Loaded, Zenon
<1>3. Derives(a, b, F, full_token, G)
  BY FullTokenDerives
<1>4. <<R("logits"), ans>> \in G.mem /\ ans # Stale
  BY NotStale DEF Facts
<1>5. full_forward(S) = loads \o rest
  BY Seven DEF full_forward
<1>8. loads # <<>>
  OBVIOUS
<1> HIDE DEF S, ans, in, F, loads, rest
<1>6. HostLeads(a, b, ans, Hosts(F, "busy", 0), rest, Hosts(G, "idle", 1))
  <2> HIDE DEF G
  <2> QED
    BY <1>3, <1>4, AnswerLeads DEF rest
<1>7. HostLeads(a, b, ans, Fresh(a, b), full_forward(S), Hosts(G, "idle", 1)) /\ full_forward(S) # <<>>
  BY <1>2, <1>5, <1>6, <1>8, HostBoth, NotEmpty
<1> QED
  BY <1>7 DEF Serves, S, ans

\* With attention on the CPU the host steps in between the submits of a layer.
LEMMA ResidentLayerLeads ==
    ASSUME NEW a \in Nat, NEW ans, NEW l \in Layers, NEW gpu
    PROVE  HostLeads(a, a, ans,
                     Hosts(Facts({<<R("h"), Q("x", l, a .. a)>>}, Reached(a, a, l - 1)), gpu, 0),
                     <<Submit(ResidentQKV(l)), Wait, Attend(l), Submit(ResidentMLP(l))>>,
                     Hosts(Facts({<<R("h"), Q("x", l + 1, a .. a)>>}, Reached(a, a, l)), "busy", 0))
<1> DEFINE S == a .. a
           u == Reached(a, a, l - 1)
           w == Reached(a, a, l)
           x == <<R("h"), Q("x", l, S)>>
           q == <<QOf(l), Q("q", l, S)>>
           k == <<K(l), Q("k", l, S)>>
           v == <<VOf(l), Q(VName(l), l, S)>>
           at == <<R("attn"), Q("a", l, S)>>
           z == <<R("h"), Q("x", l + 1, S)>>
           H0 == Hosts(Facts({x}, u), gpu, 0)
           H1 == Hosts(Facts({x, q, k, v}, u), "busy", 0)
           H2 == Hosts(Facts({x, q, k, v}, u), "idle", 0)
           H3 == Hosts(Facts({x, at}, w), "busy", 0)
           H4 == Hosts(Facts({z}, w), "busy", 0)
           s1 == Submit(ResidentQKV(l))
           s2 == Wait
           s3 == Attend(l)
           s4 == Submit(ResidentMLP(l))
<1>1. HostLeads(a, a, ans, H0, <<s1>>, H1)
  BY ResidentQkvDerives, SubmitLeads, Zenon
<1>2. HostLeads(a, a, ans, H1, <<s2>>, H2)
  BY WaitLeads
<1>3. HostLeads(a, a, ans, H2, <<s3>>, H3)
  <2>1. u[l] = a /\ [u EXCEPT ![l] = a + 1] = w
    BY ReachedIs
  <2>2. {x} \subseteq {x, q, k, v} /\ {q, k, v} \subseteq {x, q, k, v} /\ {x} \cup {at} = {x, at}
    OBVIOUS
  <2>3. Clear({x}, R("attn"))
    <3>1. x[1] = R("h")
      OBVIOUS
    <3> HIDE DEF x
    <3> QED
      BY <3>1, RegionsAre DEF Clear
  <2> HIDE DEF u, w, x
  <2>4. HostLeads(a, a, ans, Hosts(Facts({x, q, k, v}, u), "idle", 0), <<Attend(l)>>,
                  Hosts(Facts({x} \cup {<<R("attn"), Q("a", l, a .. a)>>}, [u EXCEPT ![l] = a + 1]),
                        "busy", 0))
    BY <2>1, <2>2, <2>3, AttendLeads, Zenon
  <2> QED
    BY <2>1, <2>2, <2>4, Zenon
<1>4. HostLeads(a, a, ans, H3, <<s4>>, H4)
  BY ResidentMlpDerives, SubmitLeads, Zenon
<1> HIDE DEF H0, H1, H2, H3, H4, s1, s2, s3, s4
<1>5. HostLeads(a, a, ans, H0, <<s1, s2>>, H2)
  BY <1>1, <1>2, Two, HostBoth, Zenon
<1>6. HostLeads(a, a, ans, H0, <<s1, s2, s3>>, H3)
  BY <1>3, <1>5, Three, HostBoth, Zenon
<1>7. HostLeads(a, a, ans, H0, <<s1, s2, s3, s4>>, H4)
  BY <1>4, <1>6, Four, HostBoth, ZenonT(30)
<1> QED
  BY <1>7 DEF H0, H4, s1, s2, s3, s4

LEMMA ResidentForwardServes ==
    ASSUME NEW a \in Nat, InContext(a, a)
    PROVE  Serves(a, a, Q("capped", LastLayer + 1, a .. a), resident_forward(a .. a), 1)
<1> DEFINE S == a .. a
           ans == Q("capped", LastLayer + 1, S)
           at == [k \in 0 .. LastLayer |->
                    Hosts(Facts({<<R("h"), Q("x", k + 1, S)>>}, Reached(a, a, k)), "busy", 0)]
           seqs == [l \in Layers |->
                      <<Submit(ResidentQKV(l)), Wait, Attend(l), Submit(ResidentMLP(l))>>]
           load == <<Queued("h", Embedded(S))>>
           rest == <<Submit(resident_head), Wait, Return>>
           G == Facts({<<R("logits"), ans>>}, Reached(a, a, LastLayer))
<1>1. LastLayer \in Nat /\ Layers = 1 .. LastLayer
  BY TokenGraphAssumption DEF Layers, LastLayer
<1>2. HostLeads(a, a, ans, Fresh(a, a), load, at[0])
  <2>1. /\ at[0] = Hosts(Facts({<<R("h"), Q("x", 1, S)>>}, Reached(a, a, 0)), "busy", 0)
    BY <1>1
  <2>2. "h" \in Buffers /\ Clear({}, R("h")) /\ Embedded(S) # Stale
    BY Loaded DEF Buffers, Clear
  <2>3. {} \cup {<<R("h"), Q("x", 1, S)>>} = {<<R("h"), Q("x", 1, S)>>} /\ Embedded(S) = Q("x", 1, S)
    BY DEF Embedded
  <2> HIDE DEF S, ans, at
  <2>4. HostLeads(a, a, ans, Hosts(Facts({}, Reached(a, a, 0)), "idle", 0), <<Queued("h", Embedded(S))>>,
                  Hosts(Facts({} \cup {<<R("h"), Embedded(S)>>}, Reached(a, a, 0)), "busy", 0))
    BY <2>2, MappedLeads, Zenon
  <2> QED
    BY <2>1, <2>3, <2>4 DEF Fresh
<1>3. HostLeads(a, a, ans, at[0], FlattenSeq(seqs), at[LastLayer])
  <2>1. ASSUME NEW l \in 1 .. LastLayer
        PROVE  HostLeads(a, a, ans, at[l - 1], seqs[l], at[l])
    <3>1. l - 1 \in 0 .. LastLayer /\ l \in 0 .. LastLayer /\ (l - 1) + 1 = l /\ l \in Layers
      BY <1>1
    <3>2. /\ at[l - 1] = Hosts(Facts({<<R("h"), Q("x", l, S)>>}, Reached(a, a, l - 1)), "busy", 0)
          /\ at[l] = Hosts(Facts({<<R("h"), Q("x", l + 1, S)>>}, Reached(a, a, l)), "busy", 0)
          /\ seqs[l] = <<Submit(ResidentQKV(l)), Wait, Attend(l), Submit(ResidentMLP(l))>>
      BY <3>1
    <3> HIDE DEF at, seqs
    <3> QED
      BY <3>1, <3>2, ResidentLayerLeads
  <2>2. seqs = [l \in 1 .. LastLayer |-> seqs[l]]
    BY <1>1
  <2> HIDE DEF at, seqs, ans
  <2> QED
    BY <1>1, <2>1, <2>2, HostAll, Zenon
<1>4. HostLeads(a, a, ans, at[LastLayer], rest, Hosts(G, "idle", 1))
  <2>1. Derives(a, a, Facts({<<R("h"), Q("x", LastLayer + 1, S)>>}, Reached(a, a, LastLayer)),
                resident_head, G)
    BY ResidentHeadDerives
  <2>2. at[LastLayer] = Hosts(Facts({<<R("h"), Q("x", LastLayer + 1, S)>>},
                                    Reached(a, a, LastLayer)), "busy", 0)
    BY <1>1
  <2>3. <<R("logits"), ans>> \in G.mem /\ ans # Stale
    BY NotStale DEF Facts
  <2> HIDE DEF G, at, ans
  <2> QED
    BY <2>1, <2>2, <2>3, AnswerLeads
<1>5. resident_forward(S) = load \o FlattenSeq(seqs) \o rest
  BY DEF resident_forward
<1>8. load # <<>>
  OBVIOUS
<1> HIDE DEF ans, at, seqs, load, rest
<1>6. /\ HostLeads(a, a, ans, Fresh(a, a), load \o FlattenSeq(seqs), at[LastLayer])
      /\ load \o FlattenSeq(seqs) # <<>>
  BY <1>2, <1>3, <1>8, HostBoth, NotEmpty
<1>7. /\ HostLeads(a, a, ans, Fresh(a, a), resident_forward(S), Hosts(G, "idle", 1))
      /\ resident_forward(S) # <<>>
  <2> HIDE DEF G, S
  <2>1. /\ HostLeads(a, a, ans, Fresh(a, a), load \o FlattenSeq(seqs) \o rest, Hosts(G, "idle", 1))
        /\ load \o FlattenSeq(seqs) \o rest # <<>>
    BY <1>4, <1>6, HostBoth, NotEmpty
  <2> QED
    BY <1>5, <2>1
<1> QED
  BY <1>7, Zenon DEF Serves, ans

\* The inputs of a chunk.
FixedMOf(S) == {<<R("dynp"), Q("dyn", 0, S)>>, <<R("ropeM_sliding"), Q("rope", 0, S)>>,
                <<R("ropeM_full"), Q("rope", 0, S)>>}

LEMMA FixedMOfIs ==
    ASSUME NEW S
    PROVE  /\ FixedM(FixedMOf(S)) /\ <<R("dynp"), Q("dyn", 0, S)>> \in FixedMOf(S)
           /\ \A l : <<RopeM(l), Q("rope", 0, S)>> \in FixedMOf(S)
<1>1. ASSUME NEW g \in FixedMOf(S) PROVE g[1] \in InputsM
  BY DEF FixedMOf, InputsM
<1>2. \A l : <<RopeM(l), Q("rope", 0, S)>> \in FixedMOf(S)
  BY DEF FixedMOf, RopeM
<1>3. <<R("dynp"), Q("dyn", 0, S)>> \in FixedMOf(S)
  BY DEF FixedMOf
<1> QED
  BY <1>1, <1>2, <1>3 DEF FixedM

\* The facts of a chunk when k layers have run.
ChunkFacts(a, b, k) ==
    Facts(FixedMOf(a .. b) \cup {<<R("Xp"), Q("x", k + 1, a .. b)>>}, Reached(a, b, k))

\* One group of layers, in one submit.
LEMMA GroupDerives ==
    ASSUME NEW a, NEW b, InContext(a, b), NEW i8, NEW first \in Nat, NEW size \in Nat,
           first + size <= LastLayer
    PROVE  Derives(a, b, ChunkFacts(a, b, first),
                   FlattenSeq([j \in 1 .. size |-> rec_layer(i8, first + j)]),
                   ChunkFacts(a, b, first + size))
<1> DEFINE X == FixedMOf(a .. b)
           at == [j \in 0 .. size |-> ChunkFacts(a, b, first + j)]
           seqs == [j \in 1 .. size |-> rec_layer(i8, first + j)]
<1>1. LastLayer \in Nat /\ Layers = 1 .. LastLayer
  BY TokenGraphAssumption DEF Layers, LastLayer
<1>2. ASSUME NEW j \in 1 .. size PROVE Derives(a, b, at[j - 1], seqs[j], at[j])
  <2> DEFINE l == first + j
  <2>1. /\ l \in Layers /\ l - 1 = first + (j - 1) /\ (l - 1) + 1 = l
        /\ j - 1 \in 0 .. size /\ j \in 0 .. size
    BY <1>1
  <2>2. /\ at[j - 1] = ChunkFacts(a, b, l - 1) /\ at[j] = ChunkFacts(a, b, l)
        /\ seqs[j] = rec_layer(i8, l)
    BY <2>1
  <2> HIDE DEF l, at, seqs
  <2>3. /\ FixedM(X) /\ <<R("dynp"), Q("dyn", 0, a .. b)>> \in X
        /\ <<RopeM(l), Q("rope", 0, a .. b)>> \in X
    BY FixedMOfIs
  <2>4. /\ DOMAIN Reached(a, b, l - 1) = Layers /\ Reached(a, b, l - 1)[l] = a
        /\ [Reached(a, b, l - 1) EXCEPT ![l] = b + 1] = Reached(a, b, l)
    BY <2>1, ReachedIs
  <2> HIDE DEF X
  <2>5. Derives(a, b, Facts(X \cup {<<R("Xp"), Q("x", l, a .. b)>>}, Reached(a, b, l - 1)),
                rec_layer(i8, l),
                Facts(X \cup {<<R("Xp"), Q("x", l + 1, a .. b)>>}, Reached(a, b, l)))
    BY <2>1, <2>3, <2>4, RecLayerDerives
  <2> QED
    BY <2>1, <2>2, <2>5, Zenon DEF ChunkFacts, X
<1>3. /\ at[0] = ChunkFacts(a, b, first) /\ at[size] = ChunkFacts(a, b, first + size)
  OBVIOUS
<1>4. seqs = [j \in 1 .. size |-> seqs[j]]
  OBVIOUS
<1> HIDE DEF at, seqs
<1>5. Derives(a, b, at[0], FlattenSeq(seqs), at[size])
  BY <1>2, <1>4, DerivesAll, Zenon
<1> QED
  BY <1>3, <1>5 DEF seqs

\* The groups cover the layers: gi of them end at this one.
GroupEnd(G, gi) == IF gi * G <= LastLayer THEN gi * G ELSE LastLayer

LEMMA GroupsCover ==
    ASSUME NEW c, c.GLAY \in Nat \ {0}
    PROVE  /\ Groups(c) \in Nat /\ GroupEnd(c.GLAY, 0) = 0
           /\ GroupEnd(c.GLAY, Groups(c)) = LastLayer
           /\ \A gi \in 1 .. Groups(c) :
                /\ (gi - 1) * c.GLAY \in Nat /\ (gi - 1) * c.GLAY <= LastLayer
                /\ GroupEnd(c.GLAY, gi - 1) = (gi - 1) * c.GLAY
                /\ GroupEnd(c.GLAY, gi) = IF (gi - 1) * c.GLAY + c.GLAY <= LastLayer
                                          THEN (gi - 1) * c.GLAY + c.GLAY ELSE LastLayer
<1> DEFINE G == c.GLAY
           n == Groups(c)
           L == LastLayer
<1>1. L \in Nat /\ G \in Nat \ {0}
  BY TokenGraphAssumption DEF LastLayer
<1>2. n = (L + G - 1) \div G
  BY DEF Groups
<1> HIDE DEF G, n, L
<1>3. n \in Nat /\ n * G <= L + G - 1 /\ L + G - 1 < (n + 1) * G
  BY <1>1, <1>2
<1>4. (n + 1) * G = n * G + G
  BY <1>1, <1>3
<1>5. n * G >= L
  BY <1>1, <1>3, <1>4
<1>6. ASSUME NEW gi \in 1 .. n
      PROVE  (gi - 1) * G \in Nat /\ (gi - 1) * G <= L /\ gi * G = (gi - 1) * G + G
  <2>1. gi * G = (gi - 1) * G + G /\ (gi - 1) * G \in Nat
    BY <1>1, <1>3
  <2>2. gi * G <= n * G
    BY <1>1, <1>3
  <2> QED
    BY <1>1, <1>3, <2>1, <2>2
<1>7. GroupEnd(G, 0) = 0
  BY <1>1 DEF GroupEnd, L
<1>8. GroupEnd(G, n) = L
  BY <1>1, <1>3, <1>5 DEF GroupEnd, L
<1>9. ASSUME NEW gi \in 1 .. n
      PROVE  /\ GroupEnd(G, gi - 1) = (gi - 1) * G
             /\ GroupEnd(G, gi) = IF (gi - 1) * G + G <= L THEN (gi - 1) * G + G ELSE L
  BY <1>6 DEF GroupEnd, L
<1> QED
  BY <1>3, <1>6, <1>7, <1>8, <1>9 DEF G, n, L

LEMMA ForwardPrefillServes ==
    ASSUME NEW a, NEW b, InContext(a, b), NEW ans, NEW c, c.GLAY \in Nat \ {0}
    PROVE  Serves(a, b, ans, forward_prefill(c, a .. b), 0)
<1> DEFINE S == a .. b
           G == c.GLAY
           n == Groups(c)
           first(gi) == (gi - 1) * G
           size(gi) == IF first(gi) + G <= LastLayer THEN G ELSE LastLayer - first(gi)
           group(gi) == FlattenSeq([j \in 1 .. size(gi) |-> rec_layer(c.i8, first(gi) + j)])
           at == [gi \in 0 .. n |-> Hosts(ChunkFacts(a, b, GroupEnd(G, gi)), "idle", 0)]
           seqs == [gi \in 1 .. n |-> <<Submit(group(gi)), Wait>>]
           loads == <<Mapped("Xp", Embedded(S)), Mapped("dynp", DynOf(S)),
                      Mapped("ropeM_sliding", RopeOf(S)), Mapped("ropeM_full", RopeOf(S))>>
<1>1. LastLayer \in Nat /\ n \in Nat
  BY TokenGraphAssumption, GroupsCover DEF LastLayer
<1>2. HostLeads(a, b, ans, Fresh(a, b), loads, at[0])
  <2>1. {"Xp", "dynp", "ropeM_sliding", "ropeM_full"} \subseteq Buffers
    BY DEF Buffers
  <2>2. Embedded(S) # Stale /\ DynOf(S) # Stale /\ RopeOf(S) # Stale
    BY Loaded
  <2>3. at[0] = Hosts(ChunkFacts(a, b, 0), "idle", 0)
    BY <1>1, GroupsCover
  <2>4. {<<R("Xp"), Embedded(S)>>, <<R("dynp"), DynOf(S)>>, <<R("ropeM_sliding"), RopeOf(S)>>,
         <<R("ropeM_full"), RopeOf(S)>>} = FixedMOf(S) \cup {<<R("Xp"), Q("x", 0 + 1, S)>>}
    BY DEF FixedMOf, Embedded, DynOf, RopeOf
  <2>5. HostLeads(a, b, ans, Hosts(Facts({}, Reached(a, b, 0)), "idle", 0), loads,
                  Hosts(Facts({<<R("Xp"), Embedded(S)>>, <<R("dynp"), DynOf(S)>>,
                               <<R("ropeM_sliding"), RopeOf(S)>>, <<R("ropeM_full"), RopeOf(S)>>},
                              Reached(a, b, 0)), "idle", 0))
    BY <2>1, <2>2, LoadsLead, ZenonT(30)
  <2> HIDE DEF at, loads
  <2> QED
    BY <2>3, <2>4, <2>5, Zenon DEF Fresh, ChunkFacts
<1>3. ASSUME NEW gi \in 1 .. n PROVE HostLeads(a, b, ans, at[gi - 1], seqs[gi], at[gi])
  <2>1. /\ first(gi) \in Nat /\ first(gi) <= LastLayer /\ GroupEnd(G, gi - 1) = first(gi)
        /\ GroupEnd(G, gi) = IF first(gi) + G <= LastLayer THEN first(gi) + G ELSE LastLayer
    BY GroupsCover
  <2>2. gi - 1 \in 0 .. n /\ gi \in 0 .. n
    BY <1>1
  <2>3. /\ at[gi - 1] = Hosts(ChunkFacts(a, b, first(gi)), "idle", 0)
        /\ at[gi] = Hosts(ChunkFacts(a, b, GroupEnd(G, gi)), "idle", 0)
        /\ seqs[gi] = <<Submit(group(gi)), Wait>>
    BY <2>1, <2>2
  <2>4. size(gi) \in Nat /\ first(gi) + size(gi) = GroupEnd(G, gi) /\ first(gi) + size(gi) <= LastLayer
    <3> HIDE DEF first
    <3> QED
      BY <1>1, <2>1
  <2>5. Derives(a, b, ChunkFacts(a, b, first(gi)), group(gi), ChunkFacts(a, b, GroupEnd(G, gi)))
    <3> HIDE DEF first, size
    <3> QED
      BY <2>1, <2>4, GroupDerives, Zenon
  <2> HIDE DEF at, seqs, group, first, size
  <2>6. HostLeads(a, b, ans, at[gi - 1], <<Submit(group(gi))>>,
                  Hosts(ChunkFacts(a, b, GroupEnd(G, gi)), "busy", 0))
    BY <2>3, <2>5, SubmitLeads
  <2>7. HostLeads(a, b, ans, Hosts(ChunkFacts(a, b, GroupEnd(G, gi)), "busy", 0), <<Wait>>, at[gi])
    BY <2>3, WaitLeads
  <2>8. <<Submit(group(gi)), Wait>> = <<Submit(group(gi))>> \o <<Wait>>
    BY Two
  <2> QED
    BY <2>3, <2>6, <2>7, <2>8, HostBoth, Zenon
<1>4. seqs = [gi \in 1 .. n |-> seqs[gi]]
  BY Zenon
<1>5. at[n] = Hosts(ChunkFacts(a, b, LastLayer), "idle", 0)
  BY <1>1, GroupsCover
<1>6. forward_prefill(c, S) = loads \o FlattenSeq(seqs)
  BY DEF forward_prefill
<1>9. loads # <<>>
  OBVIOUS
<1> HIDE DEF S, G, n, at, seqs, loads
<1>7. HostLeads(a, b, ans, at[0], FlattenSeq(seqs), at[n])
  BY <1>1, <1>3, <1>4, HostAll, Zenon
<1>8. HostLeads(a, b, ans, Fresh(a, b), forward_prefill(c, S), at[n]) /\ forward_prefill(c, S) # <<>>
  BY <1>2, <1>6, <1>7, <1>9, HostBoth, NotEmpty
<1> QED
  BY <1>5, <1>8 DEF Serves, ChunkFacts, S

-----------------------------------------------------------------------------
(* The blocks of a configuration *)

\* The first position of block i: every block ends where the next begins.
First(c, i) ==
    IF c.engine = "vk"
    THEN IF i <= Chunks THEN (i - 1) * Chunk ELSE Chunk * Chunks + (i - Chunks - 1)
    ELSE i - 1

\* The blocks that give no answer: the chunks of a prefill.
Skipped(c) == IF c.engine = "vk" THEN Chunks ELSE 0

NBlocks(c) == IF c.engine = "vk" THEN Chunks + Tokens ELSE NPositions

LEMMA Times ==
    ASSUME NEW i \in Int, NEW j \in Int, i <= j
    PROVE  i * Chunk \in Int /\ j * Chunk \in Int /\ i * Chunk <= j * Chunk
           /\ (i - 1) * Chunk + Chunk = i * Chunk
BY TokenGraphAssumption

LEMMA FirstIs ==
    ASSUME NEW c
    PROVE  /\ NBlocks(c) \in Nat /\ Skipped(c) \in Nat /\ NPositions \in Nat
           /\ First(c, 1) = 0 /\ First(c, NBlocks(c) + 1) = NPositions
           /\ \A i \in 1 .. NBlocks(c) + 1 : First(c, i) \in Nat
           /\ \A i \in 1 .. NBlocks(c) :
                First(c, i) < First(c, i + 1) /\ (i > Skipped(c) => First(c, i + 1) = First(c, i) + 1)
           /\ \A i \in 1 .. NBlocks(c) : \A j \in i + 1 .. NBlocks(c) + 1 : First(c, i + 1) <= First(c, j)
<1> DEFINE CC == Chunk * Chunks
<1>1. /\ Chunk \in Nat \ {0} /\ Chunks \in Nat /\ Tokens \in Nat /\ CC \in Nat
      /\ CC = Chunks * Chunk /\ NPositions = CC + Tokens
  BY TokenGraphAssumption DEF NPositions
<1> HIDE DEF CC
<1>2. CASE c.engine # "vk"
  <2>1. NBlocks(c) = NPositions /\ Skipped(c) = 0 /\ \A i : First(c, i) = i - 1
    BY <1>2 DEF NBlocks, Skipped, First
  <2> QED
    BY <1>1, <2>1
<1>3. CASE c.engine = "vk"
  <2>1. /\ NBlocks(c) = Chunks + Tokens /\ Skipped(c) = Chunks
        /\ \A i : First(c, i) = IF i <= Chunks THEN (i - 1) * Chunk ELSE CC + (i - Chunks - 1)
    BY <1>3 DEF NBlocks, Skipped, First, CC
  <2>2. \A i \in 1 .. Chunks + 1 : First(c, i) = (i - 1) * Chunk
    BY <1>1, <2>1
  <2>3. \A i \in 1 .. Chunks : (i - 1) * Chunk \in Nat /\ i * Chunk = (i - 1) * Chunk + Chunk
    BY <1>1
  <2>4. ASSUME NEW i \in 1 .. Chunks + Tokens + 1 PROVE First(c, i) \in Nat
    <3>1. CASE i <= Chunks
      BY <1>1, <2>1, <2>3, <3>1
    <3>2. CASE ~(i <= Chunks)
      BY <1>1, <2>1, <3>2
    <3> QED
      BY <3>1, <3>2
  <2>5. ASSUME NEW i \in 1 .. Chunks + Tokens
        PROVE  /\ First(c, i) < First(c, i + 1)
               /\ i > Chunks => First(c, i + 1) = First(c, i) + 1
    <3>1. CASE i <= Chunks
      <4>1. First(c, i) = (i - 1) * Chunk /\ First(c, i + 1) = i * Chunk
        BY <1>1, <2>2, <3>1
      <4> QED
        BY <1>1, <2>3, <3>1, <4>1
    <3>2. CASE ~(i <= Chunks)
      BY <1>1, <2>1, <3>2
    <3> QED
      BY <3>1, <3>2
  <2>6. ASSUME NEW i \in 1 .. Chunks + Tokens, NEW j \in i + 1 .. Chunks + Tokens + 1
        PROVE  First(c, i + 1) <= First(c, j)
    <3>1. CASE j <= Chunks
      <4>1. First(c, i + 1) = i * Chunk /\ First(c, j) = (j - 1) * Chunk
        BY <1>1, <2>2, <3>1
      <4>2. i \in Int /\ j - 1 \in Int /\ i <= j - 1
        BY <1>1
      <4> QED
        BY <4>1, <4>2, Times
    <3>2. CASE ~(j <= Chunks) /\ i <= Chunks
      <4>1. First(c, i + 1) = i * Chunk /\ First(c, j) = CC + (j - Chunks - 1) /\ j - Chunks - 1 >= 0
        BY <1>1, <2>1, <2>2, <3>2
      <4>2. i * Chunk <= CC
        BY <1>1, <3>2, Times
      <4>3. i * Chunk \in Int
        BY <1>1
      <4> QED
        BY <1>1, <4>1, <4>2, <4>3
    <3>3. CASE ~(j <= Chunks) /\ ~(i <= Chunks)
      BY <1>1, <2>1, <3>3
    <3> QED
      BY <3>1, <3>2, <3>3
  <2>7. First(c, 1) = 0
    <3>1. First(c, 1) = (1 - 1) * Chunk
      BY <1>1, <2>2
    <3> QED
      BY <1>1, <3>1
  <2>8. First(c, Chunks + Tokens + 1) = NPositions
    BY <1>1, <2>1, <2>2
  <2> QED
    BY <1>1, <2>1, <2>4, <2>5, <2>6, <2>7, <2>8
<1> QED
  BY <1>2, <1>3

LEMMA BlocksAre ==
    ASSUME NEW c
    PROVE  /\ DOMAIN Blocks(c) = 1 .. NBlocks(c) /\ Len(Blocks(c)) = NBlocks(c)
           /\ \A i \in 1 .. NBlocks(c) :
                /\ Blocks(c)[i] = First(c, i) .. First(c, i + 1) - 1
                /\ InContext(First(c, i), First(c, i + 1) - 1)
                /\ i > Skipped(c) => First(c, i + 1) - 1 = First(c, i)
<1>1. NBlocks(c) \in Nat /\ Chunks \in Nat /\ Tokens \in Nat /\ Chunk \in Nat /\ Chunk * Chunks \in Nat
  BY FirstIs, TokenGraphAssumption
<1>2. DOMAIN Blocks(c) = 1 .. NBlocks(c)
  BY DEF Blocks, NBlocks
<1>3. Len(Blocks(c)) = NBlocks(c)
  <2>1. CASE c.engine = "vk"
    BY <1>1, <2>1 DEF Blocks, NBlocks
  <2>2. CASE c.engine # "vk"
    BY <1>1, <2>2 DEF Blocks, NBlocks
  <2> QED
    BY <2>1, <2>2
<1>4. ASSUME NEW i \in 1 .. NBlocks(c) PROVE Blocks(c)[i] = First(c, i) .. First(c, i + 1) - 1
  <2>1. CASE c.engine # "vk"
    <3>1. Blocks(c)[i] = {i - 1}
      BY <2>1 DEF Blocks, NBlocks
    <3>2. First(c, i) = i - 1 /\ First(c, i + 1) = i
      BY <1>1, <2>1 DEF First
    <3> QED
      BY <1>1, <3>1, <3>2
  <2>2. CASE c.engine = "vk" /\ i <= Chunks
    <3>1. Blocks(c)[i] = (i - 1) * Chunk .. i * Chunk - 1
      BY <2>2 DEF Blocks, NBlocks
    <3>2. First(c, i) = (i - 1) * Chunk
      BY <2>2 DEF First
    <3>3. First(c, i + 1) = i * Chunk
      <4>1. CASE i + 1 <= Chunks
        <5>1. First(c, i + 1) = ((i + 1) - 1) * Chunk
          BY <2>2, <4>1 DEF First
        <5> QED
          BY <1>1, <5>1
      <4>2. CASE ~(i + 1 <= Chunks)
        <5>1. i = Chunks
          BY <1>1, <2>2, <4>2
        <5>2. First(c, i + 1) = Chunk * Chunks + ((i + 1) - Chunks - 1)
          BY <2>2, <4>2 DEF First
        <5> QED
          BY <1>1, <5>1, <5>2
      <4> QED
        BY <4>1, <4>2
    <3> QED
      BY <3>1, <3>2, <3>3
  <2>3. CASE c.engine = "vk" /\ ~(i <= Chunks)
    <3> DEFINE CC == Chunk * Chunks
    <3>1. Blocks(c)[i] = {CC + i - Chunks - 1}
      BY <2>3 DEF Blocks, NBlocks
    <3>2. First(c, i) = CC + (i - Chunks - 1)
      BY <2>3 DEF First
    <3>3. First(c, i + 1) = CC + ((i + 1) - Chunks - 1)
      BY <1>1, <2>3 DEF First
    <3>4. CC \in Nat
      BY <1>1
    <3> HIDE DEF CC
    <3> QED
      BY <1>1, <3>1, <3>2, <3>3, <3>4
  <2> QED
    BY <2>1, <2>2, <2>3
<1>5. ASSUME NEW i \in 1 .. NBlocks(c)
      PROVE  /\ InContext(First(c, i), First(c, i + 1) - 1)
             /\ i > Skipped(c) => First(c, i + 1) - 1 = First(c, i)
  <2>1. i + 1 \in 1 .. NBlocks(c) + 1 /\ i \in 1 .. NBlocks(c) + 1
        /\ NBlocks(c) + 1 \in i + 1 .. NBlocks(c) + 1
    BY <1>1
  <2>2. /\ First(c, i) \in Nat /\ First(c, i + 1) \in Nat /\ NPositions \in Nat
        /\ First(c, i) < First(c, i + 1) /\ First(c, i + 1) <= NPositions
        /\ i > Skipped(c) => First(c, i + 1) = First(c, i) + 1
    BY <2>1, FirstIs
  <2> QED
    BY <2>2 DEF InContext, Positions
<1> QED
  BY <1>2, <1>3, <1>4, <1>5

\* What a block should answer; a chunk of a prefill answers nothing.
Expected(c, i) ==
    IF i > Skipped(c)
    THEN Q(IF c.engine = "vk" THEN "logits" ELSE "capped", LastLayer + 1, Blocks(c)[i])
    ELSE Stale

\* Every program serves its block.
LEMMA ProgramServes ==
    ASSUME NEW c \in Configs, NEW i \in 1 .. NBlocks(c)
    PROVE  Serves(First(c, i), First(c, i + 1) - 1, Expected(c, i), Program(c, i),
                  IF i > Skipped(c) THEN 1 ELSE 0)
<1> DEFINE a == First(c, i)
           b == First(c, i + 1) - 1
<1>1. /\ Blocks(c)[i] = a .. b /\ InContext(a, b) /\ (i > Skipped(c) => b = a)
  BY BlocksAre
<1>2. a \in Nat /\ i \in Nat /\ Chunks \in Nat
  BY <1>1, TokenGraphAssumption DEF InContext
<1>3. c.engine \in {"vk", "full", "resident"} /\ (c.engine = "vk" => c.GLAY \in Nat \ {0})
  <2>1. CASE c \in [engine : {"vk"}, direct : Directs, i8 : BOOLEAN, GLAY : GroupSizes]
    BY <2>1, TokenGraphAssumption, Zenon
  <2>2. CASE c \in [engine : {"full", "resident"}]
    BY <2>2
  <2> QED
    BY <2>1, <2>2 DEF Configs
<1> HIDE DEF a, b
<1>4. CASE c.engine = "full"
  <2>1. i > Skipped(c) /\ Expected(c, i) = Q("capped", LastLayer + 1, a .. b)
    BY <1>1, <1>4 DEF Skipped, Expected
  <2>2. Program(c, i) = full_forward(a .. b)
    BY <1>1, <1>4 DEF Program
  <2> QED
    BY <1>1, <2>1, <2>2, FullForwardServes DEF a, b
<1>5. CASE c.engine = "resident"
  <2>1. i > Skipped(c) /\ Expected(c, i) = Q("capped", LastLayer + 1, a .. b)
    BY <1>1, <1>5 DEF Skipped, Expected
  <2>2. Program(c, i) = resident_forward(a .. b) /\ b = a
    BY <1>1, <1>5, <2>1 DEF Program
  <2>3. Serves(a, a, Q("capped", LastLayer + 1, a .. a), resident_forward(a .. a), 1)
    BY <1>1, <1>2, <2>2, ResidentForwardServes
  <2> QED
    BY <2>1, <2>2, <2>3, Zenon DEF a, b
<1>6. CASE c.engine = "vk" /\ i <= Chunks
  <2>1. ~(i > Skipped(c))
    BY <1>2, <1>6 DEF Skipped
  <2>2. Program(c, i) = forward_prefill(c, a .. b)
    BY <1>1, <1>2, <1>6 DEF Program
  <2> QED
    BY <1>1, <1>3, <1>6, <2>1, <2>2, ForwardPrefillServes DEF a, b
<1>7. CASE c.engine = "vk" /\ i > Chunks
  <2>1. i > Skipped(c) /\ Expected(c, i) = Q("logits", LastLayer + 1, a .. b)
    BY <1>1, <1>7 DEF Skipped, Expected
  <2>2. Program(c, i) = forward(c, a .. b)
    BY <1>1, <1>2, <1>7 DEF Program
  <2> QED
    BY <1>1, <2>1, <2>2, ForwardServes DEF a, b
<1> QED
  BY <1>2, <1>3, <1>4, <1>5, <1>6, <1>7
-----------------------------------------------------------------------------
(* The state between two steps of the host *)

\* What the program of a block leads to, step by step.
Script(a, b, ans, prog, said, at) ==
    /\ prog # <<>> /\ \E C : prog \in Seq(C)
    /\ at[0] = Fresh(a, b)
    /\ \A n \in 1 .. Len(prog) : HostDoes(a, b, ans, at[n - 1], prog[n], at[n])
    /\ \E m : at[Len(prog)] = Hosts(Facts(m, Reached(a, b, LastLayer)), "idle", said)

LEMMA ScriptExists ==
    ASSUME NEW a, NEW b, NEW ans, NEW prog, NEW said, Serves(a, b, ans, prog, said)
    PROVE  \E at : Script(a, b, ans, prog, said, at)
<1>1. PICK m : HostLeads(a, b, ans, Fresh(a, b), prog,
                         Hosts(Facts(m, Reached(a, b, LastLayer)), "idle", said))
  BY DEF Serves
<1>2. PICK at : /\ at[0] = Fresh(a, b)
                /\ at[Len(prog)] = Hosts(Facts(m, Reached(a, b, LastLayer)), "idle", said)
                /\ \A i \in 1 .. Len(prog) : HostDoes(a, b, ans, at[i - 1], prog[i], at[i])
  BY <1>1 DEF HostLeads
<1>3. (\E C : prog \in Seq(C)) /\ prog # <<>>
  BY <1>1 DEF HostLeads, Serves
<1>4. Script(a, b, ans, prog, said, at)
  BY <1>2, <1>3, Zenon DEF Script
<1> QED
  BY <1>4

\* The facts F hold, and what is still queued leads from them to those of H.
Now(a, b, H, q, m, k) ==
    \E F : /\ Sat(m, F) /\ F.upto \in [Layers -> {a, b + 1}] /\ k = CacheOf(F.upto)
           /\ Derives(a, b, F, q, H.facts) /\ (H.gpu = "idle" => q = <<>>)

\* With the GPU idle they are those of H.
LEMMA IdleNow ==
    ASSUME NEW a, NEW b, NEW H, NEW q, NEW m, NEW k, Now(a, b, H, q, m, k),
           H.gpu = "idle" \/ q = <<>>
    PROVE  /\ q = <<>> /\ Sat(m, H.facts) /\ H.facts.upto \in [Layers -> {a, b + 1}]
           /\ k = CacheOf(H.facts.upto)
<1>1. PICK F : /\ Sat(m, F) /\ F.upto \in [Layers -> {a, b + 1}] /\ k = CacheOf(F.upto)
               /\ Derives(a, b, F, q, H.facts) /\ (H.gpu = "idle" => q = <<>>)
  BY DEF Now
<1>2. q = <<>>
  BY <1>1
<1>3. F = H.facts
  BY <1>1, <1>2, NothingDerives
<1> QED
  BY <1>1, <1>2, <1>3

LEMMA NowIdle ==
    ASSUME NEW a, NEW b, NEW H, NEW m, NEW k, Sat(m, H.facts),
           H.facts.upto \in [Layers -> {a, b + 1}], k = CacheOf(H.facts.upto)
    PROVE  Now(a, b, H, <<>>, m, k)
<1>1. Derives(a, b, H.facts, <<>>, H.facts)
  BY DerivesNothing
<1> QED
  BY <1>1 DEF Now

LEMMA MappedNow ==
    ASSUME NEW a, NEW b, NEW ans, NEW H, NEW st, NEW J, HostDoes(a, b, ans, H, st, J),
           st.do = "mapped", NEW q, NEW m, NEW k, MemOK(m), Now(a, b, H, q, m, k)
    PROVE  /\ MemOK(Write(m, R(st.buf), st.val)) /\ J.said = H.said
           /\ Now(a, b, J, q, Write(m, R(st.buf), st.val), k)
<1> DEFINE z == [k |-> "store", out |-> R(st.buf), val |-> st.val]
<1>1. /\ H.gpu = "idle" /\ J.said = H.said /\ Stores(a, b, H.facts, z, J.facts)
  BY DEF HostDoes
<1>2. z.k = "store" /\ z.out = R(st.buf) /\ z.val = st.val
  OBVIOUS
<1> HIDE DEF z
<1>3. /\ q = <<>> /\ Sat(m, H.facts) /\ H.facts.upto \in [Layers -> {a, b + 1}]
      /\ k = CacheOf(H.facts.upto)
  BY <1>1, IdleNow
<1>4. /\ MemOK(Write(m, z.out, z.val)) /\ Sat(Write(m, z.out, z.val), J.facts)
      /\ J.facts.upto = H.facts.upto
  BY <1>1, <1>2, <1>3, StoreSound
<1>5. Now(a, b, J, <<>>, Write(m, z.out, z.val), k)
  BY <1>3, <1>4, NowIdle, Zenon
<1> QED
  BY <1>1, <1>2, <1>3, <1>4, <1>5

LEMMA QueuedNow ==
    ASSUME NEW a, NEW b, NEW ans, NEW H, NEW st, NEW J, HostDoes(a, b, ans, H, st, J),
           st.do = "queued", NEW q, NEW m, NEW k, Now(a, b, H, q, m, k)
    PROVE  /\ J.said = H.said
           /\ Now(a, b, J, q \o <<[k |-> "store", out |-> R(st.buf), val |-> st.val], Bar>>, m, k)
<1> DEFINE z == [k |-> "store", out |-> R(st.buf), val |-> st.val]
<1>1. /\ J.gpu = "busy" /\ J.said = H.said /\ Stores(a, b, H.facts, z, J.facts)
  BY DEF HostDoes
<1>2. z # Bar /\ IsStore(z)
  BY DEF Bar, IsStore
<1> HIDE DEF z
<1>3. Does(a, b, H.facts, z, J.facts)
  BY <1>1, <1>2 DEF Does
<1>4. Derives(a, b, H.facts, <<z, Bar>>, J.facts)
  BY <1>2, <1>3, DerivesOne
<1>5. PICK F : /\ Sat(m, F) /\ F.upto \in [Layers -> {a, b + 1}] /\ k = CacheOf(F.upto)
               /\ Derives(a, b, F, q, H.facts)
  BY DEF Now
<1>6. Derives(a, b, F, q \o <<z, Bar>>, J.facts)
  BY <1>4, <1>5, DerivesBoth
<1>7. Now(a, b, J, q \o <<z, Bar>>, m, k)
  BY <1>1, <1>5, <1>6 DEF Now
<1> QED
  BY <1>1, <1>7 DEF z

LEMMA SubmitNow ==
    ASSUME NEW a, NEW b, NEW ans, NEW H, NEW st, NEW J, HostDoes(a, b, ans, H, st, J),
           st.do = "submit", NEW q, NEW m, NEW k, Now(a, b, H, q, m, k)
    PROVE  J.said = H.said /\ Now(a, b, J, q \o st.ds, m, k)
<1>1. /\ J.gpu = "busy" /\ J.said = H.said /\ Derives(a, b, H.facts, st.ds, J.facts)
  BY DEF HostDoes
<1>2. PICK F : /\ Sat(m, F) /\ F.upto \in [Layers -> {a, b + 1}] /\ k = CacheOf(F.upto)
               /\ Derives(a, b, F, q, H.facts)
  BY DEF Now
<1>3. Derives(a, b, F, q \o st.ds, J.facts)
  BY <1>1, <1>2, DerivesBoth
<1>4. Now(a, b, J, q \o st.ds, m, k)
  BY <1>1, <1>2, <1>3 DEF Now
<1> QED
  BY <1>1, <1>4

LEMMA WaitNow ==
    ASSUME NEW a, NEW b, NEW ans, NEW H, NEW st, NEW J, HostDoes(a, b, ans, H, st, J),
           st.do = "wait", NEW m, NEW k, Now(a, b, H, <<>>, m, k)
    PROVE  J.said = H.said /\ Now(a, b, J, <<>>, m, k)
<1>1. J.said = H.said /\ J.facts = H.facts
  BY DEF HostDoes
<1>2. /\ Sat(m, H.facts) /\ H.facts.upto \in [Layers -> {a, b + 1}]
      /\ k = CacheOf(H.facts.upto)
  BY IdleNow
<1> QED
  BY <1>1, <1>2, NowIdle

\* What a forward hands out is what its program should answer.
LEMMA ReturnNow ==
    ASSUME NEW a, NEW b, NEW ans, NEW H, NEW st, NEW J, HostDoes(a, b, ans, H, st, J),
           st.do = "return", NEW q, NEW m, NEW k, Now(a, b, H, q, m, k)
    PROVE  /\ H.said = 0 /\ J.said = 1 /\ ans # Stale /\ Read(m, R("logits")) = ans
           /\ Now(a, b, J, q, m, k)
<1>1. /\ H.gpu = "idle" /\ H.said = 0 /\ J.said = 1
      /\ J.facts = H.facts /\ ans # Stale /\ <<R("logits"), ans>> \in H.facts.mem
  BY DEF HostDoes
<1>2. /\ q = <<>> /\ Sat(m, H.facts) /\ H.facts.upto \in [Layers -> {a, b + 1}]
      /\ k = CacheOf(H.facts.upto)
  BY <1>1, IdleNow
<1>3. Read(m, R("logits")) = ans
  <2> DEFINE f == <<R("logits"), ans>>
  <2>1. RegionOK(f[1]) /\ Holds(m, f[1], f[2])
    BY <1>1, <1>2, Zenon DEF Sat
  <2>2. RegionOK(R("logits")) /\ Holds(m, R("logits"), ans)
    BY <2>1
  <2> QED
    BY <2>2, ReadHeld
<1> QED
  BY <1>1, <1>2, <1>3, NowIdle
\* The slot the host appends to is the one after those the cache holds.
LEMMA SlotIs ==
    ASSUME NEW a, NEW b, InContext(a, b), NEW l \in Layers, NEW u, u[l] = a
    PROVE  Cardinality({p \in Positions : CacheOf(u)[l][p] # NoKV}) = a
<1>1. a \in Nat /\ a \in Positions /\ NPositions \in Int
  BY TokenGraphAssumption DEF InContext, NPositions
<1>2. ASSUME NEW p \in Positions PROVE (CacheOf(u)[l][p] # NoKV) <=> p < a
  <2>1. CacheOf(u)[l][p] = IF p < a THEN KVOf(l, p) ELSE NoKV
    BY DEF CacheOf
  <2>2. KVOf(l, p).k = Q("K", l, {p}) /\ NoKV.k = Stale
    BY DEF KVOf, NoKV
  <2>3. Q("K", l, {p}) # Stale
    BY NotStale
  <2> QED
    BY <2>1, <2>2, <2>3
<1>3. {p \in Positions : CacheOf(u)[l][p] # NoKV} = {p \in Positions : p < a}
  BY <1>2
<1>4. {p \in Positions : p < a} = 0 .. a - 1
  BY <1>1 DEF Positions
<1>5. Cardinality(0 .. a - 1) = a
  <2>1. 0 \in Int /\ a - 1 \in Int
    BY <1>1
  <2>2. Cardinality(0 .. a - 1) = IF 0 > a - 1 THEN 0 ELSE (a - 1) - 0 + 1
    BY <2>1, FS_Interval
  <2> QED
    BY <1>1, <2>2
<1> QED
  BY <1>3, <1>4, <1>5, Zenon

\* What the host makes of the qkv read back: the entry of the block, the row
\* of the layer's cache with it appended, and what the second submit is given.
SlotOf(k, l) == Cardinality({p \in Positions : k[l][p] # NoKV})
EntryOf(m, l, S) ==
    LET kr == Read(m, K(l))
    IN  PREP_KV(l, <<kr, IF KEqV(l) THEN kr ELSE Read(m, V(l)), DynOf(S), RopeOf(S)>>)
RowOf(k, m, l, S) == [k[l] EXCEPT ![SlotOf(k, l)] = EntryOf(m, l, S)[CHOOSE p \in S : TRUE]]
AttnOf(k, m, l, S) ==
    IF \E p \in Positions \ S : p > SlotOf(k, l) /\ RowOf(k, m, l, S)[p] # NoKV THEN Stale
    ELSE ATTN(l, <<Read(m, QOf(l)), DynOf(S), RopeOf(S)>>, RowOf(k, m, l, S))

\* Attention on the host sees the entries of every position up to its own.
LEMMA AttendNow ==
    ASSUME NEW a, NEW b, InContext(a, b), NEW ans, NEW H, NEW st, NEW J,
           HostDoes(a, b, ans, H, st, J), st.do = "attend",
           NEW q, NEW m, NEW k, MemOK(m), Now(a, b, H, q, m, k)
    PROVE  /\ J.said = H.said
           /\ Now(a, b, J, q \o <<[k |-> "store", out |-> R("attn"),
                                   val |-> AttnOf(k, m, st.l, a .. b)], Bar>>, m,
                  WithRow(k, st.l, RowOf(k, m, st.l, a .. b)))
<1> DEFINE l == st.l
           S == a .. b
           w == [H.facts.upto EXCEPT ![l] = b + 1]
           slot == SlotOf(k, l)
           kv == EntryOf(m, l, S)
           row == RowOf(k, m, l, S)
           val == AttnOf(k, m, l, S)
<1>1. /\ H.gpu = "idle" /\ J.gpu = "busy" /\ J.said = H.said
      /\ a = b /\ l \in Layers /\ H.facts.upto[l] = a
      /\ {<<QOf(l), Q("q", l, S)>>, <<K(l), Q("k", l, S)>>,
          <<VOf(l), Q(VName(l), l, S)>>} \subseteq H.facts.mem
      /\ J.facts.upto = w
      /\ \A g \in J.facts.mem : \/ g = <<R("attn"), Q("a", l, S)>>
                                \/ g \in H.facts.mem /\ Apart(g[1], R("attn"))
  BY DEF HostDoes
<1>2. /\ q = <<>> /\ Sat(m, H.facts) /\ H.facts.upto \in [Layers -> {a, b + 1}]
      /\ k = CacheOf(H.facts.upto)
  BY <1>1, IdleNow
<1>3. ASSUME NEW r, NEW v, <<r, v>> \in H.facts.mem PROVE Read(m, r) = v
  <2> DEFINE f == <<r, v>>
  <2>1. RegionOK(f[1]) /\ Holds(m, f[1], f[2])
    BY <1>2, <1>3, Zenon DEF Sat
  <2>2. RegionOK(r) /\ Holds(m, r, v)
    BY <2>1
  <2> QED
    BY <2>2, ReadHeld
<1>4. Read(m, QOf(l)) = Q("q", l, S) /\ Read(m, K(l)) = Q("k", l, S)
      /\ Read(m, VOf(l)) = Q(VName(l), l, S)
  <2>1. /\ <<QOf(l), Q("q", l, S)>> \in H.facts.mem /\ <<K(l), Q("k", l, S)>> \in H.facts.mem
        /\ <<VOf(l), Q(VName(l), l, S)>> \in H.facts.mem
    BY <1>1
  <2> QED
    BY <2>1, <1>3
<1>5. Read(m, K(l)) = Q("k", l, S)
      /\ (IF KEqV(l) THEN Read(m, K(l)) ELSE Read(m, V(l))) = Q(IF KEqV(l) THEN "k" ELSE "v", l, S)
  BY <1>4 DEF VOf, VName
<1>6. a \in Nat /\ a \in Positions /\ NPositions \in Int /\ a \in S /\ (CHOOSE p \in S : TRUE) = a
      /\ \A p \in S : p = a
  BY <1>1, TokenGraphAssumption DEF InContext, NPositions
<1>7. kv[a] = KVOf(l, a)
  <2> DEFINE kr == Read(m, K(l))
             vr == IF KEqV(l) THEN kr ELSE Read(m, V(l))
             vals == <<kr, vr, DynOf(S), RopeOf(S)>>
  <2>1. vals[1] = kr /\ vals[2] = vr /\ vals[3] = DynOf(S) /\ vals[4] = RopeOf(S)
    OBVIOUS
  <2>2. DynOf(S) = Q("dyn", 0, S) /\ DynOf(S).block = S /\ RopeOf(S) = Q("rope", 0, S)
    BY DEF DynOf, RopeOf, Q
  <2> HIDE DEF vals
  <2>3. PREP_KV(l, vals)[a] = [k |-> Q("K", l, {a}), v |-> Q("V", l, {a})]
    BY <1>5, <1>6, <2>1, <2>2, Zenon DEF PREP_KV
  <2> QED
    BY <2>3 DEF vals, KVOf, EntryOf
<1>8. slot = a
  <2>1. Cardinality({p \in Positions : CacheOf(H.facts.upto)[l][p] # NoKV}) = a
    BY <1>1, SlotIs
  <2> QED
    BY <1>2, <2>1 DEF SlotOf
<1>9. w \in [Layers -> {a, b + 1}] /\ w[l] = b + 1
      /\ \A i \in Layers : i # l => w[i] = H.facts.upto[i]
  BY <1>1, <1>2
<1> HIDE DEF w
<1>10. row = CacheOf(w)[l]
  <2>1. CacheOf(w)[l] = [p \in Positions |-> IF p < b + 1 THEN KVOf(l, p) ELSE NoKV]
    BY <1>1, <1>9 DEF CacheOf
  <2>2. k[l] = [p \in Positions |-> IF p < a THEN KVOf(l, p) ELSE NoKV]
    BY <1>1, <1>2 DEF CacheOf
  <2>3. row = [p \in Positions |-> IF p = a THEN KVOf(l, a) ELSE k[l][p]]
    BY <1>6, <1>7, <1>8, <2>2 DEF RowOf
  <2>4. ASSUME NEW p \in Positions
        PROVE  row[p] = IF p < b + 1 THEN KVOf(l, p) ELSE NoKV
    <3>0. p \in Int
      BY DEF Positions
    <3>1. CASE p = a
      BY <1>1, <1>6, <2>3, <3>1
    <3>2. CASE p # a
      <4>1. row[p] = k[l][p]
        BY <2>3, <3>2
      <4>2. (p < a) = (p < b + 1)
        BY <1>1, <1>6, <3>0, <3>2
      <4> QED
        BY <2>2, <4>1, <4>2
    <3> QED
      BY <3>1, <3>2
  <2> QED
    BY <2>1, <2>3, <2>4
<1>11. val = Q("a", l, S)
  <2>1. ~(\E p \in Positions \ S : p > slot /\ row[p] # NoKV)
    <3> SUFFICES ASSUME NEW p \in Positions, p > slot PROVE row[p] = NoKV
      OBVIOUS
    <3>1. p \in Int /\ ~(p < b + 1)
      BY <1>1, <1>6, <1>8 DEF Positions
    <3> QED
      BY <1>1, <1>9, <1>10, <3>1 DEF CacheOf
  <2> DEFINE vals == <<Read(m, QOf(l)), DynOf(S), RopeOf(S)>>
  <2>2. vals[1] = Q("q", l, S) /\ vals[2] = Q("dyn", 0, S) /\ vals[3] = Q("rope", 0, S)
    BY <1>4 DEF DynOf, RopeOf
  <2>3. val = ATTN(l, vals, row)
    BY <2>1 DEF AttnOf
  <2> HIDE DEF vals
  <2>4. ATTN(l, vals, CacheOf(w)[l]) = Q("a", l, S)
    <3>1. l \in Layers /\ w[l] = b + 1
      BY <1>1, <1>9
    <3> HIDE DEF l
    <3> QED
      BY <2>2, <3>1, AttnIs
  <2> QED
    BY <1>10, <2>3, <2>4
<1>12. WithRow(k, l, row) = CacheOf(w)
  <2>1. l \in Layers /\ \A i \in Layers : i # l => CacheOf(H.facts.upto)[i] = CacheOf(w)[i]
    BY <1>1, <1>9 DEF CacheOf
  <2> DEFINE u == H.facts.upto
             y == row
  <2>2. \A i \in Layers : i # l => CacheOf(u)[i] = CacheOf(w)[i]
    BY <2>1
  <2>3. y = CacheOf(w)[l] /\ k = CacheOf(u)
    BY <1>2, <1>10
  <2> HIDE DEF u, y, l
  <2>4. WithRow(CacheOf(u), l, y) = CacheOf(w)
    BY <2>1, <2>2, <2>3, WithRowIs
  <2> QED
    BY <2>3, <2>4 DEF y
<1> DEFINE F == Facts(H.facts.mem, w)
           z == [k |-> "store", out |-> R("attn"), val |-> val]
<1>13. F.mem = H.facts.mem /\ F.upto = w
  BY DEF Facts
<1>14. z # Bar /\ IsStore(z) /\ z.k = "store" /\ z.out = R("attn") /\ z.val = val
  BY DEF Bar, IsStore
<1> HIDE DEF F, z
<1>15. Sat(m, F)
  BY <1>2, <1>13 DEF Sat
<1>16. Stores(a, b, F, z, J.facts)
  <2>1. val # Stale
    <3>1. \A i, T : Q("a", i, T) # Stale
      BY DEF Q, Stale
    <3> QED
      BY <1>11, <3>1, Zenon
  <2>2. RegionOK(R("attn"))
    BY RegionsAre DEF Buffers
  <2>3. \A g \in J.facts.mem : g = <<z.out, z.val>> \/ (g \in F.mem /\ Apart(g[1], z.out))
    BY <1>1, <1>11, <1>13, <1>14, Zenon
  <2> QED
    BY <1>1, <1>13, <1>14, <2>1, <2>2, <2>3, Zenon DEF Stores
<1>17. Derives(a, b, F, <<z, Bar>>, J.facts)
  <2>1. Does(a, b, F, z, J.facts)
    BY <1>14, <1>16 DEF Does
  <2> QED
    BY <1>14, <2>1, DerivesOne
<1>18. q \o <<z, Bar>> = <<z, Bar>>
  BY <1>2
<1>19. Now(a, b, J, q \o <<z, Bar>>, m, CacheOf(w))
  BY <1>1, <1>9, <1>13, <1>15, <1>17, <1>18 DEF Now
<1> QED
  BY <1>1, <1>12, <1>19 DEF z

\* Every result on its way to memory is the one it should be.
LEMMA NowSound ==
    ASSUME NEW a, NEW b, NEW H, NEW q, NEW m, NEW k, Now(a, b, H, q, m, k), NEW i \in DOMAIN q
    PROVE  /\ q[i].k = "store" => q[i].val # Stale
           /\ q[i].k = "storekv" => \A p \in DOMAIN q[i].val : q[i].val[p] = KVOf(q[i].out, p)
<1>1. PICK F : Derives(a, b, F, q, H.facts)
  BY DEF Now
<1>2. PICK C : q \in Seq(C)
  BY <1>1 DEF Derives
<1>3. PICK at : \A j \in 1 .. Len(q) : Does(a, b, at[j - 1], q[j], at[j])
  BY <1>1 DEF Derives
<1>4. Does(a, b, at[i - 1], q[i], at[i])
  BY <1>2, <1>3
<1>5. ASSUME IsStore(q[i]) PROVE Stores(a, b, at[i - 1], q[i], at[i])
  <2>1. q[i] # Bar
    BY <1>5 DEF IsStore, Bar
  <2> QED
    BY <1>4, <1>5, <2>1 DEF Does
<1>6. ASSUME q[i].k = "store" PROVE q[i].val # Stale
  BY <1>5, <1>6 DEF IsStore, Stores
<1>7. ASSUME q[i].k = "storekv" PROVE \A p \in DOMAIN q[i].val : q[i].val[p] = KVOf(q[i].out, p)
  <2>1. Stores(a, b, at[i - 1], q[i], at[i])
    BY <1>5, <1>7 DEF IsStore
  <2>2. q[i].val = [p \in a .. b |-> KVOf(q[i].out, p)]
    BY <1>7, <2>1 DEF Stores
  <2> QED
    BY <2>2
<1> QED
  BY <1>6, <1>7

LEMMA StartNow ==
    ASSUME NEW a, NEW b, NEW H, NEW q, NEW m, NEW k, Now(a, b, H, q, m, k),
           NEW i \in DOMAIN q, \A j \in 1 .. i : q[j] # Bar, q[i].k \notin {"store", "storekv"},
           NEW res, res = Result(q[i], [j \in DOMAIN q[i].ins |-> Read(m, q[i].ins[j])], k[q[i].l])
    PROVE  Now(a, b, H, [q EXCEPT ![i] = res], m, k)
<1>1. PICK F : /\ Sat(m, F) /\ F.upto \in [Layers -> {a, b + 1}] /\ k = CacheOf(F.upto)
               /\ Derives(a, b, F, q, H.facts) /\ (H.gpu = "idle" => q = <<>>)
  BY DEF Now
<1>2. i = 1 /\ Len(q) > 1 /\ q[1] # Bar
  BY <1>1, OnlyFirst
<1>3. ~IsStore(q[1])
  BY <1>2 DEF IsStore
<1>4. res = Result(q[1], [j \in DOMAIN q[1].ins |-> Read(m, q[1].ins[j])], CacheOf(F.upto)[q[1].l])
  BY <1>1, <1>2
<1>5. Derives(a, b, F, [q EXCEPT ![1] = res], H.facts)
  BY <1>1, <1>2, <1>3, <1>4, StartFirst
<1>6. H.gpu # "idle"
  BY <1>1
<1> QED
  BY <1>1, <1>2, <1>5, <1>6, Zenon DEF Now

LEMMA FinishNow ==
    ASSUME NEW a, NEW b, InContext(a, b), NEW H, NEW q, NEW m, NEW k, MemOK(m),
           Now(a, b, H, q, m, k),
           NEW i \in DOMAIN q, \A j \in 1 .. i : q[j] # Bar, q[i].k \in {"store", "storekv"}
    PROVE  /\ RemoveAt(q, i) # <<>> /\ Head(RemoveAt(q, i)) = Bar
           /\ q[i].k = "store" =>
                /\ MemOK(Write(m, q[i].out, q[i].val))
                /\ Now(a, b, H, Tail(RemoveAt(q, i)), Write(m, q[i].out, q[i].val), k)
           /\ q[i].k = "storekv" =>
                Now(a, b, H, Tail(RemoveAt(q, i)), m, WithRow(k, q[i].out, Filled(k, q[i])))
<1>1. PICK F : /\ Sat(m, F) /\ F.upto \in [Layers -> {a, b + 1}] /\ k = CacheOf(F.upto)
               /\ Derives(a, b, F, q, H.facts) /\ (H.gpu = "idle" => q = <<>>)
  BY DEF Now
<1>2. i = 1 /\ Len(q) > 1 /\ q[1] # Bar /\ q[2] = Bar
  BY <1>1, OnlyFirst
<1>3. IsStore(q[1])
  BY <1>2 DEF IsStore
<1>4. H.gpu # "idle"
  BY <1>1
<1>5. /\ RemoveAt(q, 1) # <<>> /\ Head(RemoveAt(q, 1)) = Bar
      /\ \E G : Stores(a, b, F, q[1], G) /\ Derives(a, b, G, Tail(RemoveAt(q, 1)), H.facts)
  BY <1>1, <1>2, <1>3, FinishFirst
<1>6. PICK G : Stores(a, b, F, q[1], G) /\ Derives(a, b, G, Tail(RemoveAt(q, 1)), H.facts)
  BY <1>5
<1>7. ASSUME q[1].k = "store"
      PROVE  /\ MemOK(Write(m, q[1].out, q[1].val))
             /\ Now(a, b, H, Tail(RemoveAt(q, 1)), Write(m, q[1].out, q[1].val), k)
  <2>1. /\ MemOK(Write(m, q[1].out, q[1].val)) /\ Sat(Write(m, q[1].out, q[1].val), G)
        /\ G.upto = F.upto
    BY <1>1, <1>6, <1>7, StoreSound
  <2> QED
    BY <1>1, <1>4, <1>6, <2>1 DEF Now
<1>8. ASSUME q[1].k = "storekv"
      PROVE  Now(a, b, H, Tail(RemoveAt(q, 1)), m, WithRow(k, q[1].out, Filled(k, q[1])))
  <2>0. a \in Int /\ b \in Int /\ a <= b /\ a .. b \subseteq Positions
    BY DEF InContext
  <2>1. /\ Sat(m, G) /\ G.upto \in [Layers -> {a, b + 1}]
        /\ WithRow(CacheOf(F.upto), q[1].out, Filled(CacheOf(F.upto), q[1])) = CacheOf(G.upto)
    <3>1. F.upto \in [Layers -> {a, b + 1}] /\ Sat(m, F) /\ Stores(a, b, F, q[1], G)
      BY <1>1, <1>6
    <3> DEFINE z == q[1]
    <3>2. Stores(a, b, F, z, G) /\ z.k = "storekv"
      BY <1>8, <3>1
    <3> HIDE DEF z
    <3>3. /\ Sat(m, G) /\ G.upto \in [Layers -> {a, b + 1}]
          /\ WithRow(CacheOf(F.upto), z.out, Filled(CacheOf(F.upto), z)) = CacheOf(G.upto)
      <4>1. a \in Int /\ b \in Int
        BY <2>0
      <4> QED
        BY <2>0, <3>1, <3>2, <4>1, StoreKVSound, Zenon
    <3> QED
      BY <3>3 DEF z
  <2> QED
    BY <1>1, <1>4, <1>6, <2>1 DEF Now
<1> QED
  BY <1>2, <1>5, <1>7, <1>8
-----------------------------------------------------------------------------
(* The inductive invariant: one block after another *)

\* The answering blocks before block i, and what the first n of them answer.
Before(c, i) == IF i > Skipped(c) THEN i - 1 - Skipped(c) ELSE 0
Answers(c, n) == [i \in 1 .. n |-> Expected(c, Skipped(c) + i)]
Tells(c, i) == IF i > Skipped(c) THEN 1 ELSE 0

Scripted(c, i, at) ==
    Script(First(c, i), First(c, i + 1) - 1, Expected(c, i), Program(c, i), Tells(c, i), at)

\* Between step p and the next of block i.
Running(c, i, H, q, m, k, lg) ==
    /\ H.said \in {0, 1}
    /\ Now(First(c, i), First(c, i + 1) - 1, H, q, m, k)
    /\ lg = Answers(c, Before(c, i) + H.said)

\* Every layer's cache goes up to position n.
Level(n) == [l \in Layers |-> n]

Ended(c, q, k, lg) ==
    /\ q = <<>> /\ k = CacheOf(Level(NPositions))
    /\ lg = Answers(c, Before(c, NBlocks(c) + 1))

State(c, i, p, q, m, k, lg) ==
    /\ c \in Configs /\ MemOK(m) /\ i \in 1 .. NBlocks(c) + 1
    /\ i <= NBlocks(c) =>
         /\ p \in 1 .. Len(Program(c, i))
         /\ \E at : Scripted(c, i, at) /\ Running(c, i, at[p - 1], q, m, k, lg)
    /\ i > NBlocks(c) => Ended(c, q, k, lg)

GraphInv == State(config, block, pc, queue, mem, cache, logits)

LEMMA ReachedAre ==
    ASSUME NEW a, NEW b
    PROVE  /\ CacheOf(Reached(a, b, 0)) = CacheOf(Level(a))
           /\ CacheOf(Reached(a, b, LastLayer)) = CacheOf(Level(b + 1))
           /\ Reached(a, b, 0) \in [Layers -> {a, b + 1}]
<1>1. ASSUME NEW l \in Layers PROVE l \in Nat /\ ~(l <= 0) /\ l <= LastLayer
  BY TokenGraphAssumption DEF Layers, LastLayer
<1>2. Reached(a, b, 0) = Level(a)
  BY <1>1 DEF Reached, Level
<1>3. Reached(a, b, LastLayer) = Level(b + 1)
  BY <1>1 DEF Reached, Level
<1>4. Level(a) \in [Layers -> {a, b + 1}]
  BY DEF Level
<1> QED
  BY <1>2, <1>3, <1>4

LEMMA BeforeIs ==
    ASSUME NEW c, NEW i \in 1 .. NBlocks(c) + 1
    PROVE  /\ Before(c, i) \in Nat /\ Before(c, i) + 0 = Before(c, i)
           /\ Before(c, i) + Tells(c, i) = Before(c, i + 1)
           /\ i > Skipped(c) => Skipped(c) + (Before(c, i) + 1) = i
<1>1. i \in Nat /\ i >= 1 /\ Skipped(c) \in Nat
  BY FirstIs
<1> QED
  BY <1>1 DEF Before, Tells

\* A block begins where the one before it ended.
LEMMA BlockBegins ==
    ASSUME NEW c \in Configs, NEW i \in 1 .. NBlocks(c) + 1, NEW m, MemOK(m),
           NEW k, k = CacheOf(Level(First(c, i))),
           NEW lg, lg = Answers(c, Before(c, i))
    PROVE  State(c, i, 1, <<>>, m, k, lg)
<1>0. NBlocks(c) \in Nat /\ First(c, NBlocks(c) + 1) = NPositions
  BY FirstIs
<1>1. ASSUME i <= NBlocks(c)
      PROVE  /\ 1 \in 1 .. Len(Program(c, i))
             /\ \E at : Scripted(c, i, at) /\ Running(c, i, at[1 - 1], <<>>, m, k, lg)
  <2> DEFINE a == First(c, i)
             b == First(c, i + 1) - 1
  <2>1. i \in 1 .. NBlocks(c)
    BY <1>0, <1>1
  <2>2. PICK at : Script(a, b, Expected(c, i), Program(c, i), Tells(c, i), at)
    BY <2>1, ProgramServes, ScriptExists DEF Tells
  <2>3. at[0] = Fresh(a, b) /\ Program(c, i) # <<>> /\ \E C : Program(c, i) \in Seq(C)
    BY <2>2 DEF Script
  <2>4. 1 \in 1 .. Len(Program(c, i))
    BY <2>3
  <2>5. /\ Fresh(a, b).said = 0 /\ Fresh(a, b).facts.mem = {}
        /\ Fresh(a, b).facts.upto = Reached(a, b, 0)
    BY DEF Fresh, Hosts, Facts
  <2> HIDE DEF a, b
  <2>6. Now(a, b, Fresh(a, b), <<>>, m, k)
    <3>1. Sat(m, Fresh(a, b).facts)
      BY <2>5 DEF Sat
    <3>2. Fresh(a, b).facts.upto \in [Layers -> {a, b + 1}]
      BY <2>5, ReachedAre
    <3>3. k = CacheOf(Fresh(a, b).facts.upto)
      BY <2>5, ReachedAre DEF a
    <3> QED
      BY <3>1, <3>2, <3>3, NowIdle, Zenon
  <2>7. Running(c, i, Fresh(a, b), <<>>, m, k, lg)
    <3>1. lg = Answers(c, Before(c, i) + Fresh(a, b).said)
      BY <2>5, BeforeIs
    <3> QED
      BY <2>5, <2>6, <3>1 DEF Running, a, b
  <2>8. Scripted(c, i, at) /\ at[1 - 1] = Fresh(a, b)
    BY <2>2, <2>3 DEF Scripted, a, b
  <2> QED
    BY <2>4, <2>7, <2>8
<1>2. ASSUME i > NBlocks(c) PROVE Ended(c, <<>>, k, lg)
  <2>1. i = NBlocks(c) + 1
    BY <1>0, <1>2
  <2> QED
    BY <1>0, <2>1 DEF Ended
<1> QED
  BY <1>1, <1>2 DEF State

\* The host goes on, within the block or to the next.
LEMMA GoesOn ==
    ASSUME NEW c \in Configs, NEW i \in 1 .. NBlocks(c), NEW p \in 1 .. Len(Program(c, i)),
           NEW at, Scripted(c, i, at), NEW q, NEW m, MemOK(m), NEW k, NEW lg,
           Running(c, i, at[p], q, m, k, lg), NEW j, NEW r,
           IF p < Len(Program(c, i)) THEN r = p + 1 /\ j = i ELSE r = 1 /\ j = i + 1
    PROVE  State(c, j, r, q, m, k, lg)
<1>0. NBlocks(c) \in Nat
  BY FirstIs
<1>1. \E C : Program(c, i) \in Seq(C)
  BY DEF Scripted, Script
<1>2. Len(Program(c, i)) \in Nat /\ p \in Nat
  BY <1>1
<1>3. CASE p < Len(Program(c, i))
  <2>1. r = p + 1 /\ j = i /\ r - 1 = p /\ r \in 1 .. Len(Program(c, j))
    BY <1>2, <1>3
  <2>2. Running(c, j, at[r - 1], q, m, k, lg) /\ Scripted(c, j, at)
    BY <2>1
  <2>3. j \in 1 .. NBlocks(c) + 1 /\ j <= NBlocks(c) /\ ~(j > NBlocks(c))
    BY <1>0, <2>1
  <2> QED
    BY <2>1, <2>2, <2>3 DEF State
<1>4. CASE ~(p < Len(Program(c, i)))
  <2> DEFINE a == First(c, i)
             b == First(c, i + 1) - 1
  <2>1. p = Len(Program(c, i)) /\ r = 1 /\ j = i + 1 /\ j \in 1 .. NBlocks(c) + 1
    BY <1>0, <1>2, <1>4
  <2>2. PICK f : at[p] = Hosts(Facts(f, Reached(a, b, LastLayer)), "idle", Tells(c, i))
    BY <2>1 DEF Scripted, Script
  <2>3. /\ at[p].gpu = "idle" /\ at[p].said = Tells(c, i)
        /\ at[p].facts.upto = Reached(a, b, LastLayer)
    BY <2>2 DEF Hosts, Facts
  <2>4. i \in 1 .. NBlocks(c) + 1 /\ i + 1 \in 1 .. NBlocks(c) + 1
    BY <1>0
  <2>5. b + 1 = First(c, j)
    <3>1. First(c, i + 1) \in Nat
      BY <2>4, FirstIs
    <3> QED
      BY <2>1, <3>1
  <2>6. Now(a, b, at[p], q, m, k)
    BY DEF Running
  <2> HIDE DEF a, b
  <2>7. q = <<>> /\ k = CacheOf(Level(First(c, j)))
    <3>1. q = <<>> /\ k = CacheOf(Reached(a, b, LastLayer))
      BY <2>3, <2>6, IdleNow
    <3>2. k = CacheOf(Level(b + 1))
      BY <3>1, ReachedAre
    <3> QED
      BY <2>5, <3>1, <3>2
  <2>8. lg = Answers(c, Before(c, j))
    BY <2>1, <2>3, <2>4, BeforeIs DEF Running
  <2> QED
    BY <2>1, <2>7, <2>8, BlockBegins
<1> QED
  BY <1>3, <1>4
LEMMA BeginsOK == GraphInit => GraphInv
<1> SUFFICES ASSUME GraphInit PROVE GraphInv
  OBVIOUS
<1>1. config \in Configs /\ block = 1 /\ pc = 1 /\ queue = <<>> /\ logits = <<>>
  BY DEF GraphInit
<1>2. MemOK(mem)
  BY DEF GraphInit, MemOK, AllBuffers
<1>3. NBlocks(config) \in Nat /\ 1 \in 1 .. NBlocks(config) + 1 /\ First(config, 1) = 0
      /\ Skipped(config) \in Nat
  BY FirstIs
<1>4. cache = CacheOf(Level(First(config, 1)))
  <2>1. \A p \in Positions : ~(p < 0)
    BY DEF Positions
  <2>2. cache = [l \in Layers |-> [p \in Positions |-> NoKV]]
    BY DEF GraphInit
  <2> QED
    BY <1>3, <2>1, <2>2 DEF CacheOf, Level
<1>5. logits = Answers(config, Before(config, 1))
  <2>1. Before(config, 1) = 0
    BY <1>3 DEF Before
  <2>2. Answers(config, 0) = <<>>
    BY DEF Answers
  <2> QED
    BY <1>1, <2>1, <2>2
<1>6. State(config, 1, 1, <<>>, mem, cache, logits)
  BY <1>1, <1>2, <1>3, <1>4, <1>5, BlockBegins
<1> QED
  BY <1>1, <1>6 DEF GraphInv

\* What the host has before its next step, and what that step does.
LEMMA HostAt ==
    ASSUME GraphInv, ~Done
    PROVE  /\ config \in Configs /\ block \in 1 .. NBlocks(config) /\ MemOK(mem)
           /\ pc \in 1 .. Len(Program(config, block))
           /\ Programs[config][block] = Program(config, block)
           /\ Blocks(config)[block] = First(config, block) .. First(config, block + 1) - 1
           /\ InContext(First(config, block), First(config, block + 1) - 1)
           /\ \E at : /\ Scripted(config, block, at)
                      /\ Running(config, block, at[pc - 1], queue, mem, cache, logits)
                      /\ HostDoes(First(config, block), First(config, block + 1) - 1,
                                  Expected(config, block), at[pc - 1], Step, at[pc])
<1>1. NBlocks(config) \in Nat /\ Len(Blocks(config)) = NBlocks(config)
      /\ DOMAIN Blocks(config) = 1 .. NBlocks(config)
  BY FirstIs, BlocksAre
<1>2. block <= NBlocks(config) /\ block \in 1 .. NBlocks(config)
  BY <1>1 DEF GraphInv, State, Done
<1>3. config \in Configs /\ MemOK(mem) /\ pc \in 1 .. Len(Program(config, block))
  BY <1>2 DEF GraphInv, State
<1>4. Programs[config][block] = Program(config, block)
  BY <1>1, <1>2, <1>3 DEF Programs
<1>5. Blocks(config)[block] = First(config, block) .. First(config, block + 1) - 1
      /\ InContext(First(config, block), First(config, block + 1) - 1)
  BY <1>2, BlocksAre
<1>6. PICK at : /\ Scripted(config, block, at)
                /\ Running(config, block, at[pc - 1], queue, mem, cache, logits)
  BY <1>2 DEF GraphInv, State
<1>7. HostDoes(First(config, block), First(config, block + 1) - 1,
               Expected(config, block), at[pc - 1], Step, at[pc])
  BY <1>3, <1>4, <1>6 DEF Scripted, Script, Step
<1> QED
  BY <1>2, <1>3, <1>4, <1>5, <1>6, <1>7

LEMMA Moves ==
    ASSUME GraphInv, ~Done, Advance, NEW at, Scripted(config, block, at), MemOK(mem)',
           Running(config, block, at[pc], queue', mem', cache', logits')
    PROVE  GraphInv'
<1>1. /\ config \in Configs /\ block \in 1 .. NBlocks(config)
      /\ pc \in 1 .. Len(Program(config, block))
      /\ Programs[config][block] = Program(config, block)
  BY HostAt
<1>2. IF pc < Len(Program(config, block)) THEN pc' = pc + 1 /\ block' = block
      ELSE pc' = 1 /\ block' = block + 1
  BY <1>1 DEF Advance
<1>3. MemOK(mem')
  BY DEF MemOK
<1>4. State(config, block', pc', queue', mem', cache', logits')
  BY <1>1, <1>2, <1>3, GoesOn
<1> QED
  BY <1>4 DEF GraphInv, Advance

\* A step of the host.
LEMMA HostOK ==
    ASSUME GraphInv, HostMapped \/ HostQueued \/ HostWait \/ HostAttend \/ HostReturn
    PROVE  GraphInv'
<1>1. ~Done /\ Advance
  BY DEF HostMapped, HostQueued, HostWait, HostAttend, HostReturn
<1> DEFINE a == First(config, block)
           b == First(config, block + 1) - 1
           ans == Expected(config, block)
<1>2. /\ block \in 1 .. NBlocks(config) /\ MemOK(mem) /\ Blocks(config)[block] = a .. b
      /\ InContext(a, b)
  BY <1>1, HostAt
<1>3. PICK at : /\ Scripted(config, block, at)
                /\ Running(config, block, at[pc - 1], queue, mem, cache, logits)
                /\ HostDoes(a, b, ans, at[pc - 1], Step, at[pc])
  BY <1>1, HostAt
<1> DEFINE H == at[pc - 1]
           J == at[pc]
<1>4. /\ HostDoes(a, b, ans, H, Step, J) /\ H.said \in {0, 1} /\ Now(a, b, H, queue, mem, cache)
      /\ logits = Answers(config, Before(config, block) + H.said)
  BY <1>3 DEF Running
<1> SUFFICES /\ MemOK(mem') /\ J.said \in {0, 1} /\ Now(a, b, J, queue', mem', cache')
             /\ logits' = Answers(config, Before(config, block) + J.said)
  <2>1. Running(config, block, J, queue', mem', cache', logits')
    BY DEF Running
  <2>2. MemOK(mem)'
    BY DEF MemOK
  <2> QED
    BY <1>1, <1>3, <2>1, <2>2, Moves
<1> HIDE DEF a, b, ans, H, J
<1>5. CASE HostMapped
  <2>1. Step.do = "mapped" /\ mem' = Write(mem, R(Step.buf), Step.val)
        /\ queue' = queue /\ cache' = cache /\ logits' = logits
    BY <1>5 DEF HostMapped
  <2>2. /\ MemOK(Write(mem, R(Step.buf), Step.val)) /\ J.said = H.said
        /\ Now(a, b, J, queue, Write(mem, R(Step.buf), Step.val), cache)
    BY <1>2, <1>4, <2>1, MappedNow
  <2> QED
    BY <1>4, <2>1, <2>2
<1>6. CASE HostQueued /\ Step.do = "queued"
  <2>1. /\ queue' = queue \o <<[k |-> "store", out |-> R(Step.buf), val |-> Step.val], Bar>>
        /\ mem' = mem /\ cache' = cache /\ logits' = logits
    BY <1>6 DEF HostQueued
  <2>2. /\ J.said = H.said
        /\ Now(a, b, J, queue \o <<[k |-> "store", out |-> R(Step.buf), val |-> Step.val], Bar>>,
               mem, cache)
    BY <1>4, <1>6, QueuedNow
  <2> QED
    BY <1>2, <1>4, <2>1, <2>2
<1>7. CASE HostQueued /\ Step.do = "submit"
  <2>1. /\ queue' = queue \o Step.ds /\ mem' = mem /\ cache' = cache /\ logits' = logits
    BY <1>7 DEF HostQueued
  <2>2. J.said = H.said /\ Now(a, b, J, queue \o Step.ds, mem, cache)
    BY <1>4, <1>7, SubmitNow
  <2> QED
    BY <1>2, <1>4, <2>1, <2>2
<1>8. CASE HostWait
  <2>1. /\ Step.do = "wait" /\ queue = <<>> /\ queue' = <<>> /\ mem' = mem /\ cache' = cache
        /\ logits' = logits
    BY <1>8 DEF HostWait
  <2>2. Now(a, b, H, <<>>, mem, cache)
    BY <1>4, <2>1
  <2>3. J.said = H.said /\ Now(a, b, J, <<>>, mem, cache)
    BY <1>4, <2>1, <2>2, WaitNow
  <2> QED
    BY <1>2, <1>4, <2>1, <2>3
<1>9. CASE HostAttend
  <2> DEFINE l == Step.l
             S == Blocks(config)[block]
             store == [k |-> "store", out |-> R("attn"), val |-> AttnOf(cache, mem, l, S)]
             next == WithRow(cache, l, RowOf(cache, mem, l, S))
  <2>1. /\ Step.do = "attend" /\ mem' = mem /\ logits' = logits
        /\ queue' = queue \o <<store, Bar>> /\ cache' = next
    BY <1>9 DEF HostAttend, QOf, WithRow, RowOf, AttnOf, EntryOf, SlotOf
  <2>2. S = a .. b
    BY <1>2
  <2>3. J.said = H.said /\ Now(a, b, J, queue \o <<store, Bar>>, mem, next)
    BY <1>2, <1>4, <2>1, <2>2, AttendNow
  <2> HIDE DEF store, next
  <2> QED
    BY <1>2, <1>4, <2>1, <2>3
<1>10. CASE HostReturn
  <2>1. /\ Step.do = "return" /\ queue' = queue /\ mem' = mem /\ cache' = cache
        /\ logits' = Append(logits, Read(mem, R("logits")))
    BY <1>10 DEF HostReturn
  <2>2. /\ H.said = 0 /\ J.said = 1 /\ ans # Stale /\ Read(mem, R("logits")) = ans
        /\ Now(a, b, J, queue, mem, cache)
    BY <1>4, <2>1, ReturnNow
  <2> DEFINE n == Before(config, block)
  <2>3. /\ block \in 1 .. NBlocks(config) + 1
        /\ block > Skipped(config)
    BY <1>2, <2>2, FirstIs DEF ans, Expected
  <2>4. n \in Nat /\ n + 0 = n /\ Skipped(config) + (n + 1) = block
    BY <2>3, BeforeIs
  <2>5. logits = Answers(config, n)
        /\ logits' = Append(logits, Expected(config, Skipped(config) + (n + 1)))
    BY <1>4, <2>1, <2>2, <2>4 DEF ans
  <2> HIDE DEF n
  <2>6. Append(Answers(config, n), Expected(config, Skipped(config) + (n + 1))) = Answers(config, n + 1)
    BY <2>4 DEF Answers
  <2>7. logits' = Answers(config, n + J.said)
    BY <2>2, <2>5, <2>6
  <2> QED
    BY <1>2, <2>1, <2>2, <2>7 DEF n
<1> QED
  BY <1>5, <1>6, <1>7, <1>8, <1>9, <1>10, ZenonT(30) DEF HostQueued
\* Work is only queued while the host is in a block.
LEMMA QueueOK ==
    ASSUME GraphInv, NEW i \in DOMAIN queue
    PROVE  ~Done /\ NBlocks(config) \in Nat /\ block \in 1 .. NBlocks(config)
<1>1. /\ NBlocks(config) \in Nat /\ Len(Blocks(config)) = NBlocks(config)
      /\ block \in 1 .. NBlocks(config) + 1
  BY FirstIs, BlocksAre DEF GraphInv, State
<1>2. ~(block > NBlocks(config))
  <2>1. ASSUME block > NBlocks(config) PROVE FALSE
    <3>1. queue = <<>>
      BY <2>1 DEF GraphInv, State, Ended
    <3> QED
      BY <3>1
  <2> QED
    BY <2>1
<1> QED
  BY <1>1, <1>2 DEF Done

\* A step of the GPU.
LEMMA GpuOK ==
    ASSUME GraphInv, NEW i \in DOMAIN queue, Start(i) \/ Finish(i)
    PROVE  GraphInv'
<1> DEFINE a == First(config, block)
           b == First(config, block + 1) - 1
<1>1. /\ ~Done /\ NBlocks(config) \in Nat /\ block \in 1 .. NBlocks(config)
  BY QueueOK
<1>2. MemOK(mem) /\ InContext(a, b) /\ config \in Configs /\ pc \in 1 .. Len(Program(config, block))
  BY <1>1, HostAt
<1>3. PICK at : /\ Scripted(config, block, at)
                /\ Running(config, block, at[pc - 1], queue, mem, cache, logits)
  BY <1>1, HostAt
<1> DEFINE H == at[pc - 1]
<1>4. /\ H.said \in {0, 1} /\ Now(a, b, H, queue, mem, cache)
      /\ logits = Answers(config, Before(config, block) + H.said)
  BY <1>3 DEF Running
<1>5. config' = config /\ block' = block /\ pc' = pc /\ logits' = logits
  BY DEF Start, Finish
<1> SUFFICES MemOK(mem') /\ Now(a, b, H, queue', mem', cache')
  <2>1. Running(config, block, H, queue', mem', cache', logits)
    BY <1>4 DEF Running
  <2>2. block \in 1 .. NBlocks(config) + 1 /\ block <= NBlocks(config) /\ ~(block > NBlocks(config))
    BY <1>1
  <2>3. State(config, block, pc, queue', mem', cache', logits)
    BY <1>2, <1>3, <2>1, <2>2 DEF State
  <2> QED
    BY <1>5, <2>3 DEF GraphInv
<1> HIDE DEF a, b, H
<1>6. \A j \in 1 .. i : queue[j] # Bar
  BY DEF Start, Finish, Ready
<1>7. CASE Start(i)
  <2> DEFINE d == queue[i]
             res == Result(d, [j \in DOMAIN d.ins |-> Read(mem, d.ins[j])], cache[d.l])
  <2>1. /\ d.k \notin {"store", "storekv"} /\ queue' = [queue EXCEPT ![i] = res]
        /\ mem' = mem /\ cache' = cache
    BY <1>7 DEF Start
  <2>2. Now(a, b, H, [queue EXCEPT ![i] = res], mem, cache)
    BY <1>4, <1>6, <2>1, StartNow, Zenon
  <2> QED
    BY <1>2, <2>1, <2>2
<1>8. CASE Finish(i)
  <2> DEFINE z == queue[i]
             rest == RemoveAt(queue, i)
  <2>1. /\ z.k \in {"store", "storekv"}
        /\ queue' = IF rest # <<>> /\ Head(rest) = Bar THEN Tail(rest) ELSE rest
        /\ IF z.k = "store" THEN mem' = Write(mem, z.out, z.val) /\ cache' = cache
           ELSE mem' = mem /\ cache' = WithRow(cache, z.out, Filled(cache, z))
    BY <1>8 DEF Finish, WithRow, Filled
  <2>2. /\ rest # <<>> /\ Head(rest) = Bar
        /\ z.k = "store" => /\ MemOK(Write(mem, z.out, z.val))
                            /\ Now(a, b, H, Tail(rest), Write(mem, z.out, z.val), cache)
        /\ z.k = "storekv" => Now(a, b, H, Tail(rest), mem, WithRow(cache, z.out, Filled(cache, z)))
    BY <1>2, <1>4, <1>6, <2>1, FinishNow
  <2> HIDE DEF z, rest
  <2>3. CASE z.k = "store"
    BY <2>1, <2>2, <2>3
  <2>4. CASE z.k = "storekv"
    BY <1>2, <2>1, <2>2, <2>4
  <2> QED
    BY <2>1, <2>3, <2>4
<1> QED
  BY <1>7, <1>8

LEMMA GraphStepOK == GraphInv /\ [GraphNext]_graphVars => GraphInv'
<1> SUFFICES ASSUME GraphInv, [GraphNext]_graphVars PROVE GraphInv'
  OBVIOUS
<1>1. CASE HostMapped \/ HostQueued \/ HostWait \/ HostAttend \/ HostReturn
  BY <1>1, HostOK
<1>2. CASE \E i \in DOMAIN queue : Start(i) \/ Finish(i)
  BY <1>2, GpuOK
<1>3. CASE UNCHANGED graphVars
  BY <1>3 DEF graphVars, GraphInv
<1> QED
  BY <1>1, <1>2, <1>3 DEF GraphNext, Terminated

\* Every state is between two steps of the program of a block: what is queued
\* leads from what the memory and the caches hold to what the host expects.
THEOREM GraphInvariant == GraphSpec => []GraphInv
<1> QED
  BY BeginsOK, GraphStepOK, PTL DEF GraphSpec

LEMMA StaleNowhere == GraphInv => NothingStale
<1> SUFFICES ASSUME GraphInv, NEW i \in DOMAIN queue
             PROVE  /\ queue[i].k = "store" => queue[i].val # Stale
                    /\ queue[i].k = "storekv" =>
                         \A p \in DOMAIN queue[i].val : queue[i].val[p] = KVOf(queue[i].out, p)
  BY DEF NothingStale
<1>1. ~Done
  BY QueueOK
<1>2. PICK at : Running(config, block, at[pc - 1], queue, mem, cache, logits)
  BY <1>1, HostAt
<1>3. Now(First(config, block), First(config, block + 1) - 1, at[pc - 1], queue, mem, cache)
  BY <1>2 DEF Running
<1> QED
  BY <1>3, NowSound

\* No kernel of any engine computes from a region another layer, another block
\* or an unfinished stage left there: for every number of layers of either
\* kind, every choice of split linears and of layers a submit, every chunk
\* size and every prompt.
THEOREM NothingStaleCorrect == GraphSpec => []NothingStale
<1> QED
  BY GraphInvariant, StaleNowhere, PTL

LEMMA AnswersRight == GraphInv => LogitsOfOwnToken
<1> SUFFICES ASSUME GraphInv PROVE LogitsOfOwnToken
  OBVIOUS
<1>1. \E n \in Nat : logits = Answers(config, n)
  <2>1. NBlocks(config) \in Nat /\ block \in 1 .. NBlocks(config) + 1
    BY FirstIs DEF GraphInv, State
  <2>2. CASE block <= NBlocks(config)
    <3>1. PICK at : Running(config, block, at[pc - 1], queue, mem, cache, logits)
      BY <2>2 DEF GraphInv, State
    <3>2. Before(config, block) \in Nat
      BY <2>1, BeforeIs
    <3> DEFINE n == Before(config, block) + at[pc - 1].said
    <3>3. at[pc - 1].said \in {0, 1} /\ logits = Answers(config, n)
      BY <3>1 DEF Running
    <3>4. n \in Nat
      BY <3>2, <3>3
    <3> QED
      BY <3>3, <3>4
  <2>3. CASE block > NBlocks(config)
    <3> DEFINE n == Before(config, NBlocks(config) + 1)
    <3>1. logits = Answers(config, n)
      BY <2>3 DEF GraphInv, State, Ended
    <3>2. n \in Nat
      BY <2>1, BeforeIs
    <3> QED
      BY <3>1, <3>2
  <2> QED
    BY <2>1, <2>2, <2>3
<1>2. PICK n \in Nat : logits = Answers(config, n)
  BY <1>1
<1>3. Skipped(config) \in Nat /\ DOMAIN logits = 1 .. n
  BY <1>2, FirstIs DEF Answers
<1>4. ASSUME NEW i \in DOMAIN logits
      PROVE  logits[i] = Q(IF config.engine = "vk" THEN "logits" ELSE "capped",
                           LastLayer + 1, Blocks(config)[Skipped(config) + i])
  <2>1. i \in 1 .. n /\ Skipped(config) + i > Skipped(config)
    BY <1>3, <1>4
  <2>2. logits[i] = Expected(config, Skipped(config) + i)
    BY <1>2, <2>1 DEF Answers
  <2> QED
    BY <2>1, <2>2 DEF Expected
<1> QED
  BY <1>4 DEF LogitsOfOwnToken, Skipped

\* Every forward returns the logits of the token it was given.
THEOREM LogitsOfOwnTokenCorrect == GraphSpec => []LogitsOfOwnToken
<1> QED
  BY GraphInvariant, AnswersRight, PTL

LEMMA CacheIs == GraphInv => CacheFollowsHost
<1> SUFFICES ASSUME GraphInv, NEW l \in Layers, NEW i \in DOMAIN Blocks(config),
                    NEW p \in Blocks(config)[i]
             PROVE  /\ i < block => cache[l][p] = KVOf(l, p)
                    /\ i > block => cache[l][p] = NoKV
  BY DEF CacheFollowsHost
<1>1. /\ NBlocks(config) \in Nat /\ i \in 1 .. NBlocks(config)
      /\ block \in 1 .. NBlocks(config) + 1 /\ NPositions \in Nat
  BY FirstIs, BlocksAre, Zenon DEF GraphInv, State
<1>2. /\ p \in First(config, i) .. First(config, i + 1) - 1 /\ p \in Positions
      /\ First(config, i) \in Nat /\ First(config, i + 1) \in Nat
  <2>1. Blocks(config)[i] = First(config, i) .. First(config, i + 1) - 1
        /\ InContext(First(config, i), First(config, i + 1) - 1)
    BY <1>1, BlocksAre
  <2>2. i \in 1 .. NBlocks(config) + 1 /\ i + 1 \in 1 .. NBlocks(config) + 1
    BY <1>1
  <2>3. First(config, i) \in Nat /\ First(config, i + 1) \in Nat
    BY <2>2, FirstIs
  <2> QED
    BY <2>1, <2>3 DEF InContext
<1>3. CASE block <= NBlocks(config)
  <2> DEFINE a == First(config, block)
             e == First(config, block + 1)
  <2>1. block \in 1 .. NBlocks(config) /\ block + 1 \in 1 .. NBlocks(config) + 1
    BY <1>1, <1>3
  <2>2. a \in Nat /\ e \in Nat /\ a < e
    BY <1>1, <2>1, FirstIs
  <2>3. PICK at : Running(config, block, at[pc - 1], queue, mem, cache, logits)
    BY <1>3 DEF GraphInv, State
  <2>4. Now(a, e - 1, at[pc - 1], queue, mem, cache)
    BY <2>3 DEF Running
  <2> HIDE DEF a, e
  <2>5. PICK F : F.upto \in [Layers -> {a, (e - 1) + 1}] /\ cache = CacheOf(F.upto)
    BY <2>4 DEF Now
  <2>6. F.upto[l] \in {a, e}
    BY <2>2, <2>5
  <2>7. cache[l][p] = IF p < F.upto[l] THEN KVOf(l, p) ELSE NoKV
    BY <1>2, <2>5 DEF CacheOf
  <2>8. ASSUME i < block PROVE p < F.upto[l]
    <3>1. i \in 1 .. NBlocks(config) /\ block \in i + 1 .. NBlocks(config) + 1
      BY <1>1, <2>8
    <3>2. First(config, i + 1) <= a
      BY <3>1, FirstIs DEF a
    <3> QED
      BY <1>2, <2>2, <2>6, <3>2
  <2>9. ASSUME i > block PROVE ~(p < F.upto[l])
    <3>1. block \in 1 .. NBlocks(config) /\ i \in block + 1 .. NBlocks(config) + 1
      BY <1>1, <2>1, <2>9
    <3>2. e <= First(config, i)
      BY <3>1, FirstIs DEF e
    <3> QED
      BY <1>2, <2>2, <2>6, <3>2
  <2> QED
    BY <2>7, <2>8, <2>9
<1>4. CASE block > NBlocks(config)
  <2>1. cache = CacheOf(Level(NPositions))
    BY <1>4 DEF GraphInv, State, Ended
  <2>2. p < NPositions
    BY <1>1, <1>2 DEF Positions
  <2>3. cache[l][p] = KVOf(l, p)
    BY <1>2, <2>1, <2>2 DEF CacheOf, Level
  <2> QED
    BY <1>1, <1>4, <2>3
<1> QED
  BY <1>1, <1>3, <1>4

\* Every layer's cache holds the positions the host is past, and no other.
THEOREM CacheFollowsHostCorrect == GraphSpec => []CacheFollowsHost
<1> QED
  BY GraphInvariant, CacheIs, PTL

=============================================================================
