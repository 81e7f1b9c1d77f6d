---------------------------- MODULE ShardExport ----------------------------
(***************************************************************************)
(* The directory of ONNX shards: export_shards.py writes the metadata and  *)
(* the shards that are not there yet, compile_contexts.py compiles each    *)
(* into a context binary if it has none.  Both are run by hand, may be     *)
(* killed anywhere, and are run again.                                     *)
(*                                                                         *)
(* A file is absent, torn (it exists, its contents are not complete) or    *)
(* whole; a whole one is what a session computes: a run of layers over a   *)
(* window of win cached positions.                                         *)
(***************************************************************************)
EXTENDS Integers, Sequences, FiniteSets

CONSTANTS
    NLayers,      \* decoder layers of the model (48)
    Options,      \* the (--layers-per-shard, --win) pairs the exporter is run with
    MaxExports,   \* bound: runs of the exporter
    MaxCompiles   \* bound: runs of the compiler

ASSUME ShardExportAssumption ==
    /\ NLayers \in Nat \ {0}
    /\ Options \subseteq [lps : Nat \ {0}, win : Nat \ {0}]

Absent == [state |-> "absent"]
Torn == [state |-> "torn"]
Whole(lo, hi, win) == [state |-> "whole", lo |-> lo, hi |-> hi, win |-> win]

Indices == 0 .. NLayers - 1

\* shards.json: how many shards, and which layers [lo, hi) each one has.
Shards(o) ==
    [s \in 0 .. ((NLayers + o.lps - 1) \div o.lps) - 1 |->
        Whole(s * o.lps, IF (s + 1) * o.lps <= NLayers THEN (s + 1) * o.lps ELSE NLayers, o.win)]

NoMeta == [lps |-> 0, win |-> 0]

VARIABLES
    meta,      \* the options shards.json describes, NoMeta before the first
    file,      \* fp16shard_{s}.onnx
    ctx,       \* ctx_fp16shard_{s}.onnx
    exporter,  \* the exporter's process: its phase, shard and options
    compiler,  \* the compiler's process: its phase, shard and shard count
    exports, compiles,   \* runs so far
    layouts,   \* history: every options written to shards.json
    cut        \* history: shards an exporter was killed while it saved

dirVars == <<meta, file, ctx>>
expVars == <<exporter, exports>>
comVars == <<compiler, compiles>>
histVars == <<layouts, cut>>

DirInit ==
    /\ meta = NoMeta /\ file = [s \in Indices |-> Absent] /\ ctx = [s \in Indices |-> Absent]
    /\ exporter = [phase |-> "off"] /\ compiler = [phase |-> "off"]
    /\ exports = 0 /\ compiles = 0 /\ layouts = {} /\ cut = {}

\* full_export: embeddings and norm, then shards.json, before any shard.
StartExport(o) ==
    /\ exporter.phase # "exporting" /\ exports < MaxExports
    /\ exporter' = [phase |-> "exporting", si |-> 0, opt |-> o, saving |-> FALSE]
    /\ exports' = exports + 1
    /\ meta' = o
    /\ layouts' = layouts \cup {o}
    /\ UNCHANGED <<file, ctx, comVars, cut>>

\* Mutant: the loop ends a shard early.
NextShardEarly ==
    exporter' = IF exporter.si + 2 \in DOMAIN Shards(exporter.opt)
                THEN [exporter EXCEPT !.si = @ + 1, !.saving = FALSE]
                ELSE [phase |-> "done", opt |-> exporter.opt]

NextShard ==
    exporter' = IF exporter.si + 1 \in DOMAIN Shards(exporter.opt)
                THEN [exporter EXCEPT !.si = @ + 1, !.saving = FALSE]
                ELSE [phase |-> "done", opt |-> exporter.opt]

Exporting == exporter.phase = "exporting"

\* Mutant: a shard is exported again whether it is there or not.
KeptNever(i) == FALSE
Kept(i) == file[i] # Absent

SkipExisting ==
    /\ Exporting /\ ~exporter.saving
    /\ Kept(exporter.si)
    /\ NextShard
    /\ UNCHANGED <<dirVars, exports, comVars, histVars>>

\* export_one_shard: traced into a temporary directory, loaded back, then saved
\* under its own name, the external data before the model file.
BeginSave ==
    /\ Exporting /\ ~exporter.saving
    /\ ~Kept(exporter.si)
    /\ file' = [file EXCEPT ![exporter.si] = Torn]
    /\ exporter' = [exporter EXCEPT !.saving = TRUE]
    /\ UNCHANGED <<meta, ctx, exports, comVars, histVars>>

EndSave ==
    /\ Exporting /\ exporter.saving
    /\ file' = [file EXCEPT ![exporter.si] = Shards(exporter.opt)[exporter.si]]
    /\ NextShard
    /\ UNCHANGED <<meta, ctx, exports, comVars, histVars>>

\* Killed anywhere, with whatever it had written.
ExportDies ==
    /\ Exporting
    /\ exporter' = [phase |-> "off"]
    /\ cut' = IF exporter.saving THEN cut \cup {exporter.si} ELSE cut
    /\ UNCHANGED <<dirVars, exports, comVars, layouts>>

-----------------------------------------------------------------------------
(* compile_contexts.py: shards 0 .. NSH - 1, NSH the number of shard files *)

StartCompile ==
    /\ compiler.phase # "compiling" /\ compiles < MaxCompiles
    /\ LET NSH == Cardinality({s \in Indices : file[s] # Absent})
       IN  compiler' = IF NSH = 0 THEN [phase |-> "off"]
                       ELSE [phase |-> "compiling", s |-> 0, NSH |-> NSH, from |-> Absent]
    /\ compiles' = compiles + 1
    /\ UNCHANGED <<dirVars, expVars, histVars>>

Compiling == compiler.phase = "compiling"

NextContext ==
    compiler' = IF compiler.s + 1 < compiler.NSH
                THEN [compiler EXCEPT !.s = @ + 1, !.from = Absent]
                ELSE [phase |-> "off"]

SkipCompiled ==
    /\ Compiling /\ compiler.from = Absent /\ ctx[compiler.s] # Absent
    /\ NextContext
    /\ UNCHANGED <<dirVars, compiles, expVars, histVars>>

\* The session compiles the shard as it is now; one that is missing or torn
\* does not load and ends the script.
BeginCompile ==
    /\ Compiling /\ compiler.from = Absent /\ ctx[compiler.s] = Absent
    /\ IF file[compiler.s].state = "whole"
       THEN /\ compiler' = [compiler EXCEPT !.from = file[compiler.s]]
            /\ ctx' = [ctx EXCEPT ![compiler.s] = Torn]
       ELSE compiler' = [phase |-> "off"] /\ UNCHANGED ctx
    /\ UNCHANGED <<meta, file, compiles, expVars, histVars>>

EndCompile ==
    /\ Compiling /\ compiler.from # Absent
    /\ ctx' = [ctx EXCEPT ![compiler.s] = compiler.from]
    /\ NextContext
    /\ UNCHANGED <<meta, file, compiles, expVars, histVars>>

CompileDies ==
    /\ Compiling
    /\ compiler' = [phase |-> "off"]
    /\ UNCHANGED <<dirVars, compiles, expVars, histVars>>

DirNext ==
    \/ \E o \in Options : StartExport(o)
    \/ SkipExisting \/ BeginSave \/ EndSave \/ ExportDies
    \/ StartCompile \/ SkipCompiled \/ BeginCompile \/ EndCompile \/ CompileDies

-----------------------------------------------------------------------------
\* One --layers-per-shard was used for every export into this directory.
OneLayout == \A a, b \in layouts : a.lps = b.lps

\* What an export leaves behind when it reports DONE.  The files that were there
\* were skipped, so each shard that shards.json lists is what one of the exports
\* into this directory was asked for, layers and window, and the last export's
\* only if no other options were used; the one other thing it can be is what an
\* export killed in the middle of saving that shard left of it
\* (export_shards.py:264-272).
DoneAsListed ==
    exporter.phase = "done" =>
        \A i \in DOMAIN Shards(meta) :
            \/ file[i] = Torn /\ i \in cut
            \/ \E o \in layouts : i \in DOMAIN Shards(o) /\ file[i] = Shards(o)[i]

\* A context binary that loads computes exactly what its shard file does, in
\* layers and window, whenever the two scripts overlap or are killed: the
\* compiler reads a file only when it is whole, and the exporter never rewrites
\* one (compile_contexts.py:27-43, export_shards.py:266-267).
ContextIsItsShard == \A i \in Indices : ctx[i].state = "whole" => ctx[i] = file[i]
=============================================================================
