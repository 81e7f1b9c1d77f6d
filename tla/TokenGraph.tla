----------------------------- MODULE TokenGraph -----------------------------
(***************************************************************************)
(* One forward pass as the graph of dispatches the host records and the    *)
(* GPU runs, for the Vulkan engine (a batched prefill, then one token at a *)
(* time) and for the two WebGPU engines of experiments/ (everything on the *)
(* GPU, or attention on the CPU).  All of them chain their kernels through *)
(* a few buffers every layer reuses, so the question is whether a kernel   *)
(* ever reads a region that does not hold what the model's equations say.  *)
(*                                                                         *)
(* A region holds a named quantity: which activation, of which layer, for  *)
(* which block of positions, in which form (finished, partial sums, f16,   *)
(* int8).  A kernel gives the quantity it should when its inputs are       *)
(* exactly those Gemma's layer defines (Arch), and Stale otherwise.         *)
(***************************************************************************)
EXTENDS Integers, FiniteSets, Sequences, SequencesExt

CONSTANTS
    LayerTypes,   \* one of "sliding", "full" for each layer
    Chunk,        \* rows of a prefill pass (MC)
    Chunks,       \* full chunks in the prompt
    Tokens,       \* single tokens that follow
    Directs,      \* the sets of linears quant() may leave unsplit
    GroupSizes    \* layers a submit of the prefill holds (GLAY)

ASSUME TokenGraphAssumption ==
    /\ LayerTypes \in Seq({"sliding", "full"})
    /\ Chunk \in Nat \ {0} /\ Chunks \in Nat /\ Tokens \in Nat
    /\ GroupSizes \subseteq Nat \ {0}

LastLayer == Len(LayerTypes)
Layers == 1 .. LastLayer
NPositions == Chunk * Chunks + Tokens
Positions == 0 .. NPositions - 1

\* attention_k_eq_v: a global layer has no v_proj, its V is made from K.
KEqV(l) == LayerTypes[l] = "full"

\* Widths of q and k in units of 512 floats, for 16 query heads: a sliding
\* layer has 8 KV heads of 256, a global layer one of 512.
NQ(l) == IF KEqV(l) THEN 16 ELSE 8
NK(l) == IF KEqV(l) THEN 1 ELSE 4
QkvUnits == 24

-----------------------------------------------------------------------------
(* Quantities and the model's own equations *)

Q(name, l, block) == [name |-> name, layer |-> l, block |-> block, form |-> "f32"]
Stale == Q("junk", 0, {})
As(v, form) == IF v = Stale THEN Stale ELSE [v EXCEPT !.form = form]
Was(v, form) == IF v.form = form THEN As(v, "f32") ELSE Stale

\* What each operation of a decoder layer is computed from and gives.
Arch ==
    LET E(of, is) == [of |-> of, is |-> is]
    IN  [in |-> E(<<"x">>, "n"), q |-> E(<<"n">>, "q"), k |-> E(<<"n">>, "k"),
         v |-> E(<<"n">>, "v"), o |-> E(<<"a">>, "o"), pa |-> E(<<"o">>, "t"),
         addA |-> E(<<"x", "t">>, "y"), pf |-> E(<<"y">>, "m"),
         g |-> E(<<"m">>, "g"), u |-> E(<<"m">>, "u"), gm |-> E(<<"g", "u">>, "c"),
         d |-> E(<<"c">>, "d"), of |-> E(<<"d">>, "t"), addM |-> E(<<"y", "t">>, "z"),
         scale |-> E(<<"z">>, "x"), fin |-> E(<<"x">>, "f"), lm |-> E(<<"f">>, "logits"),
         cap |-> E(<<"logits">>, "capped")]

Apply(op, l, vals) ==
    LET of == Arch[op].of
        S == vals[1].block
    IN  IF \A i \in 1 .. Len(of) : vals[i] = Q(of[i], l, S)
        THEN Q(Arch[op].is, IF op = "scale" THEN l + 1 ELSE l, S)
        ELSE Stale

\* The cache entry of position p of layer l, and one never written.
KVOf(l, p) == [k |-> Q("K", l, {p}), v |-> Q("V", l, {p})]
NoKV == [k |-> Stale, v |-> Stale]

-----------------------------------------------------------------------------
(* Kernels: what one dispatch computes from the values it reads *)

RMSNORM(w, l, v) == Apply(w, l, <<v[1]>>)
ADD(op, l, v) == Apply(op, l, <<v[1], v[2]>>)
SCALE(l, v) == Apply("scale", l, <<v[1]>>)
GELUMUL(l, v) == Apply("gm", l, <<v[1], v[2]>>)
SOFTCAP(l, v) == Apply("cap", l, <<v[1]>>)

\* h + norm(x) * w, scaled when the uniform carries a scale.
NORM_ADD(w, l, v) ==
    IF w = "pa" THEN ADD("addA", l, <<v[2], RMSNORM("pa", l, v)>>)
    ELSE SCALE(l, <<ADD("addM", l, <<v[2], RMSNORM("of", l, v)>>)>>)

GEMV(w, l, v) == As(Apply(w, l, <<v[1]>>), "part")
REDUCE(v) == Was(v[1], "part")
DIRECT(w, l, v) == Apply(w, l, <<v[1]>>)

\* The staged prefill GEMM; cast_i8 also leaves a scale for each row.
CASTDOWN(form, v) == As(v[1], form)
COOPGEMM(w, l, form, v) == As(Apply(w, l, <<Was(v[1], form)>>), "f16")
CASTUP(v) == Was(v[1], "f16")

\* v = <<k, v or k, dyn, rope>>: K is normed and rotated, V normed, into the
\* slots of the positions the dyn uniform names.
PREP_KV(l, v) ==
    LET S == v[3].block
        fresh == v[3] = Q("dyn", 0, S) /\ v[4] = Q("rope", 0, S)
    IN  [p \in S |->
            [k |-> IF fresh /\ v[1] = Q("k", l, S) THEN Q("K", l, {p}) ELSE Stale,
             v |-> IF v[2] = Q(IF KEqV(l) THEN "k" ELSE "v", l, S)
                   THEN Q("V", l, {p}) ELSE Stale]]

\* v = <<q, dyn, rope>>: each row attends to the positions up to its own.
ATTN(l, v, kv) ==
    LET S == v[2].block
    IN  IF /\ v[1] = Q("q", l, S) /\ v[2] = Q("dyn", 0, S) /\ v[3] = Q("rope", 0, S)
           /\ \A p \in S : \A j \in 0 .. p : kv[j] = KVOf(l, j)
        THEN Q("a", l, S)
        ELSE Stale

-----------------------------------------------------------------------------
(* Buffers and dispatches *)

At(buf, off, n) == [buf |-> buf, off |-> off, n |-> n]
R(buf) == At(buf, 0, 1)

Buffers == {"h", "normed", "normed2", "o", "t", "t2", "down", "normed_f", "attn",
            "gate", "up", "act", "logits", "bp", "dyn", "rope_sliding", "rope_full",
            "Xp", "Np", "Tp", "Qp", "Ap", "Kp", "Vp", "Gp", "Upp", "ACp", "staged",
            "Yf16", "dynp", "ropeM_sliding", "ropeM_full"}

Units(buf) == IF buf = "qkv" THEN QkvUnits ELSE 1

Read(m, r) ==
    LET v == m[r.buf][r.off].v
    IN  IF \A i \in 0 .. r.n - 1 : m[r.buf][r.off + i] = [v |-> v, unit |-> i]
        THEN v ELSE Stale

Write(m, r, v) ==
    [m EXCEPT ![r.buf] = [i \in DOMAIN @ |->
        IF i \in r.off .. r.off + r.n - 1 THEN [v |-> v, unit |-> i - r.off] ELSE @[i]]]

D(kernel, op, l, ins, out) ==
    [k |-> kernel, op |-> op, l |-> l, ins |-> ins, out |-> out]
Bar == [k |-> "bar"]

\* Mutant: no barrier is recorded.
dispNoBar(d) == <<d>>

\* disp / gd record a barrier after every dispatch; WebGPU orders its passes.
disp(d) == <<d, Bar>>

\* A split GEMV goes through the shared partial buffer.
gemv(direct, op, l, in, out) ==
    IF op \in direct THEN disp(D("DIRECT", op, l, <<in>>, out))
    ELSE disp(D("GEMV", op, l, <<in>>, R("bp"))) \o disp(D("REDUCE", op, l, <<R("bp")>>, out))
chain(op, l, in, out) ==
    disp(D("GEMV", op, l, <<in>>, R("bp"))) \o disp(D("REDUCE", op, l, <<R("bp")>>, out))

gmm(i8, op, l, in, out) ==
    LET form == IF i8 THEN "i8" ELSE "f16"
    IN  disp(D("CASTDOWN", form, l, <<in>>, R("staged")))
        \o disp(D(IF i8 THEN "W8A8" ELSE "CGEMM16", op, l, <<R("staged")>>, R("Yf16")))
        \o disp(D("CASTUP", op, l, <<R("Yf16")>>, out))

norm(w, l, in, out) == disp(D("RMSNORM", w, l, <<R(in)>>, R(out)))
normadd(w, l, in, h) == disp(D("NORM_ADD", w, l, <<R(in), R(h)>>, R(h)))

K(l) == At("qkv", NQ(l), NK(l))
V(l) == At("qkv", NQ(l) + NK(l), NK(l))
Rope(l) == R(IF KEqV(l) THEN "rope_full" ELSE "rope_sliding")
RopeM(l) == R(IF KEqV(l) THEN "ropeM_full" ELSE "ropeM_sliding")

-----------------------------------------------------------------------------
(* The Vulkan decode: one command buffer for the whole token *)

VkPrep(l) == D("PREP_KV", "kv", l,
               <<K(l), IF KEqV(l) THEN K(l) ELSE V(l), R("dyn"), Rope(l)>>, l)
VkAttn(l) == D("ATTN", "a", l, <<At("qkv", 0, NQ(l)), R("dyn"), Rope(l)>>, R("attn"))

VkLayer(direct, l) ==
    LET mv(op, in, out) == gemv(direct, op, l, in, out)
    IN  norm("in", l, "h", "normed")
        \o mv("q", R("normed"), At("qkv", 0, NQ(l))) \o mv("k", R("normed"), K(l))
        \o (IF KEqV(l) THEN <<>> ELSE mv("v", R("normed"), V(l)))
        \o disp(VkPrep(l)) \o disp(VkAttn(l))
        \o mv("o", R("attn"), R("o")) \o normadd("pa", l, "o", "h")
        \o norm("pf", l, "h", "normed2")
        \o mv("g", R("normed2"), R("gate")) \o mv("u", R("normed2"), R("up"))
        \o disp(D("GELUMUL", "gm", l, <<R("gate"), R("up")>>, R("act")))
        \o mv("d", R("act"), R("down")) \o normadd("of", l, "down", "h")

VkToken(direct) ==
    FlattenSeq([l \in Layers |-> VkLayer(direct, l)])
    \o norm("fin", LastLayer + 1, "h", "normed_f")
    \o gemv(direct, "lm", LastLayer + 1, R("normed_f"), R("logits"))

(* The Vulkan prefill: Chunk rows through every kernel, one submit a group *)

\* Mutant: V is read from Vp in every layer.
PreKVStaleV(l) ==
    disp(D("PREP_KV", "kv", l, <<R("Kp"), R("Vp"), R("dynp"), RopeM(l)>>, l))
    \o disp(D("ATTN", "a", l, <<R("Qp"), R("dynp"), RopeM(l)>>, R("Ap")))

PreKV(l) ==
    disp(D("PREP_KV", "kv", l, <<R("Kp"), R(IF KEqV(l) THEN "Kp" ELSE "Vp"), R("dynp"),
                                 RopeM(l)>>, l))
    \o disp(D("ATTN", "a", l, <<R("Qp"), R("dynp"), RopeM(l)>>, R("Ap")))
rec_layer(i8, l) ==
    LET mm(op, in, out) == gmm(i8, op, l, R(in), R(out))
    IN  norm("in", l, "Xp", "Np") \o mm("q", "Np", "Qp") \o mm("k", "Np", "Kp")
        \o (IF KEqV(l) THEN <<>> ELSE mm("v", "Np", "Vp"))
        \o PreKV(l)
        \o mm("o", "Ap", "Tp") \o normadd("pa", l, "Tp", "Xp")
        \o norm("pf", l, "Xp", "Np") \o mm("g", "Np", "Gp") \o mm("u", "Np", "Upp")
        \o disp(D("GELUMUL", "gm", l, <<R("Gp"), R("Upp")>>, R("ACp")))
        \o mm("d", "ACp", "Tp") \o normadd("of", l, "Tp", "Xp")

(* The WebGPU engine with every kernel on the GPU *)

FullLayer(l) ==
    norm("in", l, "h", "normed")
    \o chain("q", l, R("normed"), At("qkv", 0, NQ(l))) \o chain("k", l, R("normed"), K(l))
    \o (IF KEqV(l) THEN <<>> ELSE chain("v", l, R("normed"), V(l)))
    \o disp(VkPrep(l)) \o disp(VkAttn(l))
    \o chain("o", l, R("attn"), R("o")) \o normadd("pa", l, "o", "h")
    \o norm("pf", l, "h", "normed2")
    \o chain("g", l, R("normed2"), R("gate")) \o chain("u", l, R("normed2"), R("up"))
    \o disp(D("GELUMUL", "gm", l, <<R("gate"), R("up")>>, R("act")))
    \o chain("d", l, R("act"), R("down")) \o normadd("of", l, "down", "h")

full_token ==
    FlattenSeq([l \in Layers |-> FullLayer(l)])
    \o norm("fin", LastLayer + 1, "h", "normed_f")
    \o chain("lm", LastLayer + 1, R("normed_f"), R("logits"))
    \o disp(D("SOFTCAP", "cap", LastLayer + 1, <<R("logits")>>, R("logits")))

(* The WebGPU engine with attention on the CPU: two submits a layer *)

ResidentQKV(l) ==
    norm("in", l, "h", "normed")
    \o chain("q", l, R("normed"), At("qkv", 0, NQ(l))) \o chain("k", l, R("normed"), K(l))
    \o (IF KEqV(l) THEN <<>> ELSE chain("v", l, R("normed"), V(l)))

ResidentMLP(l) ==
    LET ew(kernel, op, ins, out) == disp(D(kernel, op, l, [i \in DOMAIN ins |-> R(ins[i])], R(out)))
    IN  chain("o", l, R("attn"), R("o")) \o norm("pa", l, "o", "t")
        \o ew("ADD", "addA", <<"h", "t">>, "h")
        \o norm("pf", l, "h", "normed2")
        \o chain("g", l, R("normed2"), R("gate")) \o chain("u", l, R("normed2"), R("up"))
        \o ew("GELUMUL", "gm", <<"gate", "up">>, "act") \o chain("d", l, R("act"), R("down"))
        \o norm("of", l, "down", "t2") \o ew("ADD", "addM", <<"h", "t2">>, "h")
        \o ew("SCALE", "scale", <<"h">>, "h")

resident_head ==
    norm("fin", LastLayer + 1, "h", "normed_f")
    \o chain("lm", LastLayer + 1, R("normed_f"), R("logits"))
    \o disp(D("SOFTCAP", "cap", LastLayer + 1, <<R("logits")>>, R("logits")))

-----------------------------------------------------------------------------
(* What the host does for one block of positions *)

Mapped(buf, v) == [do |-> "mapped", buf |-> buf, val |-> v]
Queued(buf, v) == [do |-> "queued", buf |-> buf, val |-> v]
Submit(ds) == [do |-> "submit", ds |-> ds]
Attend(l) == [do |-> "attend", l |-> l]
Wait == [do |-> "wait"]
Return == [do |-> "return"]

Embedded(S) == Q("x", 1, S)
DynOf(S) == Q("dyn", 0, S)
RopeOf(S) == Q("rope", 0, S)

\* Mutant: the logits view is handed out without waiting for the fence.
forwardNoWait(c, S) ==
    <<Mapped("h", Embedded(S)), Mapped("dyn", DynOf(S)),
      Mapped("rope_sliding", RopeOf(S)), Mapped("rope_full", RopeOf(S)),
      Submit(VkToken(c.direct)), Return, Wait>>

forward(c, S) ==
    <<Mapped("h", Embedded(S)), Mapped("dyn", DynOf(S)),
      Mapped("rope_sliding", RopeOf(S)), Mapped("rope_full", RopeOf(S)),
      Submit(VkToken(c.direct)), Wait, Return>>

Groups(c) == (LastLayer + c.GLAY - 1) \div c.GLAY

forward_prefill(c, S) ==
    <<Mapped("Xp", Embedded(S)), Mapped("dynp", DynOf(S)),
      Mapped("ropeM_sliding", RopeOf(S)), Mapped("ropeM_full", RopeOf(S))>>
    \o FlattenSeq([gi \in 1 .. Groups(c) |->
         LET first == (gi - 1) * c.GLAY
             size == IF first + c.GLAY <= LastLayer THEN c.GLAY ELSE LastLayer - first
         IN  <<Submit(FlattenSeq([j \in 1 .. size |-> rec_layer(c.i8, first + j)])), Wait>>])

full_forward(S) ==
    <<Queued("h", Embedded(S)), Queued("dyn", DynOf(S)),
      Queued("rope_sliding", RopeOf(S)), Queued("rope_full", RopeOf(S)),
      Submit(full_token), Wait, Return>>

resident_forward(S) ==
    <<Queued("h", Embedded(S))>>
    \o FlattenSeq([l \in Layers |->
         <<Submit(ResidentQKV(l)), Wait, Attend(l), Submit(ResidentMLP(l))>>])
    \o <<Submit(resident_head), Wait, Return>>

Configs ==
    [engine : {"vk"}, direct : Directs, i8 : BOOLEAN, GLAY : GroupSizes]
    \cup [engine : {"full", "resident"}]

\* generate(): whole chunks through the prefill, the rest token by token; the
\* WebGPU engines feed every token through forward.
Blocks(c) ==
    IF c.engine = "vk"
    THEN [i \in 1 .. Chunks + Tokens |->
            IF i <= Chunks THEN (i - 1) * Chunk .. i * Chunk - 1
            ELSE {Chunk * Chunks + i - Chunks - 1}]
    ELSE [i \in 1 .. NPositions |-> {i - 1}]

Program(c, i) ==
    LET S == Blocks(c)[i] IN
    CASE c.engine = "full" -> full_forward(S)
      [] c.engine = "resident" -> resident_forward(S)
      [] c.engine = "vk" /\ i <= Chunks -> forward_prefill(c, S)
      [] c.engine = "vk" /\ i > Chunks -> forward(c, S)

Programs == [c \in Configs |-> [i \in DOMAIN Blocks(c) |-> Program(c, i)]]

-----------------------------------------------------------------------------
VARIABLES
    config,   \* the engine and the choices made when it was loaded
    block,    \* the block the host is at
    pc,       \* its next step there
    queue,    \* work submitted and not finished, with its barriers
    mem,      \* what every unit of every activation buffer holds
    cache,    \* the K/V entry of every position of every layer
    logits    \* what the forwards returned

graphVars == <<config, block, pc, queue, mem, cache, logits>>

GraphInit ==
    /\ config \in Configs
    /\ block = 1
    /\ pc = 1
    /\ queue = <<>>
    /\ mem = [b \in Buffers \cup {"qkv"} |->
                [i \in 0 .. Units(b) - 1 |-> [v |-> Stale, unit |-> i]]]
    /\ cache = [l \in Layers |-> [p \in Positions |-> NoKV]]
    /\ logits = <<>>

Done == block > Len(Blocks(config))
Step == Programs[config][block][pc]

Advance ==
    /\ IF pc < Len(Programs[config][block])
       THEN pc' = pc + 1 /\ block' = block
       ELSE pc' = 1 /\ block' = block + 1
    /\ UNCHANGED config

\* The host writes mapped memory at once.
HostMapped ==
    /\ ~Done /\ Step.do = "mapped"
    /\ mem' = Write(mem, R(Step.buf), Step.val)
    /\ Advance /\ UNCHANGED <<queue, cache, logits>>

\* write_buffer and submit take their turn on the queue.
HostQueued ==
    /\ ~Done /\ Step.do \in {"queued", "submit"}
    /\ queue' = queue \o (IF Step.do = "submit" THEN Step.ds
                          ELSE <<[k |-> "store", out |-> R(Step.buf), val |-> Step.val], Bar>>)
    /\ Advance /\ UNCHANGED <<mem, cache, logits>>

\* The fence, or a blocking read_buffer.
HostWait ==
    /\ ~Done /\ Step.do = "wait"
    /\ queue = <<>>
    /\ Advance /\ UNCHANGED <<queue, mem, cache, logits>>

\* The qkv read back, k and v appended to the layer's lists, every entry of
\* them attended to, and the result written for the second submit.
HostAttend ==
    /\ ~Done /\ Step.do = "attend"
    /\ LET l == Step.l
           S == Blocks(config)[block]
           slot == Cardinality({p \in Positions : cache[l][p] # NoKV})
           k == Read(mem, K(l))
           v == IF KEqV(l) THEN k ELSE Read(mem, V(l))
           kv == PREP_KV(l, <<k, v, DynOf(S), RopeOf(S)>>)
           appended == [cache[l] EXCEPT ![slot] = kv[CHOOSE p \in S : TRUE]]
           a == IF \E p \in Positions \ S : p > slot /\ appended[p] # NoKV THEN Stale
                ELSE ATTN(l, <<Read(mem, At("qkv", 0, NQ(l))), DynOf(S), RopeOf(S)>>, appended)
       IN  /\ cache' = [cache EXCEPT ![l] = appended]
           /\ queue' = queue \o <<[k |-> "store", out |-> R("attn"), val |-> a], Bar>>
    /\ Advance /\ UNCHANGED <<mem, logits>>

HostReturn ==
    /\ ~Done /\ Step.do = "return"
    /\ logits' = Append(logits, Read(mem, R("logits")))
    /\ Advance /\ UNCHANGED <<queue, mem, cache>>

\* Nothing of an earlier barrier is still to finish.
Ready(i) == \A j \in 1 .. i : queue[j] # Bar

Stored(d, vals, kv) ==
    CASE d.k = "RMSNORM" -> RMSNORM(d.op, d.l, vals)
      [] d.k = "NORM_ADD" -> NORM_ADD(d.op, d.l, vals)
      [] d.k = "ADD" -> ADD(d.op, d.l, vals)
      [] d.k = "SCALE" -> SCALE(d.l, vals)
      [] d.k = "GELUMUL" -> GELUMUL(d.l, vals)
      [] d.k = "SOFTCAP" -> SOFTCAP(d.l, vals)
      [] d.k = "GEMV" -> GEMV(d.op, d.l, vals)
      [] d.k = "DIRECT" -> DIRECT(d.op, d.l, vals)
      [] d.k = "REDUCE" -> REDUCE(vals)
      [] d.k = "CASTDOWN" -> CASTDOWN(d.op, vals)
      [] d.k = "CGEMM16" -> COOPGEMM(d.op, d.l, "f16", vals)
      [] d.k = "W8A8" -> COOPGEMM(d.op, d.l, "i8", vals)
      [] d.k = "CASTUP" -> CASTUP(vals)
      [] d.k = "ATTN" -> ATTN(d.l, vals, kv)

\* What a dispatch will leave once it has read its inputs: of PREP_KV the
\* entries of its positions, of all others a region.
Result(d, vals, kv) ==
    IF d.k = "PREP_KV" THEN [k |-> "storekv", out |-> d.l, val |-> PREP_KV(d.l, vals)]
    ELSE [k |-> "store", out |-> d.out, val |-> Stored(d, vals, kv)]

\* A dispatch reads its inputs ...
Start(i) ==
    /\ Ready(i)
    /\ queue[i].k \notin {"store", "storekv"}
    /\ LET d == queue[i]
           vals == [j \in DOMAIN d.ins |-> Read(mem, d.ins[j])]
       IN  queue' = [queue EXCEPT ![i] = Result(d, vals, cache[d.l])]
    /\ UNCHANGED <<config, block, pc, mem, cache, logits>>

\* ... and its results are seen when it ends, which may open a barrier.
Finish(i) ==
    /\ Ready(i)
    /\ queue[i].k \in {"store", "storekv"}
    /\ LET s == queue[i]
           rest == RemoveAt(queue, i)
       IN  /\ queue' = IF rest # <<>> /\ Head(rest) = Bar THEN Tail(rest) ELSE rest
           /\ IF s.k = "store" THEN mem' = Write(mem, s.out, s.val) /\ UNCHANGED cache
              ELSE /\ cache' = [cache EXCEPT ![s.out] =
                                 [p \in Positions |-> IF p \in DOMAIN s.val THEN s.val[p] ELSE @[p]]]
                   /\ UNCHANGED mem
    /\ UNCHANGED <<config, block, pc, logits>>

Terminated == Done /\ UNCHANGED graphVars

GraphNext ==
    \/ HostMapped \/ HostQueued \/ HostWait \/ HostAttend \/ HostReturn
    \/ \E i \in DOMAIN queue : Start(i) \/ Finish(i)
    \/ Terminated

GraphSpec == GraphInit /\ [][GraphNext]_graphVars

-----------------------------------------------------------------------------
(* Properties *)

\* A kernel never computes from a region another layer, another token or an
\* unfinished stage left there: every result on its way to memory is the
\* quantity the model's equations give it.
NothingStale ==
    \A i \in DOMAIN queue :
        /\ queue[i].k = "store" => queue[i].val # Stale
        /\ queue[i].k = "storekv" =>
              \A p \in DOMAIN queue[i].val : queue[i].val[p] = KVOf(queue[i].out, p)

\* What a forward returns is the logits of its own token: the softcapped ones
\* from the WebGPU engines, the raw ones from the Vulkan engine.
LogitsOfOwnToken ==
    LET skipped == IF config.engine = "vk" THEN Chunks ELSE 0
    IN  \A i \in DOMAIN logits :
            logits[i] = Q(IF config.engine = "vk" THEN "logits" ELSE "capped",
                          LastLayer + 1, Blocks(config)[skipped + i])

\* Whatever mix of chunks and single tokens fed them, every layer has the K/V
\* of every position the host is past, and of no position it has not reached.
CacheFollowsHost ==
    \A l \in Layers : \A i \in DOMAIN Blocks(config) : \A p \in Blocks(config)[i] :
        /\ i < block => cache[l][p] = KVOf(l, p)
        /\ i > block => cache[l][p] = NoKV
=============================================================================
