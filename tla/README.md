# Verification of the Gemma 4 Vulkan server and its earlier engines

TLA+ models of the server in `src/src/serve.py`, of the Vulkan engine in
`src/src/vk_engine.py` and of the NPU and WebGPU engines in `src/experiments/`
that came before it, the TLC runs that check them on small instances, and TLAPS
proofs for instances of any size.

## 1. The system

One process loads a 12B model into the memory of one GPU, records its command
buffers once, and serves an HTTP API. Everything of interest happens between
the parts below; the kernels themselves are straight-line arithmetic.

| Part | State | Operations | What is hard | Module |
|---|---|---|---|---|
| **KV cache** (`vk_engine.py`, `vk/*prepkv.comp`, `vk/*attn.comp`) | per layer a K and a V buffer: linear with `CTX` slots for a global layer, a ring of `WIN` slots for a sliding one | write one position, write a chunk, read | which position a ring slot holds; what is left over from earlier prompts; a chunk that overwrites what its own first tokens attend to | `KVCache` |
| **Prefix cache** (`_cache_plan`, `_cache_commit`, `_kv_copy`, `generate`) | *ledger* `_pref_cache` in the server; *snapshot* and live buffers in the engine | plan, restore, prefill, snapshot, tail, decode, commit | ledger and snapshot are changed by two components, in two steps, with exceptions in between; truncation and clamping done by only one of them | `PrefixCache` |
| **Token loop** (`generate`, `_run`, `_fit`, `_loop_tail`) | `in_think`, `think_n`, `recent`, `pos`; `inch`, `vis`, `prev`, `n` | sample, forced close, stop token, loop guard, context end; filter, decode, stop string, final yield | two components track one reasoning channel; deltas of a text that also shrinks cannot be taken back; three places bound the length | `Generate` |
| **Command buffers** (`forward`, `forward_prefill`, shaders) | activation buffers every layer reuses, mapped memory, one queue | host writes, submit, barrier, fence, read | a missing barrier, a region that still holds another layer or token | `TokenGraph` |
| **Request handling** (routes, `_complete`, `_complete_tools`, `responses`, `sessions`) | locks `GPU`, `_gen_lock`; the latch `_GPU_WEDGED`; thread pool, generators parked at a `yield` | guard, take locks, run, yield, finish, fail, time out, mark | generators hold locks while they hold no thread; clients disconnect; the device dies; not every handler knows of the latch | `Server` |
| **Tool calling** (`_run_tool`, `_parse_tool_output`, `_visible_ids`, `_gemma_args_to_json`, `_normalize_paths`, `_deser_tool_args`) | `gen_ids`, `toolmode`, `inch`; the parser's position and dict | split a token stream into content and calls; read the arguments of a call; send them back | what was streamed must agree with what is parsed afterwards; a hand-written parser of what a model writes | `Tools`, `Args` |
| **Responses store** (`_resp_store`) | conversations by id | continue, generate, finalize | requests that overlap and fork, streams that are left, failed generations | `Responses` |
| **Session WebSocket** (`sessions`) | history, a queue fed by a worker thread | configure, message, relay, join | the worker outlives the connection; `done` is queued before the failure is known | `Session` |
| **WebGPU engines** (`engine_gpu_full.py`, `engine_gpu_resident.py`) | buffers, a queue; attention on the GPU or on the CPU | write, submit, read back | as for the command buffers; two submits a layer with the host in between | `TokenGraph` |
| **NPU engine** (`export_shards.py`, `compile_contexts.py`, `engine_gemma.py`) | a directory of shards and context binaries; a pool of sessions; rolling caches | export, compile, open, prefill shard by shard, decode token by token | scripts killed anywhere and run again with other options; mask and roll share an off-by-one | `ShardExport`, `ShardEngine` |
| **Service script** (`service/gemma4-service.ps1`) | pid file, process | start, stop, restart, status | stale and reused pids | not modelled (section 7) |

Calls go from the routes through `_run` or `_run_tool`, which hold `_gen_lock`,
into the generator `generate`, one `next` at a time. `generate` is suspended at
every `yield`; between a yield and the next pull the client, the event loop and
other requests run. The prefix cache is planned before the first `next` and
committed after it: by then the engine has restored, prefilled, snapshotted and
sampled once. `TokenGraph` is what one `forward` or `forward_prefill` does;
`PrefixCache` what a job does with them; `Generate` what its consumer makes of
the tokens; `Tools`, `Responses` and `Session` what three endpoints make of the
text; `Server` which of all that runs at one time. Each module leaves to the
others what is theirs: one job at a time in `PrefixCache` is `OneGeneration` of
`Server`, an arbitrary next token in `Tools` is `Generate`.

What makes each part correct:

- *KV cache*: every attention reads the entries of the positions it should, of
  this prompt, and no others.
- *Prefix cache*: a request that reuses a prefix gets what a cold prefill would
  give (`test_prefix_cache.py`), whatever came before it; the snapshot holds
  what the ledger says; one turn is enough to warm it.
- *Token loop*: no reasoning is shown and no answer hidden; budget, loop guard
  and context bound the generation and are reported correctly; no token of the
  answer is lost between two decodes of it.
- *Command buffers*: whatever order the barriers leave open, every kernel reads
  what the model's equations say it reads.
- *Requests*: one generation at a time; every exit releases every lock; every
  request ends; the latch means a dead device.
- *Tools*: streamed and plain answers agree; at most one call, told only when
  its generation has ended; what the model means is what the client gets.
- *Responses*: a stored conversation is the one it continued and one turn; what
  a client was told it can continue.
- *Sessions*: the history is what the client was told; every turn ends and every
  worker gives the lock back.
- *NPU engine*: what an export reports done was asked for; a context computes
  what its shard does; every token goes once through every layer with the right
  past, or the engine raises.

## 2. The modules

| Module | Models |
|---|---|
| `KVCache` | contents of the buffers: what each slot depends on, the writes and the reads of the four shaders. Constants, no variables. |
| `PrefixCache` (`MCPrefixCache`) | one job after another through the ledger, the plan, `generate` and the commit, over the buffers of `KVCache` |
| `ColdEngine` | the abstract engine: prefill everything, then emit tokens. What the prefix cache must not change. |
| `Generate` (`MCGenerate`) | one generation, token by token, in the engine and in `_run` |
| `Server` (`MCServer`) | concurrent requests, threads, locks, the latch |
| `Session` | connections, coroutines, worker threads, queues |
| `Responses` (`MCResponses`) | requests and the store |
| `Tools` | a completion with tools, token by token, streamed or not |
| `Args` (`MCArgs`) | the arguments of a call: parse, normalise, send back, parse again |
| `TokenGraph` (`MCTokenGraph`) | the dispatches of three engines over shared buffers |
| `ShardExport` | the directory of shards and the two scripts that fill it |
| `ShardEngine` (`MCShardEngine`) | the NPU engine over that directory |
| `*Proofs` | lemmas and theorems (section 5) |

The `MC` modules hold the inputs TLC needs and nothing else.

### KVCache

The cached vector of a position is a function of the tokens up to it and of the
pipeline that computed it (chunked prefill and single-token decode round
differently), so an entry is the record `[ctx, via]`: two entries are equal
exactly when the code would have computed the same vector. One global and one
sliding layer stand for all 48; heads, dimensions, K versus V and softmax are
abstracted, the last because attention does not depend on the order of the
slots (`vk_engine.py:13`), so that a read is a *set* of entries. `RingPos` is
the slot arithmetic of `pre_attn.comp`, and `ChunkReadsRing` its mask.

### PrefixCache

`glob`, `ring` are the live buffers, `sglob`, `sring` the snapshot, `pref` the
ledger. A job carries `req` (the ids the server planned with), `toks` (the ids
the engine holds: truncated, then extended by what it generates), `reuse`,
`snap` (the engine's, clamped) and `snapArg` (the server's). `pc` is where the
job is:

    idle -> restore -> prefill <-> snapshot -> sample -> commit -> yielded -> sample ...

- `Begin` is `_cache_plan` and the entry of `generate` up to the clamping;
  `Restore` and `Snapshot` are the two `_kv_copy`; `PrefillChunk` is
  `forward_prefill`; `TailToken` and `Resume` are `forward`.
- The first sample goes through `Commit`; a stop token there also commits.
- A job ends by a stop token, by `Exhausted`, by `Finish` (loop guard, context,
  stop string, or a client that left), by `Raise` (NaN probabilities in
  `np.random.choice`, for prompts in `NaNPrompts`), or by `FenceTimeout`.
- After a fence timeout no submit completes any more (`wedged`); the server
  says so itself (`serve.py:46-47`).
- `shot` and `tainted` are auxiliary. `shot` says that the job has written a
  snapshot that is not committed; `tainted`, that a commit without a snapshot,
  or a death between snapshot and commit, has separated the two. They change no
  step; the safety properties use them to say when they hold, and
  `prefix_cache_long` shows why the exception is needed (section 4).

### Generate

Each pull is three steps: `Sample` (or `ForceClose`, `SampleStop`) up to the
yield, `Consume...` in `_run`, `Advance` (or `LoopGuard`, `ContextEnd`,
`CapReached`) when the generator resumes. The model's choice is any token. An
ordinary token spells one character; byte tokens are read as the tokenizer's
decoder (`ByteFallback`, external) reads them: a run of them prints as its
characters when the whole run is UTF-8 and as one replacement character for each
of its bytes when it is not, so that the text shrinks when a run becomes valid
(`Read`, `Render`). `Utf8` is the automaton that tells the two apart, a constant;
`MCGenerate` gives that of the lead and continuation bytes. `_run` subtracts the
length of the previous *text* (`Beyond(text, prev)`), not of what it has sent,
which is why nothing that follows such a run is lost; the mutant that counts
from what was sent loses it. `deltas` is auxiliary: what each visible token
added. The penalty's use of `recent`, and how probabilities are computed, are
left out.

### TokenGraph

A region of a buffer holds a named quantity: which activation, of which layer,
for which block of positions, in which form (finished, partial sums, f16,
int8). `Arch` are the equations of a Gemma layer; a kernel gives the quantity
it should when its inputs are exactly those of its equation and `Stale`
otherwise. The recording functions (`VkLayer`, `rec_layer`, `FullLayer`,
`ResidentQKV`, `ResidentMLP`) give the sequence of dispatches with their
barriers as the code records them: which linears stay unsplit is a constant,
staged casts and the shared partial buffer are in it, and the packed q/k/v
buffer is a row of units, so that widths matter. `Blocks` are the chunks and
single tokens a prompt is fed in; for each the host runs a `Program` of writes to
mapped memory, submits (`GroupSizes`: `GLAY` layers a submit of the prefill, a
constant the code sets to 1 after trying others), waits and reads. On the device a dispatch is
two steps, `Start` (reads) and `Finish` (writes): anything between two barriers
overlaps. Positions stand for KV slots; the ring is in `KVCache`.

### Server

A request is `queued` for a thread, `running` on one, `parked` at a yield or
`done`; `at` is the point of its handler where it is or will resume. A stream
is a generator stepped by starlette in anyio's thread pool: each step needs a
thread and returns it at the yield, but the locks stay taken. Plain requests
keep their thread, also while they wait for a lock. A session's worker runs in
the event loop's own executor and takes no thread of the pool. `Guard`,
`TakeGPU`, `TakeGen`, `Submit`, `Finish`, `Bye` follow a handler;
`EngineError`, `FenceTimeout`, `Mark`, `MissingField` and `Disconnect` are its
other ends. One `Submit` is all engine work between two yields. The thread pool
and starlette are external and modelled as `serve.py` relies on them: FIFO
admission, a running step is never interrupted, a dropped generator is closed.

### Session

Per connection there are a client, a coroutine (`handler`), a worker thread and
the queue between them; `genLock` is shared by all. `Message`, `Configure` and
`BadFrame` are the frames, `TakeGen`, `Generate` and `WorkerEnds` the worker
(its `finally` queues `done` whether the generation ended or raised), `Relay...`
and `Join` the coroutine. A send to a client that has left raises or is
dropped; nobody tells the worker. `view` and `draft` are auxiliary: the
conversation as the frames tell it to the client.

### Responses

A request arrives, copies the conversation it continues (`Arrive`: an unknown
id gives an empty one, as `_resp_store.get` does), waits for `_gen_lock`,
generates, and `Finalize` stores. A stream has its id sent before it generates,
so that it can be continued, or left, at any moment; a plain request cannot be
left.

### Tools and Args

In `Tools` the engine yields any token but a stop; `Token` is one step of the
streaming split, `ParseToolOutput` the parse of the whole, `TellCall` and
`Answer` what the client gets. The parser's loops are recursive functions over
the tokens, one operator a round (`See`, `Spell`, `TakeCall`). Its words are
ordinary tokens: the stream computes its deltas as `_run` does, and byte tokens
are in `Generate`. In `Args` the parser's loop is an action per
kind of value (`Literal`, `Unterminated`, `Quoted`, `Bare`, `Raise`); a text is
a sequence of symbols. `Init` writes what the model meant, a broken literal
with a tail, or any short text; `SendBack` is the way through the client, the
next request and the chat template (external) to the model's text again. The
braces around the text, and blanks of other kinds, are abstracted away. Of
`json.loads(raw.replace(_QUOTE, '"'))` the model has digits, `{}` and lists of
strings, the last by a reader that goes through the text symbol by symbol
(`JsonRead`): a delimiter or a double quote ends a string, a backslash begins an
escape, anything out of place refuses the text, which then becomes a raw string
as in the code. So objects of strings and lists that JSON refuses are written by
the template and read back as what the code makes of them. Left out are words
that begin with a letter JSON escapes (`n`, `u`, ...), control characters, and
numbers and lists inside lists; the model counts these as refused.

### ShardExport and ShardEngine

A file is absent, torn or whole; a whole one computes a run of layers over a
window. `layouts` and `cut` are history: the options of every export so far, and
the shards an export was killed in the middle of saving. `StartExport ... EndSave` are the steps of the exporter, `StartCompile
... EndCompile` those of the compiler; `ExportDies` and `CompileDies` kill them
anywhere. The engine opens sessions on whatever is there (`Loads` fails for an
absent or torn file), keeps at most `MaxLive` of them, and runs hidden states
`[gen, pos, at]` through the shards; a shard gives the next state only if the
state has been through exactly the layers before and the mask shows exactly the
window's past.

## 3. Runs

| Run | Properties | Shows |
|---|---|---|
| `prefix_cache` | `IInv`, `LedgerHonest`, `DecodeReadsExact`, `ChunkReadsExact`, `WarmAfterOneTurn`, `ImplementsColdEngine` | ledger, snapshot and live cache stay in step over every sequence of six prompts, NaN logits and fence timeouts included, and nobody can tell the engine from one without a cache |
| `generate` | `IInv`, `ShownIsAnswer`, `ThinkingBounded`, `ContextEndIsLength`, `LoopGuardExact`, `SentIsText` | one reasoning channel in two places, budgets and ends; deltas of a text that shrinks: no stop string is sent, no ordinary token is lost |
| `server` | `IInv`, `OneGeneration`, `LatchMeansWedge`, `EveryRequestEnds` | locks, latch and threads through every disconnect, error and device death |
| `session` | `IInv`, `ConversationAgrees`, `TurnsEnd`, `WorkersEnd` | two connections, their workers and one lock |
| `responses` | `IInv`, `ChainExact`, `StoreGrows`, `ContinuesWhatItNames` | three requests that overlap, continue and fork |
| `tools` | `SentIsVisible`, `StreamedIsContent`, `AtMostOneCall`, `CallsAreFinished` | every sequence of six tokens, channels and calls nested anyhow |
| `args` | `RoundTrip`, `RecoversTail`, `RaisesOnlyOnMissingValue`, `SurvivesNextTurn` | argument lists, broken literals and every text of five symbols |
| `token_graph` | `NothingStale`, `LogitsOfOwnToken`, `CacheFollowsHost` | three engines on a sliding, a global and a sliding layer |
| `shards` | `DoneAsListed`, `ContextIsItsShard`, `LogitsExact`, `CachesRoll`, `PoolWithinLimit` | export, compile and run, killed anywhere and run again |
| `prefix_cache_long` | `ReuseEqualsCold` | finding 1 (section 4) |
| `server_pool` | `EveryRequestEnds` | finding 2 |
| `loop_guard_doc` | `LoopGuardAtLimit` | finding 3 |

Bounds, and why they are enough:

- *prefix_cache*: `MC = 2`, `WIN = 4`, `MAXT = 11`, `CACHE_MAX = 6`, two
  tokens, six prompts of 0 to 11 tokens, in any order and any number of times
  (the state does not count jobs, so the run is not bounded in length), and up
  to two new tokens. The prompts are the empty one, one without a whole chunk,
  two that share a chunk and differ in the next, of which one gives NaN logits
  behind its snapshot, one that holds more chunks than the snapshot and extends
  another, with a snapshot longer than the ring, and one of `MAXT` tokens, which
  is truncated. The sizes keep the code's order `MC < WIN < CACHE_MAX < MAXT`.
  The proofs have no bound. *prefix_cache_long* has no NaN and one new token.
- *generate*: one word, a lead byte of a three-byte character and a continuation
  byte, two stop strings, limits of 2 (thinking), 4 (loop guard), 9 tokens of
  output and 12 of context, prompts of 0, 2, 10 and 14 tokens. A period-4 cycle
  (8 tokens), several openings of the channel with forced closes between them, a
  stop string after hidden tokens and the context end all occur; so do whole
  characters, two in one run, broken ones, a word behind each, and a stop string
  whose second character comes as bytes. `REPW` is `REPEAT_LIMIT + REPW_SLACK`
  without the code's floor of 64, which only lengthens `recent` and would hide
  the bound.
- *server*: three requests of seven kinds (every lock discipline, every way of
  dealing with the latch, plain and streamed), a thread for each: one can hold
  the locks, one wait for them and one be refused. *server_pool* has two
  threads.
- *session*: two connections, two messages each, two deltas a generation, so
  that a worker left behind by one connection delays the other, and a second
  turn follows a reset.
- *responses*: three requests, so that two can continue and fork one, or form a
  chain; the input has an item that is skipped and one whose role is replaced.
- *tools*: `max_new` of 2 and 6; a channel with a call in it, or a call with a
  channel in it, and text around them, take six tokens.
- *args*: values are every text of two punctuation symbols, numbers, `{}`, an
  object, and lists of one and two strings with blanks, commas, quotes,
  backslashes, slashes and brackets; tails every text of four; `Texts` every sequence of five symbols of nine, which reaches every
  branch of the parser and its only exception.
- *token_graph*: three layers of both kinds with a neighbour of each kind, two
  chunks of two positions and two tokens, groups of one and two layers, three
  choices of unsplit linears, both forms of staged casts.
- *shards*: three layers in three layouts, two exports and one compilation, a
  pool of two sessions for two or three shards, two prompts of two tokens and
  two decoded ones over windows of one and two positions: the window fills and
  rolls, in prefill and in decode.

Fairness. `Server`: weak fairness of `Dispatch` (a free thread takes the next
step), of each request's `Serve` (threads run; a Python lock is won in the end
because the requests are finitely many and each holder releases it) and of
`Pull` (a client reads its stream). Disconnects, errors and the death of the
device are not fair: they need not happen. `Pull` is an assumption on clients:
one that stays connected and stops reading holds both locks for as long as it
likes. `Session`: weak fairness of each `Worker` (threads run, a generation is
bounded by `max_new`) and of each `Coroutine` (the event loop runs). No client
need send anything, or stay.

`CHECK_DEADLOCK FALSE` is set where the system stops by design (the end of one
generation, one answer or one text, all turns or runs used up, every client
gone) or where the run looks for a blocked server (`server_pool`).

## 4. Findings and observations

Three properties that state what the repository says of itself are violated by
what the code does, each in a run of its own:

1. `prefix_cache_long`: a prompt of `MAXT` tokens or more makes the server
   commit a prefix that the engine did not snapshot, since `generate` drops
   `snap_chunks` when it truncates. A later prompt with that prefix reuses the
   old snapshot: its answer depends on another prompt (`serve.py:141`,
   `test_prefix_cache.py:1-2`).
2. `server_pool`: requests blocked on a lock keep the threads that the parked
   stream holding it needs; with as many of them as threads nothing is served
   again, although the engine is healthy (`serve.py:4-5`).
3. `loop_guard_doc`: the docstring of `_loop_tail` (`vk_engine.py:537-538`) and
   `JOURNEY.md:625` say that a cycle of `limit` tokens ends a generation; the
   code compares `limit div p + 1` periods, which is more. What it does compare
   it compares exactly (`LoopGuardExact`).

Noticed while modelling. The models do what the code does in each of these; no
run is spent on them, as the effect is plain from the lines. Where a document of
the repository disagrees it is named:

- `serve.py:3-4`, `README.md:143` and `JOURNEY.md:298` list `/v1/completions`
  among the endpoints. `CompReq` (105-112) lacks `top_k`, `min_p` and
  `repetition_penalty`, which `_complete` reads (558, 587): every such request
  fails, streamed or not, before it has a token (`MissingField` in `Server`).
- Strings are "extracted verbatim (backslashes/quotes ... stay intact)"
  (`serve.py:232-233`). Those of a list are not: they go through `json.loads`
  (276), which refuses or unescapes a backslash and ends a string at a quote; a
  bracket in one moves the end of the value (`Plain` in `Args` says which lists
  come through).
- `export_shards.py:272` reports "DONE: n shards". A shard is saved under its
  final name and skipped when that name exists (144-145, 266), so an export
  killed while it saves one leaves a torn file that every later export skips and
  counts. The engine then raises on it (`LogitsExact`).
- `export_shards.py:256-263` writes metadata for its own `--win` and
  `--layers-per-shard` and then keeps the shards of an export with others, which
  `shards.json` therefore does not describe (`DoneAsListed` says what they can
  be). With other layers in a shard some run twice or not at all, which
  `LogitsExact` excludes by `OneLayout`.
- `README.md:134-135` and `JOURNEY.md:511` say that the prefix cache "warms up
  after two requests". One is enough (`WarmAfterOneTurn`), as a later section of
  `JOURNEY.md` (Phase 21) says.
- When the first sample raises after the snapshot (NaN probabilities),
  `_cache_commit` is skipped and the ledger goes on naming the overwritten
  prefix (`tainted` in `PrefixCache`), against the comment at `serve.py:141`.
- A stop string spread over several tokens is found after its first characters
  have been sent, although `_run` "trims at stop strings" (`serve.py:367`). A
  character spelled by byte tokens reaches the client as replacement characters,
  which are not taken back (`SentIsText` says exactly what is sent).
- With a limit of 1 to 3 the loop guard's period of four fires on any eight
  tokens of one cycle (`GuardRoom` excludes this).
- Usage adds one for a stop token also when the loop guard or an empty prompt
  ended the generation (`serve.py:396-398`), and does not for tool calls.
- The first tokens of a chunk attend to up to `MC - 1` positions fewer than the
  window once the ring has wrapped (`ChunkReadsExact` says which).
- `/v1/responses` and sessions report a wedge as an ordinary error and do not
  set the latch, which the comment at `serve.py:44-45` sets on every fence
  timeout; the latch is read once, before a request waits for its lock, so those
  already waiting each time out in turn; after a timeout the submit may still be
  pending when its buffers are written again.
- A session sends `response.done` before the error of the same turn.
- A missing last value makes the argument parser read past its end
  (`serve.py:265`); arguments that are objects come back as raw strings; a call
  cut off by `max_new` is told as a call.
- With `max_live = 1` prefill's own variable keeps a second session open.

## 5. Proofs

`tlapm` checks every proof from nothing. A theorem holds for all values of the
constants that satisfy the named assumptions of the module that declares them.

| Module | Theorem | States |
|---|---|---|
| `PrefixCacheProofs` | `Inductive`, `TypeCorrect` | the invariant `IInv`; positions, chunk counts and slots stay in range |
| | `LedgerCorrect` | the snapshot holds what the ledger names |
| | `DecodeReadsCorrect` | every decode reads exactly a cold prefill's entries |
| | `ChunkReadsCorrect` | every token of a chunk reads what the ring can still give it |
| | `CacheInvisible` | `Spec => ColdSpec!Spec`: the engine is one without a cache, but for jobs that restore a snapshot the ledger does not describe |
| | `ReuseIsCold` | there are no such jobs as long as prompts fit and logits are numbers (`NothingCutsLoose`) |
| | `WarmCorrect` | after one delivered token every prompt with the same cacheable prefix reuses all of it |
| `GenerateProofs` | `Inductive` | engine and server agree on the channel; counts; `recent` is the tail of the output |
| | `ThinkingCorrect`, `ContextEndCorrect`, `ShownCorrect` | budget, context end, what is shown |
| | `TextCorrect` | no stop string is sent, and each ordinary token is sent as itself when it comes, whatever byte tokens made of the text before it, under `NoReplacement` (no stop string holds the replacement character) |
| | `LoopGuardCorrect` | the guard fires on `limit div p + 1` periods and nothing else, under `GuardRoom` (a limit of at least 4 or none, a deque at least 4 longer) |
| `ToolsProofs` | `SplitCorrect` | a stream and a plain answer give the same content and the same calls |
| | `VisibleCorrect` | a stream has always sent exactly the visible words before the first call |
| | `OneCallCorrect`, `ToldCorrect` | one call at most; told only by a generation that ended, with its finish reason |
| `ArgsProofs` | `RoundTripCorrect` | the arguments the model writes are those the client gets, for strings of anything but the delimiter, numbers, `{}`, and `Plain` lists (no bracket, double quote or backslash in their strings) |
| | `RecoveryCorrect` | from a string that is never closed the path behind it is split off |
| | `RaisesCorrect` | the parser raises on nothing but a text that ends with a colon |
| | `NextTurnCorrect` | a call of such values, however it came about, is read the same in the next turn |
| `ServerProofs` | `Inductive`, `LocksCorrect` | a lock is held by exactly the handler inside it |
| | `GenerationsExclude`, `LatchCorrect` | one generation at a time; the latch means a wedge |
| `SessionProofs` | `Inductive`, `ConversationCorrect`, `RolesAlternate` | history is what the client was told; roles alternate |
| `ResponsesProofs` | `Inductive`, `ChainCorrect` | what is stored |
| | `StoreOnlyGrows`, `Continues` | no entry of the store ever changes; what was told is stored, and continued by who names it |
| `EngineProofs` | `DirectoryCorrect` | when an export reports DONE, each listed shard is what some export was asked for, or what a kill in the middle of saving it left |
| | `ContextsCorrect` | a context that loads computes the layers and the window of its shard |
| | `LogitsCorrect` | the logits of every token come from all the layers, each run once over exactly its window |
| | `CachesCorrect` | each rolling cache holds the last positions of this prompt, in prefill and in decode |
| | `PoolCorrect` | the pool, with the session prefill's variable holds, stays within its limit, for a limit of two or more |
| | `GraphInvariant` | what is queued leads from what the buffers hold to what the host expects |
| | `NothingStaleCorrect` | no kernel of the three engines reads a region that holds another layer, block or stage |
| | `LogitsOfOwnTokenCorrect` | a forward returns the logits of its own token |
| | `CacheFollowsHostCorrect` | every cache holds the positions of the blocks the host is past, and none of those to come |

*Assumptions.* `SizesAssumption`: `MC` divides `CACHE_MAX`, and
`0 < MC <= WIN < MAXT`, `MC <= CACHE_MAX <= MAXT`; the constants of the code
satisfy it for every value of its environment variables. `PromptsAssumption`:
prompts are finite token sequences and a generation has room for a token.
`GenerateAssumption`, `SessionAssumption`, `ResponsesAssumption`,
`ShardExportAssumption` and `ShardEngineAssumption` give the ranges of numbers
and inputs. `TextAssumption`: words, byte tokens and the replacement character
are different things, and `Utf8` is some automaton over the byte tokens; that of
UTF-8 is one. `WordsAssumption`: a marker is a token of its own, not a word.
`KeysAssumption`: a key is one word, and the separators of paths are the slash
and the backslash; `Symbols` is any set that holds the words and the punctuation.
`InputsAssumption`: the strings the model means hold no string delimiter (which
is a token of its own, and could not be told from the end), and the path behind
a broken string holds no comma, as it would be one more pair.
`ServerAssumption`: finitely many requests, at least one thread, at least one
chunk. `TokenGraphAssumption`: a finite sequence of layers of the two kinds, a
chunk of at least one row, submits of at least one layer; which linears stay
unsplit is unconstrained. TLC evaluates all of them in the runs.

*PrefixCache.* `DecodeReadsExact` is not inductive: it speaks of a job that
has arrived at the decode path and says nothing of how its entries came there.
`IInv` adds

- `Phases`: how far `pos` can be in each phase of a job;
- `Plans`: what the clamped `reuse` and `snap` have to do with the ledger, the
  server's plan and the full chunks of the prompt; above all, that the prompt
  starts with the ledger's prefix when it reuses it;
- `Contents`: once restored, the live buffers hold the cold run's entries for
  every position before `pos` -- all of them in the linear buffer, the last
  `WIN` in the ring;
- `LedgerHonest`: the snapshot holds the ledger's prefix, except between
  `Snapshot` and `Commit` of a job that is alive (`shot`).

The heart of it is in four lemmas: `RestoreInv` (an entry of a prefix is the
same in every prompt that starts with it, `PrefixEntries`), `SnapshotInv`,
`WriteKeepsContents` (a run of at most `WIN` new positions keeps the window:
`WriteRingReads`, from the slot arithmetic `RingPosSlot` and `RingPosOfSlot`),
and `CommitInv`. The first part of the module is about `KVCache`: division,
chunk counts, ring positions, prefixes of sequences.

*The refinement.* The abstract `logits` are the context unless the decode that
led to "sample" read something else than a cold prefill's entries in a job that
may trust its snapshot (`ReadsAstray`); `ColdEngine` emits from nothing else, so
that the theorem says no such decode is ever sampled from. That follows from
`IInv` (`LogitsWhole`). The exception is finding 1 and its like. `ReuseIsCold`
does without it: `InStep` adds to `IInv` that what will be committed is what is
snapshotted (`snapArg = snap`) and that only a dead device separates the two,
which computes no logits. In the refinement restoring, prefilling,
snapshot and commit are stutters; each other action is one of `ColdEngine`.
`WarmCorrect` needs `Warmth`: until the commit the plan is still the one made
from the ledger, from then on the ledger names the whole cacheable prefix.

*Generate.* What is counted is a `Cardinality` of positions of the output, so
that a token more is one element more. `RecentIsTail` makes the guard's view of
`recent` a statement about the whole output (`CycleOfTail`), `Periods` bounds
what it compares by the length of the deque. For the loop guard `Fired` carries
the cycle from the step that ended the generation to the end.

*Text.* `Reading` is a recursive function; that one token more changes it as
`Read` says is `ReadingNext`, and `ReadStep` that the text then gains one
character, or replacement characters, or shrinks because a run has become valid.
`TextInv` ties what was sent to the text without a mapping between their
positions: what was sent is never shorter (`Len`), and back to its last
replacement character the text ends the same (`SameEnd`). That is enough, because
a stop string holds no replacement character (`NoReplacement`): one that ended in
what was sent would end in the text too, where it has been cut (`NoStopOneMore`,
`NoStopMarked`, `CutIsOld`). With a stop string that holds one, the client could
be sent it by a run that later turns out to be a character. `DeliveredNext` keeps
what each token has added.

*Tools.* The loops of the parser (`Runs`) have one result (`RunsExist`,
`RunsUnique`), which depends on the tokens seen so far only (`RunsAgree`), so
that a token more is one round more (`OneMore`), as it is for the stream.
`SplitInv`: the stream's channel and visible tokens are those the walk over the
tokens before the first call ends with, it is in tool mode exactly when there is
a call (`BeforeCallsOf`: from then on the tokens before it do not change), and
no closing marker has been yielded, so that the one call reaches to the end
(`OneCall`). `ShownInv` counts: a token more is one place more in what is shown,
and one word more in what was sent (`ShownGrows`, `Places`).

*Args.* `Joined` and `Depth` are recursive functions; `Joins` says of a function
that it solves the recursion, so that a text of pairs is known by where each
pair begins and ends (`Start`, `End`, `PairAt`). `RoundReads` is one round at
pair `k + 1`, with one lemma per kind of value: a string ends at its delimiter
because it holds none, a number at a comma or the end, and of a list the
brackets are counted until they close (`Depth` is positive before). What
`json.loads` makes of the list is an induction over what the template wrote: at
the end of each string the reader has it and those before (`StringRead`,
`ListAt`, `ListReads`), since a plain string sends it to no escape and closes no
quote. Hence
`Reading`: the parser has read the first `k` pairs exactly when it is behind
`End(pairs, k)`, and `out` is `DictOf(pairs, k)`, the last value of each key.
`GivenInv` says this of what the model meant, `AgainInv` of what a client sent
back; a round trip changes nothing the second time because normalised paths are
normalised again to themselves (`NormInv`). `TailInv` does the same for broken
strings, where the last `,key:` is the one before the path (`TailOf` is
unique). The type invariant is proved for texts of any shape, and with it
`RaisesCorrect`: the only step to "raised" finds nothing but blanks behind the
last colon.

*Server, Session, Responses.* Any number of actors: an action moves one of them
(`Only`, `Still`), what the invariant says of the others is about their own
state and the locks' holders and is untouched (`Elsewhere`, `Unmoved`), and so
each step lemma looks at one. In `Session`, `Streaming` ties the worker's parts,
the queue and what the client has, so that `RelayDone` appends the same text on
both sides. In `Responses` everything rests on `Grows`: the store never changes
an entry, so what a request began with stays what it was told. In `Server`,
`Places` says which handler can be at which point, and `ThreadBound` and
`PoolIsQueued` count threads and waiters.

*Shards.* `DirInv`: a file is absent, torn, or whole as some layout written to
the metadata lists it; a context that loads equals its shard; the shards before
the exporter's are there; what the compiler reads from is still the file.
`TornOK` accounts for each torn file: the exporter is saving it, or was killed
while it did (`cut`). A whole file is never written again, so neither script can
invalidate what the other relies on.

*The NPU engine.* `EngineInv`, on top of `DirInv`, says what each variable is at
every point of the two sweeps: the sessions of the pool are shards of a layout
that was in the metadata (`PoolOK`), and the one prefill holds is among them if
there is room for two (`HeldOK`); where the sweep is and how many logits it has
told (`SweepOK`); and, when all files were cut by one layout (`DataOK`), that in
prefill the shards before the current one have rolled past all positions and
those after it past none (`Roll`, `Through`), and that every carried hidden state
has been through exactly the layers before its shard. A shard's result is then a matter of the entries its mask
shows: the last of its window, in the order of their positions.

*Command buffers.* A state is described by *facts*: pairs of a region and the
quantity it holds (`Facts`), and for each layer up to which position its cache is
filled (`Level`, `Reached`). A kernel takes facts to facts: it gains that of its
output and loses those its output overlaps (`Clear`). `Derives` says this of a
sequence of commands with a barrier behind every dispatch: behind a barrier at
most the first queued command is ready, so whatever the GPU does, it is a prefix
of the sequence that has been executed, and a dispatch half done is one whose
result is already known (`Now`). Sequences compose, so each of the recording
functions (a layer of the Vulkan decode, of the prefill, of each WebGPU engine)
is one chain of ten to fifteen links, from "`h` holds the input of layer `l`" to
"`h` holds that of layer `l + 1`"; here it matters that the ranges of q, k and v
in the packed buffer are disjoint for both kinds of layer, and that a global
layer's V is made from its K. Layers compose by induction (`Induction`), the
submits of a prefill by their bounds (`GroupEnd`, `Groups` covers all layers).
`HostLeads` does the same for the host, whose writes to mapped memory need an
idle queue, and whose attention on the CPU (`Attend`) needs the slot it appends
to be the position it is at. `GraphInv` puts them together: at every point of the
program of a block, what is queued leads from what memory and caches hold to what
the host expects at that point (`Running`), and between blocks the caches are
filled exactly up to the first position of the next.

*Induction.* Over numbers it is done without an operator for the property: a
set that holds 0 and with every number the next holds all of them (`Induction`),
since a set of numbers has a least one, which is what the well-foundedness of
`<` on the naturals says (`LeastOf`).

*Only model-checked*: liveness (`EveryRequestEnds`, `TurnsEnd`, `WorkersEnd`),
which is out of the prover's reach. Every invariant and every action property of
the passing runs is proved, and so is the refinement. The three findings are
counterexamples of TLC.

## 6. Hazards

`PROJECT.json` lists the places where this code is hard to test, each with the
properties that would catch it going wrong. Without one are: the time requests
wait when each of them runs into its own fence timeout (seconds are in no
module; `EveryRequestEnds` says only that they end), a client that stays and
does not read (`EveryRequestEnds` assumes it does), the pid file of the service
script (no state of the program), the attributes a completion request does not
have (it does fail, always), and the submit that is still pending after a
fence timeout (undefined in Vulkan, so that there is no outcome to model;
`Server` keeps the device dead). Covered in part: `LatchMeansWedge` has one
direction only, since it is not true that a wedge always sets the latch;
`CallsAreFinished` is about generations that timed out, and a call cut off by
`max_new` is told; a caller of `forward` that keeps its view of the logits over
the next submit would see them change, which no code here does.

## 7. Not modelled, and why

- The numerical kernels, quantisation, rope, softmax and `sample`: floating
  point. The models choose any token, and NaN as the exception it raises. The
  loading of weights is numerics and I/O.
- `_warmup`: it runs before the first request, with no reuse and no snapshot,
  and leaves nothing a later job reads (left-over entries in the live buffers
  are what `DecodeReadsExact` is about anyway).
- Payloads, ids, timestamps, logging, `_dbg_inference`, `/v1/models`,
  prompt templates and the coercion of tool schemas: reformatting.
- The service script: operations on processes and pids of the operating system,
  by hand, with no state of its own.
- The WebGPU engines' limit of 256 positions, and the fused partial kernels in
  them that nothing calls.
- Hybrid engine, reference, decomposition, diagnosis, benchmarks, setup and
  download scripts: straight-line measurements that nothing imports.
