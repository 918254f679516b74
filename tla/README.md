# primd: a verification project in TLA+

primd is a retrieval runtime for voice agents. While the user speaks it scans a
corpus of 256-bit binary signatures for every interim transcript, while the agent
speaks it predicts the events (topics) of the next turn, and at the end of an
utterance it answers from the first of these that has an answer: the speculation
of the utterance, a cache of earlier similar queries, the predicted events'
documents, or the whole index.

This directory holds TLA+ modules translated from the Rust sources, the TLC
configurations that check them, and proofs that TLAPS checks. Source paths below
are relative to the repository.

## 1. Inventory

| Component | State | Operations | Talks to |
|---|---|---|---|
| Query context, `primd-core/src/query_context.rs` | window, predictor, gate, delta cache, predicted events and scope, cached results with their signature | `warm_next`, `observe_partial`, `finalize`, `reset_utterance` | everything below it |
| Streaming gate, `predict/streaming.rs` | last emitted and current partial | `update`, `reset` | owned by the context |
| Delta cache, `predict/cache.rs` | per scope a vector of stamped entries, a use counter, statistics | `lookup`, `insert`, `clear` | owned by the context |
| Conversation window, `predict/state.rs` | past turns with their instants | `observe_at`, `evict_stale`, `last`, `last_n` | owned by the context |
| Event catalog and search, `index/events.rs`, `index/shards.rs` | none after loading | `search`, `union_scope`, `doc_event` | shared, read-only |
| Scans and heap, `index/signatures.rs`, `index/heap.rs` | a heap per scan | `scan_top_k` and variants, `push`, `merge` | called by search and context |
| HNSW cache, `index/hnsw.rs` | shards built so far, under a RwLock | `search`, `save_to_dir`, `load_from_dir` | optional part of search |
| Predictors, `predict/markov.rs`, `predict/trainer.rs`, `primd-sr` | weighted counts per context; SR matrix | `observe`, `predict`, training, save, load | behind `NextTurnPredictor` |
| Prefetch coordinators, `predict/prefetch.rs` | staged events, draft with its signature, gate, delta cache, counters | `prefetch`, `query`, `on_partial`, `on_final`, `end_utterance` | library clients |
| Cold tier, `primd-dwm`, `cold_tier.rs` | pending signatures, bit-vector layers, the file | `add_evicted`, `force_compact`, `search`, `save`, `load` | read by `finalize`, saved by a reset |
| Server, `primd-cli/src/cmd_serve.rs` | session table, files per session | `observe`, `finalize`, `warm`, `reset`, `query` | holds query contexts |
| Pipecat client, `pipecat-primd` | session id, the frame being handled | `process_frame`, `cleanup` | a voice pipeline; the server over HTTP |
| LiveKit client, `livekit-primd` | session id | `observe_partial`, `finalize`, `warm`, `aclose` | event handlers; the server over HTTP |
| Commands, `primd-cli/src/cmd_index.rs`, `cmd_train.rs`, `cmd_query.rs` | the index directory: signatures, manifest, transitions | write the corpus, train the prior, answer one query | the server reads the directory they write |
| Embedding, browser bindings, benches, examples | none that matters here | | |

What is hard in this system is mostly *reuse*. Results computed for one signature
are served for another, at two levels stacked on each other (a speculation may come
from the delta cache, whose entry came from an earlier turn), under predictions
that may change while an utterance is in flight. Around it: a server that keeps
what it learned in memory until a session is reset, clients whose requests may be
late, overtaken or given up, index shards that threads build lazily behind one lock,
counts that are aged by the clock whenever they happen to be touched, scans that are
split and merged in an order of rayon's, and boundary arithmetic in the succinct
structures. `PROJECT.json` lists every hazard at its line, with the properties that
are about it or the reason why none is.

What makes each component correct, in a sentence:

- Query context: whatever it reuses, an answer is the exact answer of a query near
  the one asked; the predictor is taught the conversation that took place.
- Delta cache: an approximate-key LRU cache, whatever the vector order.
- Gate: the cached results always belong to the last emitted partial.
- Search: true distances, rank order, nothing nearer left out of the scanned scope.
- Predictors: weights agree however they are aged, a save and a load change no prediction,
  and a hybrid is never without one.
- Prefetch coordinators: every final answer is a scan of one staged scope for a query near
  the one asked, counted under the one way it came about.
- HNSW cache: a shard is built once and answers from its own event's documents; nobody
  waits for the lock for ever.
- Cold tier: a log of the evictions; what is compacted, pending, saved or loaded is no
  concern of a caller's.
- Server: sessions are apart; a session that was reset starts warm.
- Index directory: whoever reads it, and whatever was half written before, a hit is a
  document of the manifest, and a prediction by number is the one that was taught by name.
- Clients: a turn is finalized at most once and taught in order, what was found comes
  before its transcript, and no transcript is held back whatever becomes of a request.

## 2. Modules

| Module | Models | Extends / uses |
|---|---|---|
| `HammingSpace` | signatures as points of a metric space | |
| `HierarchicalIndex` | catalog, scans, two-stage search; no variables | `HammingSpace` |
| `TopKScan` | bounded heaps, chunks and merges: how a scan comes about | `HierarchicalIndex` |
| `ShardedSearch` | threads that search, build, save and load HNSW shards behind the lock | `TopKScan` |
| `DeltaBuckets` | what a bucket of the delta cache does, as operators on a sequence in order of recency | `HammingSpace` |
| `DeltaCacheSpec` | abstract: the LRU cache with approximate keys | `DeltaBuckets` |
| `DeltaCache` | vectors, stamps, `swap_remove`, statistics; implements `DeltaCacheSpec` | `DeltaBuckets` |
| `TurnService` | abstract: each turn answered exactly for a nearby query, one transition taught | |
| `QueryContext` | the conversation; implements `TurnService` | `HierarchicalIndex`, `DeltaBuckets` |
| `MarkovPredictor` | weighted counts, back-off, training, save and load, as operators | |
| `SrPredictor` | the successor representation and the hybrid, as operators | `MarkovPredictor` |
| `Predictors` | the predictor of a returning session, with the clock and its file | `SrPredictor` |
| `Prefetch` | the two prefetch coordinators | `HierarchicalIndex`, `DeltaBuckets`, `MarkovPredictor` |
| `BitVector` | rank and select over prefix-count tables | |
| `SignatureDwm` | layers and tail of the signature store | `BitVector` |
| `EvictionLog` | abstract: a log of evictions that is searched, saved and loaded | |
| `ColdTier` | the cold tier of a session and its file; implements `EvictionLog` | `SignatureDwm` |
| `PrimdServe` | the server: the table of sessions and their files, resets, faults, restarts | |
| `CorpusIndex` | the index directory and the processes that write and read it | |
| `PipecatRetriever` | the Pipecat client between a pipeline and the server, with requests in flight | |
| `LiveKitRetriever` | the LiveKit client, whose coroutines and requests overlap | |
| `MC*` | small instances for TLC | the module they are named after |
| `OrderLemmas` | lemmas: finite sets with a strict order are listed in it, one way only; definitions by recursion, and induction, over a finite set or up to a number | |
| `QueryContext_proofs` | theorems about `HierarchicalIndex`, `DeltaBuckets` and `QueryContext` | `OrderLemmas` |
| `DeltaCache_proofs` | theorems about `DeltaCache`, its refinement, and `Prefetch` | `OrderLemmas` |
| `ShardedSearch_proofs` | theorems about `TopKScan` and `ShardedSearch` | `OrderLemmas` |
| `PrimdServe_proofs` | theorems about `PrimdServe`, `CorpusIndex` and `Predictors`, with the operators of `MarkovPredictor` and `SrPredictor` | `OrderLemmas` |
| `ColdTier_proofs`, `PipecatRetriever_proofs`, `LiveKitRetriever_proofs` | theorems | the module they are about |

Definitions marked `Mutant` in a comment belong to no behaviour: each is a plausible
mistake in the definition after it, by which a property was seen to fail. `PrimdServe`,
`CorpusIndex` and `Predictors` are proved about in one module, so `Predictors` has names of its own
for what they share (`PredictorInit`, `EventIds`, `NeverSaved`).

How state and actions correspond to the code:

- **Signatures and distances.** A signature is an abstract point; `Distance` is any
  metric on the points (`DistanceIsMetric` is what popcount of xor gives). TLC uses
  unary codes, for which the distance of `p` and `q` is `|p - q|`.
- **Scans are relations.** rayon splits and merges a parallel scan as it likes, so
  which of several equally distant documents survives at the k-th place is open.
  `ScanTopK` is the set of possible answers and every caller takes any of them.
- **The predictor is open.** `warm_next` may name any set of events within
  `max_candidate_events`: every answer property therefore holds for every
  predictor. What it was taught is kept in `taught`, the set of transitions.
- **The scope hash** of a prediction is the predicted set itself (the hash sorts and
  removes duplicates first, a collision of the 64-bit hash is left out). The predicted
  scope is a function of the predicted events, as `warm_next` sets both together. `Prefetch`
  keeps the hash as a variable of its own, as the code does: `Stage` takes it of the new
  prediction, `Restage`, the coordinator's own `prefetch` reached through `coordinator_mut`,
  leaves it as it was. `inForce` is the history of hashes and the sets staged under them,
  and `Under(hash)` are those of one hash: a single one unless somebody restages.
- **A delta bucket** is, in `QueryContext`, a sequence ordered by recency. The code's
  vector of stamped entries is `DeltaCache`, and that it implements the ordered one
  is the property `ImplementsLRU`. Among equally close entries the code takes the
  first in vector order, the abstraction any.
- **Time** is an age per remembered turn, advanced by `Elapse`; ages past the limit
  are not told apart. Turns are evicted when the next one is recorded, never when the
  window is read, as in the code.
- **`output`, `inForce`** are what the last `finalize` returned, and the predictions
  that were in force since its utterance began (history, read by the properties only).
- Each public method is one action (`WarmNext`, `ObservePartial`, `Finalize`,
  `ResetUtterance`), each way it can return is a disjunct of it, and `finish`,
  including the learning and the reset, is part of every disjunct of `Finalize`.

- **The server** handles one request at a time (one thread takes them from the
  listener), so a handler is one action: `Touch` for `observe` and `warm`, `Finalize`
  for `finalize`, `ChatCompletions`, `Reset`. Any of them makes the
  session if it is not in the table (`NewSession`), from the files. A reset takes the
  session out of the table and leaves its writes in `writes`; each is then a
  `Truncate` and a `WriteOut` (what `std::fs::write` does), or a `WriteFails`, and the
  process may end between any two of them (`Restart`). No request is taken up before
  they are through. Of the conversation only what the files hold is kept: the
  transitions taught (with their teacher, which is history) and the last turn.
  A file's content is whole, `Torn` or `Absent`. `ChatCompletions` is the handler of chat
  completions with a `user`; without one, and for `/query`, no session has a part
  (`Stateless`).

- **The Pipecat client** handles one frame at a time (Pipecat's contract, external), from
  `inbox`. `process_frame` is `Pass`, when the frame asks nothing, or `Call`, which posts
  the request and awaits it, followed by `Return` (an answer, good or bad) or `GiveUp`
  (the timeout of `client.py:51`, or a failed connection); both push the frame.
  A request that is given up stays in `sent`: the server may `Serve` it later, after
  later ones, or it is lost (`Lose`). `Cleanup` may come at any time, as a cancelled
  pipeline does, abandons the frame being handled, and posts the reset if the
  retriever made its client itself; `Close` is the end of that. The server is what a client can tell
  of it: a request makes the session (`live`), a finalize teaches its utterance
  (`turns`), a reset ends the session, an embedding may fail (`Refuse`).

- **The LiveKit client** has no queue: an event of the assistant (`Interim`, `Committed`,
  `AgentSpeaks`, or `Closes` by the application) starts a coroutine, known by its event,
  and `task` says where it is: asking, answered, failed, telling (`on_context` runs), done.
  `wire` are the requests the server may still get to, in any order, also after they were
  given up.

- **The index directory** is three files that processes share without a lock. `primd index`
  reads and embeds before it touches a file, then truncates and writes the signatures and
  truncates and writes the manifest, a step each; `primd train` (`TrainPredictor`,
  `WriteTransitions`) numbers names by the manifest it found. `WriterStops` ends either of them
  anywhere, perhaps with some signatures written: the file grows under its write. A reader takes the
  manifest (`ReadManifest`), the size of the signatures (`SizeSignatures`) and a mapping of them
  (`MapSignatures`, which sizes the file anew), and compares the first size with the manifest
  (`Accepts`). The mapping shows the file as it is *now*, so a writer changes what an open
  reader sees; one request sees one content of it.
  A search is the full scan, the choice of events and the rescan of their documents, each kept to
  what may come first in it; the first hit is what the properties look at. Inside a session
  `finalize` either searches or answers from what the session predicted, cached or drafted
  (`AnswerFromSession`); of the latter only that its hits were found in the mapping is kept
  here, the rest is `QueryContext`. The HNSW path is not part of it: `with_hnsw` is called by
  nobody in `primd-cli`, whose servers and queries always rescan.
  An embedder is a function from texts to signatures, and two texts may have one
  signature (tokens are lowercased, vectors quantised). Of training only the successions of
  one event to the next are kept.

- **Scans in detail.** `TopKScan` folds `Push` over the chunks, with the strict comparison
  that lets the first of equals stay, and `Reduce` gives every answer a tree of merges may
  give. A heap is its set of pairs. `ScanTopK` is what callers are told of it.

- **Shards.** Each thread of `ShardedSearch` goes through a call step by step: the coarse
  scan and the choice of path (`Begin`), a look under the read lock (`Lookup`, `ReadHit`,
  `ReadMiss`), the second look and the build under the write lock (`Upgrade`,
  `WriteAndAsk`), the merge (`Finish`); `Save` and `Load` take the same lock, a load reads
  its file before. The graph in a shard is a library's: any of its points, nearest first,
  at least one.

- **Weights** are integers in units of `2^-LastTick` and a tick is a half-life, so halving
  is exact within the bound (the rounding of `f32` is left out). A count carries the tick
  it was last stamped at and is aged when read or observed, the total of its context
  separately, as in the code. The server never sets a half-life; `Decays` is for library
  users and what they train. A probability is kept as its weight and the mass it is out of.
  `Ranked` lists the events by falling weight, then by number, as the stable sort does.

- **The SR matrix** is kept as which cells are stored and which are positive. For learning
  rates in (0, 1] and a discount in (0, 1) that follows exactly from the update rule; how
  positive cells rank is left open.

- **A bit vector** is the set of set positions with its two tables, whose block sizes are
  parameters. A store is a record of layers, values and tails; `Compact` rebuilds all of
  it from what is read back through the layers.

A conversation is owned by one caller at a time (`&mut self`, and a mutex over all
sessions in the server), so calls do not interleave inside a method.

## 3. Runs

| Run | Instance | Shows |
|---|---|---|
| `delta_cache` | 3 signatures, 2 scopes, 2 entries per bucket, 2 payloads, 4 operations (`MaxOps`), up to renaming scopes and payloads | `StampsDistinct`, and `ImplementsLRU`: the vector implements the LRU cache |
| `query_context` | signatures 0, 1, 2, 7; 4 documents; 2 overlapping events; window of 2; 5 calls (`MaxCalls`) | the answer properties below, and `ImplementsTurns` |
| `sharded_search` | 2 threads, 3 calls (`MaxCalls`), 1 restart (`MaxRestarts`); 7 documents, 4 events; shards from 2 documents on, 2 rayon threads, chunks from 2 on | `BuiltOnce`, `ShardAnswersHonest`, `ScansNearest`, `LargeEventAnswers`, `CallsEnd` under fairness |
| `predictors` | 3 events, contexts of up to 2, 2 half-lives (`LastTick`), 4 turns (`MaxTurns`), warm-up of 4; two sets of transcripts; all three kinds | `RowsAddUp`, `ProbabilitiesAddUp`, `RestartInvisible`, `SrForesees`, `HybridSpeaks` |
| `prefetch` | signatures 0 to 3, 4 documents, 2 overlapping events, with and without a delta cache; 5 calls (`MaxCalls`), prefetches on either object | `FinalsHonest` |
| `cold_tier` | 2-bit signatures, words of 2 bits, blocks of 2 words; 3 entries to evict, up to 5 held (`MaxEntries`); thresholds 0 and 3 | `TailBounded`, `TablesAgree`, `RadiusCutsRanking`, and `ImplementsLog` |
| `primd_serve` | 3 session ids, 2 of them with one file; 3 configurations; 2 events, a prior of one transition, a provisioned cold tier; 6 requests or restarts (`MaxRequests`), 1 fault (`MaxFaults`) | `OwnLessonsOnly`, `SavedIsRemembered`, `ColdTiersKept` |
| `pipecat` | 2 utterances of up to 1 partial (`Utterances`, `Partials`), short or not; the bot's frames go either way; retriever with or without a client of its own | the properties below, `TranscriptsPassOn` under fairness |
| `livekit` | 2 utterances of up to 1 partial, one of them too short; faults of server and network | `TaughtAndToldOnce`, `ClosedStaysGone`, `CoroutinesEnd` under fairness |
| `corpus_index` | 3 corpora of 2 or 3 entries over 3 texts, 2 embedders, one of which gives two texts one signature, 2 transcripts; 3 index or train runs (`MaxWriters`), 1 reader (`MaxReaders`) | `HitsOfOneEntry`, `HitsAreListed`, `PredictedAsTaught` |
| `pipecat_context` | as `pipecat`, the bot's frames come up | violates `ContextReachesLLM` |
| `small_shards` | as `sharded_search`, 1 thread | violates `SmallScopesRescanned` |

Why the bounds are enough. In `delta_cache` four operations fill a bucket, touch the
older entry and evict, where recency and vector order part; with two entries
`swap_remove` hardly reorders, and a longer bucket is left to the refinement theorem, which holds
for any capacity. In `query_context` the distances 1 and 2 lie on and beyond either
tolerance (both 1, the threshold 2), 7 lies beyond both together; two events share a
document (the catalog assigns it to the later one) and one document has no event, so
answers without an event occur; five calls are enough for a turn, a partial that hits
what that turn cached, and a finalize that reuses it, with a `warm_next` anywhere
between. In `sharded_search` two threads are enough to meet at the lock in every way, the
third call is a load or save between two searches; chunks of two split every scan
that has more than two documents, and among the four events are two that are large
enough for a shard and two that are large enough together only. In `predictors` four
turns make a context trusted and the successor representation warm; two half-lives
take a trusted context below the limit, and every property looks at each later tick.
In `prefetch` five calls are a turn, a staging, a partial, a staging of something
else, and the final. In `cold_tier` a block ends after four entries: the fifth lies
beyond a word and beyond a block, and both thresholds compact before that.
In `primd_serve` three requests teach and save, one makes the session again,
which leaves two for the other id of the file, a second reset or a restart, with the
fault or the crash anywhere among them. In `pipecat` and `livekit` two utterances are
enough for a request of the first to be given up and reach the server after those of the
second, and one partial for a request of an utterance that is not its finalize. In
`corpus_index` three runs are an index, a training and a second index that is cut short or
meets the reader of the first; one writer and one reader are enough, because
a reader changes nothing, may open the directory at any moment of the writers' runs and so stands
for a restarted one too, and two index runs at once, which nothing in the code prevents, are not
something a property here is claimed for. The corpora differ in size, in the order of the
same events, in the events they have, and in whether ids repeat. Renaming scopes and payloads is a symmetry of
`delta_cache` (no operation compares them with anything but themselves), and both its
properties are about states and single steps, for which that reduction is sound. Beyond
these bounds the theorems below take over, for the components that have them: they hold
for every corpus, metric, tolerance, capacity and number of calls.

The properties of `query_context`:

- `ServedNearQuery`: what `finalize` returns has at most k entries and is the exact
  answer to a query within `Slack` of the one asked: 0 for a scan, the cache's
  tolerance for a cache hit, both tolerances for a speculation, under a prediction
  that was in force during the utterance.
- `DistancesHonest`, `RegretBounded`: what that means for a client: reported distances
  are off by at most the slack, and no document left out of the predicted scope beats
  a returned one by more than twice the slack.
- `SpeculationKeepsUp`: gate, results and their signature belong to the same partial.
- `DeltaEntriesApart`: no bucket holds two entries that could answer for each other.
- `WindowLearned`: the remembered conversation was taught step by step.
- `ImplementsTurns`: with all of that, the conversation is the turn service: partials,
  predictions, resets and time neither answer nor teach.

The properties of `primd_serve`:

- `OwnLessonsOnly`: what a session or its file knows beyond the shared prior was taught
  under an id with that file name; nothing passes between other conversations.
- `SavedIsRemembered`: a session with a file to itself never forgets what a reset has
  saved: it is in the table, on its way to the file, or in the file and preferred to
  the prior. The exception is a file in `spoiled`: one a fault or a crash left
  truncated, or a failing read hid, which the next save makes good.
- `ColdTiersKept`: the server reads a provisioned cold tier and writes it back; with the
  same exception (here for ever, because the next session starts with an empty cold tier
  and its reset writes that), what was provisioned stays.

The properties of `corpus_index`:

- `HitsOfOneEntry`: asked for a text to which the embedder gives some document's signature, a
  reader's search names a document with that signature, and quotes it where the id is
  one document's, whatever was indexed, cut short or restarted before. There are two exceptions.
  One is an index run that was begun and not completed before the reader opened the directory, or
  one begun while it was open: then old names may stand beside new signatures. The other is a
  session's answer that does not say `full_scan`: a prediction, a cache hit or a draft may well name
  another document (`RegretBounded` of `query_context` says how far off).
- `HitsAreListed`: even then, a hit has an id and an event of one entry of the manifest loaded; or
  it is `"?"` of `"_default"`, which takes an index run that writes the signatures between the
  reader's taking their size and mapping them.
- `PredictedAsTaught`: numbers mean the same event to training and to the server, across
  re-indexing and restarts, as long as the set of event names is the same.

The properties of `pipecat`:

- `FinalizedOnce`: no utterance is taught twice, whatever times out.
- `AnsweredInOrder`: of the turns that were answered, the predictor was taught in the
  order in which they were spoken. (A turn whose finalize was given up may be
  taught after later ones, and this is why the property asks for the answers.)
- `ContextPrecedesTranscript`: what was found is pushed before the transcript it was
  found for, and only for a turn the server finalized.
- `ClosedStaysGone`: after a cleanup whose reset was answered the session does not come
  back. The exception, an abandoned request, is real: one that reaches the server after the
  reset makes the session again, and nothing resets it.
- `TranscriptsPassOn`: a final transcript is passed on whatever becomes of its request,
  unless the pipeline ends. `system_prompt` is taken to be a template that formats
  (`retriever.py:143` is outside the `try`, an error there drops the transcript), and a
  frame's task to be cancelled by nothing but the cleanup.

The properties of `livekit`:

- `TaughtAndToldOnce`: however coroutines overtake each other, an utterance is taught at most
  once and `on_context` runs at most once for it, after it was taught. Order is not kept, and not
  claimed: two commits are awaited side by side.
- `ClosedStaysGone`: as for Pipecat, with one more exception: a request awaited beside the
  close may reach the server after the reset and make the session again (`aclose` does
  not wait for the handlers' tasks).
- `CoroutinesEnd`: no coroutine is left waiting. That the application's `on_context` ends is assumed
  (by the fairness), not shown.

The properties of `sharded_search`:

- `BuiltOnce`: a process builds a shard once, and none below the size.
- `ShardAnswersHonest`: an answer merged from shards is ranked, its distances are those of its
  own query, its documents those of the candidate events.
- `ScansNearest`: every split and merge of a scan ends in a member of `ScanTopK`, the relation the
  conversation and the prefetching library are built on.
- `LargeEventAnswers`: a search that went to the shards finds something if any of its
  candidates has one.
- `CallsEnd`: nobody waits for the lock for ever.

The properties of `predictors`:

- `RowsAddUp`: a context's total is the sum of its row at any time from now on, although each is
  aged on its own.
- `ProbabilitiesAddUp`: the probabilities of all the events a predictor knows are 1 together,
  whichever context they are taken from and however it is smoothed.
- `RestartInvisible`: a predictor saved now and loaded at any later tick predicts as it does now.
  (Time between save and load does not age it: an `Instant` does not outlive the process.)
- `SrForesees`: after an event, what was seen to follow is expected, and only what follows
  through some chain of steps.
- `HybridSpeaks`: a hybrid that knows any event has a prediction, and it is Markov's until the
  successor representation, which starts from nothing in every session, is warm again.

The properties of `prefetch`:

- `FinalsHonest`: every reply is a scan of one staged scope for a query within the tolerances
  taken: the one staged now if it was scanned for, one staged under the hash in force if
  the delta cache gave it, one in force in the draft's time if the draft was served. Without
  `coordinator_mut` a hash is in force with the one set it was taken of.

The properties of `cold_tier`:

- `TailBounded`: an eviction leaves less than a threshold's worth pending.
- `TablesAgree`: in every layer rank counts and select finds the bit, around every boundary.
- `RadiusCutsRanking`: a radius query is the part of the full ranking within the radius, and
  saving a store by itself, which compacts a clone, does not change it.
- `ImplementsLog`: every reply is the one a plain log of the evictions would give.

The violations are disagreements of a text with the code, recorded under `findings`:

- `pipecat_context`: what was found is pushed upstream, while the LLM that
  `docs/architecture/overview.md:40` says it is fed to is downstream.
- `small_shards`: `index/hnsw.rs:94` says that below the threshold the caller falls through to
  the rescan. `shards.rs:140` asks for the size of all candidates together; when each is
  below the threshold and their union is not, no event has a shard and the search
  returns nothing. (A library's matter: the command line never enables HNSW.)

Read and not run. These were met while modelling; the models follow the code.

- `docs/integrations/moshirag.md:123` says that a session starts from what the last reset of the
  same id saved. Two ids that differ only in characters outside `[A-Za-z0-9-_.]` have one file
  (`FileOf`): the reset of one overwrites what the other saved, and the other starts from what
  it was never taught. `SavedIsRemembered` is therefore about sessions with a file to themselves.
- The output of `finalize` reports the current predictions, also when a speculation
  made under earlier ones is served (the comment at `query_context.rs:286` calls them the
  predictions that drove the turn).
- `docs/architecture/overview.md:11` says that layer 2 handles a miss of the predictor; the
  predicted events' documents are scanned whatever they are, and the hierarchical search
  runs only when nothing is predicted. The successor representation pads its answer with
  events of probability zero, and `warm_next` takes them as it takes any other.
- `pipecat-primd/README.md:51` says that the retriever calls warm on
  `BotStartedSpeakingFrame`; one that comes from the output transport arrives going up, and only frames
  going down are acted on (`retriever.py:95`).
- `predict/cache.rs:7` says that different predictions yield different cached results. A
  prefetch through `coordinator_mut` (`prefetch.rs:372`) leaves `last_scope_hash` as it was, and the
  delta cache goes on answering with documents of the earlier prediction: two calls around one
  query show it. `FinalsHonest` therefore speaks of every set staged under the hash in force.
- `index/signatures.rs:101` asserts, in debug builds, that the mapping is as long as the size that was
  taken before it was made. An index run between lines 69 and 80 makes it another, and with
  a longer file a hit may be `"?"` of `"_default"`. `HitsAreListed` says that it takes just that.
- `bitvec.rs:108` says that `rank_1` gives the total at the length or beyond. When the length
  is a multiple of 64 and not of 512, the word index is past the table and the ones of the
  last block are missing. The signature store only uses `get`, so no caller in the
  repository shows it; `TablesAgree` asks for ranks below the length.
- `shards.rs:142` merges the shards' hits without removing duplicates: a document of two candidate
  events may be returned twice. A shard pairs points and documents by position, so a
  scope with documents outside the corpus would have its labels shifted; indexing writes
  no such scope (`ScopesInCorpus`).
- Live sessions teach contexts of one event only, training teaches longer ones, and prediction
  prefers the longest trusted context: what a session learned does not override those.
- `primd-sr/src/low_rank.rs` loads a file with the default seed and without the PCA basis
  it may have been built with.

`CHECK_DEADLOCK FALSE` in the configurations: the bounds `MaxOps`, `MaxCalls`, `MaxRequests`,
`MaxTurns` and the clients' utterances stop the system, the program does not stop by
itself; and a client that was closed is at its end. `cold_tier` checks deadlock: a search
is always possible.

**Fairness.** Nothing is assumed of a speaker, a bot, the server or the network, nor that a
client calls at all. It is weak, and on three things:

- `PipecatRetriever`: the retriever takes the next frame when it awaits nothing (an asyncio task
  that is ready is run), and an awaited request ends, by an answer or by the timeout of
  httpx (`client.py:51`, 5 seconds unless the caller sets another).
- `LiveKitRetriever`: the same for each coroutine: its request ends or times out
  (`client.py:60`), its `on_context` returns, and the event loop gets to it.
- `ShardedSearch`: a thread in a call keeps running. An action that takes the lock is fair as
  long as the lock stays free; since only finitely many calls are made, nobody is overtaken
  for ever. No fairness between threads is asked of the `RwLock`.

## 4. Proofs

Assumptions: the ones named in the modules. `Distance` is a metric with natural
values, the corpus is a sequence of signatures, each event's scope is a finite set,
limits are natural numbers (positive where the code or its constructor makes them so),
and the values that stand for `None` differ from everything else. TLC evaluates them all
on the instances.

- `OrderLemmas`: what the other modules keep needing and the library does not state. A finite
  set with a strict order has its elements at the ranks `0 .. n-1`, one each
  (`EveryRankTaken`), so the list by rank is in order (`ListedInOrder`) and is the only one that is
  (`OneOrder`). A recursive function over ranked arguments exists (`FixedPoint`), and what
  holds of each argument if it holds of those of lower rank holds of all (`RankInduction`).
  The same up to a number (`Unrolls`, `UpwardInduction`) and over the subsets of a finite set
  (`Folds`, `SubsetInduction`).
- `QueryContext_proofs`: `AnswersAreExact` about the search: every answer is a
  sequence of at most k documents of the corpus with their true distances, in rank
  order, and when events are predicted nothing left out of their scope is nearer. What touching
  and pushing do to a bucket of the delta cache. Every property of the run `query_context`.
- `DeltaCache_proofs`: types, with no bucket past its capacity, `StampsDistinct`, and the
  refinement `ImplementsLRU`; and `FinalsHonest` of `Prefetch`.
- `ShardedSearch_proofs`: every safety property of the run `sharded_search`, for any corpus, any
  number of threads and any graphs; with `ScanRefines`, that every split and merge of a scan ends in
  what callers are told of it.
- `PrimdServe_proofs`: every property of the run `primd_serve`, for any ids and file names,
  any prior and provisioned cold tiers, any number of requests, faults and restarts; and
  every property of `corpus_index`, for any corpora, transcripts and numbers of processes; and
  every property of `predictors`, for any events, transcripts, length of contexts, smoothing,
  number of half-lives and of turns.
- `ColdTier_proofs`: every property of the run `cold_tier`, the refinement `ImplementsLog`
  included, for any signature length, block sizes, thresholds and evictions.
- `PipecatRetriever_proofs`: every safety property of the run `pipecat`, for any number of
  utterances and partials.
- `LiveKitRetriever_proofs`: types and both safety properties of the run `livekit`, for any
  number of utterances and partials.

The argument for the answers. `ServedNearQuery` is not inductive: it speaks of the
output only, and the output is made from the cache. `Grounded` strengthens it with
`EntriesAnswer` (every entry of every bucket is an exact answer to its own query, under
the event set the bucket belongs to), `SpeculationAnswers` (the cached results answer a
query within the cache tolerance of `cachedForSig`, under a prediction in force) and
the fact that the current prediction is in force. A scan puts an exact answer in
both places; a cache hit moves it by at most `DeltaTolerance`; a speculative finalize
moves it by at most `SpeculativeTolerance` more, where the triangle inequality adds the
two. `DistancesHonest` and `RegretBounded` follow from `ServedNearQuery` and
`AnswersAreExact` by the triangle inequality again. `SpeculationKeepsUp`,
`DeltaEntriesApart` and `WindowLearned` are inductive with `TypeOK`.
`ConversationIsTurnService` maps every `Finalize` to a `Turn` and every other action to
a stutter.

The argument for the server. None of its invariants is inductive, because a reset moves
what they speak of from the table into `writes` before it reaches the disk. `PendingOwn`
and `PendingProvisioned` say of the pending writes what the invariants say of the files.
`SavedKept` says where the saved transitions are: in the table if the session is there,
in the pending write if there is one, and in the file unless it is the one truncated at
the moment. It needs `PendingShape`: a writer is no longer in the table, writes its own
files, and none twice.

The argument for the Pipecat client. A final transcript is in one place at a time:
it waits in `inbox`, is on its way in `sent`, or is in `turns` (or was lost). `InboxOnce`,
`SentOnce` and `TurnsOnce` say that each place holds it once, that no two places hold
it, and that none holds an utterance not yet spoken; a `GiveUp` changes none of the three, which
is what asking again would break. For `ClosedStaysGone`, `OneInFlight` says that as
long as nothing was abandoned only the awaited request is on its way, and only while it
is unanswered, so nothing can reach the server after the reset did.

`AnsweredInOrder` needs the order to be carried from the inbox to the server. `OrderInv` says
that transcripts wait in the order they were spoken in; that the one awaited comes after
those answered and before those waiting; and that once the server has finalized the one
awaited, it did so after every turn that was answered. A late request is of an utterance that
was given up, so its turn is not one of those the property is about.
For `ContextPrecedesTranscript`, `PushedGone` says that a transcript that was pushed neither waits
nor is awaited, so what is found for the awaited one cannot come after it.

The argument for the LiveKit client. A request is made once, when its coroutine leaves
`idle`. While it is on the wire its utterance is not among `turns`; an answered finalize was served; a coroutine that
tells or told has its utterance in `told`, and no other has. Hence each of the two lists
takes an utterance once, although nothing orders them. For `ClosedStaysGone`: while
nothing is `late`, the close is the only request that can be on the wire once it has begun,
and only until it is answered.

The argument for the delta cache. That stamps are distinct needs that no stamp is ahead of
the counter; a touch and a push use the counter's next value, and `swap_remove` moves an
entry and drops another, which adds no stamp. With distinct stamps there is one ordering of a
bucket by recency (`OneOrder`), so to show that the vector implements the ordered bucket it is enough
to give, for each operation, some ordering of the new vector and see that it is what the
abstract operation returns: a stamped entry goes to the end and the others keep their order
(`StampTouches`), a pushed one goes to the end (`AppendedLast`), the victim is first
(`VictimFirst`), and without it the rest is the tail wherever `swap_remove` moved what
(`SwapRemoveIsTail`).

The argument for the prefetching library. `FinalsHonest` speaks of the last reply. `PrefetchInv` says
where replies come from: each bucket of the delta cache holds exact answers, each over the documents
of some set that was staged while the bucket's hash was in force (`BucketsHonest`), what is staged is one of
those sets (`StagedInForce`), which only ever grow (`EntriesGrow`), and the draft
answers a query within the cache's tolerance of the partial it stands for, over one of the sets
noted with it (`DraftHonest`).

The argument for the scans. `HeapsKeepBest` follows the heap of a chunk entry by entry: it
holds the best k of the entries pushed so far, because the strict comparison drops one only
for k better ones. `MergesKeepBest` and `ReduceKeepsBest` do the same for a merge of
two heaps and for any tree of merges. All three are functions defined by recursion, which exist by
`FixedPoint` and are followed by `RankInduction`. `ChunksCover` says that the chunks lose no
document; sorted, the best k pairs are a member of `ScanTopK` (`SortedAreNearest`).
`ScanInv` carries that from the request to the answer.

The argument for the shards. A shard is built under the write lock after a second look, and `TypeOK`
says that a thread at that point is the only one that holds it (`BuiltOnceAlways`). `AskedSoFar`, the
heart of `ShardInv`, says of a thread between two shards that what it has found is of the events
named, with true distances, and that each large event is still to be asked or has
given something; `Finish` sorts that.

The argument for the index directory. `HitsOfOneEntry` relates an answer to a manifest, but the answer
came from signatures another process wrote. `CorpusInv` says that as long as no index run is begun
and unfinished, the signatures are those of the manifest (`FilesOK`), and of an open reader whose
directory nobody touched that they are those of *its* manifest; that a reader nobody overtook has
mapped as many as it counted (`ReaderOK`); that the run under way writes a manifest only over
its own signatures (`WriterOK`); and of every lesson, on disk or loaded, that its number is that
of the name meant among the names it was numbered by (`TaughtByName`). A document with the query's
signature is at distance 0, so whatever comes first in the full scan has that signature too
(`NearestIsSame`); its event is among those rescanned and it is in that event's scope (`HitIsEntry`),
so the same holds of the rescan (`SearchFinds`). Nothing is asked of the embedder but that it is a
function. Numbers name one event because a rank is taken once (`NumbersName`).

The argument for the cold tier. A store is reasoned about through its parts: what its layers
give back, its values, and the two tails. `Build` followed by `GetCompacted` gives the
signatures back, so a compaction leaves `LogOf` as it was, and a push appends to it. A
reply is a stable sort: `EveryPlaceTaken` shows that the places are a permutation (an order
that is total and strict on a finite set), hence that the nearest k entries of store and
log are the same ones in the same order. `TailBounded` speaks of the file too, or a load
would bring more than an eviction leaves; `Save` and `Reload` keep it.

For `TablesAgree` it is shown of one vector that its tables are counts. A table is a function defined
by recursion; the counts satisfy the same equation, a sum at a time (`PopSplit`), and only one
function does (`AddsOnce`), so a block rank is the count before the block and a word rank the count since
its block began (`BlockCounts`, `WordCounts`). `rank_1` adds the two and part of a word. `select` looks
for the first block whose end has j bits before it: the j-th bit is in it and not before it
(`BlockFound`), likewise for the word (`InBlockFinds`), and what is left of j counts within the word.
`select_0` is the same over the zeros. Every layer of every store comes from `Build`, over positions
below its length; `TablesInv` says so of the file too, which is what a load brings.

For `RadiusCutsRanking`, what lies within the radius is picked in order (`WithinPicks`, along the loop).
The members of that set have the first places in the ranking of all, because they are the nearest;
both the sorted selection and the beginning of the ranking list the same set in the same
strict order, and there is one such list (`NearestFirst`, by `OneOrder`).

The argument for the predictors. A row and its total are aged by halving weights that were stamped at
different ticks, so nothing simple relates the numbers. What aging does not change is a weight's
*worth*: a weight stamped at `t` is a multiple of `Scale(t)`, the worth is that multiple, and read later
it is the same multiple of a smaller scale (`Ages`). An observation adds `Gain` to the worth
of one count of the row and of the total. Hence `AgedAlike`, the inductive invariant: the worths of
a row sum to the worth of its total, a row counts only events of the vocabulary, and a
saved file holds multiples of the scale of its tick, with which a load restamps both alike. A sum is a
fold, in an order nobody specifies: `AddedSums` shows that every order gives one function of the
set of keys, which exists by `Folds`. So `RowsAlwaysAddUp`; and as what is saved and what is
loaded weigh everything alike (`ReloadedWeighsAlike`), they trust the same contexts and predict
the same (`RestartsStayInvisible`). For `ProbabilitiesAlwaysAddUp`, the list of predictions
renames the weights (`AddedRenamed`), and these are a row padded with the smoothing (`AddedPadded`),
which is why a row may count nothing outside the vocabulary.

For `SrAlwaysForesees`, the positive cells lie between what was taught to follow directly and
every set closed under that (`Foresees`), and an update of a row by another keeps it so. For
`HybridAlwaysSpeaks`, `Ranked` lists every event once (`EveryRankTaken`), hence an answer of Markov's is
empty only if it knows nothing or is asked for nothing, and it answers for the hybrid whenever
the successor representation does not.

Model-checked only. Liveness (`TranscriptsPassOn`, `CoroutinesEnd`, `CallsEnd`), as `ENABLED` and
fairness are out of the prover's reach. Every safety and action property of every run that
passes is a theorem. Type correctness is proved for seven of the components (`TypeCorrect`); the runs
evaluate it where it says more than the invariants beside it.

## 5. Not modelled

- `primd-sr/src/low_rank.rs` and `pca.rs`: dense floating-point iterations (Oja updates, power
  iteration) whose state is a matrix of reals. Random indexing, embedding,
  quantisation and the SIMD popcounts: numeric and pure. A model of them would repeat the
  arithmetic and check nothing that a unit test does not.
- Parsing of HTTP and JSON, the counters of `/stats`. Of the file mapping of signatures its length, what it
  shows as the file changes and its end (zeros, or the end of the process) are modelled, the
  paging is not.
- The browser bindings (the same calls on the same context), benches and examples.
- Inside what is modelled: counters of the gate, the cold tier's results in a turn (returned
  beside the hot ones, they influence nothing else), the order of the predicted events
  (only their set matters to a scan), I/O errors of the shard list (they end the call), and
  collisions of the 64-bit scope hash.

## 6. What is left

The plan of the project was: conversation, caches and search; server; clients; scans and
shards; predictors; cold tier; prefetch; the index directory. All of it is done. Worth adding:

- `DeltaCache` and `QueryContext` composed step by step instead of by way of `DeltaBuckets`;
- the clients against `PrimdServe` itself instead of what a client can tell of it.
