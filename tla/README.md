# Verification of NedoTokenizer

TLA+ models of the tokenizer, the TLC runs that check them on small instances,
and TLAPS proofs of what must hold for every size. Paths are relative to the
repository; `T/` stands for `crates/nedo-tokenizer/src/`.

## 1. The system

NedoTokenizer is a Rust workspace. Bytes go in; a lossless sequence of units
(rich path) or of token IDs (flat path) comes out, on one thread or many.

| Component | State it keeps | Operations | Talks to |
|---|---|---|---|
| Lexical scanner `crates/nedo-core/src/scanner.rs` | position | iterate spans | called by every path |
| Code-span detection `T/code.rs` | line scores, open fence | detect spans, identifier cuts | Auto mode of both paths |
| Rich tokenizer `T/lib.rs` | sentence window, `AnalysisCache` | `tokenize`, `tokenize_batch` | scanner, morphology, disambiguation |
| Flat encoders `T/flat_surface.rs`, `T/lib.rs` | unit buffer, `FlatAnalysisCache` | append a document by mode | retained caches, vocabulary |
| Surface vocabulary `T/surface_vocab.rs` | entries, trie, ranks | encode a segment, decode, train, save, load | flat and rich encoders |
| Batch scheduler `T/lib.rs` | chunk counter, worker results | three batch entry points | scoped threads, one retained cache each |
| Sharded pool `T/sharded_surface.rs` | one single-thread runtime per shard | `encode_shards`, merge, retained call | scoped threads |
| Retained caches `T/lib.rs`, `T/flat_surface.rs` | analyses, segment, surface and document programs, context | look up, insert, prepare context, clear | owned by one worker, kept across calls |
| Character vocabulary, training streams `T/vocab.rs`, `T/training.rs` | entries | encode units into streams | rich path, `encode_training_batch` |
| Morphology bundle `crates/nedo-morph-bundle/src/{lib,binary,binary/runtime}.rs` | immutable graph | validate, generate analyses | analysis caches |
| Disambiguation `crates/nedo-morph-bundle/src/disambiguation.rs` | beam of hypotheses, score caches | decode a sentence | flat and rich contextual analysis |
| Compiled analysis table `T/compiled_analysis_table.rs` | sorted table, digest | build, verify, look up | analysis caches |
| Codec, lossless format `T/codec.rs`, `crates/nedo-format/src/lib.rs` | none | encode, decode, validate | Python, command line |
| NedoFormer `T/nedoformer*.rs` | lattice, sidecar, contract, vocabulary | build, sample, serialise, generate | morphology, batch scheme |
| Python bindings `crates/nedo-python/src/lib.rs` | retained runtimes behind two mutexes | encode, batch, clear, stats | interpreter lock, both pools |
| `nedo-vocab` | streaming batches | train, benchmark, parity | the library |

What is hard here: scoped worker threads that share a counter, fail and panic;
caches that outlive the calls and vocabularies that filled them; three encoders
that must agree and cut their input at different places; limits at which a unit,
a chunk, a table or a search is full; positions carried through normalisation,
alignment and fallbacks back to the bytes of the document; a search that must
either be complete or fail; and two mutexes next to the interpreter lock.

What makes each component correct:

- *Scheduler, shards*: every document exactly once, in order, or an error that
  some document really has; no worker outlives the call; the call returns.
- *Retained caches*: a replay gives the tokens an encoder without history gives;
  nothing stale survives a change of context; tables stay within capacity.
- *Encoders*: segments cover the document, rich and flat agree, decode inverts encode.
- *Python*: one thread per runtime, no deadlock, nothing used after a panic.
- *Scanner, code spans*: a unit does not depend on its surroundings; the
  shortcuts (specialised run consumers, artifact hints) change nothing; prose is
  not taken for code unless it touches it.
- *Rich, training and surface units*: the three paths cut a document the same
  way, whatever their caches hold; the finished rich document always validates;
  cuts of a fallback fall on letters the token has.
- *Disambiguation*: caches do not change scores; the three decoders select the
  same analyses, and the best ones.
- *Morphology*: a search finds exactly the paths of the bundle's graph or fails;
  the compiled tables and conditions mean what the bundle says; a generated form
  is analysed as what it was generated from.
- *Formats, vocabularies, sidecars* (not modelled yet): decode inverts encode, and
  everything a reader accepts is something a writer can produce.

## 2. Modules

`M` extends or instantiates what stands to its right.

| Module | Models | Built on |
|---|---|---|
| `ScopedThreads` | `std::thread::scope`: spawn, join in order up to the first error, wait for the rest | – |
| `BatchRanges` | `build_batch_ranges`, `build_shard_ranges` | – |
| `TrainingBatches` | IDs with document offsets, the range encoders, the three reassemblies | – |
| `OrderedBatch` | what a batch call promises, without threads | `TrainingBatches` |
| `BatchScheduler` | the three dynamic entry points | the three above; implements `OrderedBatch` |
| `ShardedSurface` | the sharded pool and the public merge | `ScopedThreads`, `BatchRanges`, `TrainingBatches` |
| `CodeSegments` | units, chunks, lines, segments, segment encoders, decode | – |
| `CodeProgramCache` | one worker's retained cache in Code mode | `CodeSegments` |
| `FlatRichParity` | production against reference segmentation | `CodeSegments` |
| `PythonSurfaceTokenizer` | the Python object shared by threads | – |
| `ActiveHypotheses` | the decoders' open-addressing list, slot by slot | – |
| `CompactDecoder` | dense, hash and reference Viterbi decoders on one sentence | `ActiveHypotheses` |
| `ScoreCache` | codes, analysis sets, prepared features and trigram scores a worker retains | – |
| `LexicalScanner` | units, run consumers, words, numbers, the tracker of code hints | – |
| `CodeSpans` | code regions, lines, artifacts, identifier cuts | `LexicalScanner` |
| `CodeDetection` | scanning one document and finding its code | the two above |
| `Alignment` | an analysis laid over the token it came from | `LexicalScanner` |
| `QualityFallbacks` | analyses of respelled tokens, with the way back | `Alignment` |
| `DocumentUnits` | from lexical units to units: modes, pieces, sentences, groups | `CodeSpans`, `Alignment` |
| `TrainingStreams` | the character and byte streams and their checks | `LexicalScanner` |
| `ContextualUnits` | rich, training and surface worker over the same documents | the four above |
| `Phonology` | sounds a surface asks for, realisation of a suffix | `LexicalScanner` |
| `Conditions` | compiler, validator and machine of edge conditions | `Phonology` |
| `MorphologyTables` | the tables of the binary and their indexes | `Conditions` |
| `TokenForms` | web addresses, Roman numerals, abbreviations, numerals | `Phonology` |
| `MorphologyRuntime` | analysis and generation calls under limits | the two above |
| `CodeModeProofs` | theorems about the retained cache and the two segmentations | `CodeProgramCache`, `FlatRichParity`, `TokenizerLemmas` |
| `CodeDetectionProofs` | theorems about the scanner and the code it leads to | `CodeDetection`, `TokenizerLemmas` |
| `RetainedCachesProofs` | theorems about what is kept between calls: a worker's caches, a Python object's runtimes | `ScoreCache`, `PythonSurfaceTokenizer` |
| other `*Proofs` | theorems | the module they name |
| `TokenizerLemmas`, `BatchLemmas` | lemmas about folds, recursion, sorting, ranges, reassembly and scopes of threads | `BatchRanges`, `TrainingBatches`, `ScopedThreads` |
| `MC*` | the instances TLC checks | the module they name; `MCCodeMode` both of Code mode |

### How state corresponds to the code

*BatchScheduler.* `ranges` is the result of `build_batch_ranges`; `next` is the
`AtomicUsize` (the model counts claims, so chunk `next` of the code is chunk
`next + 1` here, like every sequence); `holding`, `completed` are a worker's
current chunk and its `completed` vector; `failed` is the document whose `?` or
panic ended it. `ScopedThreads` supplies `status`, `spawned`, `joined`, `scope`
and `verdict`. `Claim` is `fetch_add` and the range look-up; `EncodeChunk` and
`FailChunk` are one range encoded; `Join` is one turn of
`collect::<Result<_, _>>`, which drops the remaining handles at the first error;
`CloseScope` is the implicit wait, which panics when a worker it had to wait for
itself has panicked. A document is its size, its number of tokens and its fate.
Values of finished chunks are computed at reassembly from the documents, since
a chunk's value does not depend on who encoded it; that the *cache* a worker
encodes it with does not matter either is the subject of `CodeProgramCache`.

*ShardedSurface.* Shard `w` has index `w - 1`; `shards` is what `encode_shards`
returned and `selection` what was given to `merge_surface_shards`, by the library
(`MergeAll`) or by any caller (`MergeSelection`).

*CodeProgramCache.* `context` is `surface_program_context` (the address; the
morphology flag plays no part in Code mode), `programs` the surface programs by
their exact bytes, `documents` the document programs by bytes and newline flag.
`memory` is what lives at each address; `ReplaceVocabulary` is its owner's
doing. An encoding is one step, because the cache is borrowed mutably for the
whole document; inside it the chunks are looked up and inserted one after the
other (`StreamChunks`). `used` and `answer` are history variables.

*CodeSegments.* A document is a sequence of character classes: those the cuts
tell apart. Runs are units, an underscore is its own unit inside an identifier,
`Invalid` stands for opaque bytes. Camel-case and digit cuts are further unit
boundaries of the same kind as the underscore, CR and Unicode line breaks are
further line breaks; one of each is enough for what is stated. Recursion is over
functions (`Ascending`, `Ranks`, `EncodeGreedy`, `BpeCuts`), so that the prover can
follow it.

*FlatRichParity.* `document` grows by one character per step; `richSegments` and
`flatSegments` are what the reference and the production encoder make of it. Its
names (`ParityInit`, `ParitySpec`, ...) do not clash with those of
`CodeProgramCache`, because one run and one module of proofs are about both.

*PythonSurfaceTokenizer.* `holder` and `poisoned` are the two mutexes, `gil` the
interpreter lock; `created` and `warm` the runtimes in the two maps and those
whose caches hold something. An encoding is one step under its mutex: nobody
else can observe its middle, except after a panic, which `tainted` records. Its
specification is `TokenizerSpec`, for the same reason as above.

*CompactDecoder.* `hypotheses` is the vector of that name, `active` the table of
the last layer (`slots` numbered from 0, `size` as kept), `dense` is
`dense_current`; `decoder` says which of the three works on the sentence, so that
`selected` can compare their answers. A layer is one step: nothing runs between
its transitions. Weights are integers and given by the instance, as are the
hashes. The hash table is not abstracted here, because the order of its slots
decides between equal scores.

*ScoreCache.* `delta` is the worker's `scoring_interner` over the shared seed,
`entries` the retained analysis sets, `live` those of the sentence at hand,
`handles` the `score_row`s its hypotheses carry (with the pair each stands for),
`rowOf`, `inline`, `overflowed` and `overflow` the trigram tables, `prepared` and
`shared` the two banks. A score is represented by the words it was computed from,
so that a wrong score is one of other words. `Score` is
`score_compact_transition`, whole: the row, the look-up, the slots that are
filled before a computed score, the row of the next pair, and the store. Lemma,
inflectional groups and canonical form of an analysis are one content: the
interner treats them alike, layer by layer.

*CodeDetection.* `raw` is the document, a sequence of characters: ASCII is
written out, all other scalars are named by the class the scanner tells apart,
and `invalid` is a byte that starts no scalar. `units` and `tracker` are the
locals of `scan_compact_with_code_hints`, `hints` its result, `spans` that of
`auto_code_spans`. `ScanUnit` is one round of the loop; a unit is
`[start, end, kind]` as in the code. Lists of key words hold a representative of
each family.

*ContextualUnits.* `rich`, `flat` and `surface` are what `tokenize_with_cache`,
`encode_flat_document` and `append_flat_surface_document` made of `raw`;
`richCache`, `flatCache`, `surfaceCache` what each of the three workers retains
(analyses, segment programs, documents), kept from one document to the next.
Each tokenizer is one step: a worker borrows its cache for a whole document. The
morphology is the function `Lexicon`, the decoder any function `Disambiguate` of
the candidates of a segment: `CompactDecoder` and `MorphologyRuntime` are about
these two. The tables are exact maps of a bounded number of entries. Positions
count characters; where the code counts bytes and the difference decides
something (`Width`, the accounting of streams) the width of a character is used.

*MorphologyRuntime.* `call` is the request with its `SearchLimits`, `stage` the
attempt of `analyze_token_with_limits` under way (static, web address, Roman
numeral, abbreviation, numeral, name) or how the call ended, `search` the vectors
`current`, `next` and the counters of `search_paths` or `generate_paths`, `found`
the readings of the attempt's earlier texts, `result` what is returned. `Accept`,
`Advance` and `NextLayer` are the turns of the search loop: `Advance` takes all
edges of one path. `AskBack` is a caller that analyses a form it was given, to
state what the two directions promise each other. Records of the bundle are named
by their key where the binary has an index; the order of surfaces and stems,
which the two binary searches rely on, is kept as positions. The nodes of the
trie are named by the prefix they stand for, and read characters, not bytes.

## 3. Runs

Twelve runs, nine of which pass, with thirty-nine properties between them. Type
invariants are proved (section 4) and not run again.

| Run | Instance | What it shows |
|---|---|---|
| `BatchScheduler` | 3 workers, all batches of up to 3 documents of 5 kinds, chunk minimum 2 bytes | `ChunksPartitioned`: no chunk lost or doubled between counter and workers. `SuccessIsComplete`: a worker that stops early cannot go unnoticed. `ImplementsContract`: refinement of `OrderedBatch`, in which a call completes (weak fairness) with the ordered encoding or an error a document really has. |
| `ShardedSurface` | 3 shards, batches of up to 4 documents, selections of up to 3 shards | `ShardsAreBalanced`: an exact cover, each shard below an even share plus the largest document. `ShardsMergeToBatch`: the whole set of shards, in whatever order. `ShardCallReturns` (liveness). |
| `CodeMode` | `CodeProgramCache`: 2 addresses, 2 vocabularies, 6 documents, 2 programs, 1 document program; `FlatRichParity`: all 19,531 documents of up to 6 characters | `ProgramsAreContextFree`; `ReplayIsExact` without blank lines and replaced vocabularies, `ReplayIsLossless` with blank lines. `FlatOnlyLosesBridges`, `ParityWithinLimits`: where and why the encoders differ; `RoundTrips` under a greedy and a byte-BPE vocabulary. |
| `PythonSurfaceTokenizer` | 3 threads, one call each, 0 or 1 worker threads | `RuntimesAreExclusive`, `HoldersNeverWait`, `TaintedRuntimesStayUnused`, `ClearIsComplete`, `CallsReturn` (liveness). |
| `CompactDecoder` | 3,888 sentences of 2 or 3 tokens | `SelectionIsBest`: of all ways to choose. `DenseAgreesWithHash`, `CompactAgreesWithReference`: ties included. `TableHasRoom`: probing ends. |
| `ScoreCache` | 1 worker, 3 contents, 2 in a sentence, 2 rows, 1 inline and 1 overflow entry | `ScoresAreExact`, `BanksAreExact`, `HandlesAreExact`, `CodesIdentifyContent`: nothing retained is used for what it was not made from. |
| `CodeDetection` | every fragment next to every other, triples of the delicate ones, documents of up to 3 lines of 11 kinds and of 5 lines of 4 kinds | `UnitsAreContextFree`: caches may file units by their bytes. `SpecialisedRunsAgree`: each loop that consumes a run ends it where the classifier does. `ArtifactsAreHinted`: the hint never hides an address, assignment or timestamp. `ProseStaysProse`. |
| `ContextualUnits` | any two of some sixty documents, 3 modes, with and without context, tables of 1 or 2 entries | `RichValidates`: no mix of units yields a document the validator rejects. `StreamsAgree`: but for numbers in letters, the flat encoder's stream is that of the rich document, whatever was retained. `SurfaceAgrees`: the surface encoder's segments are too. `FallbackCutsSurvive`. |
| `MorphologyRuntime` | 20 stems, 17 states, analyses and generations under wide and tight limits | `SearchIsComplete`: exactly the paths of the graph, or failure. `TablesAgree`, `ConditionsAgree`: the compiled form means what the bundle says. `FormsAnalyseBack`. `RuntimeReadingsSpellToken`. `CallsAdvance`: every step brings a call nearer its end, epsilon cycles included. |

### Disagreements with the documentation and tests

| Run (expects a violation) | What TLC finds |
|---|---|
| `PartialMerge` | `merge_surface_shards`, whose doc says that it rejects missing ranges and errs unless its shards are "one exact contiguous cover" (`sharded_surface.rs:324`, `329`), accepts the first of two shards alone: it is not told how many documents the batch had, and its checks start at document 0 and end with the last shard it is given. |
| `BlankLineReplay` | After `a\n`-like lines and an empty line are cached, a blank line is answered with two newline tokens, not the learned piece: the replay splits after every line break, the scanner after a run. Token IDs then depend on the history of a worker's cache. |
| `RomanOrdinals` | The rich path reads `IX'uncu` as a numeral and completes its ordinal, with cuts on both sides of the apostrophe; the flat paths complete only tokens with a numeral character, find no analysis that aligns, and give an unknown word without cuts. |

More disagreements are written into properties that hold, or were met while
modelling and have no run:

- `FlatOnlyLosesBridges`: in Code mode the flat encoder loses a space bridge at a
  full chunk. `ParityWithinLimits` says that the encoders agree on documents
  without a full chunk *and without a unit longer than the limit*: a space before
  such a unit, or the last space of a long run, is bridged by the reference only.
- `ReplayIsExact` leaves out `answer.stale`: the program context names the
  vocabulary by its address (`prepare_surface_program_context`), so that a
  different vocabulary later found at the same address is answered with the
  programs of the old one.
- A worker error followed by a panic of a worker not yet joined unwinds the caller
  instead of being returned; `OrderedBatch` allows it.
- A list of hypotheses that grows keeps its entries where the old mask puts them,
  so that one state is held twice. Harmless: the selection is the same
  (`SelectionIsBest`).
- Code hints: `1_000e5`, `_e5`, `1e+5` and `ftp://` addresses are never hinted
  although the byte scan knows them; the scanner splits `://` into units, so that
  the tracker's test for it never holds. Lines like `//=` and `#[test]` are strong
  code lines but hint at nothing. `ArtifactsAreHinted` names the forms for which
  the hint can be relied on. Where "at most two delimiter/comment continuation lines
  are attached on either side" of a block (`code.rs:15`), a whole chain of them is
  attached below it: the loop (`code.rs:419`) takes lines it has just marked for
  selected ones; upwards the limit holds. The rule of density counts lines that are no anchors
  as code when they stand between prose; `ProseStaysProse` is about prose itself.
- Contextual paths: a replayed segment program sets the status of punctuation and
  symbols where a fresh analysis does not, which no stream reads; an unknown word
  with an apostrophe or a dotted abbreviation fails alignment and stays without
  cuts, in all three paths alike; `NumberInLetters` names what `StreamsAgree` and
  `SurfaceAgrees` leave out because of `RomanOrdinals`; surface programs in Auto and Turkish mode are
  looked up but never inserted.
- Morphology: the limit of a layer is exclusive although documented as a maximum
  (`runtime.rs:36`); in generation a path always counts as having a tail, and in
  analysis it keeps older sounds when the suffix is the whole tail, so that a form
  which crosses an edge conditioned on its tail need not analyse back (the graph
  of the run has no such edge); `00` reads as a hundred; one stem without a vowel
  that fits fails the call for all others.

None of those in Code mode invalidates the round trip: `ReplayIsLossless` and
`RoundTrips` hold on the same states.

### Bounds

- *Workers, documents*: three workers are the fewest for which a worker finishes
  before, between and after two others and a dropped handle can be the second of
  two; three documents of size 3 over a chunk minimum of 2 give one chunk each,
  mixed sizes give chunks of one to three documents, and a single chunk takes the
  inline branch. `BatchChunksPerWorker` keeps its value 16, `MinBatchChunkBytes`
  is scaled to the documents.
- *Shards*: four documents of weight 1, 2 or 5 make shards of one and two
  documents, first and last heavy. Selections of length three include every
  permutation, repetition and omission.
- *Cache*: two programs fill and overflow from two short documents; one document
  program likewise. `MaxChunkUnits = 3` and `MaxChars = 3` make both limits fall
  inside its documents. Two addresses and two vocabularies give every change of
  context.
- *Parity*: six characters hold a space, a split unit and two chunks of three
  units. `CodeMode` checks it beside the cache, under the same vocabularies and
  limits (`BlankLineReplay` keeps both limits at 2); the two share no state, so
  that a document is grown only while the cache has no context.
- *Decoders*: four candidates for a token after two fill and grow the list of
  eight slots; weights modulo 2 and 3 make ties, modulo 97 avoids them; the hashes
  agree in their low bits, in all bits, or differ in the bit a grown list adds.
  `MaxDenseStates` is scaled to 4.
- *Scores*: with one content in the compiled table and two outside it, codes are
  0, 1 and 2; code 1 changes hands after a clear and 2 equals the reserved
  `EndSignature`, so it does not fit a key. `MaxLive` bounds a sentence and
  `MaxCarried` the hypotheses followed at a time. The two contents outside the
  table are interchangeable, which the run uses as a symmetry. One worker is all
  the run has time for, so that of the shared bank it shows only that no code of a
  worker's own reaches it. The proofs cover all other sizes, and `BanksAlwaysExact`
  several workers filling the bank in any order.
- *Code detection*: a rule of the scanner looks at two neighbouring characters
  and at most one beyond, so that pairs of fragments and triples around them meet
  every rule; three lines hold a line of code, an attached one and prose, five
  hold a dense block with a gap. The distances keep their values 2, 3 and 9.
- *Contextual units*: two documents in a row are what it takes to fill a table
  and to be answered from it; sentences of three tokens, fallbacks of three
  characters and tokens of eight make every limit fall inside a document. The
  documents hold each kind of unit, words that are known, known only respelled,
  and unknown, and each of them next to a known word. The *number* of cuts of a segment
  program, which must fit 16 bits or fail, is not bounded in the model.
- *Morphology*: the graph has a derivation, an epsilon edge, a cycle of epsilon
  edges, a condition of every kind, names and abbreviations; next to wide limits
  there is one too tight for some call for each of layers, nodes and results. The machine keeps
  2 values in place (32 in the code), so that formulas of three operands spill.
- *Python*: `MaxCalls` bounds the calls of each thread. That run, `CodeMode`
  (`MaxLength`), the decoders, code detection and contextual units stop when their
  sentence or documents are done and do not check for deadlock. The runtime of the
  morphology can always be called again, and its run does: a search that could
  neither go on nor end would show as a deadlock.

### Fairness

Workers and the calling thread are weakly fair in the batch models: the operating
system runs started threads, and nothing between two of their steps waits for
anything but a join. Making another call is not fair. In `PythonSurfaceTokenizer`
each thread's steps are weakly fair and taking a lock is part of them; neither
lock promises a queue, so that `CallsReturn` rests on the bounded number of calls
of the others, not on a fair lock. `MorphologyRuntime` is sequential and states no
fairness: `CallsAdvance`, an action property, gives every step a measure that
grows and is bounded by the limits, and the deadlock check excludes a step that
is missing.

## 4. Proofs

All theorems are checked by TLAPS for every value of the constants that the
named assumptions admit.

*BatchSchedulerProofs.* `TypeCorrect` and `WorkersEndWithCall` (not run properties),
`ChunksArePartitioned`, `SuccessHasEveryChunk`, `StepsImplementContract`. The
argument is one inductive invariant, `IInv`: the type invariant; the partition of
the claimed chunks; which statuses a worker may have given the position of the
scope (not yet spawned, joined with `ok`, terminated once closed: `ScopeShape`,
whose preservation `BatchLemmas` states once for both users of the
module); that a worker that ended with `ok` holds nothing and the counter had
passed the last chunk when it did; and that a completed chunk contains no failing
document. Without the last three the partition is inductive, but success does not
follow: a worker could be `ok` with a chunk in hand. `StepsImplementContract` is
the step-wise half of `ImplementsContract`: every step is a step of
`OrderedBatch` or leaves what the caller sees as it was. What it needs beyond
`IInv` is about data: sorting the collected chunks puts chunk `c` at place `c`
(`CollectedInOrder`), and each of the three reassemblies of chunks that cover the
batch is the ordered encoding (`CoverConcatenatesSurface`,
`CoverConcatenatesTraining`, `CoverConcatenatesDocuments`). That the chunks do
cover it is `BatchRangesCover`, for every batch, byte limit and number of
workers. Assumed: `Workers` is a positive natural, the constants of the range
builder are positive, batches are sequences of documents. That a call returns
(the contract's fairness) stays with TLC.

*ShardedSurfaceProofs.* `ShardsBalanced`, `ShardsMergeBack`, `MergeNeverSkips`. The
invariant says of a call that `ranges` are those built for its documents, that a
shard that was returned is the encoding of its range, and, with the shape of the
scope, that an outcome is one of a merge or of a document that fails. The rest is
about data again: `ShardRangesCover` and `ShardRangesBalanced` follow the
builder's loop with the remaining weight over the remaining shards, and
`PresentedMerge` and `MergeIsPrefix` follow the merge of any selection: it accepts
exactly selections whose sorted ranges are chained from the first document, and
those concatenate to a prefix. `MergeNeverSkips` is what holds of `OnlyCoversMerge`
(section 3), which does not: whatever is missing is missing at the end. No run
checks it; it is stated with its proof.

*CompactDecoderProofs.* `TablesHaveRoom`, `CompactIsReference`. The compact decoder
overwrites a hypothesis of its layer where the reference pushes the better one
and redirects the slot, so that hypotheses have different places in the two
vectors and only the tables correspond. The proof runs the two beside each other.
Between two calls their tables have equally many slots, use the same ones,
and hold *alike* hypotheses in each: same analyses, score, state and hash, at the
end of the same path (`Roomy`, `LikeOf`). `LocateAlike` says that a probe ends in the
same slot of both, `ExpandAlike` that growing keeps the correspondence, though a
grown table may hold one state twice, `StepAlike` and `LayerAlike` that one
transition and one layer keep it, `PathsAlike` that alike hypotheses end alike
paths, `ChosenAlike` that the same first best entry wins. `TableHasRoom` is no
by-product: the reference asks whether to grow at each call, the compact decoder
only when it inserts, and the two agree because a table is below its limit between
calls. In the specification the decoders run one after the other, so the
invariant (`HashShape`, `RichShape`, `DoneShape`) speaks of a run of the hash
decoder that once was (`RunTo`); it quantifies over all runs and is proved
only, not evaluated by TLC. Assumed of a sentence: at least one token, at least
one candidate for each, natural identities and hashes, integer weights.

Its second half, `SelectionAlwaysBest` and `DenseAnswersHash`: here the decoders are
compared with all paths, so a dynamic program is proved correct. The invariant
(`Searched`) says that after `t` tokens every entry of the last layer is the end
of a path, with that path's score, and that every path is *led*: some entry has
the same last two analyses and a score at least as high. A layer keeps this
(`OfferKeeps` for one hypothesis that is offered, `HashLayerSearches` and
`DenseLayerSearches` for a layer), because the weight of a step depends on
three words and the entry that leads a path agrees with it on two of them; the
end marker adds one weight more (`FinalScores`), and the first entry of the
highest score ends a best path (`BestTops`, `FinishIsBest`). The dense decoder
compares candidates where the hash decoder compares words, and gives up on a tie.
For it the invariant is sharper (`exact`): an entry that leads a path without
ending it has a *higher* score. What it answers is therefore the only best path,
which the hash decoder must then select too, so that no simulation of one by the
other is needed, and neither is the dense decoder's refusal of candidates that
are equal words. That a grown table may hold one state twice does no harm,
as another entry never takes away a lead. Of the tables only the invariant of the
first half is used, and it also covers the reference.

*CodeModeProofs.* `CachedProgramsAreContextFree`, `ReplayAnswersExactly` and
`ReplayLosesNothing` about `CodeProgramCache`; `SegmentationsRoundTrip`,
`SegmentationsAgreeWithinLimits` and `FlatEncoderOnlyLosesBridges` about
`FlatRichParity`. Documents are of any length, the limits any positive numbers, the
vocabularies any that `from_entries` accepts and more (`VocabularyConstants`:
entries are not empty; that they are unique and bounded is not needed).

The invariant of the cache, `IInv`, says that each retained chunk is filed under
bytes whose encoding as a document of their own it is, for some vocabulary used
since the tables were emptied (`Filed`); that each retained document program is
faithful for a vocabulary, provided no other was used (`FiledDocuments`); and that
the last answer is (`AnswerFaithful`). *Faithful* means that it decodes to the
document and, without blank lines, is what an encoder without history answers.
`ReplayIsExact` alone is not inductive: a later answer may come from a document
program, a line or a chunk that no invariant about answers mentions; and the
proviso of `FiledDocuments` is needed because tables are filled under one
vocabulary and read under another. (TLC agrees that `IInv` holds on the instance
of the run.)

What a step needs is about data. Where a chunk begins, the characters before it do
not matter: `WindowAlike` shows that a part which begins with a chunk has its units
and their places in chunks where the document has them, so `ChunkAlone` gives that
a chunk is, as a document of its own, one chunk, with the same units moved
(`SegmentsMoved`) and hence the same tokens (`ChunkEncodes`). A document may
therefore be cut in two where a chunk begins (`EncodedInTwo`), its chunks encode one
by one (`EncodedByChunks`, which `ChunksStreamed` follows through the look-ups and
insertions), and, as a line break ends a chunk, so do its lines when none is blank
(`LinesBeginChunks`, `EncodedByLines`): a run of line breaks is one unit but several
lines, which is where the disagreement `BlankLineReplay` comes from. That answers
decode holds with blank lines too, because lines tile a document (`LinesTile`) and
what any of the encoders makes of any bytes spells them (`EncoderSpells`: the greedy
one by `GreedySpells`, the merging one because its cut points stay in order and what
lies between two stays a byte or an entry, `BpeCutsAre`, `BpeSpells`).

For the two segmentations the invariant (`ParityInv`) only names them, and all the
rest is a fact about every document. Segments of units in reading order spell the
document whether or not a space is joined to the next word (`OrderedSpells`), which
with `EncoderSpells` is `SegmentationsRoundTrip`. A chunk that is not full ends with
a line break or an opaque unit (`ChunkCloses`), neither of which is a space, so that no
bridge reaches over its end (`PartAlike`): that is `SegmentationsAgreeWithinLimits`.
For `FlatEncoderOnlyLosesBridges`, `PartStarts` says where the segments of a unit begin:
nowhere if it was joined to the space before it, and else where its slices do.
A bridge inside a chunk is one between the same two slices of the document
(`RichCutsFlat`), and a slice at which only the reference does not cut comes right
after a one-character space, which itself begins a segment (`FlatCutsRich`).

*CodeDetectionProofs.* `ScannedUnitsAreContextFree`, `SpecialisedRunsAreExact`,
`ProseIsNeverSwallowed` and `ArtifactsAlwaysHinted`, for documents of any length over any characters
(`DocumentConstants`: documents are sequences of characters). For the first two the
invariant (`ScanInv`) says that every unit is the one the scanner gives at the place
where it begins; what is left are facts about every text and every place. All consumers of the scanner are runs of steps, a
step of 0 ends a run. `RunExists` constructs the run of a table of steps and
`RunEndIs` says that `RunEnd` is that run, so that two runs are compared place by
place: `RunShift` says that a run of a text and one of a part of it end together
when their steps agree on the way and the part ends, or steps 0, where the longer run
does. What is left is that a step does not see what follows its unit. It does see
it: an operator, a word joined by an apostrophe or a number with a point looks up to
two characters ahead. But what it sees there only ever makes it go on
(`OperatorSlice`, `ClassSlice`, `WordSlice`, `DigitSlice`, `NumberSlice`), so that a
step which stays within the unit is the same step in the unit's bytes
(`StepSlice`), and the class at the first character, which fixes the kind, is the
same too (`UnitAlone`). For the specialised consumers, `StepsAgree` compares the two
tables of steps at each character: they differ only where a symbol goes on through
a joiner, which is where the generic run ends (`RunsAgree`).

`ProseIsNeverSwallowed` is about three ways to get into a span. Continuation lines: the
pass over the lines adds only safe ones, also those it adds because of lines it
added before (`PassAddsSafe`), and a safe line is not prose. Density: `Filled` leaves
prose out, and stays between lines of the document (`FilledAreLines`). Merging: spans
that touch become one, so a line between two blocks is safe only because
the lines tile the document without a gap (`CodeLinesTile`) and two blocks have at
least one whole line between them. `MergedFrom` says what a merged span is made of, and
`OutsideBlocks` that a span which reached over such a line would begin with a block
that touches another. `CodeSpanConstants` assumes natural numbers.

`ArtifactsAlwaysHinted` compares two descriptions of addresses, assignments and
timestamps that share no definition: the byte scan of the tokens between blanks, and
the tracker that watches the units go by and can only say what it saw. The invariant
(`HintInv`) says that the units cover the document from its front, that the tracker
was told whenever one of them *tells* (`Tells`: a sign in a symbol, a word that begins
an address, a time after a number) and that it remembers whether the last unit was
a number. `ObserveTells` is the tracker's half: it never forgets, and it stops looking
at a line only when it takes the line for code, which is a hint too. The other half,
`FormsTell`, goes form by form: whatever the byte scan accepts leaves a unit that
tells. A sign is always in a symbol or in punctuation (`SignTells`, from `ClassHolds`);
for addresses and timestamps the unit has to *begin* with the token, although a word
goes on through connectors and a number through separators, and this holds
because no character after which a token may begin joins anything (`TokenBegins`,
`UnitOfToken`); a date ends before its T and the time is the next unit
(`DateThenTime`). Assumed is `LiteralCharacters`: the characters of six string
literals, which TLC evaluates and the provers cannot.

*RetainedCachesProofs.* First `ScoreCache`: `ScoresAlwaysExact`, `BanksAlwaysExact`,
`CodesAlwaysIdentifyContent`, `HandlesAlwaysExact`, for any compiled table, any
capacities and any set of workers. A score is exact because of a chain that no
single table shows: the worker's codes continue the seed's without a gap, so
codes identify contents (`DeltaOK`); codes that fit 21 bits stay clear of the
two reserved ones, so a key identifies its three words (`KeyInjective`); rows are
numbered without repetition, so a row number identifies a pair (`RowsOK`); and a
stored transition is filed under the key of the words it was computed from and
points at the row of its second pair (`InlineOK`, `OverflowOK`). The invariant
speaks of a worker's codes rather than of the sentence at hand, because rows
outlive sentences; `TransitionsKept` is why new codes and rows disturb nothing,
and `EnsureExact` why the banks give the features of the very words. Assumed are
a finite set of contents, an injective compiled table whose codes fill an
interval from 0, a bank as large as that table or none, and
`PreparedLimit < EndSignature` (2,000,000 against 2^21 - 2).

Then `PythonSurfaceTokenizer`: `TypeCorrect`, `ExclusiveUse`, `NoCircularWait`,
`TaintedUnused`, `ClearIsCompleteAlways`. `TokenizerInv` ties `pc` to the lock a
thread holds and to the interpreter lock: inside means holding exactly one
mutex, an encoder inside has given the interpreter lock back, tainted mutexes
are poisoned, and a clear that has passed the first map has nothing left of it
in `old`. Nothing is assumed of the set of threads.

*TokenizerLemmas, BatchLemmas.* Facts about the operators the models are built
from. Induction over data is done without the library's rules, which take an
operator: `NatSetInduction` is about a *set* of naturals that contains 0 and
successors, `RecursionExists` constructs the recursive function a definition
chooses, and `FoldLaw`, `FoldEnds`, `FlattenIs`, `SumOfInterval` are what follows
for folds. `SortingOrderIs` says that sorting distinct keys has one answer,
`MinOfNaturals` rests on well-foundedness.

Only model-checked:

- Liveness: `ShardCallReturns`, `CallsReturn`, the fairness of `OrderedBatch`.
- Contextual units (`RichValidates`, `StreamsAgree`, `SurfaceAgrees`,
  `FallbackCutsSurvive`): they rest on the scanner, on `SelectSeq` (for which the
  prover has no rules) and on the lexicon of the run.
- Morphology (`SearchIsComplete`, `TablesAgree`, `ConditionsAgree`, `FormsAnalyseBack`,
  `RuntimeReadingsSpellToken` and the action property `CallsAdvance`): `Conditions`,
  `MorphologyTables` and `MorphologyRuntime` declare recursive operators, which
  leave the prover without its arithmetic. Trees of conditions and the compiled
  tables are recursive data, and induction over them is out of its reach anyway.

## 5. Not modelled, and why

- Fingerprints and probing of the caches: tables are exact maps, keys are compared
  in full by the code before use. The list of hypotheses is the exception.
- Rounding and NaN of scores, statistics, capacity estimates, arithmetic overflow
  of sizes that would need more memory than there is.
- The byte layout of the binary bundle, the vocabularies and the lossless format,
  and the JSON readers: headers, section tables, digests and record widths.
- UTF-8 decoding: a character is the name of its class, a byte that starts no
  scalar one name.
- Surface vocabulary training, the document codec, the compiled surface analysis
  table, NedoFormer and the greedy causal decoder: in the plan, not written.
- The command line and the bundle tools: file I/O around the library.

## 6. Plan

1. Document codec and lossless format as inverse operators, with everything a
   reader must reject; the binary forms of the vocabularies.
2. Compiled surface analysis table next to the analysis cache it short-circuits.
3. Disambiguation: the greedy causal decoder and the sequence in which the
   tokenizer calls it with the retained caches.
4. NedoFormer: the lattice of cut classes, sampling, sidecar and contract, and its
   batch calls over `ScopedThreads`.
5. Morphological cuts in `CodeSegments`, so that surface programs can be compared
   across all modes.
6. Proofs: the measure of `CallsAdvance` in a version of the search without
   recursive operators.
