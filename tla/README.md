# TLA+ models of king-synapse

king-synapse keeps long-term memories for coding agents in one SQLite file.
A command line (`kr`), an MCP server and programs that use the library open
the same file, each with a connection of its own. This directory holds TLA+
modules of the parts that decide what is in that file and what is answered
from it, the TLC runs that check them, and the theorems TLAPS proves about
them. `PROJECT.json` lists the runs, the mutants, the source lines behind each
definition, the findings and the hazards.

## Inventory

| Component | State | Operations | What makes it correct | Modules |
| --- | --- | --- | --- | --- |
| SQLite store (`core/src/store`) | tables `memories`, `memories_fts`, `entities`, `memory_entities`, `memory_edges`, `embedding_state`, `memory_vecs`, `events` | `write`, `update_content`, `invalidate`, `update_edge`, `put_embedding`, `record_access`; queries | every table tells the same story after any sequence of calls; the log replays the memories; a call acts as a whole or not at all, whoever else writes, is killed or loses power | `Store`, `EventLog`, `EmbeddingIndex`, `AtomicStore`, `Transactions` |
| Embedding backfill (`cli`, `embed-backfill`) | a batch of fetched memories, a total | fetch, embed, store one by one | no live memory is forgotten; runs end; no starvation | `Backfill` |
| Store integration (`working_memory/store_*`, `persistent_store`) | a plan of mutations, a report | dispatch, execute one mutation after the other | a plan that is half executed, repeated, or interleaved with another loses and doubles nothing | `StoreExecutor`, `WorkingMemory`, `Merging` |
| Hebbian algorithm, reinforcement calls | a `seen` set inside one call | plan edges of events, check ids, execute | association is mutual, each edge counted once | `Hebbian`, `StoreExecutor` |
| Recall engine (`recall/engine`, `rrf`) | copies of memories during a call | three search branches, reads, fusion, rerank, `record_access` | answers were true during the call, filters hold, nothing untouched is lost | `Recall` |
| Boosters (`graph_activation`, `latent_booster`, `working_memory/activation`) | bonuses of the hits | one booster after the other, final sort | bonuses only grow, and reach what is activated | `Boosters` |
| Latent activation, latent query, cognitive trace | frontier, sums, explanations of a spread | spread, compete, reinforce, predict | what is activated does not depend on hash order, and how much only as far as sums are rounded; explained by real paths; what is learned shows | `Activation`, `Graph`, `Spreading`, `Candidates`, `Trace` |
| Working memory (`buffer`), consolidation | items with an expiry | insert, expire, plan, payload, execute | plans change only what they name; groups leave a survivor; retries converge | `WorkingMemory` |
| Merge, forget, reflection algorithms | copies of memories, a window of events | judge, plan, execute later | monotone verdicts; no merged text is lost but by a failed update; an unlike memory is merged along only so far; rounding decides only ties | `Merging`, `Forgetting`, `Reflecting` |
| Event stream (`adaptive/event_stream`) | a bounded queue behind a mutex | `record`, `recent` | the latest events, in the order of recording | `Replay`, `EventStream` |
| MCP server | the line it works on, pipes | one request per line, every tool | one answer per request, in order, that tells what was done; what a dead server may have done is known | `McpServer`, `FrontEnds` |
| Command line | none | arguments, defaults, store calls | a request means the same through both front ends | `FrontEnds` |
| Entity extraction | none | scan of a text | a part mentions no more than the whole; no whole word, and no symbol that stands free, is missed | `Extraction` |
| Evaluation | a store per run, reports | comparison of systems | reports of chains that share a store are independent | `Comparison` |
| Policies, models, configuration, types | none | recommendations, ONNX calls, parsing | see "Not modelled" | - |

How they interact: algorithms look at copies of memories and return plans as
data; a dispatcher turns a plan into `StoreMutation`s; the executor applies
them one transaction at a time. Nothing holds a lock from reading to writing,
so every process works with data that may be out of date. That, and processes
that stop half way, is what is hard in this system; the list `hazards` in
`PROJECT.json` names the lines.

    AtomicStore  <- Transactions         (statements refine calls)
    EventLog     <- Store -> EmbeddingIndex
                    Store -> StoreExecutor <- Hebbian
    EmbeddingIndex -> Backfill, Recall
    Activation -> Graph -> Spreading, Boosters, Trace
    Activation -> Candidates -> Trace, Comparison
    Replay       <- EventStream

(`A -> B`: B extends A. `A <- B`: B implements A.)

## Modules

In each module an operation, handler or step of the code is one action, and a
definition whose comment begins with "Mutant" is a faulty variant of the one
after it that no specification uses. The modules `MC...` give constants their
values and put the components of a run together: where they share no state, a
selector variable chooses the one whose steps a behaviour has, and the others
stay in one initial state. The questions of a run are separate, then; what
they have in common is the part of the system.

### The store

**`Store`** has one action per method of `impl Store` that writes, and takes
the method for one step; `Transactions` is why it may. `status` is
`memories.valid_to`, `vec[m]` is the content whose embedding is in
`memory_vecs`, `fts` the postings the trigger `memories_au` maintains,
`events` the log with kind, memory and payload. The trigger fires on every
update of a row, so `Invalidate` and `RecordAccess` reindex as well. Importance,
scope, kind and timestamps are left out: no operation reads them to decide
what to write. `Mentions` stands for the entity extractor.
`INSERT OR REPLACE` on the `vec0` table is taken by its meaning; if the
extension rejects a replacement, `put_embedding` fails as a whole, which is a
stuttering step in `Store` and an `Abort` in `Backfill`.

**`EventLog`** and **`EmbeddingIndex`** are what `Store` promises: an
append-only history in which a memory is added once, updated while valid and
closed at most once, with conditions on the log alone; and the part of the
tables that backfill and recall work on. `Store` implements both.

**`Transactions`** takes the calls apart into statements: `BEGIN DEFERRED`, the
look-ups of `update_edge` in a snapshot, the first write that takes the lock or
fails with `SQLITE_BUSY` or `SQLITE_BUSY_SNAPSHOT`, the row that is not there,
the commit, and the roll-back of a dropped transaction. Processes execute plans
of calls and go on after a failed one, as `SQLitePersistentStoreExecutor` does.
`Kill` and `PowerLoss` end them anywhere; with `synchronous = NORMAL` the log
keeps its synced part and any prefix of the rest. SQLite is external and
modelled by its documented rules. The log is a sequence of databases, of which
only the validity of memories and the weights of edges are kept, because only
these are read by one call and written by another.

**`AtomicStore`** is the promise: each database comes from the one before by one
call. `Transactions` implements it; every other module relies on it where it
takes a call of the store for a step.

### Processes that work on the store

**`Backfill`** runs workers over `EmbeddingIndex`, without a log and so without
a bound on updates. `older` and `current` keep the order of
`embedding_state.updated_at`, whose resolution is a second; rows of one second
are returned in any order. `overtaken` is a history variable.

**`Hebbian`** is the algorithm as operators on sequences: the pairs the nested
loops visit, without those already seen, cut off at `max_edges`.
**`StoreExecutor`** adds processes to `Store`. A producer (promotion, merge,
forget, reinforce) puts a plan into `plan[p]`; `Check` is one `store.get` of
`reinforce_memories`; `Execute` is one turn of the executor's loop; `Busy` is a
mutation that fails because another connection writes; `Crash` is the end of
the process. `submitted`, `faults` and `torn` are history.

**`Recall`** is one call of the engine: three branches, one `store.get` for each
memory only the vectors found, `rrf_fuse`, the reranker's cut, and
`record_access` with the answer. Each query is an action, with the other
processes in between; every query has its own copy of what it read. What
bm25, distances, decay, importance and the reranker make of the order is any
order, with the constraints the code does guarantee (the number of shared
entities, the fused score). `believed` and `steady` are history.

**`Boosters`** is what the engine does with the fused hits when boosters are
registered: each one reads the graph when it is its turn and adds to the
bonuses, then comes the stable sort.

### Spreading activation

**`Activation`** has the arithmetic (propagation, modulation by state and goal
terms, caps, the order of explanations) and the level-by-level reference
`SpreadTo`. `AddTo` rounds each sum to a number of significant bits, half to
even, as f32 does, so three gains add up to one thing in one order and to
another in the next; the reference adds without rounding. **`Graph`** is the
memory graph as a call sees it that reads it piece by piece while other
processes change it. **`Spreading`** is the loop of `LatentActivationProbe`, one
query at a time, with frontiers taken in any order and a graph that others
change. Which memories are activated is independent of that order
(`ReachDecides`); how much, by which path, and who is cut off by the limit
depends on it, within the bounds of `OrderShowsInRoundingOnly`.
**`Candidates`** is the competition of a cognitive trace, and **`Trace`** the
sequence trace, reinforcement, prediction, and the latent query, over a graph
that each trace changes. Each recall finds one of the `Answers`, and `ByScore`
puts it in order as `rrf_fuse` does: by score alone, and hits of equal score in
any order, another one in each call. So a query traced again may have another
dominant memory, and nothing is claimed of that. `ties` is the history of what
was reinforced. A spread is one step there, with the sums of the reference;
`Boosters` and `Comparison` take it so as well.

### Algorithms and their plans

**`Forgetting`**: `RuleBasedForgetAlgorithm` with its order of rules and its
score, for a memory that is read, judged as of the reading, and archived later
while others use it. **`Merging`**: `RuleBasedMergeAlgorithm` with its scores over
token and signal sets, the adapter that makes a consolidation plan of the
verdict, and the execution of the mutations one by one, where an update or an
archive that finds the database busy is skipped and the rest goes on
(`refused` notes the updates). The f32 average of a group depends on the order
of its members: it is the exact one, off by any number of units in `Rounding`.
**`Reflecting`**: the no-op, deterministic and rule-based reflection algorithms
over a sliding window of events; the f32 sums are computed exactly, with 24
bits, half to even. **`WorkingMemory`**: sessions, the buffer with its expiry, what a planner
may sort items into, plan-only execution, payloads of reflection events, and
the store mutations of both, executed one by one or skipped as busy, cut short
and executed again.
**`EventStream`**: the queue behind its mutex, `VecDeque::pop_front` and
`push_back` as two steps under the lock; it implements **`Replay`**.

### Front ends and tools

**`McpServer`**: clients, pipes that hold so many lines, and servers that read a
line, run its transactions one by one, write the answer and then read the
next line. `lost` notes what each server that ended had before it, the line it
worked on included, since its client may send those again. **`FrontEnds`**: three tables of arguments and defaults (schemas,
tools, command line) and what each command does with them, up to the store
calls, the accesses and the reinforcement. **`Extraction`**: `extract` over
classes of characters; a letter outside ASCII belongs to a token and to no
symbol. **`Comparison`**: `kr-external-eval` with the chains of the
exported session in one store, the adapter as a process that may end in any
way, and the report.

## Runs

| Run | Question | Bounds |
| --- | --- | --- |
| `store` | Call by call: do the log, the full-text index and the links tell what `memories` tells, is what is invalid frozen, and does the store implement its two abstractions? Statement by statement: does each call act as a whole or not at all, and is the write lock always given back? | 2 memories, 2 contents that share an entity, 4 events, one access, weights up to 1; 2 processes on 2 memories in any state, 3 plans of up to two calls, one kill or power loss |
| `backfill` | Can two concurrent runs and a client lose a memory from the index, exceed `--max`, or make a vector stale in any other way than by overtaking? No | 2 memories, 2 contents, 2 workers, batch 2, `--max` 3 |
| `live` | Does a backfill end and reach every pending memory? Is every request answered unless its server ends? | 3 memories, 1 worker, batch 1; 1 client, 3 lines of every kind, pipes of 2, one fault |
| `executor` | Is association mutual, and is each archive reported once, with two processes? Does a merge that dies half way lose an entity? Does the Hebbian algorithm plan each edge once, with its reverse? | 3 memories, 2 processes; 5 events, 2 plans, deltas 1 and 2, one fault; 6 events, 3 plans of one process, one fault; every list of up to 2 events over 3 memories, `max_edges` 3 and 7 |
| `recall` | Was every hit true during the call, and in the filter? Are the accesses those handed out? Is an untouched memory missing only where a branch was full? Is no word of the lexicon and no free symbol missed, and does a text mention what its parts do? | 2 memories of two scopes with 2 contents, or 3 with one content for two places, a reranker's pool of 2, one call; every text of up to 4 pieces |
| `graph` | Can explanations be followed? Where does the order of hash maps show? Do boosters only add, and reach hidden influence? Does what a trace learns show, in its continuation and in later traces of any query? | every graph over the chosen edges of 5 memories, 2 hops, fanout 2, sums exact up to 4; three boosters; 3 traces or latent queries with 5 answers, two of which have hits of equal score; one change |
| `maintenance` | Are verdicts monotone, and what can an access between reading and archiving change? Does a merge lose text other than by a change of others or a refused update, and how unlike may a merged memory be? Do f32 sums decide anything but ties, and can evidence harm? | importances 0, 0.7, 0.8, confidences and estimates at their ends, staleness 3, 4 steps of time; 3 memories, texts of up to 3 lines, groups of 1 to 5 members, two merges, crashes anywhere, one change or busy mutation; a stream of 6 events of which 5 are looked at |
| `sessions` | Do plans change only what they name, does each group leave a survivor, do retries converge? Does the queue of the event stream implement the log? | 1 session, 2 items, 2 old and 2 new memories, 2 executions, one change or busy mutation; 2 threads, 3 recordings, capacity 2 |
| `programs` | Do answers tell what was done, also when another server was faster, and can they be counted? Which lines of a dead server may have been executed? Do command line, tools and schemas mean the same? Do chains that share a store influence each other's reports? | 2 clients with 2 lines each, pipes of one line, one fault; every request with up to two arguments besides `reinforce`; 2 chains, lists of systems of up to 3 names |
| `store_overwritten` | Is a memory ever overwritten, as the README of the repository denies? Yes | as `store` |
| `backfill_stale` | Can a vector marked done belong to an old content? Yes | 1 memory, 1 worker |
| `hebbian_default` | Are edges always planned in both directions, as RFC-015 says? No, from 7 memories on | one event of 6 or 7 memories, `max_edges` 32 |

Why the bounds are enough. The conditions of the store concern one memory at
a time, or two for an edge; four events allow add, update, invalidate and a
later call on the same memory, and the proofs cover the rest. Between
statements a snapshot becomes old through one other commit, so two
processes and plans of two calls have every case; the proofs cover the rest.
Two workers and two memories give every overlap of two batches; `--max` 3 is no
multiple of the batch. Starvation needs a memory that waits and others that
are rewritten in turns, so three. Three events over three memories add nothing
to two but time. In `executor` two plans of six updates interleave with each
other, or one with an archive of one of its memories. A recall over two
memories meets every order of writes between its queries; where there are
three they compete for two places. Five memories and seven edges have chains,
diamonds and cycles, one memory with three gains on one level, whose sum
depends on their order, and a fanout of two cuts. The thresholds of `Forgetting`, `Merging` and
`Reflecting` are the ones of the code, in exact units, and the inputs are taken
on both sides of each of them. Two clients with two lines are a race of a
request with a retry; pipes of one line fill up at once.

Scores. `Activation` computes with integers in units of `1 / One`. Products are
rounded up, since f32 keeps a small product above zero, and sums to as many
significant bits as `Exact` leaves (2 in the run, 24 in the code, with the same
rule); caps, scales and decays are chosen so that ties, caps, cuts and roundings
occur. What is claimed of it is reach, bounds and paths, not digits.
`Merging` computes the average of a group exactly and allows it to differ by two
units of 1 / 10000: the two divisions of a pair, which f32 does not cut off,
take less than 1.7 units, and f32 sums of some hundred pairs, which is a group
of thirty, are off by less than 0.3. `Reflecting` does compute digits, because
its thresholds can be met exactly.

Symmetry is used where the members are interchangeable: memories in
`backfill`, processes in `executor`, clients in `programs`, new ids in
`sessions`; never with a liveness property.

`CHECK_DEADLOCK FALSE` stands where the system may stop: nobody has to start a
backfill, a call or a plan, and the bounds end the others. `store`,
`maintenance`, `sessions` and `programs` check for deadlock: a step that
changes nothing is allowed there only where a component has ended, so a
behaviour that is stuck earlier is found.

## Fairness

- `BackfillSpec`: `WF(WorkerStep(w))`, since a run is a sequential program and
  one that is not killed takes its next step, and `WF(ClockTick)`, since time
  goes on. Starting a run and writing memories are not fair. `RunsEnd` needs
  clients to stop writing in the end, and `NoStarvation` only that the memory
  itself is left alone: others may be rewritten forever.
- `McpFairness`: `WF(ReadLine \/ Handle)`, since the server's loop reads, works
  and writes as long as the pipes allow it, `WF(ReadAnswer)` for a client that
  reads its answers, and `WF(Restart)` for one that starts a server that ended.
  Sending, dying and being busy are not fair.
- `TxnFairness`: `WF(Step(c))`, the next statement of a process that is not killed.
  It includes the busy timeout, so a call that waits for the lock ends. Kills,
  checkpoints and losses of power are not fair.

## Findings

Disagreements between the code and what the repository says of it, each shown
by a run that expects a violation; the quotations are in `PROJECT.json`.

1. `store_overwritten`: `update_content` overwrites `memories.content`, while
   the README says that memories are never overwritten. The event log does
   keep the old content (`LogReplaysMemories`).
2. `backfill_stale`: a memory rewritten while its embedding is computed is
   marked done with the vector of the old content, and no later backfill
   repairs it. `StaleOnlyIfOvertaken` shows that this is the only way.
3. `hebbian_default`: the default `max_edges` cuts an event of seven memories
   off in the middle, so some edges have no reverse.

Other places where the documents and the code, as it is modelled, differ; no
run is kept for them:

- The graph and the session booster cap the sum of all bonuses
  (`recall/graph_activation.rs:100`), so after a booster that gave more they
  take away, while `recall/booster.rs:3` says boosters add. The front ends
  register them in an order in which it does not happen (`BoostersOnlyAdd`).
- The latent query recalls its seeds through the engine, which counts accesses
  (`core/src/recall/query_latent.rs:56`), while `docs/API_SURFACE.md:75` calls it
  read-only.
- Empty, superseded or expired memories are forgotten before their importance
  is looked at (`adaptive/forget.rs:192`); RFC-014:119 protects importance.
- Memories of different kinds are merged if their texts agree
  (`adaptive/merge.rs:250`); RFC-013:133 does not.
- The edge of a reflection event (RFC-012:216) is always refused by the store,
  since its source is no memory (`store/mod.rs:370`).
- `synapse_latent_activation` advertises `auto_context` (`tools.rs:190`) and
  does not read it (`tools.rs:630`); minimum and maximum of the schemas
  (`tools.rs:63`) are not enforced (`tools.rs:325`).
- A merge archives its other members also when the update of the primary one has
  failed (`working_memory/persistent_store.rs:84`), so a busy database can lose
  their text from what is valid. `MergedTextSurvives` shows that only this and a
  change by others can.
- Symbols written next to letters outside ASCII are not found
  (`extract/mod.rs:159` keeps such letters in the token, line 133 rejects it), in
  memories as in queries: the scan of a text in Chinese without blanks misses
  them. `ExtractionIsSound` says which symbols are found.
- Some failures of an adapter end the comparison without a report
  (`eval/src/external.rs:377`); `docs/eval/EXTERNAL_COMPARISON_PLAN.md` wants
  failures recorded.

## Proofs

All safety invariants and all action properties that the passing runs check,
but for one half of `OrderHardlyShows`, are theorems, for every value of the
constants under the assumptions the component's module names (`StoreConstants`,
`RecallConstants`, ...): sets are arbitrary, bounds are natural numbers. All of it is checked by `tlapm`. TLC evaluates the
assumptions in the run of each module, and has checked each property on a run
before its proof.

| Module | Theorems about | The argument |
| --- | --- | --- |
| `StoreProofs` | `Store`: the call-by-call properties, the type invariant, `StoreNoLiveMemoryForgotten`, `IndexesFollowContent`, both refinements | the type invariant, the agreement of the tables and facts about the log are inductive together. `LogReplaysMemories` alone is not: the step that appends an event has to know that the last payload of a memory stays the last one among the old events, and that an `ADD` is possible only when no event names the memory. The refinements map each action to one of the abstract module or to a stuttering step |
| | `Hebbian`: `EdgePlansOnceEachWay`, `HebbianOnceEachWay` | the `seen` set and the plan of a prefix of the event are what a join of two shorter prefixes is (`JoinedFrom`), so each pair is new when it is planned and its reverse stands next to it |
| | `StoreExecutor`: `ExecutorImplementsStore`, `ExecutorArchivedOnce`, `ExecutorMutualEdges`, `ExecutorMergeLosesNoEntity` | processes do to the store what its own operations do (`ExecInv`), so what is proved of `Store` holds here. `MutualEdges` needs the sum of the deltas still owed in each direction (`Balanced`), that an edge without a row has no weight, and that no later mutation writes over an edge from an old copy (`OverWritten`, `NoWeightBefore`). `MergeLosesNoEntity` follows one process through its plan (`AloneInv`): the primary memory mentions all before the first other one is archived |
| `DatabaseProofs` | `Transactions`: `TransactionsAreTyped`, `TransactionsAreAtomic` (the refinement), `OnlyRivalsMakeBusy` | `TxnInv`: besides the types, what a call at a statement may rely on (`Relies`): what it read holds in its snapshot, the snapshot of a writer is the newest database, and its draft is that database after the call. So a commit is one step of `AtomicStore`, and all else stutters |
| | `Backfill`: `BackfillStaleOnlyIfOvertaken`, `BackfillKeepsLimits`, `BackfillNoLiveMemoryForgotten` | `BackfillInv`: what a worker holds is the content it fetched unless the memory was overtaken (`HeldIsCurrent`), so what it stores is fresh or overtaken. `QueueInv`: the order of `embedding_state` has each pending memory once, and a row leaves it only for one with a vector |
| `RecallProofs` | `Recall`: `RecallAnswersAreSound`, `RecallCounts` | `RecallInv` follows the copies through the call: what valid memories say now is noted (`NowIsBelieved`), a copy says what was noted (`CopiesWereTrue`), what the text branches found is cached and in the filter (`TextIsCached`), and only what is cached is fused (`HitsAreCached`) |
| | `RecallFindsTheSteady` | `SteadyInv` says of each branch that it has the memory or is full, and of the answer that each hit before it scores at least as much; what is in the first places of a ranking is counted |
| | `Extraction`: `ExtractionIsLocalAndComplete` | the recursion of `contains_word` is the question whether a word stands at or behind a place, since of two overlapping occurrences only one can be a word (`NoWordInside`); a text between blanks is a `Field`, and words, runs and bounds of a field are those of the text |
| `ForgettingProofs` | `Forgetting`: the type invariant, `ForgettingIsAlwaysMonotone` (in time, use and merit), `ForgettingLosesOnlyInWindow` | the score is monotone in each signal (`Milder`, `ScoreIs`) and the early rules do not depend on them; `ForgetInv` ties the copy to the memory |
| | `Merging`: `MergingTextSurvives`, `MergingCarriesOnlySoFar` | `MergeInv`: the rest of the plan is an end of the plan of the copies, and what it has archived is said by the primary if its update was not refused. `CarriedInv`: a group with a plan has an average that reaches the threshold but for the rounding. A pair scores 1 at most, so what a member lacks is in the pairs of the others |
| | `Reflecting`: `ReflectingRoundingOnlyAtTies`, `ReflectingNamingNeverHurts` | five roundings move a score by at most 108 units (`ScoreOfIsNear`), and a hundredth has more than a million; the window after an event has lost its first member and no other |
| `EventStreamProofs` | `EventStream`: `StreamIsTyped`, `StreamRetainsTheRecent`, `StreamImplementsReplay` | lemmas about the last elements of a sequence; `StreamInv` says that between the two steps of a recording the queue is one event short, which only the holder of the lock can see |
| | `WorkingMemory`: `WorkingMemoryOnlyTheNamedChange`, `WorkingMemoryGroupsLeaveASurvivor`, `WorkingMemoryRetriesConverge` | `WMInv`: the older memories are what some prefix of the mutations makes of those the plan began with, and a second execution on top of it ends where the first one does (`OnTheWay`) |
| `GraphProofs` | `Spreading`: `SpreadingPathsAreExplained` | `PathsInv`: each entry of frontier and sums has a path that leads over edges noted as seen |
| | `Spreading`: `SpreadingActivatesTheReached` | `ReachInv`: what the loop has passed on and what it has still to pass on covers a level of the ball about the seeds. An edge that is not followed, since it leads back along the path that was kept, leads to a memory that is activated already; and no product and no sum rounds to zero (`AddToIsNat`) |
| | `Boosters`: `BoostersKeepTheirContract`, `BoostersShowHiddenInfluence` | `BonusInv`: a bonus is within the cap of a booster that ran; `HiddenInv`: who has no bonus was crowded out (`Crowded`) |
| | `Trace`: `TraceLearnedIsPredicted`, `TraceLearningShows` | `TraceInv` keeps what the reinforcements so far have tied together (`ties`). A tied edge passes something on, so its target is reached unless the fanout is taken by edges at least as strong, and what is reached is listed unless the list is full |
| | `Comparison`: `ComparisonChainsAreIndependent`, `SpreadIsLocal` | a spread from memories that no edge leaves is the same over all graphs that agree on their edges, level by level. `ChainsInv`: the chains still to be measured have the edges they began with, since a reinforcement ties memories of one chain (`TiedFacts`) |
| `McpServerProofs` | `McpServer`: `McpIsTyped`, `McpAnswersCanBeCounted`, `McpAnswersTellTheEffect` | `McpInv`: the lines in the inbox, the line in work and the answers are in the order of sending (`InOrder`) and fit the state of the server (`Fits`). `DoubtInv`: every request is answered, before a server, or was left by one that ended (`Accounted`), and of what was left only the first was done (`LeftAlone`). `EffectInv`: the job of a server knows which of its transactions are committed, and one server forgets a memory at most once |
| | `FrontEnds`: `RequestsDoTheSame` | `FeInv`: effects and end of a front end are a function (`FeResult`) of what was asked; the tables agree command by command |
| `CollectionProofs` | picked and joined sequences, sums over finite sets, rankings, recursive functions | induction over numbers and over finite sets by least counterexamples, since the induction theorems of the library take an operator as a parameter |

Some theorems have hypotheses; the scenario in which TLC checks the property
meets each of them:

- `ExecutorMutualEdges`: the plans of the Hebbian algorithm are not cut off
  (`CallsFit`), which is finding 3.
- `ExecutorMergeLosesNoEntity`: one process merges and promotes, faults are
  only deaths, and a merged text mentions what its parts mention
  (`JoinKeepsMentions`).
- `ComparisonChainsAreIndependent`: alone, each chain scores a hit in every
  metric (`FreshHits`), which is what the session is made for; TLC evaluates it
  as an assumption of `MCPrograms`.
- `BoostersKeepTheirContract`: no booster with a cap runs after one that may
  exceed it (`CapsNeverFall`); the front ends' order is one of those. Without
  it the contract does not hold, as said under "Findings".

Assumptions on constants that the proofs brought to light, each true in the
code: a `forget` names one memory; what a query finds are memories with a score;
sums are held exactly up to 2 at least; the memories of a session are memories
of the store; the content of an absent memory is no content; texts have
finitely many tokens; a call sees finitely many memories, and there are finitely
many processes; caps are positive; deltas and `max_edges` are natural numbers;
and, of the extractor's lexicon, that libraries and concepts are without blanks
and overlap themselves only behind a word byte (`OverlapsInside`), without which
`contains_word` would miss words.

What failed attempts showed. The verdict of the reflection rule and the
defaults of a request were written with overlapping `CASE`s, of which TLA+
chooses any and TLC the first: they are `IF`s now. The lexicon has "c++", so `+`
is a character class of its own in `Extraction`; it fell under "everything
else" before, and a word of the lexicon could have had a blank.
`SameRequestSameWork` said less of unreadable arguments than its comment did.
That a query traced again keeps its dominant memory does not hold: hits of equal
score change places from one recall to the next. Nor does it hold that the order
of the frontier never shows: rounded sums differ, and so can the path that is
kept, and through it which edges are not followed back; only what is activated
is the same in all orders, and on three levels or more the amounts may differ
by more than rounding, since another path was kept.

Forms the prover forced. `SelectSeq` is built into `tlapm` and cannot be
expanded, and the order that `SetToSortSeq` takes is an operator, so
**`Subsequences`** picks from sequences by sets of places, and ranks sets by sets
of pairs. `@@` and `^` are unknown to it: `FrontEnds` has `With`, `Boosters` has
`DecayPower`. No module declares a recursive operator; recursion is written as
recursive functions.

The type invariants of these modules are theorems and so are not checked by
runs again. The same holds for theorems whose property no run states by
itself: `StoreNoLiveMemoryForgotten`, `StreamRetainsTheRecent` (for every
capacity, 0 included, where the stream keeps nothing), `OnlyRivalsMakeBusy`,
and `SpreadingActivatesTheReached` and `TraceLearnedIsPredicted`, each one half of
a property.

Model-checked only. Liveness under fairness (`RunsEnd`, `NoStarvation`,
`EveryCallIsAnswered`, `LocksAreReleased`) is out of the prover's reach. The bounds
of `OrderShowsInRoundingOnly`, how far the order of the frontier shows in the
sums, are checked on the graphs of the run `graph` and not proved.

## Not modelled

- Policies: recommendations and their statistics are data that no other code
  reads; nothing in the program calls the dispatcher.
- Embedding and rerank models: a call into an ONNX runtime, a function of its
  input. Configuration, types, printing.
- In `Store integration` and the algorithms: executors and sinks that keep
  nothing or everything (no-op, Kuzu, in-memory recorders).
- `WorkingMemoryBuffer::link`: edges inside a session that only the caller
  reads.
- The in-process benchmarks (`eval/src/algorithms.rs`, `harness.rs`,
  `metrics.rs`): they time and score single calls on fixed data.
- Rounding in `Boosters`, `Trace` and `Comparison`: a spread is the exact sum
  there. What the first two claim rests on what is activated, and on an order of
  the activations, whichever it is; the equal reports of `ChainsAreIndependent`
  are equal up to the rounding that `Spreading` shows.
- In `Extraction`, the case of letters outside ASCII, of which two have an ASCII
  lower case; such a letter counts as two bytes, and may have up to four.
- Failures of reads in `McpServer`: a reader of a write-ahead log is not
  blocked by writers. `Recall` does let any step fail.
- `MCExecutor` assumes that a merged text mentions what its parts
  mention; the extractor does so (`ExtractionIsSound`) except where a merge
  drops a content that differs from another one only in upper and lower case.
