# A verification project for dps.lol

dps.lol is a damage lab for League of Legends: a Next.js application over Postgres and an S3
bucket, with scripts that ingest ranked matches, an engine kernel for event-driven combat
simulation, and two web workers that simulate and rank item builds for the page.

This directory holds TLA+ modules translated from its source, TLC configurations that check
them on small instances, and theorems that TLAPS checks for every value of the constants.
Paths below are relative to the source tree (`src/domain/...` is the application's own `src`
directory, `scripts/...` its scripts).

Contents

1. The system: components, their state, how they interact, what makes them hard
2. The modules, and how each corresponds to the code
3. What the runs check, with which bounds
4. Fairness
5. What is proved, from what, and along which argument
6. Disagreements between the code and its documentation
7. What is not modelled
8. Plan

## 1. The system

| component | state it keeps | operations | what is hard about it | what makes it correct |
|---|---|---|---|---|
| Event queue, `domain/engine/kernel/event-queue.ts` | pending events, the clock, the last and the current sequence, the next one, the ledger of allocated ids | `scheduleBatch`, `schedule`, `cancel`, `replace`, `step`, `snapshot` and rebuilding from it | several operations work on trial copies and copy fields back; ordering of ties; a refused command must leave no trace | causes before effects, chronological dispatch, canonical ties, ids used once, always rebuildable |
| Timer port, `domain/engine/kernel/timer-port.ts` | none of its own: a queue, and contexts in the hands of consumers | `schedule` (also in the place of another timer), `cancel`, `peek`, each with a context | a context may be of any age when it is used | only the frontier itself is accepted, and it always is |
| Entity registry, `domain/engine/kernel/entities.ts` | active entities, a revision for each, the ledger of retired ids | `spawn`, `despawn`, `apply` (spawn, despawn, death, revive, transform) | references between entities of three kinds; identity over time | no dangling reference or cycle of owners, ids never reused, id and revision name one state |
| Kernel session, `domain/engine/kernel/session.ts` | queue, registry, trace, pending actions, status | `create`, `resume`, `step(budget)`, `snapshot` | one step calls out to a dispatcher and to a lifecycle port and may fail at each call | what the port has published equals what the trace retains; actions settled by the fate of their event; the session's own checks never stop it |
| Lifecycle batch, `domain/contracts/ports.ts` | the port's stage, the open and failed flags | `beginBatch`, `apply`, `commit`, `rollback` inside `withLifecycleBatch` | callbacks that swallow exceptions or keep the stage; ports that throw | all or nothing, and nothing that was not validated |
| Archive pipeline, `storage/*.ts`, `scripts/ingest.ts`, `scripts/reconcile-archive.ts`, `scripts/rebuild-from-archives.ts`; the audit's counts, `scripts/storage-audit.ts` | the bucket; `archive_objects`, `matches`, `archive_orphans` | intent, put, verify, accept; list, compare, condemn, repair, register; rebuild | several processes over two stores without a common transaction; crashes at every await; data read long before it is used | a match is accepted once and with bytes that are archived; the audit's counts are zero; recovery |
| Ingestion runs, `scripts/ingest.ts`, `ingestion/limits.ts` | the run's row, its counters, the request budget | discover, select, fetch with retries, accept, checkpoint, finish | ceilings met in the middle of a retry; kills between acceptance and checkpoint; runs that follow or overlap each other | ceilings are never exceeded; the row is at most one match behind |
| Static sources, `scripts/sync-static.ts` | their objects, their manifests, the patch's version, champions and items | fetch, two intents, two uploads at once, one transaction; marking both failed | one upload fails while the other goes on; runs of different versions; a reconciliation beside them | a row of champions or items always derives from an archived source, and a patch names a version that is whole |
| Database client, `db/client.ts` | the pool, and per call its attempts | `query`, `transaction`, `closeDatabase` | wake-up retries; a commit whose answer is lost; closing while calls are under way | a write is never replayed; every connection is given back |
| Pinned source sets, `domain/rulesets/source-validation.ts`, `ddragon-source-catalog.ts` | a document and retained bytes that others may change | build, reread, compare, compile | awaits between the comparisons of one set | a catalog is compiled from what was built, or not at all |
| Optimizer search, `workers/optimizer.worker.ts`, `workers/optimizer-protocol.ts`, `app/page.tsx` | the page's token, search and result; the worker's active run, suspended runs and cache; two message channels | search, cancel, edit, messages in both directions, chunked evaluation | messages of abandoned searches; yields between chunks; error events | the shown ranking is complete and of the shown inputs; only complete rankings are cached; a search ends |
| Optimizer candidates and ranking, `domain/optimizer.ts`, `domain/optimizer-engine.ts` | none: pure functions of the options and of what the simulator found | validate a build, generate all legal builds, summarize a build over the targets, compare, rank | limits on slots, boots and gold; duplicates and order of items; comparison within an epsilon; targets that are not killed | the generator lists exactly what the validator accepts; the ranking does not depend on the order of evaluation; no build gains by leaving a target alive |
| Lab runs, `app/page.tsx`, `workers/simulation.worker.ts` | inputs, timer, runs under way, the one-entry cohort cache, the shown result | edit, timer, run, champion filter, target click, cohort and worker answers, failures | runs overlap and are not cancelled | a comparison is shown with its cohort; never a blank page at rest; the comparison belongs to the inputs shown |
| Lab inputs, `app/page.tsx`, `components/lab/{controls,head-to-head,optimizer}.tsx`, `domain/skills.ts` | level, ranks, opener, two builds, slots of the search, the progression cache | every edit of the panels, change of level, load, failure, reset | answers of other levels; defaults that follow and edits that stay | an edit is not taken back; what is not edited follows the level shown; builds stay well-formed |
| Scenario editor, `components/lab/state/scenario-editor.ts`, `components/lab/scenario/search-settings-state.ts` | defaults, overrides, revision, pending request, the typed amount | edit, reset, request defaults, receive or refuse them | late, repeated and reordered answers; text that outlives other edits | only the answer to the latest act is applied; the serialized amount is the shown one |
| Simulator of Yunara, `domain/champions/yunara.ts` | cooldowns, timers and stacks of abilities and items, the target's health | scripted actions, attacks that continue, ticks that are due | timers that end between actions; comparison of rounded sums with and without a tolerance | every tick happens once; cooldowns are kept; the fight ends |
| Comparison, `domain/simulator.ts`, `domain/compare-view.ts` | none | outcome of a target, weights, headline, verdict of a window, slices | censored targets; shares at one half | the panels do not contradict each other |
| Figures of the database, `data/level-targets.ts`, `data/realistic-targets.ts`, `data/progression.ts`, `data/skill-progression.ts`, `domain/level-cohort.ts`, `domain/progression.ts` | the stored rows, of two schemas | choice of levels or phase, cut, weights; votes, patterns, recommendations; ranks of a level | thresholds, fallbacks between schemas, limits that cut a match's rows | no match weighs more than one; what is recommended was observed; ranks are legal |
| Replay of a match, `ingestion/compact-projection.ts`, `inventory.ts`, `completed-items.ts` | the inventory while events are replayed | purchase, sale, undo, destruction, frames | undo of an undo, frames without the player, the order of events and frames | the inventory of a frame is what the player held |

How they interact. The session drives a working copy of the queue and of the registry and
stages their transitions with a lifecycle port; consumers reach the queue through the timer
port. Ingest, sync-static, reconcile and rebuild share the bucket and the database and know
nothing of each other; each reaches Postgres through the database client. The page owns two
workers and talks to each over a pair of first-in-first-out channels; both the comparison and
the search get their target cohort from the cohort route first, and the inputs of both follow
the progression route until they are edited. The scenario editor is a reducer that the page's
panels dispatch to; answers to default requests come from outside. Within the simulation worker
the simulator fights each target and the comparison summarizes the fights.

The remaining components (migrations, login and session tokens, parsing in the read routes,
interface components, contract schemas, the records compiled from rulesets) are in section 7,
with the reason why each is modelled in part or not at all. `PROJECT.json` lists the places
where the code is hard to test and the properties aimed at each.

## 2. The modules

A module whose name starts with MC gives small values to the constants of the modules it
extends and has a `.cfg` beside it; a module whose name ends in Proofs holds theorems. A
definition `X_Slip` before a definition `X` is a variant of it that a plausible mistake in the
code would give; no specification uses it. `PROJECT.json` names the source lines of each
definition.

`Ordering` is shared by models of several parts: the elements of a finite set of numbers in
ascending order (`Ascending`), what a sequence has at them (`At`), and a sequence sorted by a
comparison of its own, by insertion (`SortedBy`). Each is defined by what it puts in each place,
which is also what the proofs need of it.

### The kernel

`QueueOps` is the value of a queue and each method as an operator: the condition under which
the method does not throw (`BatchAccepted`, `CancelAccepted`, `ReplaceAccepted`,
`DispatchAccepted`) and the queue it leaves behind (`AllocateBatch`, `CancelBatch`,
`ReplaceEvent`, `Pop`, `DispatchEvent`). The sorted array of the code is a function from event
ids to events; "the first entry" is the least one by (time, sequence). `Restorable` is what the
snapshot schema and the constructor demand before a queue is rebuilt. Payloads are left out:
nothing in the queue reads them.

`EventQueue` drives one queue: `ScheduleBatch`, `Schedule`, `Cancel`, `Replace`, and
`StepEvent`, one turn of the loop in `step`, with any cancellations and any new events that the
dispatched event may ask for. A call that throws changes nothing and is no step. `executed` and
`cancelled` are history.

`CausalSchedule` is the abstract specification of the queue: which events wait, which ran,
which were withdrawn, and the time. It has no sequence numbers, phases or ledger. `EventQueue`
implements it (`CausalOrder`).

`TimerPort` extends `EventQueue` with a consumer that holds a context (`HandOut`) while the
kernel goes on (`KernelTurn`), and with the port's calls, each guarded by `ContextMatches`
(`assertContext`).

`RegistryOps` and `EntityRegistry` do the same for the registry: `Spawn`, `Despawn`, `Replace`
and `Apply` with their conditions, and a machine that calls them. An entity is kept as what
others see of it: whether it is alive, who owns it, which entities its copied abilities and
buffs name, and when its first buff runs out. Those of abilities and of buffs are one set, so
that a despawn that looked at only one of these two kinds would not be told apart.

`KernelSession` composes the two. The code is synchronous but calls out in the middle of a
step, so a step is cut there: `BeginStep`, one `Dispatch` per event, `FinishStep`, and
`FailStep` for every way out by an exception. `SnapshotAccepted` is the conjunction of the
schema's conditions that relate parts of the state; the conditions on single documents are left
out. A resumed run starts with an executed input and an action that waits for an event.

`AtomicBatch` says what a lifecycle batch promises, `LifecycleBatch` is `withLifecycleBatch`
over an arbitrary port and callback, and implements it (`AllOrNothing`). The port is assumed to
publish everything or to throw and publish nothing.

### The archive

`ArchivePipeline` has the bucket, the three tables as far as decisions read them, any number
of ingest runs, one reconciliation and one rebuild. An action is what a script does between two
awaits; a transaction is one action. Every script may stop at every await. A source is the
bytes of one fetch of a match, identified with its key (the key contains the checksum). Two
fetches of one match may differ, which is why the manifest's descriptor can be in conflict.
`markArchiveFailed` writes by the id of the row whatever it says by then, as in the code; the
reconciliation keeps the statuses it read at its start. The three counts of the storage audit
that compare tables are `AcceptedMissingManifest`, `PointerMismatches` and
`ManifestMissingMatch`.

`ArchivedMatches` is the abstract archive: bytes are stored, and a match without a source is
accepted with stored bytes of its own, for ever. `ArchivePipeline` implements it
(`AcceptedOnce`).

`IngestRuns` is the other half of `scripts/ingest.ts`: the budget left by the rows of earlier
runs, discovery, the loop over the selected matches, `riotJson`'s attempts, the boundary check,
checkpoints, and the three ways a run ends. What archiving does is one put and one acceptance
here; what a match adds to the bucket and to Postgres is a constant of the match.

`StaticSync` is `scripts/sync-static.ts`: `FetchStatic`, `CreateStaticIntent` for the champions
and then the items, two uploads (`HeadStatic`, `PutStatic`, `VerifyStatic`, `UploadFails`) that
go on at the same time, `MarkStaticFailed` of both manifests after the first failure while the
other upload may go on, and `WriteRows`, the transaction. Beside the runs a reconciliation
follows one static manifest at a time (`ReadStatic`, `CheckStatic`, `WriteStatic`), with what it
had read when it writes.

`DatabaseClient` is `query` and `transaction` over a pool of the pg library, which is external:
it hands out a bounded number of connections, and has ended when all are back. `readyClient`'s
probes and pauses, the callback, COMMIT, ROLLBACK and `closeDatabase` are actions; the
connection may be lost before or after a statement took effect.

`SourceSets` builds a pinned set, keeps it as a document, and later reads document and bytes
again and compares them artifact by artifact; between two comparisons their owner may change
the bytes. Hashes are what they hash; ids are numbers, in whose order the document lists its
artifacts.

### The page

`OptimizerSearch` has the page's side of a search, both channels and the worker. The effect
that cancels on changed inputs runs before the next render (`InputEffect`). What the worker
finds is represented by its inputs and the number of chunks it comes from, so that a ranking of
other inputs or of a part of the candidates can be told from the right one. The context hash is
assumed to tell the inputs of a session apart (`HashAssumption`): with two contexts of one hash
(it has 32 bits, `domain/optimizer-engine.ts:195`) the cache would answer with the wrong
ranking, which no step of the protocol could notice.

`LegalBuilds` is `validateBuild` as the set of its reasons and `generateLegalBuilds` as the code
goes: `CanGenerate` refuses first, `Visit` is the recursion over indices, as a recursive function,
then each choice is put in order and validated. Items are their ids; names are left out.
`BuildRanking` is the summary, the comparison as the list of its keys, of which the first that is
not zero decides, and the first n of the order. Its numbers are integers in units of the epsilon, so
that rounding to six places is to a multiple of 1000 and a difference of 1 counts as none; the
simulator is a row of damage and TTK for each target. Neither has state. Their properties are
constant formulas, and `OptimizerSearch` puts them where a search relies on them: while it runs
(`SearchExhaustive`), and while its ranking is shown (`ShownRanking`). `RowsAssumption` excludes a
target that weighs less than a millionth of the whole: it would be rounded out of the coverage (to
six places), and a build could leave it alive for the sake of a shorter mean TTK. A target weighs
one over the rows of its match, and a cohort has a thousand targets at most, so that the routes give
none so light.

`LabRun` has the runs of the comparison. Each keeps the settings of the render it was created
in, the selected target of that render, and how many answers it still needs. The timer's effect
does not depend on the committed champion filter, as in the code.

`LabInputs` has what a run is given: level, ranks, opener, builds and search slots, with each
edit the panels offer, as the panels restrict it (`slotEditorModel` and the item picker decide
which slots can be written with what), and the progression of a level that is loaded, answered
late, cached, applied or refused. `Skills` is the arithmetic of skill ranks that it, the
timelines below and the page's check of ranks share.

`ScenarioEditor` has the draft reducer with the search settings over it. `sent` holds every
request ever issued, and an answer to any of them may arrive at any time and any number of
times. `acts` and `gap` are history: how often the user acted, and how many acts lay between a
request and the answer that was applied to it. `Absent` is null and undefined for these modules.

### The figures

`Yunara` is one fight against one target. Times are units on a grid; a sum of two times may
come out a little late, which is what doubles do, so that comparisons with the tolerance of the
code and comparisons without it can be told apart. Each source of damage has a constant raw
damage; the formulas are left out, the control is not. Each ability of the script is an action
(`CastR`, `CastQ`, `CastW`, `CastE`, `AA`), each turn of the loop after it is `ContinueAuto`, and
both share `Attack`; ticks that are due (`Due`) are landed one by one in their order (`Landed`)
where the code drains them, and the end of R has its effects where the code applies them.
`casts` is history.

`Comparison` summarizes fights over a cohort: outcome of each target (`Compare`, with targets
that neither or only one build kills), weights, headline, median, the verdict of a window,
slices and the heavy third. Differences are fractions. Groups of rows are sets of places in the
list, so that each sum is over one sequence of weights.

`TargetCohort` is the choice of rows in SQL and its weights: levels widen until there are enough
matches, the old schema counts only while the new one has nothing, a match is cut to a limit. An
answer takes at least two queries, awaited one after the other and in no transaction
(`data/level-targets.ts:51` and 130, `data/realistic-targets.ts:88` and 126), and each is an action:
`CountLevels`, or `AskPhase` and a `CountPhase` for each phase tried, and then `Fetch`, unless a
query throws (`QueryFails`). Ingestion stores rows, or stores them again, between any two of them
(`StoreRow`). `Answers` is what the route says if the last query is made now. `Progression` is votes
of observed inventories and what a level recommends from them; the new schema has one frame for each
match, participant and level, and a later write takes the place of the earlier (`ObserveFrame`),
while the old one has a frame for each time. `SkillTimeline` reads skill points from archived
timelines that a small game produces, and votes on the ranks of a level. `MatchReplay` lets a small
game of purchases, sales and undos produce a timeline, and reconstructs the inventory from it; what
it finds is compared with what the player held. `Replay` is a recursive function, the inventory
after each event, and a frame is given the one after the last event that is not later (`Until`).

## 3. The runs

A run may have several parts, one in each behaviour: a part that moves leaves the variables of
the others in an initial state. Parts share a run, never a behaviour, so that they say nothing
of each other; where components do interact, one module composes them. A type invariant is
not among the properties of a run: it is proved (section 5), or TLC has been asked once whether
it holds under the bounds below, and it does.
Deadlock is checked except where the system may stop: a queue whose ids are used up, a registry
whose ids are all retired, a session that is incomplete, runs that have ended, an editor at its
largest revision, a match of full length.

| run | question | bounds, and why they are enough |
|---|---|---|
| `kernel_parts`, queue | is every reachable queue rebuildable (`Restorability`), are ties ordered by phase and id whoever scheduled them (`CanonicalTies`), is each id used once (`LedgerPartition`), is dispatch chronological (`Chronological`) and causal (`CausalOrder`)? | four ids, two times, two phases, both the default and the reversed phase order, batches of at most two with one cause each. Two events in a batch, one waiting and one dispatched are what an ordering mistake needs; the limits on sequence numbers and on work are both met. The theorems lift all of them to any values |
| `kernel_parts`, timers | is only the frontier itself accepted as a context (`OnlyCurrentContexts`)? | the same queue; a context may be as old as the queue, with events that were allocated, cancelled or dispatched since, at one time or two. Lifted by a theorem |
| `kernel_parts`, registry | is every reachable registry rebuildable (`Rebuildable`), does an id with its revision name one state (`StateVersioned`)? | three ids, 18 forms (alive or not, three owners, three sets of references), revisions up to 2; a chain of owners of length three and a reference beside it occur. Lifted by theorems |
| `kernel_parts`, batches | is a batch atomic (`AllOrNothing`), and is only validated work published (`OnlyValidated`)? | two transitions, three in a batch, four published: two successive batches and a kept stage occur. Lifted by theorems |
| `limited_runs`, session | does the port's publication equal the retained trace (`PublishedOnce`); are waiting actions settled by their event (`PendingOutcome`); can its own checks throw away accepted work or wedge a session (`NeverWedged`)? | five event ids, two entities, steps of one or two events, fresh and resumed starts, three payload tables that spawn, kill and remove; a dispatch may cancel anything and schedule up to two. Exhaustion of the limit, cancellation of the awaited event and failure in mid-step all occur. Lifted by theorems |
| `archive_pipeline` | do the audit's counts stay zero (`AuditClean`), is a verified manifest's object sound unless lost later (`VerifiedSound`), is an uploaded object ever taken for an orphan (`NoFalseOrphans`), is a match accepted once (`AcceptedOnce`)? | one match with two different fetches, two ingest runs (interchangeable, hence the symmetry), a reconciliation, a rebuild, any initial bucket, and one trouble (`OneTrouble`): a loss in the bucket, or a reconciliation that is cut off or misreads a download. Two writers and one match are what a conflict needs: rows of different matches do not meet. All four are lifted by theorems |
| `limited_runs`, ingest | do puts and acceptances stay within the three ceilings, runs that do not overlap within the global one, and is the row at most one match behind and exact after a regular end (`WithinCeilings`)? | two interchangeable runs, three matches of different sizes such that two of them meet each of the three ceilings, two attempts a call instead of five, six requests a run and eight in all with a reserve of one. Lifted by a theorem |
| `recovery`, pipeline | does every manifest with a sound object end verified with its match accepted (`Recovered`)? | one source, two ingest runs, two faults of a reconciliation (cut off, or a download that fails); no symmetry |
| `recovery`, versions, overlap, repair | does every row of champions and items derive from an archived source, is a verified static manifest's object sound, and is the version a patch names whole (`StaticArchived`)? | two versions one after the other with a damaged object, two runs of one version at once with different items, two runs beside a reconciliation. All at once was explored too, but takes longer than a run should; the theorem covers any number of runs, versions and sources at once |
| `recovery`, client | is a write never replayed, is every connection given back (`WrittenOnce`)? | two queries and a transaction over one connection, two pauses instead of four, two pools: a call waits for another, pauses over a close, and asks the second pool. Lifted by a theorem |
| `recovery`, sources | is a catalog compiled from what was built or not at all, and what was left alone accepted (`CompiledAsBuilt`)? | one artifact or two, bytes of two kinds, ids that repeat, are missing or too many, paths that clash. Lifted by a theorem |
| `archive_orphans` | expected to fail, see section 6 | two sources, one ingest run |
| `optimizer_search` | is the shown ranking complete and of the shown inputs, and is only what is complete cached (`ResultCurrent`), is the worker told of every search given up (`Supervised`), does a search end (`SearchEnds`)? Is what a search goes through all of the legal builds (`SearchExhaustive`), and is the shown ranking one order, whatever the order of evaluation, that rewards no build for what it leaves alive (`ShownRanking`)? | two inputs, two chunks a search, three searches: an abandoned one may be suspended while a second was replaced by a third, and the cache may be hit. All item lists of up to three out of five ids (two boots, one item not trusted, one id in no catalog, repetitions) under 10368 options, in which every reason of the validator occurs and every refusal of the generator but those of negative gold; three builds over two targets of different weight, with damage on both sides of an epsilon and of a rounding boundary, and targets killed early, late or not. Theorems lift all but `SearchEnds` |
| `lab_page`, runs | is a comparison shown with the cohort it was computed on (`DatasetMatches`), is a lab at rest never blank (`NeverBlank`)? | four main inputs (plain, with another cohort key, comparing a build with itself, with illegal ranks), one champion filter, three runs, one request after the main one. Lifted by theorems |
| `lab_page`, inputs | do edits stay and defaults follow the level shown (`InputsFollow`), do builds stay well-formed (`BuildsWellFormed`)? | three acts of the user among the answers for levels below, at and above the first rank of R, one with illegal observed ranks, one without items; six items, one of them boots. An act, an answer of another level and an act that it might undo are three. Theorems lift both |
| `lab_page`, editor | is an answer applied only if nothing was done since its request (`OnlyCurrentAnswers`), is the serialized amount the shown one (`SerializedAsShown`)? | one plain field beside the search settings, three amounts of which one is no whole number, a text that is a number and one that is not, three revisions and three requests. Lifted by theorems |
| `lab_shown` | expected to fail, see section 6 | as the runs of `lab_page` |
| `figures`, fight | does each W tick once (`LingerOnce`), are cooldowns and barrages kept (`CooldownsHeld`)? | ten fights that give every ability, timer and item its turn: short ones with all actions, long ones with the few that matter, with and without attacks that go on, a target that dies, a window that ends in the script or just before the script does. Theorems lift both |
| `figures`, cohort | does no match weigh more than one, and exactly one if it was not cut, and does the answer say when more rows were cut than came in after they were counted (`CohortBalanced`)? | every collection of four rows out of nine forms, stored before, between and after the queries of an answer; thresholds and limits of two instead of twenty, with a filter and without; one level asked for, with rows at it and on both sides of the widening. Rows cut with a warning, rows cut without one after more came in, counts of the legacy schema before rows of the compact one, and a pool that is empty when it is fetched all occur. Lifted by a theorem |
| `figures`, progression | has each player of a match one vote at a level, and was what is recommended observed near the level (`RecommendedObserved`)? | up to five frames out of eleven forms: both schemas, unverified, unsupported items, levels within and outside the widening; lists of two instead of eight. Lifted by a theorem |
| `figures`, replay | is what is reconstructed what the player held, and is every target an enemy of its frame (`ProjectionExact`)? | three events and two frames of a player who starts with two items, two others in the frames or only one. Lifted by a theorem |
| `figures`, skills | are the ranks of a level legal, and do higher levels of a match extend lower ones (`SkillsLegal`)? | two matches of two frames, two skills, a point of somebody else. Lifted by a theorem |
| `figures`, comparison | do headline, verdict, slices, heavy third and median agree, also when the builds change sides (`VerdictsAgree`)? | up to four targets out of three (two of one champion, one without a weight), four results of fights: one kills, both, neither with either ahead. Lifted by a theorem |
| `yunara_ends`, `cohort_weights`, `skill_levels` | expected to fail, see section 6 | a fight of six seconds at the cap of attack speed; the cohort and the skills of `figures` |

What the properties except, because the code promises no more. `Supervised`: searches given up
on an error event of the worker; the page does not send a cancellation then, and the worker
works on until the next request. `WithinCeilings`, for the global ceiling: runs that overlap
(what is left is read before the run's own row exists) and what a killed run asked after its
last checkpoint. `VerifiedSound`: objects the bucket lost after they were there. `WrittenOnce`:
a call that threw because the connection was lost under its SQL has written at most once, not
never. `InputsFollow`: ranks are clipped when a level is passed where they are illegal.
`CohortBalanced`: as many rows as came in between the two queries may be cut without a word,
since the counts are older than the rows (section 6).
`CooldownsHeld`, for the attacks of a barrage: a script that ends less than the tolerance after the
window (`Overshot`, section 6).

Constants in place of numbers of the code: thresholds of twenty are two, five attempts are two,
four pauses two, levels go up to two where a match is played. Each is a constant of its module,
and nothing but the size of a case depends on it. The limits on numbers (`MaxSafeInteger`,
`EventLimit`) are small so that they are met.

## 4. Fairness

Three properties need fairness; everything else is safety.

`Recovered` (`ArchivePipeline`, `Operated`, which `SpecRecovery` of `MCRecovery` assumes): the
operator runs the repairing reconciliation again and again (strong fairness of
`StartReconcile(TRUE)`, since a run of the plain reconciliation may be under way meanwhile), and a
run that has started takes its next step (weak fairness of `Reconcile`). The documentation
prescribes exactly this loop. Interruptions and failing downloads are bounded by `MaxFaults`:
without a bound every reconciliation could be cut off and nothing could be promised. Nothing is
assumed of ingest or rebuild; they may stop anywhere.

`SearchEnds` (`OptimizerSearch`, `LiveSpec`): messages are delivered, both event loops go on,
effects of a render run, a cohort request settles one way or the other. Nothing is assumed of the
user. The browser gives these guarantees; the worker yields between chunks by a timer, so its
event loop goes on.

`SimulationEnds` (`Yunara`), which is expected to fail, is checked under weak fairness of the
fight: a loop that is running takes its next turn.

## 5. Proofs

All theorems rest only on the named assumptions of the constants (for example `IdsAssumption`:
event ids are numbers, which stands for the total order that the code puts strings in).

Eight modules hold them: `KernelOpsProofs` (lemmas about the operators of `QueueOps` and
`RegistryOps`), `KernelPartsProofs` (queue, timer port, registry, batches), `KernelSessionProofs`,
`ArchivePipelineProofs` (the pipeline, the target cohort, the projection of a match),
`StorageProofs` (static sources, database client, ingestion runs, source sets),
`OptimizerSearchProofs` (the search, its candidates and ranking, the comparison of two builds, the
fight), `LabPageProofs`
(comparison runs, editor, inputs, progression, skill ranks) and `InductionLemmas`.

`InductionLemmas`. The induction theorems of the library take an operator as a parameter, which
the provers cannot instantiate. What the proofs need of induction is put into sets instead: a
non-empty set of naturals has a least element (`LeastNatural`), and a set of subsets of a finite
set that has the empty one, and with a set the set with one more element, has them all
(`ByElements`). From these come the equations of a sum over a finite set (`SumAtAny`,
`SumOneMore`, `SumWithOther`): the sum that the community modules define picks its elements by
CHOOSE, and these say that the choice does not matter. Two more facts are got in the same way:
the n-th element of a finite set of numbers exists and rises with n (`NthPlace`), so that a
filtered or sorted sequence is known place by place (`AtPlaces`), and a function that is defined
by recursion over the naturals has the equations of its definition (`Iterated`, and `Recursion`
with `SameRecursion` where a step depends on its number). `Replay`, `Landed`, `Fifths` and `Visit` are
reasoned about by the last. `InsertionSorts` says of `SortedBy`, for a transitive comparison in
which the elements are comparable, that it keeps the elements and leaves them in order, and
`OneOrder` that a strict order leaves one sequence of them only.

**The queue** (`KernelPartsProofs`). `TypeCorrect`, `AlwaysRestorable`, `IdsUsedOnce`,
`AlwaysChronological`, `AlwaysCanonicalTies`, `ImplementsSchedule`. `Restorability` alone is not
inductive: it must know that the ledger is finite, that a draft's place in its batch is below the
size of the batch and that different drafts have different places (lemma `Places`, from
`PrecedesOrder`: the canonical order of a batch is a strict total order), so that the numbers of a
batch are distinct and exhaust `next .. next + n - 1`. `QueueInv` holds all that of one queue;
`AllocateInv`, `CancelInv` and `PopInv` show that the three primitive operations preserve it, and
every action is a composition of them. `IInv` adds that the ledger is the disjoint union of
pending, executed and cancelled ids. Chronology and the refinement are action properties: they
are shown of every step that starts in `IInv`, from `StepEffect`, which says what the parts of a
dispatch do together. `CanonicalTies` is inductive beside `IInv` because every step, a
replacement included, takes events away and then adds one batch at times that no other
event waits for (`LossThenBatch`).

**The timer port** (`KernelPartsProofs`). `ContextsAreCurrent`. Every step of the port or of the
kernel beside it is a step of the queue (`PortStepIsQueueStep`), so that `IInv` carries over.
`ContextInv` says how far the queue may have come since a context was handed out: its next number
never falls, its frontier never goes back, and whatever allocates or dispatches makes one of them
grow, so that agreement with both means that nothing happened. That `peek` may answer then is
`Restorable`: what waits is later than the frontier.

**The registry** (`KernelPartsProofs`). `RegistryTyped`, `AlwaysRebuildable`, `AlwaysVersioned`,
for any number of entities. `RegistryInv` is consistency of the references, absence of cycles
(every non-empty set of entities has one whose owner is outside it) and disjointness of active
and retired ids. The one step that is not immediate is despawning, in lemma `WithoutConsistent`:
no cycle can appear when an entity that nobody names is taken away.

**Batches** (`KernelPartsProofs`). `BatchTyped`, `BatchesAreAtomic`, `AlwaysOnlyValidated`. The
invariant says that as long as no `apply` has failed, what the port has staged is what the
callback was told, that only such a batch commits, and that nothing is told outside a batch; that
is what the refinement mapping needs, since after a failing `apply` the two may differ.

**The session** (`KernelSessionProofs`). `SessionTyped`, `AlwaysPublishedOnce`, `OutcomesMatch`,
`SessionNeverWedged`, for any events, entities, payloads, budgets and starts, fresh or resumed.
`SessionInv` has two halves. `Retained`: what the session keeps is a sound queue and registry (the
invariants above), passes the snapshot's checks, and has been published as far as the trace goes.
`Underway`: what a step has done so far is sound by itself after every dispatch. Its trace lies
behind the frontier of its working queue (`Behind`), every entity of the trace is accounted for in
the registry, each event that waited at the start of the step waits still, ran or was cancelled,
and only one of these (`Fates`), and what is staged with the port is what the trace says beyond
what is published. Without `Underway` nothing could be said when a step finishes, since the checks
at its end are about all its dispatches together. A resumed run starts as in the model, from a
snapshot that a session left (one executed input, an action that waits for an event, another event
beside it), so its events lie within the horizon; the schema does not ask for that by itself, and
the theorems need it.

**The archive** (`ArchivePipelineProofs`). `PipelineTyped`, `AlwaysAuditClean`,
`AlwaysVerifiedSound`, `NeverFalseOrphans`, `ImplementsArchivedMatches`, for any number of sources,
matches and ingest runs. The argument is rely and guarantee: `Grows` says what no step of anybody
undoes (the source of a manifest, the source of an accepted match, what has been in the archive).
Each script's invariant is a statement about what it holds at each await that `Grows` preserves
(`IngestRemembers`, `ReconcileRemembers`, `RebuildRemembers`), and each transaction preserves the
database's invariant under what its callers know (`EnsureKeeps`, `FailKeeps`, `VerifyKeeps`,
`PersistKeeps`, `RegisterKeeps`). `SoundInv` adds which source each script has found sound before
it may write "verified"; `OrphanInv` that an uploaded object has its manifest, and that the
reconciliation, which lists the bucket before it reads the manifests, finds a manifest for every
object it listed that was not there before any run.

**Static sources** (`StorageProofs`). `StaticInvariant`, `StaticTyped`, `AlwaysArchived`, for any
number of runs, versions and sources. The same argument: no step changes the source of a manifest
that has one, and no step takes a sound object away (module `StaticSync` has no losses; a damaged
object is damaged from the start). On these two rest `RunSound`, what a run of sync-static knows
at each await (the manifests are those of its sources, an upload that is done left a sound
object), and `CheckerSound`, what the reconciliation knows of the row it works on. The marking of
both manifests as failed needs no more, since it only makes a manifest say less.

**The database client** (`StorageProofs`). `ClientTyped`, `NeverReplayed`, for any number of calls,
connections, pauses and pools. `CallWrites` says what a call has written at each place of it
(nothing before its own SQL, so that every retry is one of the probe), `CallHolds` that a call
keeps a pool only while it waits for it or has a connection of it; and the pool that new calls use
is never one that ends.

**Ingestion runs** (`StorageProofs`). `RunsTyped`, `AlwaysWithinCeilings`, for any finite number of
runs, any matches, sizes and ceilings. A run's counters are the counts of what it took
(`Counted`), what it works on is a match it has not taken and, past the boundary check, has room
for (`Affordable`), and its row lags by what the next checkpoint writes (`RowLags`). The global
ceiling needs `Budgeted`: without an overlap at most one run is under way, and what all rows
record with the rest of its budget is within the ceiling; the sums are those of
`InductionLemmas`.

**The search** (`OptimizerSearchProofs`). `SearchTyped`, `RankingIsCurrent`, `WorkerIsSupervised`,
for any inputs, chunks and number of searches. `Stages`: a token awaits its cohort, is asked for,
is suspended between two chunks or is settled, one at a time and never again an earlier one.
Hence `CurrentInput`: whatever carries the token of the current search speaks of the inputs on
display; `Completeness`: a result comes of all chunks; and `CancelFollows`: a search that was given
up before the worker heard of it is cancelled behind its request in the channel.

**The candidates** (`OptimizerSearchProofs`). `GeneratorIsExact` and `AlwaysSearchExhaustive`, for any
catalog and any options but those of negative gold. What the search visits is, by induction on the
start, the choices with ascending indices of that length, each once (`PicksStep`, `VisitIs`), and
sorting loses none (`ListedIs`). Putting the required items to a choice and both in order is one to
one (`BuildOfOnce`); every legal build comes from a choice
(`ChoiceOfLegal`), no early refusal of `CanGenerate` hits options with a legal build
(`LegalGenerates`), and whether a build is legal does not depend on its order (`CanonicalLegal`).

**The ranking** (`OptimizerSearchProofs`). `RankingIsDeterministic`, `RankingRespectsDominance` and
`AlwaysShownRanking`, for any candidates and any rows that `RowsAssumption` allows. Rounded figures
are multiples of a thousand epsilons, so that those that differ are told apart (`SixesApart`) and
the list of keys is a lexicographic order (`CompareIsLexicographic`), total and strict as
identities differ (`RankIsOrder`); then sorting leaves one sequence (`RankedSorts`). A dominating
build has no smaller mean, coverage or damage, since sums, shares and rounding rise with what they
are made of; and if it kills a target more, its coverage is larger by at least one multiple even
after rounding (`CoverageRises`), which decides before the mean TTK is looked at.

**The comparison** (`LabPageProofs`). `ComparisonTyped`, `ComparisonMatches`, `LabNeverBlank`, for
any inputs, cohorts and number of runs. `RunsMatch`: a run has the cohort that its own filters ask
for; `QueuedAsk`: whatever is asked of the worker, its run has a cohort and answers to come;
`ToCome`: while there is neither comparison nor message, a timer or a run that has not shown its
comparison is left. The last is what an overlapping run could break, since each run that starts
drops the message of another.

**The editor** (`LabPageProofs`). `EditorTyped`, `LateAnswersIgnored`, `AmountAsShown`, for any
fields, values and number of revisions. `OnlyCurrentAnswers` needs that a pending request belongs
to the latest act: every act clears or replaces it, and the ids of requests are distinct, so that
an old answer matches only a request that is the current one. `SerializedAsShown` needs that a
parsed text and the override of the search settings agree.

**The inputs** (`LabPageProofs`). `AlwaysInputsFollow`, for any levels, items, candidate builds and
any observed progressions whose ranks are whole numbers (legal or not: the page checks them).
`Kept` says that what the user chose is marked as edited, which protects it from every load, and
`Following` is the second half of the property. Ranks need arithmetic: the default ranks of a
level are legal, a correction of any ranks is legal (`DefaultLegal`, `ClampLegal`), and ranks that
are legal at a level are legal at every higher one (`LegalAbove`), so that the lowest level since
the choice decides whether it was ever corrected.

Builds are a second invariant beside this one (`AlwaysBuildsWellFormed`, `BuildsInv`): one to six
slots and no item twice. Each of the four ways to write a slot keeps it for any value that the
panels may offer there (`SlotWritten`, `SlotsGrow`, `LastReplaced`); builds that come from
observations are well-formed because only the first place of an item is kept (`FirstOnce`,
`SeededBuilds`); and a suggestion is offered only if build B does not have the item, which rests
on `CompactItems`: that the two builds differ is decided without their empty slots.

**Source sets** (`StorageProofs`). `SetsInvariant`, `AlwaysCompiledAsBuilt`, for any drafts, bytes
and edits, whenever they happen. What was compared agrees with the bytes that were copied at the
beginning (`SetsInv`), which no edit reaches; hence a catalog is compiled from one state of the
bytes, and from the one that was built, since the document that passes carries its hash.

**The target cohort** (`ArchivePipelineProofs`). `AlwaysBalanced`, for any rows, whenever they are
stored, filters, phases and limits. `CohortInv` only bounds the hashes, of what is stored and of
what was counted: nothing relates the two, since anything may be stored between the queries. The
weights of a match are n times one n-th, cut to a whole unit (`WeightsTogether`), over the rows that
the two cuts left (`CutShown`). An answer that is silent shows no fewer rows than were counted; the
rows found are among those counted and those that came in, so no more than the latter were cut
(`DatasetBalanced`).

**The projection of a match** (`ArchivePipelineProofs`). `AlwaysProjectionExact`, for any catalog,
teams and sequence of purchases, sales, undos and frames. `Replayed`: what the replay of the whole
log gives is what the player holds, and each frame was given what the replay up to its time gives.
As time never falls and a frame takes in every event of its time, an event that comes later does
not change an inventory that a frame has (`LaterEvent`); that is why an undo is an event of its own
and not a correction of the log. The third item is found with its event because the count of
legendary items of the replay crosses three somewhere between two frames (`CrossingFound`).

**The progression of a level** (`LabPageProofs`). `AlwaysRecommended`, for any frames. `OneOfATime`:
the new schema keeps one frame of a vote, and the old one, by its key, one of each time, so that one
frame of a vote, the last, is read (`OneReadOfAVote`, `EveryVoteRead`). What is recommended is
chosen by the least of a measure over the pool, and a finite set that is not empty has such a member
(`LeastMeasure`): core, boots and count belong to somebody who was observed near the level
(`CoreHeld`, `BootsWorn`, `ModeFrequent`), and their frequencies are counted over that pool.

**Skill ranks** (`LabPageProofs`). `AlwaysSkillsLegal`, for any matches, points of others and cuts of
the timeline. `InPlay` says of the match that is played that the ranks after each point are legal
at the frame that is cut after it, since the game allows no others; `SoundMatch` of each archived
timeline that every level's ranks are legal, spend what their order spends, and extend those of
lower levels. A point belongs to the levels whose frame is not earlier, so the points of a level
are all the player's up to one of them (`ObservationHolds`), and no skill passes its last rank
(`NoneBeyondLast`), so none of them is cut off.

**The comparison of two builds** (`OptimizerSearchProofs`). `AlwaysVerdictsAgree`, for any targets,
weights and results in which a kill takes at least the damage of a fight without one. The sides of
a comparison and their masses change places with the builds (`SwapSides`); slices of champions are
disjoint, so that their masses add up to no more than the whole (`SlicesAddUp`); and the median has
as many differences below it as above (`MedianSides`), which needs that fractions are totally
ordered by cross products (`FractionsOrdered`) and that a difference of one sign belongs to the
side that won (`DamageDelta`).

**The fight** (`OptimizerSearchProofs`). `AlwaysLingerOnce` and `AlwaysCooldownsHeld`, for any window,
haste, items, script and target, any grid of times and any rounding of sums below the tolerance.
`LedgerInv` is a ledger of W: its hits have different times before the cursor, every tick comes a
second after a hit, and every hit has its tick, or has it waiting, or beyond the window, or the
target is dead; every drain takes the ticks that are due and no others (`DueIs`, `LandedEffect`,
`DrainEffect`). `BookInv` adds the cooldowns: `Book` says when each ability comes back, given the
beginnings and ends of R since its last cast, and `Opening` how many attacks of the barrage there
were and how many are left, which together are at most three. A cooldown is cut to a fifth and
then to the grid, each time from the moment of the cut; `CutToAFifth` and `NextFifth` keep the
errors of the nested cuts below one step of the grid, however many there are.
`AutosGoOn` is about the loop after the script: its next attack is not before the end of the
script, except for the overshoot of section 6, which this proof brought to light.

Only model-checked, and why:

- `Recovered` and `SearchEnds` are liveness under fairness (`SimulationEnds` too, which fails).

## 6. Disagreements between the code and its documentation

`archive_orphans`. `docs/storage-safety.md:20` says that reconciliation leaves unmanifested
objects in the `archive_orphans` ledger unless it is safe to register them. The call of
`ensurePendingArchiveIntent` at `scripts/reconcile-archive.ts:411` is outside any try: an
unmanifested object whose match has a manifest with other bytes and no accepted row makes it
throw, the run ends, and neither this object nor those after it are recorded. It needs two runs
that fetched different bytes, of which the one with the manifest never finished.

`lab_shown`. `app/page.tsx:580` says that the lab recomputes whenever an input changes. A run
whose cohort request answers late overwrites the comparison, and the one-entry cache, of the
inputs on display (`app/page.tsx:482` has no check after its awaits), and at rest nothing
recomputes it.

`yunara_ends`. At the cap of attack speed the attack that is due at the end of a window may be
due just after it (0.4 added fifteen times is a little more than 6). The loop at
`domain/champions/yunara.ts:599` has a tolerance and goes on, `attack` at line 339 has none and
returns without a change, so that the loop runs for ever; `docs/storage-architecture.md:247` says
that the simulator returns totals.

`cohort_weights`. A row of a cohort weighs one over the rows that its match has before the cut
(`data/level-targets.ts:284`), and a match is cut to a limit: a match that is cut weighs less
than one, against the comment at `domain/level-cohort.ts:31`.

`skill_levels`. `extractSkillObservations` (`data/skill-progression.ts:144`) gives an observation
for every level up to 18, whatever level the match reached, so that a note of the answer (line
52 there) counts observations at a level nobody was at.

Seen while modelling, without a run:

- `docs/storage-safety.md:28` says that an ingestion run stops at a boundary and records the
  reason in its cursor. At the request ceiling `riotJson` throws (`scripts/ingest.ts:128`), the run
  ends by the catch block, its row is `failed` and its cursor has no stop reason; the result
  "request-ceiling" of `nextBatchBoundary` cannot occur, because the count it is given never
  exceeds the ceiling (in `IngestRuns`, `RunsTypeOK` says that no run ever stops for it).
- `domain/optimizer.ts:239` says that a build is validated by the same rules as exhaustive
  generation uses. With a negative `minGold` they differ: `validateBuild` takes it for no bound,
  `canGenerate` (`domain/optimizer.ts:469`) for an error. `SearchExhaustive` leaves such options
  out; nothing in the repository sets the field.
- `domain/champions/yunara.ts:271` says that pending damage is drained before actions at the same
  time. The drain before a cast (line 556) comes before the check whether the cast is still in the
  window, and so lands ticks of W for a cast that does not happen. The end of R is applied to
  cooldowns (lines 329 to 331), not to casts that already wait.
- `domain/champions/yunara.ts:598`: attacks after the script begin at the later of the cursor and
  the next attack. If the script ends less than the tolerance after the window, the first of them
  is refused (line 339), and the next is due at the old readiness, which may lie before the
  last cast: an attack then lands, and may count as one of a barrage, before the R that opened it.
  `Overshot` is that case, and `CooldownsHeld` excepts it.
- `app/page.tsx`: the switch for attacks after the opener is set back by every load of a level
  unless the opener was edited; after a load that failed everything stays that of the old level.
- `docs/realistic-targets.md:25` speaks of available and returned counts;
  `availableDistinctMatchCount` (`data/level-targets.ts:270`) is that of what is returned.
- `docs/item-progression.md:26` describes rarity at one level; with too few observations the
  widening ends at radius 2 with whatever it has. The event of a third-item anchor may be that of
  an item whose purchase was undone later (`ingestion/completed-items.ts:46`).
- `domain/compare-view.ts:144` speaks of groups that contradict the headline; tiers are by the
  share of build A whichever build the headline names. An exact half is listed as won by A, and
  a group of censored fights as one in which every sample ties. The sentence of
  `components/lab/verdict.tsx` about the median (after line 49) takes its absolute value, also
  when the median favours the other build.
- `data/level-targets.ts:253` and `data/realistic-targets.ts:186` compare the rows of the last query
  with the counts of an earlier one. Rows that ingestion stores in between may be cut while
  `truncated` is false and the route warns of nothing; the pool, too, is chosen by the older
  counts, which may be those of the legacy schema when the rows are of the compact one.
  `CohortBalanced` bounds what is cut so.
- The hash of a pinned set does not cover the time of retrieval, and `buildPinnedSourceSet`
  accepts sets (rolling versions, required ids that are missing) that `assertPinnedSourceSet`
  refuses; `CompiledAsBuilt` speaks of sets that are read again.
- A reconciliation verifies a static manifest from its object alone, whether or not rows of
  champions or items exist. `rebuild --apply` (`scripts/rebuild-from-archives.ts:165`) writes
  "verified" over a loss that was noticed after its check; `VerifiedSound` excepts losses.

## 7. What is not modelled, and why

- Migrations: the constraints the scripts rely on are in the state of `ArchivePipeline`; applying
  files in order by hand is not a program of this repository with states of its own.
- Session and login: a signed token and a throttle in one process; cryptography, time and
  cookies, with no state that the rest shares.
- Read routes: parsing and bounding of a request and the shape of its answer. That their answers
  arrive at any time and in any order is in `LabRun`, `LabInputs` and `OptimizerSearch`; which rows
  they choose is in `TargetCohort` and `Progression`. Breakpoints of the simulate route are left
  out.
- Interface components: rendering; what they dispatch is in the modules of the page.
- Contract schemas: conditions on single documents. Those that relate parts of a snapshot are in
  `QueueOps`, `RegistryOps` and `KernelSession`; those of a source set in `SourceSets`.
- The other engine ports: assertions on the results of ports that have no implementation here yet.
- Records compiled from rulesets, and the scripts around them: sequential parsing and
  cross-checking of documents that `SourceSets` has pinned.
- Formulas of damage, resistances and statistics of items: arithmetic on floating-point numbers
  that no control depends on. `Yunara` has a constant in their place, `Comparison` takes results as
  given, `BuildRanking` has integers with the rounding of the code.
- The listing of bucket keys by the audit, `storage-status`, plan checks, benchmarks: they read
  and print.

Abstractions worth knowing: event ids are numbers; times are small integers; error texts, attempt
counts and timestamps that only report are not kept; the waits between retries are not modelled;
the loading flag of the page is, since a button is guarded by it; hashes stand for what they
hash.

## 8. Plan

Done: the kernel (queue, timers, registry, batches, session), the archive (matches, static
sources, the abstract archive, ceilings, database client, source sets), the page (search,
candidates, ranking, comparison runs, inputs, editor) and the figures (fight, comparison,
cohorts, progression, skills, replay), with theorems for every safety property of a run that is
expected to pass.

Next models, each small: breakpoints of the simulate route, the throttle of the login route, and
the assertions on port results once ports exist.
