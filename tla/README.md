# Aqlyra: TLA+ specifications

These modules specify the core of Aqlyra (`src/backend/app`): the document
pipeline from a file's text to its index, sign-up verification, conversation
turns in text and by voice, long-term memories, retrieval and grounded answers,
and alerting. TLC checks each of them on small instances and TLAPS proves the main
results for every value of the constants.

Read a module with its code beside it: every definition keeps the name of the
function it stands for where it can, and `PROJECT.json` ("map") names the lines.

## 1. The system

A FastAPI backend with PostgreSQL (+ pgvector) and Redis, a Next.js frontend
that proxies to it, a LiveKit voice worker and an alert worker.

Concurrency the models rely on:

* Plain `def` endpoints run in a thread pool, so requests of one user interleave
  between any two statements. Several server processes may serve one database.
* Each request has one SQLAlchemy session (`database/connection.py`):
  `autocommit=False`, `autoflush=False`, READ COMMITTED. A loaded row is a
  snapshot; an UPDATE writes only the attributes that changed and has no
  condition besides the key. So a check on a loaded row and the later UPDATE are
  separate steps, and an attribute set to the value the session loaded is not
  written.
* A thread that a coroutine waits for goes on when the coroutine is cancelled; what
  it commits stays, its result is dropped (`voice/worker.py`).
* An open transaction is invisible to others and lost when its server dies; files
  and committed rows stay.

How the parts interact: a chat turn (`services/chat_service.py`) answers through
the same `answer_question` that `api/rag.py` offers, searches the index the
document pipeline commits, and is stored by the same function for plain,
streamed and voice turns; memories are extracted from stored turns; every
handler counts into `core/monitoring.py`, which the alert worker polls over HTTP;
rate limits and token checks run before a handler and only decide whether it
starts.

| Component | State | Operations | Hard parts |
|---|---|---|---|
| Documents (`api/documents.py`, `services/document_*`, `storage_service`, `chunk_service`, `embedding_*`) | upload directory; rows of documents, units, chunks, embeddings | upload, process, rebuild embeddings, read, delete | two stores; unconditional claims; row locks and deadlocks; crashes |
| Sign-up and sessions (`api/auth.py`, `services/user_service.py`, `services/email_verification_service.py`, `auth/security.py`) | users, verification codes, tokens | register, resend, verify, login, Google login | concurrent issue and verify; failed delivery; clock |
| Conversations (`api/conversations.py`, `services/conversation_*`, `services/project_service.py`, `services/chat_service.py`) | conversations, messages, projects, document scope | create, turn, streamed turn, rename/move/change mode, delete | long model calls between read and write; unconditional updates; cap of 50 scoped documents |
| Memory (`services/memory_*`, `api/memories.py`) | memories and their embeddings | create, edit, delete, index, extract from a turn, retrieve | an embedding call between reading the text and storing its vector |
| Grounded answers (`services/rag_answer_service.py`, `rag/*`) | one answer in progress | retrieve, draft, validate, verify, repair, refuse | bounded repair loop, forced refusal |
| Parsing and chunking (`parsers/*`, `chunking/*`) | none (pure) | divide a file into units, a unit into overlapping windows | bounds of pages, sections, sentences and windows that meet |
| Retrieval (`services/*retrieval*`, `retrieval/*`, `reranking/*`, `query_rewriting/*`) | none (reads) | vector, lexical and fused search, rerank | several statements with rows vanishing between them; rank fusion |
| Rate limits (`core/rate_limit.py`) | Redis counters | count, expire, refuse | fixed windows, Redis failure |
| Alerting (`alerting/*`) | alert states in memory | poll, evaluate, transition, deliver | lost webhooks, restarts, counter resets |
| Voice (`voice/worker.py`, `services/voice_session_service.py`) | one job's language and used documents | open a session, transcribe, answer, persist | interruptions; threads that outlive them; other requests on the conversation |
| Monitoring (`core/monitoring.py`, `middleware/observability.py`, `api/v1/health.py`) | counters under a lock | record, render, readiness | label bounds |
| Frontend (`frontend/src`) | browser state, session cookie | chat, upload, voice, login | aborted streams, stale responses |
| Operations (`scripts/ops`) | backups | back up, verify, restore | order of volume and database copies |

What makes each component correct:

* Documents: a record has its file, a ready document can be searched, one record
  per content, `processing` always ends, nothing is left over.
* Verification: one valid code at a time, limited attempts, spent codes stay
  spent, undelivered codes vanish.
* Conversations: deletions leave nothing dangling, what a turn attached stays
  searchable, projects and conversations agree on a mode, scopes are capped.
* Answers: evidence is ready and the user's own, fits its budgets, and an answer
  is the very draft that was checked; refusals are earned; effort is bounded.
* Alerting: incidents are reported once and resolved once, from exact intervals.
* Memory: an active memory can be recalled, a stored vector belongs to the stored
  text, and what a turn taught or revoked takes effect.
* Voice: what is heard is stored, the next answer knows it, documents reach one
  answer, the language is kept.
* Chunking: no text is lost but for what the parsers leave out, no chunk is too long,
  each is cited by the page, sheet or heading it stands under.

## 2. Plan

| | Modules | State |
|---|---|---|
| 1 | `DocumentLifecycle` | done, proved |
| 2 | `EmailVerification` | done, proved |
| 3 | `ConversationTurn` | done, proved |
| 4 | `AlertIncidents` (abstract), `AlertWorker` (refines it) | done, proved |
| 5 | `HybridRetrieval`, `EvidenceContext`, `GroundedAnswer` | done, proved |
| 6 | `PersonalMemory`: edits, slow indexing and extraction from turns | done, proved |
| 7 | `VoiceTurn`: interrupted answers against the rest of the API | done, proved |
| 8 | `Chunking`: from the text of a file to its chunks | done, proved |
| 9 | `DocumentCatalog` (abstract), which `DocumentLifecycle` refines and `HybridRetrieval` reads | done, proved |
| 10 | streams aborted in the browser, backup and restore | left |

Theorems still worth proving: that `ConversationTurn` and `VoiceTurn` implement one
abstract conversation, as both store turns through the same function. New runs
replace or merge with present ones where they ask the same question, so that the
set stays one run per question.

Each module has a file `MC<module>.tla` that instantiates it and a file
`<module>Proofs.tla` with its theorems. `PROJECT.json` lists the runs, the
lines each definition stands for, the hazards with the properties that cover
them, and for every property a mutant: a definition changed as a plausible bug
would, under which the property's run must fail. Mutants stand in the modules
under the comment "fault:".

## 3. Modules

### DocumentLifecycle

`temp`, `files` are the upload directory; `rec`, `indexed`, `embedded` the
committed rows (status, units with chunks, embeddings by model); `pc`, `doc`,
`seen`, `view` the open requests. A stage of `pc` lies between two points where
other requests can be noticed: a file operation, a statement, a commit.
`Begins(r)` starts an upload, a run of processing, a rebuild or a deletion;
`Work(r)` is any next step of it (`UploadStep`, `ProcessStep`, `RebuildStep`,
`DeleteStep`). An open transaction is a stage of its request: rows change in the
step that commits. `seen` is the status as the session loaded it, which the
claim's UPDATE does not compare again. `Holds*` and `BlockedBy` are the row
locks of deleted rows, `AbortDeadlock` what PostgreSQL does about a cycle,
`Crash` the death of a server, `Reconfigure` a new embedding model. Database
faults have three forms: `DatabaseFails` at a statement or before a commit,
`CreateDocumentFault` and `FinishFault` where the commit takes effect and what
follows it raises.

### DocumentCatalog

What readers of documents may rely on, without requests: a status, an index and
the models it is embedded with, per document. `Upload`, `Claim`, `Fail`, `Index`,
`Embed`, `Delete` are all that may happen to them. `DocumentLifecycle` implements it
with its committed rows (`rec`, `indexed`, `embedded`), as the property
`KeepsCatalog`. `HybridRetrieval` reads what it describes: `OthersCommit` are the
steps of the catalog except `Upload`, as a search cannot tell a document without
an index from none. A step is less obvious than it looks: `Index` may leave the
status as it is, because a run that was overtaken by another one replaces the index
while its UPDATE, which finds "ready" unchanged in its snapshot, writes no status.

### EmailVerification

One account. A challenge is a row of `email_verification_codes`; a ticket is
what the browser holds after mail and response succeeded. Issuing is five steps
(cooldown, SELECT of active codes, INSERT with their consumption, mail, discard
when mail fails) and so is checking (load, then write what was computed from the
load). A server may die at any of them. `wrong` and `orphans` are history
variables: what users were answered, which no column counts, and the challenges
whose server died before it had mailed them.

### ConversationTurn

The rows of conversations, messages (as counts and attachments), scopes,
projects and usable documents of one user. A turn is load, scope resolution,
answer, title check and commit; settings are load-check and write. `seen` is
the snapshot the session keeps across the slow model call, and `Written` what an
UPDATE writes: only attributes that differ from the snapshot. `expired` says a
rollback (of the memory lookup) made the next access read again. `CheckTitle` decides
what a first turn makes of the title, `titling`: a title derived from its message, or
the placeholder again when the message has no word. `unnamed` is a ghost: the
conversations whose title was last set to the placeholder, so or by a rename. Foreign keys
and cascades are part of `CanPersist`, `DeleteConversation` and `DeleteDoc`.

### AlertIncidents, AlertWorker

`AlertIncidents` is what docs/ARCHITECTURE.md promises: an incident opens after
so many bad observations in a row and ends after so many good ones. `AlertWorker`
has the backend's counters (`core/monitoring.py`), two polled addresses that
answer, refuse or break off, and the worker's cycle: `CheckReadiness`, then
`EvaluateMetrics` or `MetricsFail`; `CycleFails` is the exception the loop
swallows. Each address changes its answers on its own, so `OutageIsReported` is
about one that refuses for good beside one that does anything: an outage of /metrics
is reported as long as /readiness, which is polled before it, does not break off. The refinement maps `open` to `active` and `streak` to whichever of the
two counters is running. `since` is a ghost: what really happened since the last
page that was read.

### HybridRetrieval, EvidenceContext, GroundedAnswer

One question, from the search to its result; requests share only the index, so
one is enough. `GroundedAnswer` extends `EvidenceContext`, which extends
`HybridRetrieval`.

`HybridRetrieval`: `index` holds the committed rows per document (status, number
of the run that made its chunks, models with vectors). `SearchSimilar`,
`SearchLexical` and `ScoreSpecific` are the three SELECTs; `OthersCommit` is any
commit of `DocumentLifecycle` between them (`ClaimDocument`, `FinishProcessing`,
`MarkFailed`, `RebuildEmbeddings`, `DeleteDocument`, each as coarse as its
commit). Rankings are functions from chunks to ranks, scores are fractions
compared without rounding. `Fuse` is rank fusion with its cut, `Rerank` any
scores of the reranker, or the hybrid order when it fails. `served` is a ghost:
the chunks that were usable at some moment of this request.

`EvidenceContext`: filtering, ordering, dropping duplicate texts and redundant
summaries, and the three budgets, as functions of `hits`.

`GroundedAnswer`: `Draft`, `Validate`, `Verify`, `Repair` are the rounds of
`answer_question`; `RejectDraft` is its exception handler; `RequestFails` any
exception that leaves it. A draft is its form and the sources it cites.
`calls`, `verdicts` and `supported` are ghosts.

### PersonalMemory

The memories of one user, `memory`, which of two was updated later, `newer` (the
order by `updated_at`), the text each stored `vector` was made from, and those whose
last indexing failed or was cut off (`unindexed`). A memory has a kind; kind and
normalized text together are its `Key`. A request is a PATCH between its load and its UPDATE
(`LoadEdit`, `CommitEdit`; `Written` keeps to the attributes that differ from the
loaded row), an extraction between its SELECT of the exact active memories and its
commit (`ReadActive`, `CommitExtraction`), or an indexing between its load and its
store (`LoadIndex`, `StoreIndex`, `Due` for the memories it owes a vector). `FailIndex` is
what `index_memory_embeddings_best_effort` swallows and logs, and also a refresh
that raises between commit and indexing, or a server that dies there, after which
nothing is logged. `Answers` are the JSON answers
`_parse_extraction_response` accepts. The embedding call lies between two steps.

### VoiceTurn

One voice session on one conversation. `job` is the metadata a session was opened
with, `language` and `consumed` the attributes of the agent; `node` says what
became of the `llm_node` of an utterance, `thread` where the threads are that work
for it, `reply` what their answer was asked for with. `Hear` and `Interrupt` cancel
the node that waits, never its thread. `LoadConversation` to `AnswerFromEvidence`
are `_generate_turn`, `ReloadConversation` and `Save` are `_persist_turn`, `Speak`
the end of `llm_node`. `TextTurn`, `ChangeMode`, `DeleteConversation`, `ChangeDoc`
and `DeleteDoc` are the other endpoints, each as coarse as its commit
(`ConversationTurn` and `DocumentLifecycle` have their steps). `Resolve` is the
rule for the language of an utterance.

### Chunking

One document, from what a library reads of its file to its chunks. A text is a
line of tokens; a place in it is the number of tokens before it, so a page, a
sentence, a window and a chunk are all two places, and nothing depends on
characters. `ParsedUnits` is the unit division of the eight parsers (`Sections`
the one rule that Markdown and Word share), `Borders` the sentences after long ones
are cut, `AddWindow` one turn of the loop of `_build_windows`: `WindowEnd` says
where the window stops, `NextStart` how far the next one reaches back. `EmitUnit`
appends the unit's summary and content chunks. `Dropped` is what no unit has: rows of
a sheet or a CSV file past their limits, and headings of a Word document that open no
section or read "Document" (`LeftOut`), the title of a section without one.

## 4. What the runs check

| Run | Instance | Shows |
|---|---|---|
| `doc_race` | 3 requests, 2 uploads of one file and one no parser accepts, 2 models | `RecordHasFile`, `ProcessingHasWorker`, `NoResidueAtRest`, `KeepsCatalog` |
| `doc_faults` | 2 requests, a text and a scan, 2 models, crashes and database faults, fairness | `ReadyIsSearchable`, `RequestsFinish` |
| `doc_failed_index` | 2 requests, 1 document | violation of `FailedHasNoIndex` |
| `verify_concurrent` | 2 requests, 2 challenges, crashes, lost mail | types, `LimitConsumes`, `UndeliveredIsDiscarded`, `SpentStaysSpent` |
| `verify_two_codes` | 2 requests, 2 challenges | violation of `OneActiveCode` |
| `chat_concurrent` | 2 requests, 1 conversation, 1 project, 2 documents, cap 1, 2 turns | types, `NothingDangles`, `AttachedIsInScope`, `PlaceholderIsReplaced` |
| `chat_project_mode` | 2 requests, 1 conversation, 1 project | violation of `ProjectModeMatches` |
| `alert_worker` | 2 observations to fire and 2 to resolve, 20 requests, 1 event, 1 death of each process | types, `IntervalIsExact`, `ReportsIncidents`, `SignalsAreTrue`, `OutageIsReported`, `RecoveryIsReported` |
| `rag_answer` | see below | types, `EvidenceWasReady`, `FusionRespectsRankings`, `EvidenceFits`, `TextsAreKept`, `AnswerIsGrounded`, `RefusalIsEarned` |
| `memory_index` | 2 requests, 2 memories, 2 kinds, 1 text in 2 spellings, answers of at most 2 actions | types, `ActiveIsRecallable`, `StaleOnlyByLateStore`, `ExtractionTakesEffect` |
| `voice_session` | 2 utterances, an image and a text, 1 turn by another request, 3 languages | types, `SpokenIsStored`, `KnowsWhatWasSaid`, `DocumentsReachOneAnswer`, `LanguageIsKept` |
| `chunking` | every file of at most 3 blocks and 6 tokens | types, `TextIsSearchable`, `ChunksFit`, `CitedWhereItStands` |

Why the bounds are enough. Every request of documents, codes, conversations and
memories reads once and writes once or twice, so a pair of requests has every
overlap of one read with one foreign write; `doc_race` adds a third, because a run,
a rebuild and a deletion can wait for each other in a ring. Two uploads of one
content are the smallest race for the unique constraint, a file no parser accepts
beside them makes runs fail; in `doc_faults` a text beside a scan separates "ready
with vectors" from "ready without". Two attempts, two time units of validity and
one of cooldown are the smallest limits with a step before, at and after the
boundary; `MaxTime` 3 lets the first of two codes expire while the second is valid.
In `alert_worker` nineteen quick requests and a slow
failing one put both the failure share and the 95th percentile exactly at 5
percent; two observations distinguish an interrupted streak from a whole one;
`MaxCount` bounds the counters, `MaxFaults` deaths. In `rag_answer` two of the
user's documents share a text and a third is another user's; each has a summary
and two passages. The four asks are a search cut to four candidates of six chunks
(`topK` 1), one with a scope, a floor and one role, one for all passages, so that
sources run out before candidates do, and a rewritten query beyond the reranking
depth. Two commits of others reach hits from two runs of one document, chunks
found by words only and then gone, and sources whose document is no longer ready.
With two sources, four tokens each and eight together every budget binds
somewhere. In `memory_index` two memories can be duplicates of each other or
distinct, two spellings make an edit that changes the content and not its key, and
two actions confirm one text while revoking another; with one weight no
confirmation strengthens a memory, which only the theorems cover. In `voice_session` two utterances are one that is
interrupted and one that interrupts; a cap of one document under two makes `ResolveScope` refuse, a history
of one turn makes every turn of another request push one out, and the four
transcripts meet every rule of `Resolve` but the last. In `chunking` targets of two
to four tokens, an overlap of two and windows of at most four make each of the four
limits stop some window within six tokens, and three blocks are the smallest text
with a section between two headings, or with a row past a limit of two.

Deadlock is checked except in the verification runs, where the clock and the
supply of challenges end, and in `chunking`, where the work does.

### Violations

The three violation runs each refute a sentence of the repository (quoted in
`PROJECT.json`, "findings"): a failed document that still has its whole index; two
active codes; a conversation in a project of another mode. All have one cause: a
decision on loaded rows and an unconditional write later. Theorems show that each
sentence holds where just that overlap is excluded and everything else may happen,
so that it is the whole cause, crashes included and database faults aside (a refresh
that fails after a run's final commit also marks a complete index as failed): two runs of one document (`SingleRunsFailClean`), two
requests that issue codes (`SingleIssuesAreUnique`), two updates of one conversation
(`SingleUpdatesKeepModes`).

### Fairness

* `doc_faults`: strong fairness of `Work(r)` per request. A request's thread runs to
  its end, and PostgreSQL grants locks in order of arrival and resolves deadlocks,
  so a step that is possible again and again is taken. Beginning a request, crashes,
  faults and reconfiguration have no fairness; a crash ends the requests it hits.
* `alert_worker`: weak fairness of `Poll`. The loop in `run_worker` catches every
  `Exception`, every network call has a timeout, and the compose file restarts
  the container (`restart: unless-stopped`). Nothing is assumed of the backend;
  that an address refuses or answers "for good" is the premise of each property, and
  the other address may alternate for ever.

## 5. What is proved

All theorems hold for every value of the constants that satisfies the named
assumptions (types of the constants, limits at least 1). Each follows the same
line: an inductive invariant, one step per action, temporal logic last.

* `DocumentLifecycleProofs`: types; `RecordHasFile` without database faults, from
  `UploadsArePrivate` and `DeletesAreExclusive` (the identity of an upload
  belongs to one request until the INSERT; nobody unlinks while a record is
  there); `OneRecordPerContent`; `ProcessingHasWorker` without crashes and
  faults, strengthened to `ProcessingHasWriter`, which follows a document through
  several concurrent runs; `NoResidueAtRest` without crashes and
  faults, from `ResidueIsOwned` (a file, a temporary file or an index without a record
  belongs to an open request); `ReadyIsSearchable` and `IndexStaysWhole` under every
  fault and crash, from `IndexInv` (what each stage knows of the committed rows);
  that `DocumentLifecycle` implements `DocumentCatalog`, under every fault and crash,
  from `CatalogInv` (a run that goes on has been claimed, the document of a
  rebuild that commits still has its index, a run that leaves the status alone was
  overtaken); what the catalog alone promises its readers (`CatalogPromises`); and
  `FailedHasNoIndex` without faults where runs of a document are single, from
  `IndexIsFinal`.
* `EmailVerificationProofs`: types; `LimitConsumes`; `TicketHasChallenge` from
  `DeliveryInv`; `UndeliveredIsDiscarded` from `RowsAreOwned` (a stored challenge has
  a ticket, a request that is mailing it, or a server that died); `SpentStaysSpent`,
  all with crashes; `AttemptsAreLimited` where checks of one challenge do not overlap
  (`CountIsExact`: the column is the history); and `OneActiveCode` where issues do not
  overlap (`AtMostOneActive`).
* `ConversationTurnProofs`: types; `NothingDangles`, `AttachedIsInScope` and
  `PlaceholderIsReplaced` from `FreshIsAttached`, `CreatingIsAlone`,
  `FreshCompletesScope` and `TitleInv` (what an open turn will write completes
  what is stored); `ScopeGrowsWithTurn`; `ProjectModeMatches` where updates of one
  conversation do not overlap, from `SettingsAgree` (an update writes a project of
  the mode it leaves); and `ScopeIsCapped` where turns that add documents to one scope
  do not overlap, from `RoomForTurns` (a turn that passed the check keeps its room).
* `AlertWorkerProofs`: types; `IntervalIsExact` from `Exact` (the counters are the
  last page plus the ghost, or the backend has restarted); that `AlertWorker`
  implements `AlertIncidents` (`Tracked`: the counter that is not running is
  zero); `SignalsAreTrue` for all thresholds and buckets.
* `GroundedAnswerProofs`: types; `EvidenceWasReady` from `Readiness` (whatever is
  ranked or scored at any stage was served), for any rankings and commits;
  `AnswerIsGrounded`, `RefusalIsEarned` and `EffortIsBounded` from `Counting`
  (rounds, drafts and verdicts agree stage by stage) and `Outcome`; `TextsAreKept`
  from `AboveFloor` (hits are as similar as asked for): the order of the evidence
  is strict (`EvidenceIsOrdered`), so each text has a first hit (`SomeHitIsFirst`),
  and a summary dropped has a child that stays (`SummaryAssumption`); `EvidenceFits`
  by the same order: the sources are the first candidates (`SourcesAreFirst`), so the
  last one bounds them all (`SourcesFit`); the sums of sizes are taken apart without
  induction, by a least set that would not add up (`SumUnfolds`);
  `FusionRespectsRankings` from `Fusing` (the hits are the first of what both rankings
  offer) and `ScoresFollowRanks` (better ranks give higher scores); and that the commits
  of others are steps of `DocumentCatalog` (`SearchesSeeTheCatalog`) and none of its
  steps is missing (`NoCommitIsLeftOut`), so that what the search is proved against is
  what `DocumentLifecycle` is proved to do.
* `PersonalMemoryProofs`: types; `ActiveIsRecallable` from `AllCovered` (the same
  of every memory, used or not: a revoked one may be activated again);  `StaleOnlyByLateStore`; and
  `ExtractionTakesEffect`, from what an undisturbed extraction has read (each key
  has at most one canonical memory, and a revoked key is not created).
* `VoiceTurnProofs`: types; `SpokenIsStored` from `StoredFirst` (a thread that may
  speak has stored); `LanguageIsKept`; `DocumentsReachOneAnswer` from `UsedOnce`
  (only the node that waits can have been given the documents, as long as they do
  not count as used); `KnowsWhatWasSaid` from `InOrder` (one node at a time is
  awaited, and an answer is stored once) and `KnowsBefore` (an
  answer under way knows each answer heard whose place in the log will be near).
* `ChunkingProofs`: types; `ChunksFit`, `CitedWhereItStands` and `TextIsSearchable`
  from `UnitsInv` (windows cover the unit up to its next start, each ends at a
  border) and `ChunksInv` (every unit that is done is covered by its chunks). That
  there is always a next border within `MaxTokens` rests on `GreatestPlace`, which
  has its greatest element from the well-foundedness of the naturals.

A "where ... do not overlap" is a premise on the behavior, stated next to the theorem
(`RunsAreSingle`, `ChecksAreSingle`, `IssuesAreSingle`, `UpdatesAreSingle`,
`AdditionsAreSingle`): it names the stages that exclude each other and leaves all
other interleavings, crashes and faults. "Without crashes" means `CanCrash = FALSE`,
"without faults" `DbFaults = FALSE`.

Some theorems have no run of their own. `OneRecordPerContent`, `IndexStaysWhole`,
`TicketHasChallenge`, `ScopeGrowsWithTurn` and `EffortIsBounded` are consequences or
twins of properties that have one; the types of `DocumentLifecycle` and the theorems
with a premise on overlaps (`AttemptsAreLimited`, `ScopeIsCapped` and the three of
the violations) are proved outright; `SearchesSeeTheCatalog` and `NoCommitIsLeftOut`
are about the steps of `HybridRetrieval`, not its states.

Only model-checked: liveness (`RequestsFinish`, `OutageIsReported`,
`RecoveryIsReported`), which the prover does not reach. Every invariant and action
property that a passing run checks is also proved.

## 6. Limits of the code the models show

Not properties, because no text of the repository promises the contrary:

* A server that dies during a run leaves `processing` for ever; one that dies
  between rename and INSERT, or DELETE and unlink, leaves an orphan file.
* A database fault in the refresh after `create_document` commits makes the
  handler unlink the file of a committed record; one in the refresh after the final
  commit of a run marks its complete index as failed; one in the lookup of
  duplicates leaves the temporary file of the upload; one in the commit of a deletion
  whose answer is lost leaves the stored file. Hence the premise "without database
  faults" of `RecordHasFile`, `NoResidueAtRest` and `FailedHasNoIndex`.
* A second run, checked before the first one claimed, processes a ready document
  again.
* A resend whose mail fails has consumed the older code; concurrent resends pass
  the cooldown together. Wrong codes that are checked at the same time are counted
  once, so more can be answered than the limit, although README.md:20 allows "at most
  five failed attempts" (`AttemptsAreLimited` is proved where checks do not overlap).
* Concurrent turns can exceed the scope's cap; a rename during a first turn can be
  overwritten by the derived title; two turns that attach one document to a Knowledge
  conversation both insert its link, and the second turn fails. A first message of
  punctuation only, and a rename to "New chat", leave the placeholder title, although
  docs/ARCHITECTURE.md:174-176 has the first turn replace it.
* A memory's vector can be of the text before an edit, when the indexing that read
  the old text stores late; the next indexing of that memory repairs it. Two
  extractions at once can create one text twice; the next one that names it
  collapses them. An active memory is in no chat's reach after its indexing failed or
  was cut off: a failed provider is logged, a refresh that raises after the commit
  (services/memory_service.py:61 and :179, services/memory_extraction_service.py:465)
  or a server that dies before the indexing leaves no line about it.
* A voice session does not compare the mode again when it stores a turn; a fixed
  answer to a question about the product counts its session's documents as used; a
  session refused for its documents leaves the conversation it created.
* A heading of a Word document without text of its own is dropped, and text before
  the first one is cited as "Document"; a heading that reads "Document" is dropped
  from its section; rows of a CSV file or a sheet past the limit are dropped;
  a window can lie inside the one before it, when that one ends with a long sentence.
* A webhook is sent once; a broken-off answer ends a cycle without an observation, so
  a /readiness that always breaks off is not reported, and /metrics is not polled. The
  tracker lives in memory: a worker that restarts sends a lasting incident again and
  never the end of one that ended meanwhile, although docs/ARCHITECTURE.md:225
  promises both without that exception.
* A document deleted while the model writes is still cited.

## 7. Abstractions and what is not modelled

* Texts, prompts, files and vectors are atoms with the outcomes the code tells
  apart: parsable or not, with or without text, sizes in tokens, similarities.
  A text cut to its limit is taken to use all of it.
* `DocumentLifecycle` has faults of the database and deaths of the server, no
  failures of the file system (a full disk, a rename that is refused).
* `DocumentLifecycle` is about one user, the scope of its unique constraint;
  `HybridRetrieval` adds a second user's documents. Status `queued` is never
  written by the code.
* `HybridRetrieval`: a run or a rebuild embeds all chunks of a document, so vectors
  are kept per document; ties of equal rank and score, which the code breaks by
  random identifiers, are broken by document, run and position; scores of the
  reranker are 0 or 100 percent; a failing configuration of the reranker is the
  reranker switched off; commits of others after the search change nothing the
  request reads and are left out.
* Alerting: payloads, signatures, the startup grace and switched-off alerts are
  left out. The stock container runs one server process, hence one set of
  counters.
* Both transports of a chat turn (plain and streamed) store it through one
  function and are one sequence of steps in `ConversationTurn`.
* `PersonalMemory`: what can be recalled is what is active and has a vector; the
  similarity ranking and its threshold are left out, and so is recall's effect on a
  prompt. Importance and confidence follow one rule and are one weight.
* `VoiceTurn`: LiveKit, speech recognition and synthesis are external: they call
  `llm_node` with an utterance, cancel it, and play what it yields. One session is
  enough, as sessions share only the conversation, which other requests write to. Turns
  are read back in the order of their commits: `created_at` comes from one clock, and
  the row lock of the conversation keeps commits of turns apart.
* `Chunking`: the libraries that read files, the token pattern, cutting of wide
  columns, OCR, quality scores and hashes are left out, and so are the cells of a row past
  `MAX_SPREADSHEET_COLUMNS` and `MAX_CSV_COLUMNS`, which no chunk has; an empty line ends a
  sentence where a block ends.
* Not modelled: sessions and tokens (signed and stateless), rate limits (one atomic
  Redis script before the handlers), query rewriting and reranking prompts and the
  providers (their outcomes are inputs), the patterns of product questions (that
  they get a fixed answer is a step of `VoiceTurn`), settings and migrations
  (declarations), the frontend and the operations scripts (section 2), benchmarks
  (offline).
