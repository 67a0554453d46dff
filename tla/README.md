# Verification of the enterprise document platform

TLA+ specifications of the platform in `src/`, the TLC configurations that check
them on small instances, and TLAPS proofs of the most important properties for every
size of instance.

The platform is a FastAPI application (`backend/app`) over PostgreSQL with pgvector
and an object storage, and a React client (`frontend/src`). Admins upload documents;
a background task extracts, chunks, embeds and indexes each of them; users search the
index and ask questions that a language model answers from retrieved chunks.

## 1. Inventory

| Component | State | Operations | Interacts with |
|---|---|---|---|
| Document requests (`services/document_service.py`, `api/v1/documents.py`) | rows of `documents`, `document_versions`, `ingestion_jobs`; stored objects | upload, reprocess, delete | schedules a background task after the response |
| Ingestion worker (`ingestion/service.py`, `runner.py`, `repositories/chunk_repository.py`) | its session; job and document status; `document_chunks` | claim, stages, replace chunks, complete, fail | embedding provider, storage, the same rows as the requests |
| Stale recovery (`ingestion/recovery.py`, `api/v1/admin.py`) | none of its own | sweep at startup, sweep on request | jobs and documents of the other two |
| Application life cycle (`main.py`) | the process, its in-memory task list, its settings | start, crash, restart | runs the startup sweep |
| Retrieval (`retrieval/`) | none | similarity search, evidence selection | joins chunks with COMPLETED documents of the active provider |
| Conversations (`services/conversation_service.py`) | conversations, messages, citations | create, ask, delete | retrieval, LLM; foreign keys into chunks and documents |
| Provider HTTP client (`core/provider_http.py`) | attempt counter | post with retries | embedding and LLM providers |
| Chunking (`ingestion/chunking.py`) | none | windows over the text | worker |
| Rate limiter (`core/middleware.py`) | a bucket of time stamps per client and group | admit or refuse | every request |
| Accounts (`services/auth_service.py`, `security/`) | users; tokens | register, login, role checks | every endpoint |
| Audit log (`services/audit_service.py`) | append-only rows | write, list | requests |
| Readiness (`api/v1/system.py`) | none | probes | database, storage, providers |
| Search, analytics, schemas | none | read-only queries and reports | |
| Client session, assistant page, document pages (`frontend/src`) | React state, token in local storage | load, poll, ask, select, log in and out | the HTTP API, answers in any order |

What is hard in it:

* **Concurrency.** Synchronous handlers and background tasks run in the threads of one
  process (two processes in the production compose file), each with a database session
  of its own under READ COMMITTED. No row is locked between a check and the write it
  guards. Every multi-step operation commits in between.
* **Stale reads.** A session's `save()` writes only columns that differ from the values
  it loaded, so what a save does depends on what was loaded before it.
* **Crashes.** Scheduled tasks live in memory only. A crash leaves rows behind; a sweep
  at startup fails jobs that are older than a timeout.
* **Slow tasks.** The same sweep, started by an admin, may hit a job whose task is alive.
* **Two stores.** Rows and stored bytes change in separate steps.
* **Configuration changes.** The embedding provider may change at a restart; vectors of
  two providers are not comparable.
* **Client.** Answers arrive after the user has moved on.

What makes the components correct: the index of a COMPLETED document comes from one
attempt and from the provider recorded on the document; an attempt follows its life
cycle; a document is never left where neither a task, a sweep nor an admin can move it;
bytes and rows match; accepted work is finished; an answer follows its question, names its
sources, and refers to no row that is gone; the limiter admits at most its limit in any
window and refuses nobody below it; whoever was told that it registered owns the account;
retries stop; the windows of the chunker cover the text and vectors follow their texts; the
client shows the user, the thread and the document state that the server has.

## 2. Modules

| Module | Models | State |
|---|---|---|
| `DocumentStore` | the tables, the storage, the task list, and the queries of `DocumentRepository` | `status docProvider file chunks job jobDoc attempt task provider` |
| `IngestionWorker` | `IngestionService.process_job` and `_fail_job`, one action per commit, load or stage | `seen erased` |
| `DocumentRequests` | upload, reprocess and delete, one action per commit or storage call | `req` |
| `StaleRecovery` | `fail_stale_ingestion_jobs`, from the admin endpoint and from the startup hook | `sweep` |
| `DocumentPipeline` | the composition, with loss of a task, crash and restart; the properties | `up crashes` |
| `JobLifecycle` | abstract: what the jobs table promises about one attempt: an outcome is recorded only by the task that claimed it | `phase held` |
| `ChunkIndex` | abstract: what the pipeline promises to readers of the index | `document indexed searchable` |
| `Conversations` | `ConversationService`: create, delete, and `ask` cut at its commits, on top of `ChunkIndex` | `conv title updatedAt questionAt answerAt citations pc askConv content began evidence retired now` |
| `ChunkWindows` | `chunk_segments`: the window loop over any stream | `size overlap stream pc start chunks` |
| `TextChunks` | `extract_text`, `clean_segments`, the linearisation; extends `ChunkWindows` | `file segments` |
| `Subsequences` | what a filter leaves of a sequence, used by `TextChunks` and `AssistantPage` | |
| `ProviderCalls` | `post_json_with_retries` and its callers `embed_documents`, `embed_query`, `complete` | `op texts embedded vectors callPc attempt wait posts waited reply outcome` |
| `EvidenceSelection` | `similarity_search` on both databases and `select_supporting_evidence` | `row hasTerms dialect searchPc hits supporting reason` |
| `Grounding` | the composition of the four before: one thread at work on a file or on a question | `stage` |
| `Clock` | the clock of a server process | `now` |
| `RateLimiter` | `RateLimitMiddleware.dispatch` and its buckets | `hits admitted last` |
| `Accounts` | register, login, admission of admin requests, audit rows, `create_admin.sh`, SQL of operators | `account pc kind email answer issued tokens audit` |
| `ApiGate` | the composition: one server process, every request through the limiter, restarts | `door` |
| `BrowserTab` | `AuthProvider`, `apiRequest`, protected routes; the calls a page has under way | `owner valid stored user token loading me login page run trouble hasty astray` |
| `AssistantPage` | `AssistantPage.tsx`: bootstrap, select, create, delete, ask | `created live thread asked active messages busy retry latest` |
| `DocumentPage` | `DocumentDetailPage.tsx`: load, poll, retry, reprocess, delete | `document shown working` |
| `WebClient` | the composition: a tab and its pages, one mounted at a time | |
| `...Proofs` | the inductive invariants and the proofs (section 4); `SubsequenceProofs` and `TextChunkProofs` hold the lemmas about sequences and texts that the others share | |
| `MC...` | what TLC runs: `MCDocumentPipeline`, `MCConversations`, `MCApiGate`, `MCGrounding`, `MCWebClient` | |

`DocumentStore` is extended by the three modules that act on it; `DocumentPipeline`
extends those and adds the frame conditions. `JobLifecycle` is instantiated in
`DocumentPipeline` with `phase <- job` and `held <- ` the jobs whose task is past its
claim, so a task that ran on after a failed claim would be no step of it. `ChunkIndex` is instantiated with `indexed <- ` the attempts whose rows
each document has and `searchable <- ` the documents a search meets. `Conversations` extends
`ChunkIndex`: what is proved of conversations holds over every index that behaves like it,
and the pipeline does (`RefinesIndex`). `ChunkWindows` is both the loop that `TextChunks`
runs on a file and the abstract specification it implements (`ImplementsWindows`: the
steps before the loop are stutters). `RateLimiter` and `Accounts` are complete
specifications of their own (`LimiterSpec`, `AccountsSpec`); `ApiGate` composes them and
implements each (`GateLimits`, `GateKeepsAccounts`).

Definitions whose names end in `Faulty` are not the code. Each is one operation with one
plausible mistake in it; with the mistake in place of the operation TLC finds the property
it is kept for violated.

### How the models correspond to the code

The pipeline and the conversations:

* **Steps.** An action ends at a commit, a storage call, or a read whose result is used
  later. Between two actions of one thread any other thread may act.
* **Sessions.** `seen[j]` is the `processing_status` the task's session holds. A commit
  expires it, `LoadDocument` (the `refresh` of `save()`, or `get_by_id`) loads it again,
  and `SaveStage` writes PROCESSING unless PROCESSING is what was loaded. In
  `CompleteDocument` the commit of the job has expired the document, so the assignment is
  always written. `req[r].loaded` plays the same role in `ReopenDocument`. Where a
  read and the write after it are one action (`FailDocument`, `CompleteJob`, `FailJob`),
  the write happens exactly if the column differs from what was read, so an unwritten
  column takes effect at the read and a written one at the commit.
* **Replacing chunks.** The DELETE of `replace_version_chunks` sees what is committed
  (`erased`); the INSERT succeeds if no row is left that the DELETE did not see, and runs
  into `uq_document_version_chunk_index` otherwise (every attempt writes chunk 0). After
  that failure the session refuses every query until a rollback that nobody issues, so
  `_fail_job` raises too and the task ends in the runner (`ChunkConflict`).
* **Cascade.** Deleting a document deletes its versions, jobs and chunks in one commit.
  Identities are not reused: a deleted job is `gone`, a deleted document `deleted`.
* **Reprocess** reads the document, the active jobs and the highest attempt number in three
  statements, each of which sees what is committed by then (`BeginReprocess`,
  `CheckActiveJob`, `NumberAttempt`).
* **Versions.** No endpoint adds a second version, so document, version and storage key
  are one identity.
* **Tasks** are named by their job: each job is scheduled once, by the request that
  created it.
* **Time.** Staleness is a choice: `StaleSets` lets a sweep find any set of pending or
  running jobs, or, with `SlowTasks = FALSE`, only jobs that are in nobody's hands.
* **Failures.** `Faults` lets database and storage calls of requests fail and tasks be
  lost one by one (an error escaping into the runner, or one of two server processes
  dying, whose replacement then sweeps as `AdminSweep`). Failures of a stage, which
  the code handles, are always possible (`StageRaises`).
* **`ask`.** The user message is one transaction, the answer with its citations a second,
  the new title a third. The second begins with the `refresh` of the question and lasts over
  the embedding and LLM calls; `created_at` and `updated_at` are `now()` of PostgreSQL, the
  begin of the transaction, so `began` is a variable and `now` ticks at each begin. Foreign keys
  are guards (`SaveQuestion`, `SaveAnswer`) with the failing case as an action of its own
  (`ConversationVanished`, `EvidenceVanished`); `ON DELETE SET NULL` is `Dereferenced`, applied to
  all citations in the step that removes rows. `update_title` sends an UPDATE only when the
  title differs from the one loaded. The evidence gate is a choice: any hits, or none.

Left out of these modules: ingestion stages and error texts as columns (they follow the
status), time stamps and durations, the audit entries, inline processing in tests, and
validation of uploads (which changes nothing).

The text and the providers (`Grounding`):

* **Texts** are short sequences of letters (`Letters`) and blanks. A letter is a character
  with the marks that follow it, the unit NFKC works on; what it becomes is the table
  `Nfkc`, a constant: any table that leaves blanks alone and no letter without anything
  visible (`NfkcAssumption`). TLC's table has a ligature, a wide letter and a spacing accent.
  The properties of texts are about the normalized text, which is not the text of the file.
* **Pages that fail.** `page.extract_text()` may raise on any of the pages of a PDF (`failing`):
  the page becomes an empty text and the others are indexed. `InkSurvives` says so: of a
  page that fails nothing is kept, of the others everything, under their own numbers.
* **The stream.** The linear stream of `chunk_segments` holds characters tagged with pages, and the separator between segments
  is one element of it that is two characters long (`Separator`): windows are counted in
  elements, so a chunk with a separator may exceed `chunk_size` by one character, as in the
  code. Windows of blanks give no chunk, and `strip()` shortens the others. A scan with no
  text, an unsupported type and a text that cleans to nothing are the early returns.
* **Providers.** The provider is the environment: timeouts, transport errors, 429 with any
  `Retry-After`, 5xx, 4xx, and bodies whose vectors come in any order, too few, too many, or broken. `_embed_batch`
  sorts them by their index, takes a missing one for 0, and checks only their number: when
  indices are missing or repeated, which text a vector belongs to is not told, and the model
  calls such vectors `Stray`. `VectorsFollowTexts` admits them. Seconds slept are history
  variables.
* **Search.** Scores are percentages, ties are broken in any order. `min_score` is 0.0 in both
  callers: the statement for PostgreSQL then has no threshold, the Python fallback drops
  negative scores (`Fallback`). PostgreSQL searches through the HNSW index of migration
  `0007_chunk_embedding_hnsw`: the index proposes candidates, and the filters apply to those
  (`SearchPgvector`: any set of candidates). Better chunks can be missed, so completeness is
  claimed of SQLite only, and order, eligibility and distinctness of both (`HitsAreRanked`).
* **One thread** does one piece of work, from the file or the question to its end. The
  index it searches may be any (`BeginSearch`): what it may be is the business of
  `DocumentPipeline`.

The server process (`ApiGate`):

* **The limiter** is one step per request: `dispatch` has no `await` between the reading of the
  clock and the append. A restart empties the buckets; two Uvicorn workers have buckets of their
  own, so the limit holds per process. Keys are never removed from the dictionary; their
  number is bounded by `Clients` here and by nothing in the code.
* **Accounts.** A call is cut at each read and commit. A password is the identity of the call
  that chose it, a token is the user, the role and the time it was issued with. The email
  column is unique (`CreateUser`): the loser of a race gets a 500 and no audit row. The audit
  row may fail to be written without the answer failing (`Record`). Operators change role
  and `is_active` by SQL, for which the API has no endpoint.

The client (`WebClient`):

* **Functions.** Each `async` function that runs is a record of `run`, at one of its requests.
  The server answers pending requests in any order; a request may fail before or after
  the server has acted (`Fails`, `Done`), at most `MaxTrouble` times; any request may be
  answered 401 (`SessionLost`).
* **`AuthProvider`.** The token is one number for `localStorage` and one for React state; `me` is
  the token `/auth/me` was asked with. A user is shown with an older token only if somebody
  logs in before the stored session was restored; the history variable `hasty` marks it.
* **Pages** are opened when the session is settled, by one user, and their state is dropped when
  they are left, with whatever is under way: React ignores the updates. Only a late 401 to a
  page that was left is not without effect: `apiRequest` ends the session the tab has by
  then, which for the tab is the step `Logout`. The list of
  conversations is taken to be up to date when something in it is clicked. `astray` marks
  behaviours in which the code is known to show something else than the server has:
  functions that the user lets overlap, a thread that could not be loaded, an older answer
  that overtakes a newer one, a lost reply to a command.
* **Left out:** other tabs, filters, citations, the preview, banners and loading flags, and
  the change of `documentId` without an unmount (no link of the page leads there).

## 3. Runs

`CHECK_DEADLOCK` is off in every run: the pipeline rests when no admin sends a request, a
thread when its work is done, and everything when the bounds are used up.

| Run | Instance | States | Checks |
|---|---|---|---|
| `PipelineRaces` | 1 document, 2 attempts, 2 concurrent requests, 2 providers, faults, slow tasks, 1 crash | 1 619 000 | `TypeOK`, `CompletedIsIndexed`, `SearchableVectorsMatch`; refinement of `JobLifecycle` and `ChunkIndex` |
| `PipelineSerialAdmin` | 1 document, 3 attempts, 1 request at a time, tasks within the timeout, 1 crash | 36 000 | `OneActiveJob`, `AttemptsDistinct`, `AttemptsSettle`, `DocumentsSettle` |
| `PipelineFiles` | 1 document, 2 attempts, 2 concurrent requests, slow tasks, 1 crash; no faults | 191 000 | `DocumentHasFile`, `ProcessingIsOwnedUntilCrash`, `NoLeakUntilCrash` |
| `ConversationRaces` | 2 documents, 2 chunk sets, 1 conversation, 2 questions, 3 titles | 1 363 000 | `AnswerFollowsQuestion`, `CitationsResolve`, `AnswerKeepsSources`, `DeletedStaysEmpty`, `NamesAreEarned` |
| `ApiGate` | 1 client, 2 groups with limits 2 and 1, 3 calls, 1 address, window 2, tokens of 1 tick, 3 ticks | 832 000 | `AtMostLimitPerWindow`, `RefusedOnlyWhenFull`, `RetryAfterSuffices`, `RegistrationHolds`, `TrailIsTruthful` |
| `Grounding` | files of up to 2 parts of 9 texts, any pages failing, all sizes of 0, 1, 2, 4 with overlaps of -1 to 2; batches of 3, 2 retries, five `Retry-After`s; 3 chunks with 4 scores, top 2 | 177 000 | `TypeOK`, `PassagesStayWhole`, `InkSurvives`, `PageIsInChunk`, `VectorsFollowTexts`, `EffortBounded`, `FailsForAReason`, `HitsAreRanked`, `ImplementsWindows`, `WorkEnds` |
| `WebClient` | 2 users, 2 logins, 2 functions at a time, 1 failure without reason, 2 conversations, 1 question, 5 states of a document | 393 000 | `TabPairsUp`, `ShownIsStored`, `BusyWhileWriting`, `ThreadOfActive`, `BubblesGo`, `QuestionKept`, `LoadingEnds`, `PageCatchesUp` |
| `StuckProcessing` | 1 request at a time, 1 crash | | `ProcessingIsOwned` fails |
| `DuplicateJobs` | 2 concurrent requests | | `OneActiveJob` fails |
| `LostFailure` | 2 concurrent requests | | `RunningHasTask` fails |
| `UntouchedConversation` | 1 document, otherwise as `ConversationRaces` | | `AnswerTouches` fails |
| `RateLimitedProvider` | as `Grounding` | | `RateLimitIsRetried` fails |

What each property says, and of which code, is in the comment above it.

**Bounds.**

* *Pipeline.* Documents do not interact except through the sweep's single commit and the
  bound on attempts, so one document carries the races. A race needs two attempts and two
  requests (one to create the second attempt while the first is in flight, one to delete or
  reprocess); three attempts in `PipelineSerialAdmin` let a maximum of attempt numbers be taken
  over two older jobs. One crash shows every state a crash can leave; a second one starts
  from such a state. Two providers are enough for "another one". `JobLeft` keeps a request
  from starting when the attempts are used up.
* *Conversations.* Two questions overlap in one conversation (questions of different
  conversations share nothing but the index); two chunk sets let one document be indexed
  twice, or both once; three titles are the default and one for each question, any of which may be given at
  creation.
* *Server process.* Three calls let two registrations race with each other or with the
  script while a third call logs in or uses its token; buckets of different keys share nothing,
  so one client in two groups is enough for "another key"; three ticks let a time stamp expire
  (window 2) and a token, too.
* *Grounding.* A chunk size of 0 and overlaps below zero and above the size reach the
  `ValueError`s; size 4 with overlap 2 over two texts makes windows that begin in one segment
  and end in another; batches of 3 over the up to 12 chunks reach several batches and a
  shorter last one. Three chunks and a limit of two leave one out, with ties.
* *Client.* Two functions overlap in every way that two requests can; a third adds no
  new pair. One failure at any place; five changes of the document are two attempts.

Symmetry (attempts and requests; questions; calls) is declared in runs that check
invariants and action properties only.

**Fairness.**

* *Pipeline:* weak fairness of each scheduled task, of each started handler, of a sweep
  that has begun and of the restart: threads of a live process are scheduled, and the
  production compose file restarts a stopped API. None for arrivals, crashes or faults.
  `PipelineSerialAdmin` needs its restrictions: with concurrent requests or slow tasks two
  attempts may index one document at a time, and the refused one leaves its job RUNNING
  (`LostFailure`) until somebody starts a sweep, which nothing guarantees.
* *Grounding:* the thread runs; a post ends at the latest with `llm_request_timeout_seconds`,
  and sleeps end.
* *Client:* requests are answered or fail in the end, timers fire, and the worker ends an
  attempt. `fetch` is called without a timeout, so "in the end" is the doing of the browser
  and the proxies. Nothing makes a user click, log in or leave.

### What the failing runs show

* `StuckProcessing`. `process_job` commits the job, then the document. A crash in between
  leaves a settled job and a PROCESSING document. The sweep follows active jobs only, and
  reprocess answers `already_processing`: only deleting the document helps. The same holds
  between the two commits of `_fail_job`. The documentation says that claim and sweep
  cover crash orphans and that Reprocess is the way out. Without a crash or a lost task it cannot happen
  (`ProcessingIsOwnedUntilCrash`).
* `DuplicateJobs`. The check for an active job and the insert of the new one are two
  commits apart in `reprocess`. Two requests create two pending jobs, both numbered from
  the same maximum.
* `LostFailure`. Follows from such a pair: both attempts delete the old chunks, one
  inserts, the other violates the unique constraint and cannot record its failure in the
  session it has just broken. `CompletedIsIndexed` still holds in all of this: the
  constraint protects the index.
* `UntouchedConversation`. `save_assistant_with_citations` means to touch `updated_at` by assigning
  the title to itself, which the ORM does not write. Conversations are listed by
  `updated_at`: one with a given title, or from its second question on, does not move up.
* `RateLimitedProvider`. On a 429 `float(Retry-After)` raises for a date, and `time.sleep` for a
  negative number: the call ends at once with an exception that is no `AppError`, where
  the function promises retries.

What else the models show and no document of the repository contradicts:

* With faults, `upload` loses bytes of a committed document: when the insert of the job fails
  after the document was committed, the cleanup removes the file and leaves the row.
  The properties of `PipelineFiles` are checked and proved without faults.
* A question without terms (stop words only) skips the overlap gate, and chunks that share
  no word with it reach the LLM; `evidence.py:118` reads as if they could not.
* The loser of a registration race is answered 500 and leaves no row in `audit_logs`.
* A login while the stored session is being restored may be overwritten by the answer about
  the older token, or its token removed by that answer's 401.
* A question whose answer was shown is offered for retry when only the list failed to load;
  and `QuestionKept` is a promise of the mounted page: a 401 or a navigation drops the question.
* Of two first questions that overlap both may name the conversation; the later write wins.
* A PDF with a page that cannot be extracted is indexed without it, and a line of the log is
  all that says so.
* An answer of the embedding provider with repeated or missing indices is accepted if the
  number of vectors is right.
* `AttemptsSettle` and `DocumentsSettle` end at a crash: what a crash leaves is found by a
  sweep, at the next start or when an admin asks for one, if it is older than the timeout by then.

## 4. Proofs

All theorems hold for every value of the constants that satisfies the named assumptions of
the modules; `TLC` evaluates those assumptions in the runs.

| Module | Theorem | States |
|---|---|---|
| `DocumentPipelineProofs` | `TypeCorrect` | `TypeOK`, a stopped API is idle, held identities denote rows |
| | `CompletedIndexed` | `Spec => []CompletedIsIndexed` |
| | `VectorsMatch` | `Spec => []SearchableVectorsMatch` |
| | `FilesKept`, `NoLeaks`, `ProcessingOwned` | if `Faults = FALSE`, `Spec => []DocumentHasFile`, `[]NoLeakUntilCrash`, `[]ProcessingIsOwnedUntilCrash` |
| | `OneJobAtATime`, `AttemptsAreDistinct` | with at most one request slot, `Spec => []OneActiveJob`, `[]AttemptsDistinct` |
| | `RefinesLifecycle` | `Spec => Lifecycle!Spec` |
| | `RefinesIndex` | `Spec => Index!IndexSpec` |
| `ConversationProofs` | `TypeCorrect`, `AnswersFollow`, `CitationsAreSound`, `SourcesKept`, `DeletedEmpty`, `NamesEarned` | the properties of `ConversationRaces` |
| `RateLimiterProofs` | `WindowIsKept`, `RefusalsAreJustified`, `WaitingIsRewarded`, `BucketsStayBounded`, `LimiterTypes` | `LimiterSpec` keeps its promises |
| `ApiGateProofs` | `RegistrationsHold`, `TheTrailIsTruthful`, `AccountTypes` | `AccountsSpec` keeps its promises |
| | `GateLimits`, `GateKeepsAccounts` | `Spec => LimiterSpec`, `Spec => AccountsSpec` |
| | `GateTypes`, `GateKeepsWindow`, `GateKeepsAccountsSound` | hence the properties of the run hold of the composition |
| `SubsequenceProofs` | (lemmas) | what a subsequence is when its sequence grows, is cut, or is changed in place |
| `TextChunkProofs` | `NothingIsCutApart` | `WindowsSpec => []PassagesStayWhole` |
| `GroundingProofs` | `FilesKeepTheirInk`, `ChunksNameTheirPages`, `PassagesAreKept` | `Spec => []InkSurvives`, `[]PageIsInChunk`, `[]PassagesStayWhole` |
| | `TextsRunTheWindows` | `Spec => ImplementsWindows`, the refinement of `WindowsSpec` |
| | `VectorsAreTheTexts` | `Spec => []VectorsFollowTexts` |
| | `EffortIsBounded`, `FailuresHaveReasons`, `HitsInOrder` | `Spec => []EffortBounded`, `[]FailsForAReason`, `[]HitsAreRanked` |
| | `GroundingTypes` | `Spec => []TypeOK` |
| `WebClientProofs` | `TabsPairUp`, `ShownAreStored` | `Spec => []TabPairsUp`, `[]ShownIsStored` |
| | `BusyIsExact`, `QuestionsAreKept` | `Spec => []BusyWhileWriting`, `[]QuestionKept` |
| | `ThreadsAreOfTheActive`, `BubblesGoWithRequests` | `Spec => []ThreadOfActive`, `[]BubblesGo` |

With these every invariant and every action property that a passing run checks is
stated by a theorem, as are the three refinements.

What the proofs assume of the constants: the bounds are naturals, retries and
limits included (`BoundsAssumption` and its like), or lie in the range the settings and the
schemas allow (`CountsAssumption`); `None` is no conversation
(`ConvsAssumption`); the texts of a file are made of the characters of the model
(`TextsAssumption`); NFKC leaves blanks alone and of a letter something visible
(`NfkcAssumption`); chunk sizes and overlaps are integers, of either sign
(`SizesAssumption`). No size of text, number of parts, or number of functions that
overlap is assumed.

**Pipeline.** The argument is in two layers. `RowInv` says who has a row and who holds whose
identity: types, the cascade (`JobRows`), what a sweep in flight holds (`SweptRows`) and what
requests hold (`RequestRows`). It is inductive by itself, and with it alone follows
`FilesKept`: an uploaded document is new and stored when its row is committed, and a file
is removed only when the row is gone; and `NoLeaks`, which is inductive beside it.
`ProcessingOwned` needs to know who will write the status next (`ProcessingHasWriter`): a task
whose INSERT will not be refused, for if it is, the attempt that got in before it is still
at work; and that a created job is scheduled once (`CreatedWaits`). For `OneJobAtATime` and
`AttemptsAreDistinct` the invariant says that between its check and its insert a request is right
about the jobs of its document (`ChecksHold`), which needs that no other request runs; failures,
slow tasks and crashes do no harm. `IndexInv` adds five facts about the index:

* a task past its claim does not work on a pending job (`ClaimedJobs`);
* the chunks of a document are of one attempt of that document (`OneWriter`);
* a task past its INSERT finds its document indexed by the provider of this process, by
  itself or by a concurrent attempt (`IndexedHere`);
* a COMPLETED document is indexed with its recorded provider (`CompletedMatches`);
* a document that a live task of this process found or made PROCESSING can be COMPLETED
  only by this process (`CompletedHere`).

`CompletedIsIndexed` and `SearchableVectorsMatch` are not inductive without them: a task may
replace the chunks of a document that another task has meanwhile COMPLETED, and the
reason that this is harmless is that both run in the same process, with one provider.
`RefinesLifecycle` uses `RowInv`, for which jobs exist: `CompleteJob` and `FailJob` write
whatever the status is, and are steps of the life cycle because only `ClaimJob` brings a
task past its queue (`Held`), and the one that finds the job taken returns. `RefinesIndex` uses the
invariant in the next state: whatever a step does to statuses and providers, a document
that search meets afterwards has chunks.

**Conversations.** One invariant, `HistoryInv`. Beside the properties it says that chunk
identities are not shared between documents (`IndexSound`; else a citation could keep a
reference to a chunk that moved), that a call which has begun has a conversation that exists or
was deleted (`CallHasConversation`), that nothing is stored of an answer before `SaveAnswer`
(`AnswerIsLast`), and how the transactions of a call lie in time (`CallIsTimed`), which is what
puts the answer behind its question. `NamesEarned` needs one more fact, `NamesAreSafe`: a
call about to write the title will find the default or the name an answered question gave.

**Limiter.** `LimiterInv`: the bucket is a suffix of the history of admitted requests, no longer
than the limit, and what is not in it any more is older than the window (`Remembers`). A full
bucket then counts the whole last window, and one with room leaves out only what is too old
to matter. `WaitingIsRewarded` needs in addition that no stamp is ahead of the clock, or of the
key asked for last later than that request (`StampInv`).

**Accounts.** `AccountInv` says for each call what its place implies about the account it is
about, and for each audit row what stays true of it; an account, once created, keeps its
password. `TokenInv` types the tokens in use, which makes `Admit` a call about a known address.

**Composition.** `ApiGateProofs` holds the argument about the accounts, too. A step of `ApiGate` is a step of the limiter or leaves it alone, and the same for
the accounts; their theorems then hold of the process without a proof of their own.

**Sequences.** The functions on texts are recursive, and what a recursive function computes
cannot be proved by induction here. The lemmas go another way: the function is unfolded
once, as an array of intermediate results (`PickedStepwise`, `LinearStepwise`,
`ParagraphsStepwise`), and if a statement fails at some position, there is a least one at
which it does (`LeastPosition`); the position before it gives the contradiction.

**Windows.** `NothingIsCutApart` is about any stream: what stands before the next window is
together in a chunk with whatever follows it at most the overlap further on (`Covered` in
`WindowsInv`). The next window begins `chunk_size - chunk_overlap` further on, and that is where
the overlap is used.

**Texts.** `TextInv` carries this over to files. Beside the window's own facts it says that the pages
of the segments rise (`Rising`), that after cleaning each segment begins and ends with a visible
character (`Inked`), and that the joined text is therefore well paged (`WellPaged`): blanks
are never at the end of a page, and at its beginning there is at most the separator. Without
it a chunk might hold nothing but blanks of the page that has most of its characters.
From `TextInv` every step of the thread is a step of the window loop or leaves it alone
(`StepsAreWindowSteps`), which is `TextsRunTheWindows`.

**Ink.** `InkInv` says that from extraction on the segments tell the file (`Tells`): each
holds the visible characters of its page, and a page without a segment has none; and
that the stream is the joined segments. One lemma for each operation of `clean_text` says
what becomes of the visible characters: nothing, but for the normalization (`NormalizedInk`,
`UnifyNewlinesKeepsInk`, `SqueezeKeepsInk`, `StripKeepsInk`), `CleaningTells` that dropped segments had none, `LinearInk` that joining adds
only blanks. `FilesKeepTheirInk` reads the property off that.

**Vectors.** `VectorsInv`: what is embedded are the first texts, in order. A batch is put in
order by sorting the positions the provider reports, if they are distinct, and a sorted sequence of all of
`1..n` is that sequence (`SortedIsComplete`).

**Provider calls.** `EffortInv` ties posts and waits to the attempt counter; no wait is longer
than 30 seconds in any of the three ways to fail.

**Client.** `SessionInv`: while a session is being restored nobody is shown and the token asked
about is the stored one, unless a login was hasty; no page is mounted then. The pages only
matter through `PageStep`: none of their steps touches the session. `WriteInv`, about the assistant
page, adds to the two properties that a question under way is the one submitted last, and that its
function asks for the list only once the question is answered (`AsksAreLatest`): a failure of
that last request may offer an answered question again, but loses none.

**Thread and bubbles.** `PageInv` has three parts. `AnswersInv` types what functions have read, and
says that a thread that was read is part of the thread the server has (threads only grow).
`BubbleInv` is `BubblesGo` with the place of the function that owns the bubble: an ask that
has come to its list shows none any more. `ThreadInv` says that as long as `astray` is not set at most
one function runs, that the thread shown is that of the active conversation when none does, and
what holds at each request of the one that runs (`WhileBoot`, `WhileSelect`, `WhileCreate`,
`WhileDelete`, `WhileAsk`): a conversation becomes active before its thread is read, so
`ThreadOfActive` does not hold between the two, and the invariant says what does.
The proof uses `WriteInv` for what asks may run, and `SessionInv` for when a page may be mounted.

`TextInv` and `InkInv` were checked by TLC on the instance of `Grounding`, `PageInv` on that of
`WebClient`, before they were proved.

Model-checked only: liveness (`AttemptsSettle`, `DocumentsSettle`, `WorkEnds`, `LoadingEnds`,
`PageCatchesUp`). The prover has no rules for fairness and `ENABLED`. The five failing runs are
counterexamples and need no proof.

## 5. Not modelled

* PDF and DOCX parsing, password hashing, token encoding and signatures: libraries.
* The path and blob handling of the two storages: only the contract of save, read and delete is used.
* Validation of uploads: a pure check of names, sizes and magic bytes before anything changes.
* Prompts, fake providers, clean-up of answers: text.
* Document search, analytics, lists, previews and audit queries: they read and change nothing;
  readiness: probes without state.
* Admin, status, upload and documents pages: each request fills its own part of the page.
* Schemas, migrations, settings, logging, deployment files, styles.
