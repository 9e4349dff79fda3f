# octo-speech in TLA+

A verification project for octo-speech, two Go services over one MySQL database: the **speech** service (port 8780)
authenticates an app by its API key, transcribes audio with upstream models and keeps vocabulary and local configuration
rows; the **admin** service (port 8781) manages the apps and their keys. The modules here model the parts that keep
state, wait, race or fail; TLC checks them on small instances and TLAPS proves the most important results for every
instance. `PROJECT.json` lists the runs, the mutants, the source lines of each definition, the findings and the hazards.

## The system

| Part | State | Operations | What makes it correct |
|---|---|---|---|
| App registry and cache (`internal/store/app.go`, `internal/api/middleware.go`) | table `app_registry`; in each process a map from key hash to app and expiry, under a RWMutex | Authenticate, Create, UpdateStatus, UpdateAPIKey, Delete, invalidateCache, evictOldest | an answer was right at most a bounded time ago; a cache keeps its limit and gives up no live entry for nothing; an unknown key is refused only while unknown |
| Admin handlers and audit (`internal/admin/handler.go`, `keygen.go`, `internal/store/audit.go`) | `app_registry`, `audit_log` | CreateApp, UpdateStatus, DeleteApp, ResetKey | no record without its change; an answer says what happened; the key in the table is the one drawn last |
| Login rate limiter (`internal/admin/ratelimit.go`) | attempts per address, under a mutex; a sweep every five minutes | isAllowed, cleanup | not more logins than allowed in a window; nobody rejected on another's account |
| ASR logger (`internal/asrlog/logger.go`) | a bounded channel, a context, a worker, a directory per day with a log and audio files | Enqueue, worker, writeEntry, Close | order kept, nothing twice, what was accepted before the close is written, and written whole |
| Speech service lifecycle (`cmd/speech/main.go`) | HTTP server, logger, cleaner | serve, Shutdown, Close, Close | a stop ends, and loses only entries of requests it gave up on |
| Transcription (`internal/service/transcribe.go`, `internal/api/transcribe.go`) | none between requests | Handle, Transcribe, callChatCompletion, callAudioTranscriptions | failover in order, every model has its turn, an end in bounded time, an answer that gets through, the user's text survives |
| ASR log cleaner (`internal/asrlog/cleaner.go`) | the directories of the log | clean at the start and once an hour | only directories past the retention go, and all of them in the end |
| Prompts (`internal/service/prompt*.go`) | templates read at the start | BuildSystemMessage, BuildUserMessage | the system prompt never contradicts the task, whatever texts a file of prompts has |
| Vocabulary (`internal/store/vocabulary.go`, `internal/api/vocabulary.go`) | table `vocabulary_profile` | Put, Get, Delete | the profile of highest priority is found; nothing foreign is shown |
| Local configuration (`internal/store/local_config.go`, `internal/api/local_config.go`) | table `local_asr_config` | Put, Get, Reset, Delete | a partial update loses nothing; a reset says what it leaves |
| Configuration (`internal/config`, `internal/adminconfig`) | read once | LoadFromEnv, Validate | what Validate lets pass can serve |
| Admin session (`internal/admin/auth.go`, `middleware.go`, `handler.go`) | the secret in the server, two cookies in the browser | Login, Logout, JWT and CSRF middleware | a logout ends what the browser does in its session; nobody else is refused but for a reason |
| Admin page (`internal/admin/static/index.html`) | the tabs | api(), login, logout | it sends the CSRF value its cookie has |
| Admin service lifecycle (`cmd/admin/main.go`) | the process | start, serve, end | it serves on a complete schema |
| Migrations (`internal/migration`) | the schema, the library's table of records | Run, by both services at their start | every migration once and in order; both services come up |

The parts meet in the database (the admin service changes `app_registry`, the speech service reads it through its
cache), at their start (both migrate it), in the speech process (a handler authenticates, transcribes, hands an entry to
the logger, answers), in the log directory (the worker writes, the cleaner removes), and at its end (`main` stops the
server, then the logger, then the cleaner). The hard behaviours are the reads outside a lock that are used under one
later, two processes with caches of their own, statements whose result is lost, a clock read before a lock is taken, a
channel nobody closes, timeouts inside timeouts, a directory removed file by file while one is being written, two
processes that create the same tables, and tabs that share cookies.

## Modules

| Module | Models | Correspondence |
|---|---|---|
| `AppTable` | the statements on `app_registry` | tables as partial functions; `RowsAffected` counts changed rows unless `ClientFoundRows` |
| `AppStore` | `AppStore` of every process, the middleware, handlers that write rows | `cache[s]` is `s.cache`; `Lookup`, `QueryRow`/`QueryNone`/`QueryFail`, `Fill` are the three parts of Authenticate between which other goroutines run; an administrator's statement and its `invalidateCache` are two steps, since the lock is taken after the statement returns; `lost` is a statement that took effect and returned an error |
| `BoundedStaleAuth` | no code: what authentication promises without a cache | `KeepsPromise` in `AppStore` says that the stores implement it |
| `AppStoreProofs` | proofs about `AppStore`, with the refinement of `BoundedStaleAuth` | |
| `AdminApps` | the four handlers that change apps, audit included | one step per statement; `Crash` ends the process between two of them; `commits` is the order in which the statements took effect |
| `AdminAppsProofs` | proofs about `AdminApps` | |
| `LoginRateLimiter`, `LoginRateLimiterProofs` | `isAllowed` and `cleanup` | `Arrive` reads the clock, `Allow`/`Reject` run under the lock; `attempts[ip]` holds the requests whose times the slice holds |
| `AsrLogger` | `Enqueue`, `worker`, `Close` | `Check` and the select are two steps; `hand` is the entry in `writeEntry` |
| `BoundedLog` | no code: what the logger promises, without worker and channel | `KeepsLogPromise` in `AsrLogger` says that the logger implements it: what waits is `hand \o ch`, an entry has its fate when it is sent, dropped or refused, and the log is closed when the worker is gone |
| `AsrLogFiles` | `writeEntry` and `Cleaner` on the file system, over `AsrLogger` | `step` counts the calls of `writeEntry` that are over, each may fail; `RemoveAll` reads a directory (`listed`), unlinks its files one by one and removes it if it is empty by then |
| `SpeechServer` | `main` of the speech service with its requests over `AsrLogFiles` | `main` goes through shutdown, close, the two waits and its end; `abandoned` are the requests in flight when Shutdown timed out |
| `SpeechServerProofs` | proofs about the logger, the shutdown and the files, with the refinement of `BoundedLog` | |
| `TextMerge` | the end of `Transcribe` on characters | `TrimRight` and the like are those of `strings`; white space, punctuation and CJK are the classes the code tells apart |
| `Prompts` | `BuildSystemMessage`, `BuildUserMessage`, the overrides of `LoadPrompts` | a file gives some templates texts with any placeholders or none; a message is the template and the placeholders that became text |
| `Transcription` | one `Transcribe` with its upstream calls, over `TextMerge` and `Prompts` | `queue` is what the loop has left of `models`, `clock` the age of `totalCtx`, `deadline` the end of the call's own context |
| `TranscriptionProofs` | proofs about `Transcription`, `Prompts` and the operators of `TextMerge` | |
| `TranscribeHandler` | `LoadFromEnv` and `Validate` of the speech service, and `Handle` around `Transcription` | `env` is what the environment says; a body arrives in pieces (`received`), `until` is the deadline of the connection, `now` runs on with Transcription's `clock`; `entry` is what was handed to the logger |
| `TranscribeHandlerProofs` | proofs about `TranscribeHandler`, over `TranscriptionProofs` | |
| `ScopedKeys` | the key the two tables of the speech service share | `With` is INSERT ... ON DUPLICATE KEY UPDATE |
| `Vocabulary` | `VocabularyHandler` over `VocabularyStore` | `Find` and `Miss` are one SELECT of QueryWithPriority each; `overtaken` are the GETs for which a place already found empty was filled |
| `LocalConfig` | `LocalConfigHandler` over `LocalConfigStore` | a row is `enabled` and columns that may be NULL; `named` is what requests last said |
| `SpeechRows`, `SpeechRowsProofs` | the two together, with the transaction that deletes an app | `DeleteApp` takes the rows of both tables in one step |
| `Startup` | `migration.Run` at the start of both services | `schema` and `records` are what the statements and the rows of `gorp_migrations` are; `Execute` and `Record` are two steps since MySQL commits DDL at once |
| `AdminSession` | login, logout, the two middlewares, `api()` of the page | a token or CSRF value is the request that logged in; a request is made (CSRF cookie read), sent (cookies taken along), answered, and received or lost; `signed` says until when the server accepts a token |
| `AdminService` | `cmd/admin/main.go`: `AdminSession` in a process of `Startup` | `StartUp` of the admin service loads the secret before it migrates; `Die` drops the requests it had not answered |
| `AdminServiceProofs` | proofs about schema and session | |
| `MCAppStore`, `MCAdminApps`, `MCLoginRateLimiter`, `MCTranscription`, `MCTranscribeHandler`, `MCSpeechRows` | nothing: symmetry, constraints, lists, environments and forms, and the statements of documents that runs refute | |

A definition headed *Mutant of X* is not part of any specification: put in the place of X it is a bug that a property
must catch.

### What the models abstract

- Hashes, names and JSON: a key stands for its SHA-256 hash, an id for itself; both are random in the code
  (`keygen.go`), so the models never draw one twice.
- The database is external: a statement is atomic, may fail without effect, and may take effect and report an error.
- Time is a natural number. In `AppStore` and `LoginRateLimiter` every delay between two steps of one request is at most
  `MaxDelay` or `MaxSkew`. The code sets no such bound; the results are stated relative to whatever it is, and with an
  unbounded delay no bound on staleness would exist.
- In `SpeechServer` the ten seconds of Shutdown are a choice: it may give up whenever a request is in flight.
- In `SpeechRows` a scope is a valid type with an id, values have passed the checks of the handlers, and ids that differ
  in case are one, as they are for the collation of the columns. A write whose result is lost is a write; one that fails
  is no step. The rows of app `'*'` come from outside the repository: nothing in it writes them.
- In `AsrLogFiles` a day is a number; the directories of the engines below a day's are part of it, and what is no date
  in the base directory is not there. A pass that finds nothing to remove, or whose ReadDir fails, changes nothing and
  is no step. A write that fails leaves part of a file, if only its name. Pods that share one directory are not
  modelled.
- In `Transcription` and `TextMerge` a character stands for those the code treats alike, and the sentinel `[NO_SPEECH]`
  is one. What a model says is free of white space at its ends, since `callChatCompletion` trims it.
- In `TranscribeHandler` a body is two parts, the file and one field for all the others, and a size counts pieces; a
  piece between two parts stands for its boundary and headers, where `mime/multipart` may report the limit of the body
  with or without a prefix. Authentication takes no time, since the database owes none; a client that leaves is one that
  sends nothing more, for the handler does not look at the request's context. A call to no URL fails at once.
- In `Prompts` a text is the set of the placeholders in it; what it says besides is left out, so that a text of a file
  which makes an editor of the model in words of its own is none to the model. That the code's own template of edit_only
  makes one is read off its text.
- In `Startup` the library `sql-migrate`, MySQL and the deployment that starts an ended process again are external: the
  plan is the files without a record, a table that exists cannot be created, the two ALTERs can be repeated, a record
  cannot be inserted twice.
- In `AdminSession` the limiter and the password are one choice of `Login`; cookies live from their receipt for as long
  as a token from its making; a start finds `ADMIN_JWT_SECRET` or draws a new secret. The page is first opened when all
  services are up, and stays. A request that is over keeps no content. The server itself goes on accepting a token after
  its logout: `LogoutEnds` is about the browser, which has it no more.

## Runs

| Run | Instance | Shows |
|---|---|---|
| `speech` | one speech store and the admin's, one app, two keys, two requests, one administrator, TTL 1, delay 1, clock to 3, lost results | `AnswersStayFresh`, `WritesStayAuthorised`, `CacheWithinLimit`, `KeepsPromise` |
| `evict` | one store for a request and two administrators, three keys for two places, TTL 2, no lost results | `EvictionSparesLive`; `InvalidationClears`, for the API of `AppStore` in one process (the deployed services share no store): after the administrator's call only an entry that overtook the invalidation can be wrong |
| `admin_races` | four requests about one app, three keys | `ClaimsAreTrue` (`AuditedOnlyIfDone` and `AnswersTellTheTruth`), `RowsAreLastSet` (`LiveKeyIsLastDrawn` and `StatusIsLastSet`) |
| `limiter` | two addresses, four logins, two allowed in a window of three, skew 1, clock to 6 | `RateIsLimited`, `RejectionIsEarned` |
| `server` | two requests, one without audio, a channel of one, two days of two halves, one day of retention, one call that fails | `KeepsLogPromise`, `LossesWereAbandoned`, `KeptOnDisk`, `RetentionKept`, `StopsInTheEnd`, `OldOnesGo` |
| `transcription` | every configuration of engine and mode, every set of options, files for any of the three templates whose texts have no placeholder, the editor's, one about emotions, or all, lists of two, one and two models, one call up to 2 of a total of 3 (1 with the Qwen timeout); typed texts of up to two characters, answers of up to three | `FailsOverInOrder`, `TurnsGuaranteed`, `OnlyEditorsRewrite`, `PromptsAgree`, `TextSurvives`, `AlwaysAnswers` |
| `rows` | two apps and app `'*'`, one subject, the global scope and another, two contents, one GET, two fields | `ChosenByPriority`, `NothingForeign`, `LastNamedCounts`, `ResetTellsTheTruth` |
| `admin_service` | two services, six migrations of which four create, two kills, three requests of any kind, tokens of one hour, two hours | `ServesOnCompleteSchema`, `StartsInTheEnd`, `LogoutEnds`, `NoSpuriousRefusal` |
| `handler` | every engine with every choice of four URLs and keys, both modes, settings of the log, limits unset, 1 or 4 pieces; requests for every engine and mode, a model of another engine, every reason to be refused, files and fields of 0, 1 or 4 pieces; timeouts of 2 to read, 4 to write, 3 for all calls, 2 for one | `ValidatedServes`, `OnlyLateLoseAnswer`, `EveryRequestEnds`, and `HandlerTypeOK`, which says that `Transcription` is given what it takes for granted |
| `reset_promise`, `orphans`, `not_found` | as small as the counterexample | see *Findings* |

**Bounds.** `MaxTime` ends the clock after an entry has been made, expired and been replaced, and after more than
Staleness + MaxDelay has gone by since a change; `MaxRevoked` bounds how many answers administrators revoke (two: an app
changed twice). The keys of the model are used once each, so two keys are one reset and three are two. In `limiter` four
logins are one more than needed to exceed the limit across one pruning, and the clock covers two windows. In `server`
two entries fill the channel and the hand, or overflow a channel nobody reads; a day of two halves puts the cutoff at
midnight and in the middle of a day; one failed call is enough to leave a directory for the next pass, and a second
would only do so again. In `admin_service` the two services find each other's statements at every place of the six
files, one can be killed twice or each once, and three requests are a login, another tab's login or logout, and what
comes between; tokens end within the clock. In `transcription` a list of two with a requested model in front makes three
calls possible, of which two time out within the total. In `rows` three profiles fill a whole chain; GETs do not touch
each other, so one is enough; beside a configuration one profile shows what deleting an app leaves. In `handler` the
timeouts stand to each other as the defaults do (30, 60 and 45 seconds), so that a body may arrive in time for its
answer and too late for it, and bodies of two to ten pieces meet limits of 4 and 10 in a part, between two and at the
end. A symmetry set is used only where every property treats its members alike, and in no run with a liveness property.

The deadlock check is off where the system really stops: requests of `AdminApps` and `LoginRateLimiter` are used up, the
process of `SpeechServer` ends, `Transcription` returns, the one request of `TranscribeHandler` ends, the requests and
kills of `AdminService` are used up.

**Fairness.** `SpeechServer`: `main`, the worker and the cleaner are goroutines that the runtime schedules (weak
fairness each: `Main`, `WorkStep`, `CleanAgain`, whose ticker goes off as long as the cleaner waits, and `RemoveStep`).
The cleaner's select may find its ticker ready as well as the cancel and picks at random, so it cannot take the other
branch for ever (strong fairness of `CleanerEnds`). Nothing is assumed of handlers: `StopsInTheEnd` holds although a
handler may hang, because Shutdown times out. Nor is the clock: `OldOnesGo` holds although the worker may make a
directory again that has just been removed, since it does so once for each entry, and calls that fail are bounded.
`Transcription`: the loop runs and timers fire (weak fairness of its own steps and of the clock); the upstream service
owes no answer. `TranscribeHandler`: the same, and the server's timers fire while it reads; the client owes no byte.
`AdminService`: a process runs, and is started again when it has ended (weak fairness of each service's `StartUp`);
kills are bounded, and nothing is assumed of the browser. `StartsInTheEnd` has one way out, which the code really has:
`Stuck`, a service killed between a CREATE and its record, whose table is in the way of every later start.

## Findings

1. `reset_promise`, `OldKeyStops`: the admin page (`static/index.html:157`) promises that an old key stops working
   within 60 seconds; the time is `SPEECH_APP_CACHE_TTL`, any positive number, because the admin's invalidation reaches
   only its own process. Instance: TTL 3, promise 1.
2. `orphans`, `NoOrphanRows`: "Delete app + related data" (`README.md:189`), but a request authenticated before the
   delete, or from the cache after it, writes a row for the deleted app; a second DELETE answers 404 and rolls back.
3. `not_found`, `NotFoundMeansAbsent`: setting the status an app already has is answered "app not found".

Not runs, but met on the way: "Requests exceeding this are rejected with 413" (`config.go:56`), but the handler knows
the error of the limit only when it comes bare, from within a part, and on the line of a boundary it has a prefix, so
that the answer is 400 "audio file is required" (`TooLargeMessages`); "Audio file (max 5 MB)" (`README.md:152`) is the
default limit of the upload, a file may have 3 MB; `VOICE_LITELLM_URL` and `VOICE_LITELLM_KEY` are "required"
(`README.md:202`), but `Validate` returns early for Qwen with its own, and a request with another engine then cannot be
served (`ValidatedServes` says that nothing else can go wrong in this way); "5 req/min/IP" (`README.md:233`) does not
hold exactly, since the clock is read before the lock and a decision may be overtaken (`RateIsLimited` allows for the
skew); "all models failed" is also said when the total time ended with models left; a session's token is accepted until
it expires although its user has logged out; in the edit modes only the exact sentinel keeps the input buffer
(`transcribe.go:144`), where append mode and the log ask `IsNoSpeech`; the requested model is called a second time when
the list holds it too; with the default timeouts the answer to an upload that takes more than 15 seconds may be finished
after the connection can be written (`OnlyLateLoseAnswer` gives the bound, `SPEECH_WRITE_TIMEOUT` less
`VOICE_TOTAL_TIMEOUT`); `ADMIN_TOKEN_EXPIRE` is taken without asking whether it is positive, and with zero every token
has expired when it is made; `SPEECH_READ_TIMEOUT` is documented in seconds and parsed as a duration with a unit; GET
/vocabularies formats `updated_at` with a literal `Z` (`api/vocabulary.go:157`), although the DSN's `loc` defaults to
the local time zone; a GET of a vocabulary that is overtaken can answer that there is none although there was one at
every moment (drop `overtaken` from `ChosenByPriority` and TLC shows it); the local configuration knows no priority of
scopes, where the vocabulary does; LoadPrompts warns that without `{{RULE5_TITLE}}` the emotion toggle will not affect
the system message (`prompt_config.go:129`), but `{{EMOTION_SECTION}}` and `{{EMOTION_EXAMPLES}}` are replaced all the
same; a custom system prompt without `{{EDIT_SECTION}}` leaves a task to edit without the editor's rules, unless it has
its own, and no warning is given.

## Proofs

TLAPS proves, for every value of the constants that satisfies the named assumptions (`StoreConstants`,
`LimiterConstants`, `ScopeConstant`, `AnyoneIsNoApp`, `NoKeyDrawn`, `DefaultConstants`, `BufferConstant`,
`FilesConstants`, `StartupConstants`, `SessionConstants`, `TranscriptionConstants`, `HandlerConstants`: positive TTL,
limit, window, number of attempts, channel, token lifetime and timeouts; finitely many login requests; `'*'` is no app's
id, NULL no value):

- `AppStoreProofs!TypeCorrect`, `LimitHolds`, `EvictionSpares`. The limit is inductive with the types: the entry picked
  by `evictOldest` exists because a full cache is not empty and a finite set of expiries has a least one.
- `AppStoreProofs!Freshness`, `AnswersAreFresh`, `WritesAreAuthorised`. `AnswersStayFresh` is not inductive: it speaks
  of the moment of an answer, and the danger is in the entries and in the requests between their read and their
  insertion. `FreshInv` strengthens it: every cached entry still resolves or its expiry is at most `MaxDelay + TTL`
  after the moment it ceased to; every row on its way to the cache still resolves or ceased to at or after its read,
  which is at most `MaxDelay` old; every request in its handler was accepted, at most `MaxDelay` ago, with an answer
  that still resolves or had ceased to at most Staleness before. The caches of other processes and the lost
  invalidations do not matter to the argument, which is the point: expiry alone gives the bound.
- `AppStoreProofs!InvalidationHolds`, for administrators and requests that share one store, which `AppStore` allows and
  neither deployed service does: the admin service never authenticates, the speech service never invalidates.
  `SharedInv`: while an invalidation is pending a wrong entry may be as old as it likes; otherwise it was made at or
  after the change that made it wrong, since the invalidation removed what was older. A new app makes no entry wrong.
- `AdminAppsProofs!AdminAppsTypes`, `ClaimsHold`, `RowsHold`. `AdminInv`:
  the place a request has reached tells whether its statement took effect; a record comes after the effect; the last
  commit that named a key or a status named the one in the table. `FoundRowsSuffice` is the remedy of finding 3: with
  `clientFoundRows` in the DSN, `NotFoundMeansAbsent` holds.
- `AppStoreProofs!PromiseKept`: the stores implement `BoundedStaleAuth` with the outcome of each request as the
  refinement mapping; lookups that miss, reads, evictions and invalidations are stutters, a hit or an insertion is
  `Decide`.
- `AppStoreProofs!ResetTakesEffect` is the remedy of finding 1: whatever time the page promises, it keeps the promise if
  the staleness of the caches, the time to live and the delay of a slow request, is no longer than that.
- `SpeechRowsProofs!TypeCorrect`, `Isolation`, `PriorityHolds`, `UpdatesAreKept`, `ResetIsTrue`. Priority rests on
  `EmptyStays`: the places a GET found empty are empty still, unless it was overtaken; then the last SELECT sees the
  choice. Isolation rests on the key of a row naming for whom its content was put, and the updates on a row being what
  was said of it. A reset tells the truth because a row of NULL columns and no row at all both come to the defaults.
- `LoginRateLimiterProofs!TypeCorrect`, `RateHolds`, `RejectionsAreEarned`. The invariant says that a slice holds only
  attempts admitted for its address, at most `maxAttempts` of them; that an admitted attempt missing from its slice is
  at least a window old by the present clock; that a request waiting for the lock read its clock at most `MaxSkew` ago;
  and that the rate holds for the intervals from every integer, where `RateIsLimited` looks at those that begin up to
  now.

- `SpeechServerProofs!LoggerTypes`, `OrderKept`, `OnlyLateAreLost`, `LossesAreAbandoned`. `LossesWereAbandoned` speaks
  of the end of the process; `ShutdownInv` says why it comes about: the worker leaves only when told to and with an
  empty hand and channel, so that what is in the channel of a worker that has gone came after the cancel
  (`WorkerLeavesLast`); the cancel comes after Shutdown, when every request still in flight is abandoned, so that
  whoever sends or is refused after it is (`ShutdownInOrder`, `LateWereAbandoned`); and the process ends after the
  worker. What was sent is accepted, and what was accepted is written, in hand or in the channel: by `InOrderOnce` an
  entry that was sent and not written is late. `WorkOnLogger` reduces what the worker does with files to what it does to
  the logger, so that nothing about files is needed.
- `SpeechServerProofs!LogPromiseKept`: the logger implements `BoundedLog`, which says in one specification what order,
  bound and close mean for an entry. The proof goes step by step over `ShutdownInv` and `LateIsLate` (what came late was
  sent after the cancel): a receive and the start of the drain are stutters, since the entry only goes from the channel
  to the hand; a write is `Deliver`, because the hand is the head of what waits; a full channel means that `BufferSize`
  entries wait, with one more in the hand at most; the end of the drain is `Finish`, whatever is sent after it.
- `SpeechServerProofs!SpeechServerTypes`, `EntriesAreKept`, `RetentionIsKept`. `FilesInv`: what is in the log or in hand
  is of a request that was accepted, whose day no longer changes; the entry in hand has its directory and, before its
  record is written, its audio, unless a call failed or its day is past the retention; the cleaner holds files of days
  past the retention only, and a day that is past it stays so (`PastIsOver`). The arithmetic of days is in `Quotient`
  and `Reaches`.
- `AdminServiceProofs!CompleteSchemaServed`, `AdminServiceTypes`, `LogoutEndsSession`. For the schema, `SchemaInv`: the
  plan of a service always holds every migration without a record, whatever the others have recorded since, so that
  before the least of it everything is on record, and an empty plan means a complete schema. For the logout,
  `LogoutInv`: a token the browser knows belongs to a login that is over, so that no late answer brings it back; a token
  whose logout was answered is out of the cookies or was refused; and a token that is refused once stays so, because
  only its own login signs it. Requests already sent with it are not concerned.
- `AdminServiceProofs!NoRefusalWithoutCause`. `SessionInv`: in a session both cookies are of that session and last at
  least as long as its token is signed; the header a request was made with is the cookie it is sent with, unless another
  login or logout overtook it or the session expired; a login that is over never signs again.
- `TranscriptionProofs!OrderOfFailover`, `TurnsHold`, `EditorsOnly`, `AgreementOfMessages`, `TranscriptionTypes`.
  `CallInv`: the models called and the queue make up the list of the request, and every call Transcribe is done with
  failed in a way worth another try (`InOrder`); the age of the context of all calls is at most a call's timeout for
  each call made, counting the present one (`InTime`), which at the end leaves a model without its turn only when those
  called could have used up the time; and GPT never has a text to edit in its hands (`InBuffer`). The two messages agree
  because of what mode and buffer can be together. `PromptFiles` may be any set of files: nothing is assumed of the
  placeholders in a text of a file, and none may be there, so that `PromptsAgree` promises an editor for a task to edit
  only where the text is the code's own or has the placeholder, and forbids one for every other task whatever the text.

- `TranscriptionProofs!TextIsKept`: `TextSurvives` for texts of any length over any classes of characters. `TrimRight`,
  `TrimLeft`, `TrimSpace` and the reversal of a text are defined through the least and the greatest of a set of
  positions. That such an element exists is the only induction needed, and `LeastOf` takes it from the well-founded
  order of the naturals (`WFMin`), which has no operator for a parameter. From it follow what a trim cuts off and what
  it leaves (`RightTrimmed`, `LeftTrimmed`), what has a given beginning or end (`PrefixOfConcat`, `SuffixOfConcat`), and
  that an edit differs from the model's text in the white space of one place (`EditKept`, `SameUpToWhite`), while an
  append has both texts whole (`AppendKept`).
- `TranscriptionProofs!RepeatsHold`: if the list of an engine holds no model twice, only the model that the request
  names is called twice, and its first call is the first of all.
- `TranscriptionProofs!StepsRunOut`, `TranscribeHandlerProofs!RequestStepsRunOut`: the argument for termination without
  fairness. `StepsLeft`, for the handler `RequestStepsLeft`, is a natural number that every step lowers: a model costs
  two steps, the clock has what is left of its time, a body what is left of its limit and its time. What is not proved
  of `AlwaysAnswers` and `EveryRequestEnds` is then only that a step is taken while there is one.
- `TranscribeHandlerProofs!HandlerTypes`, `ValidationSuffices`, `AnswersGetThrough`, `ConsentHolds`. `HandlerInv` rests
  on `CallInv`: what is loaded and what the handler makes of a form are a start for Transcribe (`FreshCall`), and from
  then on every step is one of `Transcription`, so that its invariants hold within the handler (`TranscriptionHolds`). A
  service that runs has the configuration `Validate` let pass; the time since the form was complete is at most the age
  of the calls' context, and that is bounded by `VOICE_TOTAL_TIMEOUT`. `TimeHolds`: a request is over at most
  `SPEECH_READ_TIMEOUT` and `VOICE_TOTAL_TIMEOUT` after its header.

Only model-checked: liveness (`StopsInTheEnd`, `OldOnesGo`, `AlwaysAnswers`, `EveryRequestEnds`, `StartsInTheEnd`:
fairness and ENABLED are beyond the prover). Every other property of a passing run is proved. `InOrderOnce`,
`OnlyLateLost`, `ConsentRespected`, `RepeatsAreNamed`, `TimeIsBounded` and the measures of the steps that are left are
proved and belong to no run; the first is what `KeepsLogPromise` says of the order, in terms of the history `accepted`.

## Not modelled

DSN parameters are data, and so is what the texts of the prompts say beside their placeholders, with the checks
`LoadPrompts` makes on the fields of the user message. `List`,
`GetByAppID` as an endpoint, the health check and the configuration endpoint only read. Pulling the form fields out of a
request and cutting the context to its limits are without state. Of the settings only those are modelled that meet
another part or each other: engine, edit mode, URLs and keys, the limits of size, what is logged, the secret of the
admin service, and that times, the channel and the retention are positive. Of the admin page nothing but its requests is
modelled, so not what it shows after two clicks. Several pods of the speech service that write and clean one directory
would need a model of a shared file system.

## Plan

Order: what can lose or leak a user's or an administrator's decision first, then what only a test of many interleavings
would find, then pure functions.

1. Done: `AppStore` over `AppTable` with `BoundedStaleAuth` above it; `AdminApps`; `LoginRateLimiter`; `AsrLogger` and
   `AsrLogFiles` under `SpeechServer`; `Transcription` over `TextMerge` and `Prompts` under `TranscribeHandler`;
   `Vocabulary` and `LocalConfig` under `SpeechRows`; `Startup` and `AdminSession` under `AdminService`.
2. Left: the rows of `SpeechRows` under the authentication of `AppStore`, so that a GET of a deleted app meets its own
   caches.
3. Proofs: every safety property of the runs and both refinements are proved. Left: measures like `StepsLeft` for the
   shutdown, from the signal on, and for the start of the services, which would leave of `StopsInTheEnd` and
   `StartsInTheEnd` only what fairness gives; the rows of item 2 when they are composed.
