# telegram-codex in TLA+

telegram-codex is a Telegram bot. Telegram posts updates to a webhook; the bot
asks `codex exec` for a reply and sends it back, and keeps its state in one
SQLite database. Two tokio worker threads run any number of tasks: webhook
requests, reply jobs, album timers and compaction jobs. No lock is held over an
`await`, and no two statements are in one transaction, so every statement and
every call is a point at which other tasks act.

This directory models the system part by part, checks the models with TLC on
small instances, and proves the most important properties with TLAPS for every
value of the constants. Paths below are relative to `src/src/`.

## The system

| Component | State | Operations | Models |
|---|---|---|---|
| Processed updates (`conversation/storage/processed_update_repository.rs`, `conversation/reply/processed_update_service.rs`) | table `processed_updates`: claim time, stored reply, sent mark; time of the last prune | find, begin_processing, clear_processing, mark_processed, save_pending_reply, prune | `ProcessedUpdateTable`, `UpdatePipeline`, `ReplyLedger` |
| Webhook and inbound pipeline (`telegram/webhook/`, `telegram/inbound/`) | none; the position of each task | route; unsupported → duplicate/replay → command → guard → claim → job; 200 or 500 to Telegram | `UpdatePipeline` |
| Reply job (`conversation/reply/reply_generation.rs`) | what it holds: downloads, a child, a ticker | prune, download, look up, generate, save, send, persist, refresh memory, mark; release on error | `UpdatePipeline`, `ConversationState`, `ServiceRuntime` |
| Album buffer (`conversation/storage/media_group_buffer_repository.rs`) | tables `media_group_buffers`, `media_group_messages` | enqueue, flush | `MediaGroupBuffer` |
| Job scheduler (`conversation/scheduler/job_scheduler.rs`), start and end of the process (`main.rs`) | handles of the running tasks | spawn, track, flush, shutdown; signal, drain, exit | `ServiceRuntime` |
| Codex runner (`codex/execution/exec_runner.rs`) | child process, workspace | spawn, feed the prompt, wait or time out, collect | `ServiceRuntime` |
| Attachments (`conversation/reply/attachment_downloader.rs`, `telegram/api/telegram_api.rs`) | slots, temporary directories | download, clean up | `ServiceRuntime` |
| Typing status (`telegram/api/typing_status.rs`) | a ticker | start, stop on drop | `ServiceRuntime` |
| Rate limiter (`conversation/reply/chat_rate_limiter.rs`) | a window of timestamps per chat, time of the last sweep | allow, sweep | `ChatRateLimiter` |
| Chat session (`conversation/storage/chat_session_repository.rs`, `conversation/session/session_service.rs`) | table `chat_sessions` | find_active, persist, reset, compact | `ConversationState`, `Conversation` |
| Long-term memory (`conversation/storage/chat_memory_repository.rs`) | table `chat_memories` | find, merge, persist, reset | `ConversationState` |
| Transcript (`codex/shared/transcript.rs`) | value: the last 100 messages | append, read back, compact_baseline | `TranscriptEntries`, `Transcript`; inputs `Algorithms` |
| Commands (`telegram/commands/`) | none | /start /new /help /status /session /memory /forget /compact | effects in `ConversationState`, reply and mark in `UpdatePipeline` |
| Update parser, inbound message, album merge (`telegram/shared/`, `conversation/storage/media_group_merger.rs`) | none | parse, store and load as JSON, merge | `InboundParsing`; inputs `Algorithms` |
| Reply parser (`codex/parsing/`) | none | candidate readings, text, suggested replies | `ReplyParsing`; inputs `Algorithms` |
| Message formatter (`telegram/shared/telegram_message_formatter.rs`) | none | normalise, keyboard; Markdown to HTML | `ReplyParsing`, `MessageFormatting`; inputs `Algorithms` |
| Configuration, health check | none after start-up | | not modelled |

How they interact: the webhook parses an update and routes an album photo to
the buffer, everything else to the inbound pipeline. The flush of an album
merges its photos and hands one message to the same pipeline. The guard asks
the limiter and then claims the message's updates; the job that follows
downloads the images, runs codex, stores its reply in `processed_updates`,
sends it (parsed and formatted), writes the session and the memory, and marks
the update as sent. A later delivery of the update finds the mark (and is
ignored), or the stored reply (and sends it), or an old claim (and takes it
over). Jobs and timers are tasks whose handles the scheduler keeps, so that
the end of the process can cancel them.

What is hard: Telegram repeats what was not answered with 200, and the answer
can be lost; calls fail half-way; the process restarts and only the tables
survive; a claim times out while its job still runs; reads are far from the
writes that depend on them (a Codex call lies between); clocks are read before
locks are taken and statements run; a task can be cancelled at every await, and
what it holds then has to be given back by somebody; a model's reply is text of
any shape that must come out as valid markup.

What makes each component correct:

- *Updates*: one owner per claim; one reply per update, stored before it is
  sent; a stored reply is never lost; nothing is marked, and so ignored for
  good, unanswered; what was acknowledged is answered in the end.
- *Albums*: no photo without its album's row; every buffered album has
  somebody who will flush it; buffered photos leave the buffer; the merged
  message does not depend on the order of arrival.
- *Process*: slots, directories, children and tickers are given back on every
  path; no half written output is taken for a reply; shutdown reaches every
  task, and nothing holds the exit up.
- *Limiter*: the limit holds in every window of time; windows do not outgrow
  it; quiet chats are forgotten.
- *Session and memory*: the session is the latest turns since /new, compacted
  or aged; what /new and /forget removed does not come back out of nowhere.
- *Text*: no chat is left without a word; an answer is found in whatever
  surrounds it; a conversation is kept in whole turns; what is sent is what was
  parsed; the HTML shows every character, and its tags are balanced.

## Modules

`ProcessedUpdateTable` has the rows of `processed_updates` and one operator per
SQL statement of the repository. `sent_at` is a flag: its value is never read.
Reply text, conversation state and suggested replies are always written
together and are one value.

`UpdatePipeline` runs workers over that table. A worker is a tokio task: a
webhook request that becomes the job it enqueues, or the flush of an album
that hands over its message. `task[w].pc` is the place in the code: `lookup`
(DuplicateUpdateHandler), `resend`/`resendPersist`/`markAll`, `command`,
`notice` (unsupported), `guard`/`reject`, `claim`/`insert`/`reclaim`/`rollback`
(begin_processing, one action per statement), then the job's `prune`, `delete`,
`generate`, `save`, `send`, `persist`, `mark`, and `release`. `Fail` ends a
task at any call (a job goes to `release`, a webhook answers 500), `Crash` ends
all tasks, `Respond` may lose the answer. Which message the guard refuses is a
free choice, and a call to Telegram may fail after the chat has the text.
`generated`, `answered`, `delivered` and `lapsed` are history variables:
`lapsed` has the updates whose claim was taken over after INFLIGHT_TIMEOUT_MS,
or whose row was pruned, since then the code guarantees no single answer.

`ReplyLedger` is the abstract promise of the pipeline, without tasks, claims or
clocks: an update is free, open or closed; it has one reply, which is written
down before the chat is told; it is closed only when its chat has been told
something. `UpdatePipeline!Ledger` is the refinement mapping (a row without the
sent mark is an open update), `ImplementsLedger` the claim.

`MediaGroupBuffer` has the two album tables, with the foreign key and its
cascade, and workers that are a photo's webhook request up to the moment its
timer is started, and the timer from then on. The history variable `abandoned`
has the albums that a flush failed on, or that a restart found, since their
deadline was last written.

`ServiceRuntime` has the process around the messages. `phase` is main.rs
(serving, draining, closing, exited). A task is spawned by a request or a flush
and then tracked, which are two steps, and it ends by itself, by `Cancel` at an
await after its abort, or with the process. Its record says what it holds: the
child process and how much of its output file is written, the typing ticker,
and what it took for a reply; `file[t][i]` is the download of its i-th image,
which is a task of its own that nobody aborts. The history variable `spilled`
has the tasks that lost hold of a directory in one of the three ways the code
allows (an abort, a failed lookup, a failed removal). `unbound` has what a flush
had spawned and not yet tracked when the scheduler was shut down, and what that
spawns in its turn: the tasks nobody can stop any more. (A flush that is past
its last await when the handles are drained spawns and tracks after that. The
model spawns in the step of that await; a spawn does not touch the handles, so
its place before or after the drain makes no difference.) What a task does to
the database is left to the other modules.

`ChatRateLimiter` has `allow` as two actions, `Stamp` (the clock) and `Decide`
(everything under the mutex, the sweep included). An admission carries its
timestamp, the time when it was pushed and a serial number, so that the `Vec`
can be a set.

`Transcript` is the bounded window, one element per exchange: what matters is
which messages a transcript draws on. `TranscriptEntries` has it entry by
entry, with what the reply client makes of a message without words or with a
quote, and TurnsStayWhole says that an exchange is indeed one element: no entry
is ever blank and lost when the stored state is read back. `ConversationState`
is one chat's session, memory and stored replies, with the jobs, replays and
commands that read and write them, one action per statement or call. The text
of a reply is what it may tell of (`drawn`): Codex writes it from the message,
the transcript and the memory the job has read (`Know`, `Generate`), the
transcript keeps it, and the memory is merged from the old memory, the message
and that text (`Merge`). A text the user quotes counts as said in the message
that quotes it.
`Conversation` is the abstract promise: a context that is heard, answered,
compacted, restarted and aged.

`InboundParsing`, `TranscriptEntries`, `ReplyParsing` and `MessageFormatting`
are functions, one operator per function of the code. A text is abstracted to
what the functions tell apart: in `InboundParsing` to its core and the white
space around it; in `ReplyParsing` to a sequence of pieces (words, a fence, a
JSON object, one that is not quite JSON, a quoted string, ...), where the
regular expressions that read broken JSON take the first "text" and the first
"suggested_replies", across pieces if need be; in `MessageFormatting` to a
sequence of one-character tokens, so that every delimiter, boundary and escape
is there, and what a fence may take for a language: letters, other characters
of such names, the blanks before them, and both line ends. The escapes inside
the strings of JSON are not modelled: what the regular expressions take out of
broken JSON keeps them, so "as it is" in AnswerIsFound means as they read it.

In `MessageFormatting` the loop over the matches in a text, and the rules that
call each other on what is left between them, are recursive functions of a
number (of rounds, of rules) and not recursive operators, so that the formatter
can be proved about: `Formatted` makes as many rounds as the text has
characters, which is more than there can be matches, and a round without a match
changes nothing. The loop over the code blocks is the same loop with another
search (`Find`).

`Algorithms` applies the functions of these four: every state after the first is
one input and what the code makes of it. AlgorithmsAssumption says what the
inputs are: any update with the parts Telegram may leave out, any album whose
photos have different message ids (Telegram's; the key of the table's rows is
the update id, `migrations.rs:32`), any series of messages the pipeline hands to
a job, any sequence of pieces, any text. There is no bound in it on the length
of any of them.

`MC*` modules give values; `MCAlgorithms` gives `Algorithms` bounded inputs.
`*Proofs` modules hold the theorems. `FormattingProofs` has the lemmas about the
formatter and `SequenceLemmas` the facts about sequences that
`AlgorithmsProofs` cites.

## Runs

Bounds are the sizes of the sets in the cfg, `MaxTime`, and the values of the
timeouts. The code's timeouts (5 minutes, 6 hours, 30 days, the TTL) are far
apart; the properties depend only on whether each has passed, so small numbers
in the same order reach every case.

| Run | Instance | Shows |
|---|---|---|
| `pipeline_faults` | 2 workers, one message of 2 updates, 2 replies, time 3, failures and crashes | TypeOK, ClaimExclusive, SentImpliesAnswered, NoRegeneration, StoredReplySurvives and ImplementsLedger (refinement of `ReplyLedger`), with redeliveries, rollbacks, time-outs and pruning |
| `pipeline_fair` | 2 workers, album, photo, command, unsupported message; no failures | AckedIsAnswered under `FairSpec` |
| `pipeline_retry` | 1 worker, 1 text, failures | refutes RetryCanRegenerate |
| `albums` | 2 workers, an album of 2 photos, time 2, all faults | TypeOK, NoOrphanPhotos, AlbumAttended, and AlbumFlushed under `FairSpec` |
| `album_lost` | 2 workers, 2 photos, no faults | refutes NoPhotoLost |
| `limiter` | 3 callers, 2 chats, limit 1, window 2, time 4 | TypeOK, NeverOutgrows, WindowBound, NoQuietChats |
| `conversation_serial` | 1 worker, 3 messages, window of 2 turns, TTL 1, time 4 | TypeOK, ImplementsConversation (refinement of `Conversation`) |
| `conversation_overlap` | 2 workers, 2 messages, failures | RestartHolds, ForgetHolds |
| `conversation_compact` | 2 workers, 3 messages | refutes CompactReplacesTranscript |
| `runtime` | 1 request at a time, 2 tasks, 2 images over 1 slot, all faults | TypeOK, SlotsConserved, FilesOwned, NoHalfReplies, NothingOutlivesItsJob, ShutdownReachesAll; ExitIsNotHeldUp and ExecEnds under `FairSpec` |
| `runtime_leak` | the same, only the lookups fail | refutes CallerRemovesDirectory |
| `algorithms` | 91 thousand inputs, see below | the eleven properties of `Algorithms`: ChatsAreAnswered, QuotesAreExplained, MessagesSurviveStorage (parser), AlbumsMerge, TranscriptsAreWhole, AnswersAreFound, KeyboardsAreUsable, RepliesAreSentAsParsed (replies), TextIsShown, MarkupIsRendered, TagsAreLocal (formatter) |

Two workers are enough for a race between two deliveries of one update; for the
limiter a third adds a second stale timestamp (the bound of WindowBound is
reached). Two updates of one message are the fewest with a claim that fails
after one that succeeded. Two turns are the fewest with a turn that is kept
when another is dropped. Two tasks are the fewest in which a flush spawns a
job, or two jobs compete for the slot while one is aborted; two images are the
fewest with one that fails after one that is kept.

The inputs of `algorithms` are: every combination of the optional parts of a
message, of its quoted message, and of a part of an update that is missing;
albums of up to three photos in every order of arrival, with update ids in
another order than message ids; conversations of up to three messages out of
fourteen (photos and albums with and without words, quotes of every kind) over a
window of four entries, so that the first turns fall out; replies of up to four
pieces out of thirteen; texts of up to five to nine characters over small
alphabets that hold every delimiter, and one or two code blocks with blanks,
names, line ends and other characters behind the opening fence. Three photos are
the fewest with an order that is neither kept nor reversed; four pieces the
fewest with a fence on both sides of two others; nine characters hold a complete
code block.

`CHECK_DEADLOCK FALSE` in every cfg: once all messages are acknowledged, the
clock is at its bound and every task is done, or the process has exited, or the
one input has been read, the system rests.

### Fairness

`UpdatePipeline!FairSpec` has weak fairness of each worker's steps, as a webhook
request and as a job; its clock need not move. `MediaGroupBuffer!FairSpec` has
it of each worker's enqueue and flush and of the clock, which the timers wait
for. tokio polls every task that is ready and every call the code awaits
is assumed to return (the Codex call has a timeout). Deliveries, failures and
crashes are never forced.

`ServiceRuntime!FairSpec` assumes less, since there the calls are the subject:
the main task, the requests, the flushes and the steps of a job that wait only
for the runtime, the disk or the database are fair. Transfers, the calls to
Telegram, the child process and the writing of its prompt are not forced to
end, because no timeout of the code bounds them (`reqwest::Client::new()` sets
none). ExecEnds therefore starts when the prompt has been written, and
ExitIsNotHeldUp holds although a transfer or a child may never end. A webhook
request is assumed to get its answers, since the drain waits for it.

### What the refuted properties show

- `RetryCanRegenerate`: a comment says that releasing the claim of a failed job
  lets Telegram's retry regenerate the reply. The webhook has answered 200
  before the job starts, so no retry comes and the message stays unanswered.
- `NoPhotoLost`: a photo stored between the flush's select and its delete is
  deleted unread, although it was acknowledged.
- `CompactReplacesTranscript`: a turn added while Codex summarises is in
  neither the baseline nor the session.
- `CallerRemovesDirectory`: a comment says that the caller of a download
  removes its directory. `generate_reply` looks up the session and the memory
  after the downloads, and an error there returns before the cleanup.

ClaimExclusive, NoRegeneration and StoredReplySurvives have an exception that is
needed, too: updates that were taken over (`lapsed`). begin_processing decides
on the row it has read and then updates by id alone. Once a claim has timed out,
a second delivery that has read the same row can claim it first, or the job that
timed out can store its reply after all; the update then takes the row
nevertheless, and erases that reply, although the comment at
`processed_update_repository.rs:54-55` says that an update which is owned or
answered is refused. So the three do not show that the age of a claim is tested
rightly, or what a takeover may meet.

RestartHolds has an exception that is needed: a reply that was being written
when the user said /new puts the old transcript back afterwards, because the
job persists what it read before. Without the exception the property is false.
It is about exchanges: what a later reply says out of the memory, which /new
leaves alone, does not count. ForgetHolds needs more exceptions, since /forget
leaves the session alone: what the session, a stored reply or an unfinished task
had in hand at that moment, and what those texts drew on, can find its way back
into the memory through a later reply. A chat that has none of these has
forgotten for good.

## Proofs

All theorems hold for every value of the constants that satisfies the named
assumptions of the modules (types, finiteness of the tasks, and that the
"nothing" values are not members of the sets they are added to).

`UpdatePipelineProofs`: `TypeCorrect`; `ClaimsAreExclusive`,
`OneReplyPerUpdate` and `StoredRepliesSurvive` from one inductive invariant
`LiveInv`; `IgnoredOnlyIfAnswered` from `ToldInv`. None of the properties is
inductive. For updates that have not lapsed, `LiveInv` adds that a task that
owns a claim has the row (`ClaimHasRow`), with no reply in it until the owner
saves one (`ClaimUnsaved`); that a task about to insert has not claimed what it
looks for (`NothingClaimedYet`); that a job owns its message's primary update
(`OwnsPrimary`); and that what is being sent, or was delivered, is what is
stored (`DeliveringStored`, `DeliveredStored`). Two generated replies for one
update would then both be the stored one. `ToldInv` adds that every task that
is about to mark an update has told the chat (`ToldBeforeMark`).

The refinement of `ReplyLedger` is `PipelineKeepsTheLedger`, in the same module.
One lemma per kind of ledger step says what a row and a chat must do to be that
step; each action of the pipeline is then, for every update that has not lapsed,
one of them or a stutter, by `LiveInv` and `ToldInv`.

`MediaGroupBufferProofs`: `TypeCorrect`; `BufferedPhotosHaveAlbums` (the
cascade and the foreign key, under every fault); `AlbumsAreAttended`, which is
inductive with the types: a step of a task either keeps its album attended to,
or moves the deadline and attends to the new one, or removes the row, or has
the photo repeated, or abandons the album.

`ServiceRuntimeProofs`: `TypeCorrect`, `RepliesAreWhole` and
`ChildrenAndTickersEnd` from `RuntimeInv`, which adds that a child that
succeeded has no half written file and that only reply jobs download
(`SoundTasks`), and that a spawner knows what it has spawned (`SpawnedKnown`).
`ShutdownIsComplete` needs two more facts: no request is in progress once the
server has returned (`NoRequests`), and before that every running task is in the
list of handles or in the hands of whoever spawned it (`Handles`), so that the
drain aborts it or finds it untracked. A task that spawns after the drain has
not been aborted, so it has escaped itself. `DirectoriesAreOwned` needs that
transfers exist only under a job that waits for them (`FilesHeld`).
`SlotsAreConserved` is inductive with the types; its steps add one element to a
finite set or take one away.

`ConversationStateProofs`: `TypeCorrect`; `RestartIsKept` and `ForgetIsKept`.
RestartHolds speaks of the session only, which is not inductive: `RestartInv`
says the same of everything a message can come back from, the session, the
stored replies and what each task has read or is about to write. `ForgetInv`
does so for the memory, the facts tasks have read, and all that the texts of the
session, of stored replies and of tasks under way draw on.

The refinement of `Conversation` is `OneTaskKeepsThePromise`: with one task and
no failing calls, for any window and any TTL. The mapping reads the session's
turns unless the session has expired, so a step that holds an older copy of
them could be no step of `Conversation`; `LoneInv` says that what the only task
has read is still the context (extended, or summarised, when it writes), and
that a stored reply belongs to that task, so that there is none to replay. With
two tasks both fail, which is what `CompactReplacesTranscript` shows.

`ChatRateLimiterProofs`, for any number of callers: `TypeCorrect`;
`WindowsNeverOutgrow`; `LimitHolds`, that is WindowBound; `QuietChatsLeave`.
WindowBound is not inductive, since it does not say whether an admission that
counts is still in the table. `BoundInv` does: either all admissions of a
window of time are in the table, and then they are at most Max; or the clock
has left that window, and then they and the callers that still hold one of its
timestamps are together within the bound, so each of those callers may be let
through once. For one caller `SingleCallerIsExact` gives the exact limit; its
invariant (`ExactInv`) says that timestamps come in order and that what has
left the table had expired by the last one. QuietChatsLeave follows from
`FreshInv`: what the table holds was pushed less than a window before the last
sweep. It needs `Window > 0`, as the default of RATE_LIMIT_WINDOW_MS (10000)
has it: with a window of 0 an admission has expired when it is pushed.

`AlgorithmsProofs`: the eleven properties of `Algorithms`, for updates, albums,
conversations, replies and texts of any length. The invariant is `Computed`: a state
holds nothing, or an input and the result of the function for it; the rest is
what the functions return. The prover has no induction scheme that takes an
operator, so `SequenceLemmas` states induction over numbers for sets
(NatSetInduction, UpToInduction), and with it that a function defined by
recursion on numbers exists and has its values where they belong
(RecursionExists). A fold over a message's images, an album's photos, a list of
suggested replies or the turns of a conversation is then a function with known
steps (NormalizeSteps, SanitizeSteps, CleanRepliesFacts, FlattenSteps), about
which an invariant is shown step by step. What each theorem rests on:

- `EveryChatIsAnswered`, `EveryQuoteIsExplained`: the fields of a parsed message
  (ParseFields), from what each getter returns for missing parts.
- `EveryMessageSurvivesStorage`: the fields of InboundMessage::new are already in
  the form it gives them, so that reading a message back changes nothing
  (NewOfInbound), and this holds of merged messages, too (MergeFields).
- `EveryAlbumMerges`: a sequence of different message ids has one order
  (SortingExists, SortedUnique), so that two orders of arrival are sorted into
  the same photos.
- `EveryTranscriptIsWhole`: the window of a window is a window (WindowOfWindow),
  each turn adds two entries that are not blank (TurnIsStored), and an even
  window is cut between turns.
- `EveryAnswerIsFound`: the first candidate that is JSON decides
  (ParsePayloadFacts); for an answer among words and fences, or one encoded twice,
  each reading is that answer or not JSON (the `Alone` lemmas).
- `EveryKeyboardIsUsable`, `EveryReplyIsSentAsParsed`: the first cleaning leaves
  replies that are not blank (SanitizeSteps), though the same one twice perhaps;
  the second leaves one to three different ones (CleanRepliesFacts). A text
  without objects and quotes has no reading but itself (PlainTextIsKept).

The three theorems about the formatter rest on `FormattingProofs`. A loop over
the matches in a text is reasoned about with `LoopInduction`: what holds at its
start and is kept by every round holds when no match is left. It is applied
twice.

- `EveryTextIsShown` (FormatShows): an escaped text is read back as it was
  written (EscapeReads), and HTML is read part by part unless a part begins
  inside an entity (SourceConcat). A match is its content between two
  delimiters, which is how its tag is read, so a loop over inline matches loses
  nothing (InlineShows), on any level of the rules (LevelsShow). A code block
  passes over a language and line ends, so its loop is shown to produce HTML that
  reads as the text once each block is given one such gap back (`Reads`,
  BlocksShow); that what lies between fence and body is one is GapIs.
- `EveryMarkupIsRendered`, `EveryTagIsLocal` (FormatRenders): neither property
  is kept by the loop alone, since text of one rule lands between tags of
  another. The invariant is `WellFormed`: HTML that does not begin inside an
  entity, without a match in any stretch outside the tags (`Rendered`), whose
  tags are closed where they should be and have no underscore next to italics
  (`Paired`). Two such HTMLs may be put together where a tag is (Joining). What
  a level of the rules needs of a text is that no earlier rule matches in it
  (`Level`), and this is inherited by the parts the next level gets, because
  whatever matches in a part matches in the whole text (MatchesLocal). For
  italics that is false of parts in general: two underscores that are alone in
  a part may have a third one outside. It holds where the part begins and ends
  at a match of the italics rule itself (LoneEdges), and no rule cuts the text
  further after that one: the proof needs it to be the last of INLINE_RULES
  (LastLevel).

The theorems of `AlgorithmsProofs` assume what TLC evaluates for the instance of
`algorithms`: trim is idempotent and the sentences that stand for a quoted image
are not blank; Telegram's file ids have no white space; what truncate_chars
leaves of a suggested reply is not blank and short enough, and the default
replies are; a piece has a brace when it is an object or contains one; the
window is even (100 in the code). That the message ids of an album differ is an
assumption about Telegram.

Every invariant and every refinement that a passing run checks is proved. Only
model-checked:

- Liveness (AckedIsAnswered, AlbumFlushed, ExitIsNotHeldUp, ExecEnds), which is
  beyond the prover.
- Refuted claims, which need one trace only.

## Not modelled

- Configuration, health check, command registration, the construction of the
  objects: no state that changes afterwards.
- Prompts, the wording of commands and status messages, the recognition of a
  command in a text, the command line of codex, captured stderr, URLs: text
  that no property is about.
- The JSON of a stored transcript; one that cannot be read counts as none.
- `ServiceRuntime` has no database, and the other modules have no cancellation
  between two awaits: to them an abort is the `Crash` that follows it, since
  only the end of the process aborts jobs.
- Album buffer and pipeline in one module: the pipeline sees an album that is
  handed over once or twice, or a photo of it alone.
- The clock never goes back. Every SQL statement is atomic and durable.
- `ConversationState` lets every message get one reply job; repeated jobs are
  `UpdatePipeline`'s subject.

## Plan

1. Done: update pipeline and its ledger, albums, limiter, conversation, the
   process, the algorithms, with the proofs above.
2. Album buffer composed with the pipeline: two handoffs of one group with
   different photos.
3. Command recognition as a function.

One run answers one question, and there are twelve: faults, fairness and each
refuted claim have one each. Text and album deliveries share `pipeline_faults`,
whose message of two updates has every step a message of one has, and the
safety and the liveness of albums share `albums`.
