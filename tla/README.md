# A verification of the xlpod launcher

This directory holds TLA+ models of the launcher of this repository
(`launcher/xlpod-server`, `launcher/xlpod-launcher`) and of the Python code that
works with it (`launcher/xlpod-server/src/worker`, `client/xlpod`), TLC
configurations that check them on small instances, and theorems about them whose
proofs TLAPS checks. Paths below are relative to the repository; `S/` stands for
`launcher/xlpod-server/src/`. `PROJECT.json` maps every definition to the lines
it models.

Contents: [the system](#the-system) · [the plan](#the-plan) ·
[the modules](#the-modules-and-the-code) · [the runs](#the-runs) ·
[fairness](#fairness) · [the proofs](#the-proofs) ·
[disagreements](#where-code-and-documents-disagree) ·
[what is left out](#what-is-not-modelled)

## The system

The launcher is a local HTTPS server. A browser page or a Python script obtains
a token through a consent dialog and then runs Python snippets, reads files and
workbooks, and talks to an AI provider whose model may call tools on the user's
machine. Each HTTP request is a task of the tokio runtime; state is shared
between tasks behind locks. When a client disconnects, hyper drops the task's
future at the `await` it is parked on: the code after that `await` never runs,
and only destructors do. Most of what is hard in this program comes from that.

| Component | State | Operations | Talks to |
|---|---|---|---|
| **Python worker** `S/python_worker.rs`, `S/worker/python_worker.py` | mutex, slot with one child process, its pipes, the next id | `exec`, `excel_call` (both `call`), spawn, kill; in the child: one loop of read, run, answer | routes `/run/python`, `/excel/*`, `/bundle/*`, tool dispatch |
| **AI chat** `S/routes.rs` `ai_chat`, `S/ai/session.rs`, `S/ai/dispatch.rs`, `S/ai/tools.rs`, `S/ai/trust_window.rs` | sessions with transcript and scopes, trust windows | open a session, chat (up to eight rounds of provider call and tools), open a window, read the history | provider, worker, consent dialog, ledger |
| **Cost ledger** `S/ai/cost.rs` | `cost.jsonl` under a file mutex, rollup in memory | open, record, over_budget, rollup | AI chat, `/ai/cost/today` |
| **Rate limiter** `S/rate_limit.rs` | per token, the times of recent requests | check | the bearer guard |
| **Tokens, handshake, consent** `S/auth.rs`, `S/routes.rs` `handshake`, `S/consent.rs`, `xlpod-launcher/src/consent_messagebox.rs` | tokens with scopes, roots and expiry | issue, lookup, ask the user | every guarded route |
| **Middleware, audit** `S/middleware.rs`, `S/audit.rs` | the audit file under a mutex | wrap each request; host, origin, bearer and scope guards | every route |
| **Bundle** `client/xlpod/bundle.py`, `S/worker/python_worker.py`, `S/routes.rs` | a ZIP part inside a workbook, a temporary file | read, write (rewrite the archive and rename) | worker; Excel writes the same file |
| **File reads** `S/fs_read.rs` | none | canonicalise, compare with the roots, read | `/fs/read`, tool `fs_read` |
| **Client and panel** `client/xlpod/client.py`, `examples/living_workbook/lite_panel.py` | token, the panel's own history | handshake, requests with timeouts, send, save, restore | the launcher |
| **Provider, keychain** `S/ai/anthropic.rs`, `S/ai/provider.rs`, `S/ai/keychain.rs` | registry, API keys | chat with a 60 s timeout, set and delete a key | the provider's service |
| **Certificates** `S/ca.rs`, `S/tls.rs` | certificate and key files, the thumbprint, the user's root store | ensure, load | server start |
| **Start-up, tray** `S/lib.rs`, `S/bind.rs`, `xlpod-launcher/src/main.rs` | none of its own | bind, build the state, serve | all |

### What is hard, and what makes each component correct

*Python worker.* One mutex serialises callers, and nothing else matches answers
to requests: the id that each line carries is not compared. A caller can leave at
four awaits (the mutex, the write, the read, the wait for a killed child), the
timeout covers the read alone, the child can die at any moment, and a snippet
shares the pipe's descriptors with the protocol. Correct means: callers are served
in order, each is told the outcome of its own request, no answer is delivered
twice or from one process into another, no child is left running outside the
slot, and every caller returns.

*AI chat.* Two chats may share a session. Each works on a copy of the transcript
and stores its own messages one by one, so transcripts interleave, and a client
that leaves between a tool use and its result leaves the tool use unanswered.
Dispatch looks at scopes, plan-only mode, trust windows that expire, and a dialog
that may take minutes. Correct means: nothing a chat contributed is lost or
overwritten, an undisturbed conversation is complete, no tool runs without its
scope and no mutating tool without an approval that covers it, and a chat ends.

*Cost ledger.* The budget is checked once per chat and spent turn by turn, the
file and the rollup are two steps, a write may fail silently, a turn is lost when
its client leaves, the process restarts and the date changes. Correct means: the
cap is overshot by a bounded amount, file and rollup agree, and the rollup is
about today.

*Rate limiter.* The clock is read before the lock, so requests enter the bucket in
another order than that of their timestamps, and pruning stops at the first young
entry. Correct means: no window lets more than the limit through, and nobody is
refused below it.

*Gateway (tokens, handshake, guards, audit).* Tokens expire while requests are
under way; a consent dialog outlives the request that opened it; the audit line is
written after the handler, by a task that may be gone, into a file whose last line
may have been cut. Correct means: a handler runs only for a live token with the
scope, a token or a key appears only by a yes to its own dialog with its client
still there, and an answered request has its line unless the disk failed.

*Bundle.* Read, rewrite and rename are steps of a child that may be killed between
them, beside another writer (the client library uses the same temporary name) and
beside Excel. Correct means: the workbook is always some complete version, and no
version that somebody saved is silently replaced by an older one.

*Client and panel.* The panel gives up after ten seconds, the launcher after
thirty; the answer of a call that was given up stays in the worker's pipe and the next
call takes it; what the panel shows and what the workbook stores are two copies of one
conversation, and Excel holds a third. Correct means: a save that the user was told of
stands until the next write, and no save drops messages that the workbook held.

*Certificates.* Five files are written one after the other, the root store is
changed between them, and a launch may end anywhere. Correct means: what is about to
be served is a complete chain from a trusted root to the server's key, and a launch
fails only for a reason.

## The plan

The order is by what the repository's users would lose first.

1. **`PythonWorker`**, its abstract service **`SerialService`**, and
   **`PythonWorkerProofs`**. *Done.*
2. **`AiChat`**: session store, tool loop, dispatch, trust windows, the adapter's
   roles. *Done.*
3. **`CostLedger`**. *Done.*
4. **`RateLimiter`** and **`Gateway`**, which composes it with tokens, dialogs,
   guards, audit lines and key routes. *Done.*
5. **`BundleFile`** and **`Panel`**, which composes it with the panel's conversation.
   *Done.*
6. **`LocalCa`**: the certificate files. *Done.*
7. Theorems: `PythonWorkerProofs`, `AiChatProofs`, `CostLedgerProofs` (the last two on
   `SumTheorems`), `GatewayProofs`, `PanelProofs`, `LocalCaProofs`. *Done*, for every
   safety property of a passing run and for the refinement.

## The modules and the code

### PythonWorker

An element of `Calls` is one invocation of `PythonWorker::call`; `exec` and
`excel_call` only build its parameters and read its result. A child process has
the name of the call that spawned it, since a call spawns at most one.

| Variable | Code |
|---|---|
| `phase` | the await or the point in `call` that the task has reached |
| `queue`, `holder` | `self.inner`, a tokio mutex: its FIFO of waiters, its guard |
| `slot` | the `Option<WorkerInner>` under the mutex |
| `status`, `killed`, `running` | the child process, as the operating system and the embedded loop see it |
| `stdin`, `torn`, `stdout` | the two pipes, in lines; `torn` says that a cut-off line sits at the end of stdin |
| `outcome`, `answerOf`, `sentTo` | what the call returned, whose answer it took, the worker it took its id from |

`Acquire`, `Spawn`/`SpawnFails`, `Prepare`, `Write`/`WriteFails`, `ReadLine`/
`ReadEof`/`Timeout` and `KillDone` follow the function from top to bottom. An action that
sets the slot to `NoCall` includes what dropping a `WorkerInner` does: `kill_on_drop`
signals the child. `HangUpQueued`, `HangUpWriting`, `HangUpReading` and `HangUpKilling`
are the four awaits at which the future can be dropped; a cancelled write may have put
nothing, a part or all of the line into the pipe, and a cancelled `read_line` may have
swallowed a part of the answer. `Receive` and `Finish` are `_main` and its dispatch,
`MakeNoise` and `Swallow` what a snippet can do to descriptors 1 and 0 (`redirect_stdout`
does not reach them): a line of noise may be no JSON, which is an error of the call that
reads it, or JSON, which is that call's answer (`Author`), since any JSON object is
accepted. `Crash` is the end of the interpreter, `Reap` the effect of a kill. A request
that is larger than the pipe (`Large`) can be written only to a process that is reading. A
result is abstracted to whose it is.

`SerialService` is the promise to callers: a line of waiting calls, one call served
at a time, in order of arrival, ending with its own answer or an error. A call that
was given another's answer is mapped to a state that the service does not have.

### AiChat

An element of `Chats` is one request to `/ai/chat`, an element of `Requests` one to
`/ai/consent/window`. `Start` stores the messages that the client sent, any number of them
with any role, text or tool blocks, such as a replayed tool use (`Bodies`); `Snapshot` is
the second lock of the store, `ProviderReplies` the end of `provider.chat(...).await` with
the append of the reply, `Recorded` the end of `cost.record(...).await`; `Reject`,
`RunAuto`, `RunTrusted`, `Ask`, `Approve` and `Deny` are the ways through `run_one`;
`ToolEnds` is the end of the tool's own call, `EndRound` the append of the tool message
and the loop's test. Each append is one lock of the store, so other chats may come between
any two. A message keeps role, chat, turn and tool blocks; its text is left out. `Wire`
and `Sent` are the Anthropic adapter's view of the history, in which every role but the
assistant's is the user's. The registry of tools is the code's own. `Refuse` may happen in
any state because budget, session and provider are looked up there; `CostLedger` says when
the budget refuses. A tool's call is one step with an arbitrary outcome, which may never
come; `PythonWorker` says what happens in it. Trust windows are granted when the user
answers, and looked up by time, session and tool. `ran`, `consents` and `grants` record
what was run and what the user said yes to; nothing reads them.

### RateLimiter and Gateway

In `RateLimiter`, `Stamp` is `Instant::now()` and `Check` everything under the lock.
`MaxSkew` bounds the time between the two in ticks; with `MaxSkew = 0` the two are
simultaneous. `Pruned` pops from the front while the entry is older than the cutoff,
as the code does, so a young entry in front of an old one shields it.

`Gateway` EXTENDS it and is the way of a call from the outermost layer inwards:

| Action | Code |
|---|---|
| `TurnAway` | `host_guard`, `origin_guard` |
| `Handshake` | `handshake` up to its dialog; for no scope, up to the token |
| `Present` | `bearer_guard`: the lookup, then the limiter's clock |
| `Serve` | the limiter's verdict, `require_scope` where the route has one, the start of the handler |
| `Work` | an ordinary handler ends |
| `UserAnswers` | the message box; it is a thread of its own and may outlive its call |
| `Proceed` | the rest of `handshake`, `ai_set_provider_key`, `ai_delete_provider_key` |
| `Record` | `audit_wrap` after `next.run`: the line, then the answer |
| `HangUp`, `Restart` | the task's future is dropped; the process ends and starts again |

`Suffice` says which tokens a route lets through: `/launcher/version` and `/ws` ask for
no scope (`Needs[r] = None`), so that a token issued without a dialog starts them. A
token has the name of its handshake. A line of the audit file is `entry`, if it can
be read; `torn` says that the file ends in a part of a line, to which the next is
glued.

### CostLedger

`Admit`/`Refuse` are the check at the entry of `ai_chat`. `ProviderReplies` computes
the cost and the date of the entry, `Lock` and `Write` are the file mutex with
`write_all` and `flush` (whose errors are ignored), `AddUp` the rollup. In the phase
`tools` the chat dispatches what the model asked for, with dialogs and calls of the worker
that may take any time, and `EndTools` ends it. `HangUp` is a future dropped at one of
these awaits; a write that was handed to the disk lands
nevertheless. `Restart` is the end of the process and the next `CostLedger::open`.
The rollup's rows by provider and model are one number, since every reader sums them.

### BundleFile and Panel

`BundleFile` is `BundleWriter.write` in steps: `BeginWrite` reads the whole archive,
`CreateTemp` opens (and empties) the temporary file, `CloseTemp` ends it, `Replace` or
`CannotReplace` is the rename, `Finish` the answer of the worker, `Die` its end at any
of these. A workbook is the cells that Excel saved, numbered, and the bundle. Two
processes write bundles: the launcher's worker and a script with the same library.
Files behave as on Windows, where a name that another process has open cannot be
replaced; whether Excel locks the workbook is left open. `ExcelSaves` writes what
Excel has in memory, with the bundle as it was when the workbook was opened.

`Panel` EXTENDS it with `LivingWorkbookPanel` and the pipes of the worker.

| Action | Code |
|---|---|
| `OpenPanel` | `on_open`: the handshake and a session |
| `Restore`, `Restored`, `RestoreFails` | `_restore_bundle` and `bundle_read_route`: the request, the answer that is taken, an error |
| `Send`, `NewSession`, `Save` | the methods of that name |
| `Refuse`, `Approve` | `bundle_write_route`: the dialog; after a yes, the call |
| `Saved`, `SaveFails` | the answer that is taken for the save's; no answer |
| `ClosePanel`, `ExcelSavesOver` | Excel closes with the panel in it; Excel saves |
| `Serve`, `Progress` | the worker's loop: the next request; the steps of a write, at whose end it answers |
| `KillWorker`, `KillScript` | timeout or crash |

`Call`, `Take`, `CallFails` and `GiveUp` are `PythonWorker::call` for one client: the
request joins the pipe (`requests`) behind those of calls that were given up, the first
line of `answers` is taken whosever it is, and a dead process (`up`) is met at the write or
the read and replaced. An answer without a payload, such as the `{"ok": true}` of a write,
gives a restore an empty conversation without an error (`Given`). `stale` says that the
call under way will be given an earlier call's answer; `kept` is the save that the user
was told of by its own answer; the panel is `blind` when it was not given the conversation
that the workbook holds, or that a write still on its way (`WritePending`) will put there.
The conversation is a sequence of numbered messages; `Parses` is what the CDATA envelope
does to a text that holds its end. The panel is the pipe's only client here and its
requests fit into it; `PythonWorker` has several clients and requests of any size.

### LocalCa

An element of `Launches` is one call of `ca::ensure`, followed by `tls::load`. A file
holds the launch that wrote it (one launch makes at most one CA and one server pair),
nothing yet (`Empty`), or is absent; `Create` and `Fill` are the two halves of
`fs::write`. `After` is the order of the steps. `Install` and `Reinstall` are
`install_user_root` with its error returned and passed over. `Break` is a crash or an
error of the disk at any step. The certificate files of a launch are those it has in
memory, `cert` and `key`.

## The runs

| Run | Question | Instance | Distinct states |
|---|---|---|---|
| `worker_patient` | Is the pipeline a first-come first-served service that always returns? | four calls, all with large requests, no hang-ups; timeouts, crashes and failed spawns at will | 48 661 |
| `worker_disturbed` | What is still true when clients leave and snippets write to the pipe? | three calls that may all leave, one with a noisy snippet whose lines may parse, up to two unread lines when noise is added | 254 682 |
| `chat_shared` | Do two chats of one session lose or tear anything? | two chats, one plan-only, one that may leave; one tool use a reply, two rounds; a client sends nothing, or replays a tool use | 278 559 |
| `chat_trust` | Does every tool that ran have its approval? | two sessions with full and partial scopes, a chat of each, one of them plan-only, one window request, three tool names (one unknown), clock 0..2, cap 2, durations 1 and 5 | 1 210 092 |
| `ledger` | By how much is the cap overshot; do the books agree? | two chats of two turns at prices 1 and 2, with tools in between that may never end, cap 2, failing disk, hang-ups, one restart, one change of date | 191 247 |
| `gateway` | Who gets through, what takes effect, what is on record? | a handshake and three requests of its token, one of which stores a key and one of which needs no scope; limit 2, window of 2 ticks, delay up to 1, clock 0..6, tokens of 5 ticks, one failure of the disk, one restart | 8 245 774 |
| `workbook` | Does the workbook survive its writers, and the conversation its saves? | launcher and script, one save of Excel, two messages, one failure; requests and answers that stay in the pipes | 7 272 763 |
| `certificates` | Does each launch end with a chain, or for a reason? | three launches in any interleaving, two break off, one removal of the roots | 1 331 777 |
| `worker_stale`, `ledger_today`, `gateway_key`, `bundle_roundtrip` | Does the program do what its documents say? | the smallest instance that shows it | violated |

**Why the bounds are enough.** Three calls (four where nothing disturbs) give the worker a
predecessor that disturbs, a call that is hurt and a bystander in the queue, and let a
process be spawned, killed and spawned again behind a kill that is still in progress; a
request meets at most one earlier disturbance at a time, because the mutex serialises. For
chats, an interleaving needs two, and the loop behaves in its second round as in its third
to eighth; one tool use per reply is enough to come between a use and its result. For
windows, the clock passes expiry, one duration is below the cap and one above. The
limiter's bucket overflows with three requests of a token in one window; the clock passes
a window and the token's expiry. One failure of the disk glues one line to the next and
one restart meets every phase of a call. The ledger's bound is met with equality: one chat
spends all but one of the cap and the next spends both its rounds at the highest price.
For the workbook, one save of Excel is enough to come between a read and a rename, one
failure to kill a writer at any of its steps, or to make the panel give up a call whose
answer every later call then meets in the pipe, and two messages make a conversation that
a save can cut short. (Two failures with one message, a kill of the worker after a call
that was given up included, were checked as well.) Three launches let one break off, a
second meet what it left and break off too, and a third find the files of both.

**What the properties say.**

* `OwnAnswer`: a successful call got its own answer unless its process was *disturbed*
  (some client hung up on it, or it ran a noisy snippet). `AnswerOnce`: even then no
  answer of a call is given twice or crosses to another process, which is what the kill
  after a timeout is for; lines that a snippet forged may come between. `NoOrphan`: a live
  process is in the slot or has been signalled. `Serialized`: without disturbance two
  snippets never overlap, as the wait for the killed child sees to. `EveryCallReturns`:
  leads-to from the mutex's queue. `ImplementsService`: refinement.
* `NothingLost`: a chat's own copy and the session's transcript agree on everything
  that the chat contributed. `ConversationComplete`: with chats one at a time and none
  abandoned, the provider is given the whole transcript, whatever messages the clients
  sent, with each tool use of the model followed by its results in a message of the user.
  `TranscriptGrows`: a transcript is only extended.
  `RunsAreApproved`: each tool that ran was in scope and, if it mutates, outside
  plan-only mode and covered by a yes to that use, or by a yes to a window of that
  session and tool, within its duration and the cap. `ChatEnds`: each chat ends, unless
  it stays with a dialog or with a tool's call for ever.
* `RateHolds`: in every interval shorter than the window by the possible delay, at most
  the limit of a token's requests pass. `RefusalsAreDue`: a refused request had that many
  admitted before it. `HandlersAuthorized`: a handler starts only for a token of the store
  that expired less than the delay of the limiter's lock ago, and with the route's scope
  if the route asks for one; whatever scopes the token has were approved in the dialog of
  its own handshake. A token without scopes, which needs no dialog, starts the handlers
  that ask for none. `EffectsApproved`: tokens and keys change only by a call whose client
  waits and whose own dialog was answered with yes, with the scopes it asked for.
  `LossBounded`: of the answered calls, two at most lack a readable line for each failure.
* `OvershootBounded`: within one launch, rollup and pending costs stay below the cap
  plus all rounds of as many chats as were ever under way together. `BooksAgree`: the
  rollup counts nothing that the file does not show, and everything once nobody left in
  between. `CapStays`: a reached cap is not forgotten within a launch and a day; what
  happens at midnight is the subject of `ledger_today`. `ChatEnds`: each chat ends, the
  file mutex being always passed on, unless it stays with its tools for ever.
* `FileWhole`: the workbook is a whole archive at every moment, unless two processes
  used the temporary file at once. `CellsKept`: its cells are those Excel saved last,
  unless it saved between a read and a rename. `SavedStands`: what the user was told is
  saved is there until another write lands, if the save was told done by its own answer.
  After a call that was given up it may be told done by that call's answer (the
  disagreement of `worker_stale`), and then it may yet fail. `NothingForgotten`: a write
  of the panel extends the conversation the workbook holds, unless the user began a new
  session or the panel was not given that conversation: it got an error, or the answer
  of an earlier call, or a write was still on its way when that came. These exceptions are
  real losses, by the code's design; the properties say that nothing else loses anything.
* `ChainComplete`: when a launch that ran alone is about to load its files, server key,
  server certificate, CA certificate and CA key belong together, and the user trusts
  that CA or refused it to this launch. `ThumbprintNamesRoots`: the thumbprint on disk,
  if there is one, names every root that is installed. `FailsForCause`: a launch fails
  only by a refusal of a new root or by a key file that a crash left empty.

Each property of a passing run has a mutant: a variant of one action with a plausible slip
(a missing kill, an unfair lock, a row replaced instead of added to, ...), defined next
to the action in its module and marked "Mutant", under which the property fails.

## Fairness

Weak fairness of the launcher's own steps for each call or chat: tokio polls a task
whose future is ready, and every await in question is ended by something that happens:
the read by a timer, the provider call by the 60 s timeout of its HTTP client, a file
operation by the operating system, the mutex by its FIFO. Weak fairness of `Reap`: a
process that was sent a kill ends. Nothing is assumed of clients (they need never send
nor hang up), of snippets (they may run for ever), of the embedded loop, of crashes or
of the user, whose dialog may stay open. Nor is anything assumed of a tool's call
(`ToolEnds` of `AiChat`, `EndTools` of `CostLedger`): it may wait for ever to write to a
busy worker, which is under no timeout (`S/python_worker.rs:123`), or for a file. Both
`ChatEnds` except a chat that stays with a dialog or a tool for ever.
`EveryCallReturns` is checked where writes cannot block for good: with large requests
in `worker_patient`, where each worker is at rest when a call gets it, and with small
ones in `worker_disturbed`. With a large request to a worker that an abandoned snippet
keeps busy it fails (see the disagreements).

`gateway`, `workbook` and `certificates` check safety alone. Their progress is that of
straight-line code once the user, the worker or the disk answers; `Gateway` states the
fairness for it and `gateway_key` runs under it.

## The proofs

Every safety invariant and action property that a passing run checks is also a theorem,
for every value of the constants that the module's assumption admits, and so is the
refinement of `SerialService`. Each proof module states an inductive invariant in named
layers, one lemma per layer with one case per action, and theorems that combine them.
The inductive invariants were checked by TLC on the instances of the runs before they
were proved.

| Module | Theorem | Property |
|---|---|---|
| `PythonWorkerProofs` | `TypeCorrect` | `TypeOK` |
| | `AnswersMatch` | `OwnAnswer` |
| | `NoOrphans` | `NoOrphan` |
| | `SnippetsSerialized` | `Serialized` |
| | `AnswersOnce` | `AnswerOnce` |
| | `ServiceIsImplemented` | `ImplementsService` |
| `AiChatProofs` | `TypeCorrect` | `TypeOK` |
| | `NothingIsLost` | `NothingLost` |
| | `RunsHaveLeave` | `RunsAreApproved` |
| | `ConversationIsComplete` | `ConversationComplete` |
| | `TranscriptsGrow` | `TranscriptGrows` |
| `CostLedgerProofs` | `TypeCorrect` | `TypeOK` |
| | `OvershootIsBounded` | `OvershootBounded` |
| | `BooksAlwaysAgree` | `BooksAgree` |
| | `CapIsKept` | `CapStays` |
| `GatewayProofs` | `TypeCorrect` | `TypeOK` |
| | `RateIsLimited` | `RateHolds` |
| | `RefusalsHaveCauses` | `RefusalsAreDue` |
| | `LossesArePaidFor` | `LossBounded` |
| | `HandlersHaveLeave` | `HandlersAuthorized` |
| | `EffectsHaveLeave` | `EffectsApproved` |
| `PanelProofs` | `TypeCorrect` | `TypeOK` |
| | `WorkbookStaysWhole` | `FileWhole` |
| | `CellsAreKept` | `CellsKept` |
| | `SavesStand` | `SavedStands` |
| | `NothingIsForgotten` | `NothingForgotten` |
| `LocalCaProofs` | `TypeCorrect` | `TypeOK` |
| | `LoadsCompleteChains` | `ChainComplete` |
| | `ThumbprintSuffices` | `ThumbprintNamesRoots` |
| | `FailuresHaveCauses` | `FailsForCause` |

The bounds that keep TLC's state space finite (`MaxSends`, `MaxFaults`, `MaxTime`, ...)
are parameters of the theorems, so each holds for every bound.

### From which assumptions

* Everywhere: subsets are subsets, numbers are numbers, and the values that stand for
  "nothing" or "nobody" differ from the things they are compared with.
* `CallsAssumption` (worker) and `ChatsAssumption` (chats) say no more than that, and
  that a chat has at least one round. Calls, chats, sessions and windows may be
  infinite sets.
* `LedgerAssumption`: finitely many chats, since the program adds them up, and a
  dearest price, since a cost is a 64-bit number. (Sums are unbounded in the model; the
  program's saturate.)
* `LimiterAssumption`, `GatewayAssumption`: limit, window and lifetime of a token are
  positive.
* `BundleFileAssumption`, `PanelAssumption`: "no file" is no archive, and a bundle is any
  sequence of messages.
* `LocalCaAssumption`: an absent or empty file is no launch's.

### Along which arguments

None of the properties is inductive by itself.

*Worker.* The common ground is `Structure`: by `Control` the mutex is held by exactly the
call that is past it, and its phase determines the slot (full while it writes and reads,
empty while it kills); by `Line` the queue holds waiting calls, each once; by `Processes`
a process that was not yet spawned has empty pipes and no correspondent, a busy one is
running something, a dead one reads nothing. On it rest `Conversation`, which says that
an undisturbed process is silent, or is at exactly one stage (asked, working, replied) of
the request of the call that is reading from it, and from which a call that reads can
only get its own answer; `Attended`, which says that without hang-ups a live process is in
the slot or is waited for; and `Pipes`, which says that each request is in at most one
place of the pipes of the process it was sent to, with `Delivered`, by which an answer
that was read is in no pipe any more and nobody else's. The refinement takes `Submit` to
the service's `Arrive`, `Acquire` to `Begin`, a line that parses to `Answer`, every other
return to `Fail`, and all else to a stutter. `Begin` needs that nobody is served, which is
`Control`; `Answer` needs that the answer is the call's own, which is the invariant of
`AnswersMatch`.

*Chats.* `Loops` ties a chat's phase to the end of its history: which tool uses are
open, how many results it has, and that a chat that asks the user for a tool has its scope
and is not plan-only. `Windows` says that an open window comes from a yes, with
its session, tools and duration. For `NothingLost` the history is compared with the
transcript message by message. `ConversationComplete` is about whole transcripts: as long
as a session's chats came one at a time (`Alone`) and none hung up, each tool use of the
model in it is answered by the next message, or is the last thing its chat said and that
chat is at work on it (`Attended`), and a chat nobody interrupted has heard all that was
said (`Heard`). What the clients sent is left as it is.

*Ledger.* `Spending` is the argument for the overshoot: what is in the rollup, plus what
each chat under way may still add (the turn on its way, and the dearest turn for every
round left, those after its tools included), never exceeds the cap less one plus all
rounds of as many chats as were ever under way together. Admission restores it, because it
happens below the cap and counts everybody who is under way; a turn keeps it because its
price moves from one term to the other. `Lines` says that no line is of a launch to come,
and `Rounds` that only an answered turn has a price.

*Gateway.* A bucket is read as a one-to-one naming of its entries by admitted requests
(`Stands`), out of order by at most the delay of the lock, such that an admitted request
without an entry is older than the window (`Gone`). From these, counting requests in an
interval becomes counting entries of a bucket, of which there are at most the limit; a
refusal shows a bucket that is full of young entries. `Store` ties tokens to the dialog of
their handshake, `Granted` to the scopes that it asked for, `Losses` counts the torn end
of the file as a loss to come.

*Workbook.* `Temporary` says that a writer that has the temporary file to itself finds in
it what it put there, `Cells` that all archives in flight have the newest cells, `Told`
that a save which met no earlier call has the pipes to itself, so that it is in one place
(asked, written, answered) and its answer is about what the panel shows. `Knows` is what
makes `NothingForgotten` inductive: the file, the bundles that are due (`Due`: the write in
flight, then the requests in their order) and the panel form a chain of prefixes, and so
does what Excel holds, unless the panel never saw it. A restore keeps the chain because
the panel is blind if anything is due that it cannot have been given; `Ages` says that the
next message is in no bundle yet.

*Certificates.* As long as launches do not overlap, `Disk` says that no key is without its
certificate, no thumbprint without its key, and nothing else is trusted; `Stage` says of
each phase what the launch has put there or read. `Failures` traces an empty key file to a
launch that is filling it or broke off.

### Sums and recursive functions

The theorem library's induction rules take an operator as a parameter, which the provers
at hand cannot instantiate. Two kinds of definition need induction all the same: a chat's
own messages in a transcript (`Own`) and sums of costs. Both are written as functions
over intervals or finite sets, and what is needed of them is proved by least
counterexample: the set of lengths (or cardinalities) at which the claim fails is a set of
naturals, and its least element leads to a contradiction. `SumTheorems` does that once for
the sums of the community modules: they exist, do not depend on the order, change by the
difference when one summand does, and are bounded and monotone.

### Only model-checked

* Liveness, `EveryCallReturns` and both `ChatEnds`: it rests on fairness and `ENABLED`,
  which the prover does not treat. So do the fairness conditions of the specifications:
  the theorems are about `Spec`, which has none, and so hold of `FairSpec` as well.
* The four runs that end with a counterexample.

## Where code and documents disagree

Each is a run that TLC ends with a counterexample, and an entry under `findings`.

* `worker_stale`: `/run/python` may return the outcome of another request: after a
  client hung up at the read, the answer stays in the pipe and the next caller takes
  it (`proto/xlpod.openapi.yaml:217`).
* `gateway_key`: an approved API key is gone after a restart of the tray launcher,
  which takes the development binary's keychain (`S/lib.rs:61`).
* `bundle_roundtrip`: a conversation in which a message contains `]]>`, as an Excel
  formula may, is saved and can never be restored
  (`examples/living_workbook/README.md:23`).
* `ledger_today`: the rollup is said to be rebuilt at startup from today's lines
  (`S/ai/cost.rs:8`); it starts empty. It is not emptied by a new day either, which the
  same property shows with `MaxLaunch = 0`, so that waiting until tomorrow
  (`S/error.rs:219`) does not help.

Met on the way, without a run:

* *Worker.* Reads and writes are said to be under one timeout
  (`docs/threat-model.md:391`); the write is not, and it can wait as long as a snippet
  runs, with the mutex held. An unparsable line leaves the worker in place although the
  comment at `S/python_worker.rs:106` has every error empty the slot.
* *Chat.* No upstream error revokes a trust window, since `revoke_session` has no
  caller (`S/ai/trust_window.rs:7`). A chat that comes between another's tool use and
  its results, or after one that was abandoned there, sends the provider a tool use
  without a result (`S/routes.rs:437`). A chat whose last round ends in tool uses is
  reported with an ordinary stop reason, never `tool_use_round_limit`
  (`proto/xlpod.openapi.yaml:1182`).
* *Ledger.* The overshoot that `docs/threat-model.md` (T49) puts at half a percent is
  bounded only by the number of chats under way times eight rounds, as
  `OvershootBounded` has it.
* *Audit.* Every request is said to be recorded (`S/audit.rs:3`, `S/middleware.rs:4`);
  a request whose client hung up is not, even after its effect. A request that was
  refused by the bearer guard or the limiter has no token id in its line
  (`S/audit.rs:31`). A line that was cut costs the next one too.
* *Panel.* The next `send` after a restore is said to get the previous conversation as
  context (`examples/living_workbook/README.md`, step 6); it sends only the new message
  to a new session. Any error of the launcher while the bundle is read is reported as a
  missing bundle, and the next save overwrites it. After a
  call that was given up, the answer in the pipe is taken for the next call's: a save is
  then reported as done on the earlier save's answer, before its own write, which may
  still fail; and a restore takes the `{"ok": true}` of a write for an empty conversation,
  without an error, so that the next save drops the messages that were stored
  (`S/routes.rs:309`). A save is also reported as done although
  the bundle of another writer was renamed into place, if both used the temporary file.
* *Certificates.* Every later launch is said to load the existing CA (`S/ca.rs:8`);
  after a crash between the creation of the key file and its filling every later launch
  fails. A CA whose launch broke off before the thumbprint was written is installed by
  later launches without one, so the removal by thumbprint that `S/ca.rs:14` plans
  would miss it. Nothing calls `ensure` yet.

## What is not modelled

* *File reads under roots.* `read_under_roots` has no state: it canonicalises,
  compares, stats and reads, each a call of the file system. A model would be a file
  system made up for the purpose, and its one property would repeat the comparison.
* *WebSocket echo.* It answers each frame of one connection with the same frame.
* *Contents and formats*: certificates, TLS, errors, requests and audit lines beyond
  their status and token, the size cap and fingerprint of a bundle, the price table and
  the saturation of its sums, the texts of messages.
* *Other programs*: the message box beyond its yes or no, the tray's event loop and the
  binding of ports, the spreadsheet backends, the provider's service, and the Windows
  keychain, which the program does not use.
* In the ledger, a line that a crash cut off is left out, as nothing reads the file. The
  wall clock that trust windows use is assumed not to go backwards.
