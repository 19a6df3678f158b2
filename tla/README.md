# ezloop in TLA+

A verification project for [ezloop](../src), a Go library that runs an LLM agent: a loop
that calls a model, executes the tools the model asks for, and lets hooks, guides and warps
change what happens on the way. The modules here model the parts of the library whose
correctness depends on interleavings, failures and cancellation. TLC checks them on small
instances, TLAPS proves the most important properties for every value of the constants.

All paths below are relative to `src/`.

## 1. The system

### Components

| component | state | operations | what makes it correct |
|---|---|---|---|
| **Agent loop** `core/loop.go` `Run` | `LoopState`: messages, iteration, Stop, StopReason, LastError | start hooks, guides, iterations of model call and tool round, `finalWrap` at the limit, end hooks | every request sent to the model has a result for each tool call; the reported outcome is the real one; nothing is asked of the model after a stop; end hooks run on every path |
| **Tool batch** `core/loop.go` `execToolCalls` | results, first hook error, abort flag, a ctx shared by the calls | per call: start hooks, tool, end hooks, publish; then the summary | one truthful message per call, in order, whatever stopped the batch; the first cause decides; a stopped batch does not wait for humans |
| **Decision router** `ext/hook/internal/await` used by approve, askuser, taskplan, mcp | stashed decisions, a wake channel | `Await`, `take`, `stash` | a decision reaches the call it names and no other, and its owner wakes up |
| **Context fix** `ext/hook/contextfix` | none | `Fix`: drop orphaned answers, insert missing ones | an interrupted history becomes one a provider accepts |
| **MCP router and hook** `ext/hook/mcp` | server list, pool of connections | connect on demand, hot reload, evict, close, authorise and retry once | connections are neither leaked nor closed twice nor handed to the wrong server; one authorisation request per call |
| **RunAsync** `core/runasync.go` | a channel of 256 events, a done channel | emit, `Cancel`, `Wait` | the Run ends, and `Wait` returns, as long as somebody reads the events |
| **Fork and task hook** `core/fork.go`, `ext/hook/task` | a child loop state per sub-agent, usage of the parent | fork, run, accumulate usage, events | events paired, usage not lost, one session file per fork |
| **modelretry, IdleWatch** `ext/warp/model/modelretry`, `ext/provider/provutil` | attempts, waiting budget, idle timer | retry, back off, cut off an idle stream | no retry after the first chunk, none after cancellation, the budget is an upper bound |
| **Providers** `ext/provider/*` | the aggregated reply | fold stream deltas or a whole reply into one message; turn a history into a request | the message is what the server said, for every interleaving of deltas; the three protocols send the same content |
| **limit, safetool** `ext/warp/tool` | a semaphore | acquire, run, release | the limit holds, a cancelled call leaves the queue, no slot is lost |
| **localsession, offload, summary** | files | write a snapshot, swap a long text for a path, compress the history | one file per run and fork |
| **filetools** `ext/hook/filetools`, `ext/fs` | per-path locks, the buffers of a running command | file and terminal tools, live output, image message after a batch | edits of one file are serialised; what is shown live and what is returned agree; a long result can be read back; an image is shown once |
| **skill** `ext/hook/skill` | the skills found | match keywords, put texts into the system message | the system message stays one, and complete |
| skilltool, toolgen, registry, options | text, configuration | scanning, schema generation | not concurrent |
| **chat** `examples/chat` | the history of the conversation, pending questions | one Run per input, resume a session, answer requests | the host the other parts are written for |

### How they interact

`Run` is one goroutine per agent. It owns `LoopState` and calls everything else: hooks of
one kind form a chain that stops at the first error. Only three things leave that goroutine:

* a tool batch starts one goroutine per call, and their hooks and tools run concurrently;
  they share the batch's variables under one mutex and one ctx, which the batch cancels when
  a call aborts it or one of its hooks fails;
* hooks that wait for a human block their call's goroutine on a channel that several calls
  (and forks) share, hence the decision router;
* the owner of the run's ctx cancels it at any time (`RunHandle.Cancel`, a timeout).

State that outlives a Run: the messages (a caller feeds them to the next Run with
`WithHistory`), the MCP pool, decisions left in the router, limit's semaphore, the counter of
the task hook. Session files outlive the process.

What is hard to test here is listed line by line under `hazards` in `PROJECT.json`:
cancellation racing with an abort, failures after side effects, a run that ends between a
reply and its tool calls, decisions received by the wrong waiter, reloads during a dial, forks that share usage, locks
and file names, a flush in the middle of a character, histories put together from parts.

## 2. The modules

| module | models | proofs |
|---|---|---|
| `ToolRound` | what a round of tool calls promises, without goroutines | |
| `ToolBatch` | `execToolCalls`; implements `ToolRound` | `ToolBatchProofs` |
| `AgentLoop` | `Run`, its error, panic and cancellation paths, `Fix`, conversations of several Runs | `AgentLoopProofs` |
| `AwaitRouter` | `Await`, `take`, `stash`, the hooks' use of them | `McpHookProofs` |
| `McpRouter` | the connection pool and `runWithAuth` | `McpHookProofs` |
| `ModelCall` | modelretry, one attempt of a provider, IdleWatch | `ModelCallProofs` |
| `StreamReply` | the three providers' folding of a stream into a reply | `StreamReplyProofs` |
| `TaskForks` | the forks of a batch and what they share: usage, limit's semaphore, path locks, archives, the event channel; the host across Runs and restarts | `TaskForksProofs` |
| `ToolOutput` | one terminal call: process, live output, result, offload, reading back | `ToolOutputProofs` |
| `Histories` | the messages of a conversation as a model is sent them: assembly, rounds, images, the seed of a fork, the three protocols || `HistoriesProofs` |

Each module has one variable per piece of state, one action per critical section, handler or
step. Operators introduced by a comment "Fault: ..." are not part of any specification: each
is a definition of the module with one plausible bug put in (a guard dropped, a cancel
forgotten, an order swapped). Replacing the original by it makes TLC report a violation of
the property it is paired with in `PROJECT.json` (`mutants`), which shows that the property
can tell right from wrong code.

`TypeOK` of each module (`AwaitTypeOK` in `AwaitRouter`) states what its variables may hold. No
run lists it, as each is a theorem.

### ToolBatch and ToolRound

`pc[i]` is where the closure `process(i)` is:

| `pc[i]` | code (`core/loop.go`) |
|---|---|
| `ready` | goroutine not started, or the serial loop has not reached the call |
| `start` | in tool-start hook number `hk[i]` (331-353) |
| `aborting` | the abort flag is set, `mu` released, `cancelCalls` not yet called (346-351) |
| `failing` | a hook returned an error, `fail` not yet run (314-326) |
| `invoke`, `running` | before the lookup, in `tool.Invoke` (356-382) |
| `end` | in tool-end hook number `hk[i]` (391-397) |
| `finish`, `returned` | before `finish()`, done |

The critical sections of `mu` are single steps, what happens between two of them is not:
`StartAbort` and `AbortCancel` are two actions because the code releases `mu` in between.
`serial` is the option `SerialTools`, fixed at the start of a behaviour. Hooks and tools are
nondeterministic in what they decide and in when they return. Results
are reduced to the kind the properties tell apart: output, error, refusal, placeholder. A
panic of a hook or a tool is an error, as the `recover` of the code makes it. Event
callbacks are taken not to panic: `tool_start` is emitted outside every `recover`, so one
that does ends the process.

`ToolRound` says the same without goroutines: tools start, one cause is recorded, answers
are written in call order. The mapping sends the tools invoked to `effects`, the hook error
or the abort to `cause`, the tool messages to `log`.

### AgentLoop

`pc` names the statement groups of `Run`. A chain of hooks is one step that may set `Stop`
and ends with success or the first error; a tool round is one step, justified by
`ToolRound`: it answers every call in order and then continues, is aborted, or fails. The
environment cancels ctx between any two steps. Between Runs (`NextTurn`) the caller passes
the messages on, as the README of the library advises. Hooks that rewrite the messages
(summary, offload) or set `StopReason` themselves are left out, and call ids are unique in a
conversation (`Histories` has ids that repeat). A fork is a Run too: `FormatResult` is what
the task hook tells the main model of it, from the outcome and the last assistant text, which
may be one that the seed brought along.

### AwaitRouter

A wake channel is represented by its generation: channel *g* is closed exactly when
`gen > g`. `Take`, `Bind` and `Stash` are the three critical sections of `r.mu`; `Receive`,
`Woken` and `GiveUp` are the three branches of the `select`. The consumer that answers is
outside `src/`; it answers requests it has seen, each `Copies` times, plus `Wild` decisions
that name no call. `place[w]` is where a waiter is. Names that `McpRouter` has too start with
`Await`, because the proofs about the two hooks extend both modules.

### McpRouter

Connections are numbered in the order they are dialled. `clients`, `configured` are the maps
of `Router`; `closing` holds connections that left the pool under the lock and whose `Close`
comes after it. `client()` is a read lock, the factory without a lock (the connection is
started, then `handshake` either succeeds or closes it), a write lock, and one step more when
the dial was in vain. `HookFailed` is where `runWithAuth` asks for authorisation: once, and only
for the errors that `authError` takes for a lack of it. The host's `ToolsWithAuth` and
`CallWithAuth` go the same way through the pool and get the error instead. Allow lists are
reduced to a check that may fail.

### ModelCall

The model calls of one Run. `attempt`, `emitted`, `err`, `waited` are those of
`RetryProvider`; `pc` says whether an attempt awaits its header or reads its body, has
failed, or whether `backoff` waits. `left` and `touched` are the timer and the channel of
IdleWatch, `cut` is the error of the attempt's own ctx, `fired` is `timedOut`. For `Invoke`
the same timer stands for `context.WithTimeout`: nothing touches it and it ends the ctx with
`deadline`. Time passes by `Tick` only when no goroutine has anything to do; steps that are
due at the same moment (a Touch and the timer, the end of ctx and the end of a wait) come in
any order. Errors are reduced to what `defaultRetryable` tells apart, and an error of the
consumer is one more reason for an attempt to fail.

### StreamReply

One step per event of the server, with the whole body of the provider's `switch` case.
Calls are numbers; the number is also the call's id and name, and the item id of the
responses protocol. `begun`, `sent`, `closed`, `named` are what the server has said, the
truth that `reply` and `shown` are compared with. `acc` and `order` are the provider's maps;
openai has no order and reads the indices from 0. Arguments are sequences of fragments, and
`SafeArgs` lets through nothing but a complete one. `FinishOutput` is the last event of the
responses protocol when nothing came before; output that is itself cut off is left out.
`Finish` stands for the end marker and for a connection that ends without one: the code
accepts both. An anthropic block may send its arguments without a start: `AntArgs` registers it
then, as the code does, and the call stays without id and name in `reply` and `shown`. A start
that comes after the deltas of its block is left out, the code would register the call a second
time; and openai's first delta of a call has id and name here, as its servers send it.

### TaskForks

`pc[c]` follows `OnToolStart` of the task hook for one call: `opening` (id taken), `running`
(the fork's own Run, reduced to replies, tool calls and an ending), `queued` at limit's
semaphore, `locking`, `reading`, `writing` inside `edit_file`, `working` in any other tool,
`saving` (localsession), `ending`, `deciding`, `storing` (inside `accumulateUsage`).
`Usage.Add` and `Local.Edit` are two steps each, a read and a write, so that the locks around
them matter. `content` and `copy` are sets of edits, `archive` says which fork wrote the file
of an id last, `history` which archives the answers in the main loop's messages name. Every
event is a `Send` that blocks while the channel is full. `EditFails` is an edit that fails
before it writes, `EditWriteFails` one whose `os.WriteFile` fails, with the file as it was or
already emptied; in the second case all edits in it are gone, whoever made them, and
`confirmed` starts again from there. `NoLostEdit` is a claim about the edits of forks among
each other, not about a disk that fails. `Restart` may happen anywhere: the
new process counts ids from 1 and resumes what `saved` holds.

### ToolOutput

Output is a sequence of bytes of four kinds, enough to have line breaks and a character that
can be cut. `made`, `pipe`, `cmd` and `tctx` are the command and its context; `copied`,
`taken` are the ends of the writer's two buffers. `tick` and `close` both flush, each in two
steps, and hold the writer's mutex while the event channel is full. `RunReturns` is `cmd.Run`
with `WaitDelay`, `Return` the case distinction of `terminalTool`, `OnToolEnd` offload's, and
`ReadPage` the `read_file` tool applied to the file that offload wrote.

### Histories

A message is a record of what the protocols look at: role, whether it has text, calls, the id
it answers, the image mark that `read_file` leaves in an answer, the images of a user message,
and for the system message the parts it was made from. `Fix`, `AddToSystem`, `WithImages`,
`ContextSnapshot` and the three conversions are operators. A loop that puts something, or
nothing, in the place of each element is the concatenation of what it puts there
(`FlattenSeq`): `Fix`, for one, keeps a message with the placeholders for its calls behind it,
or drops it. The set `answered` that `Fix` grows on the way is, at each call, the ids answered
anywhere and the ids called before. `toAnthropic` looks back at the turn it has just made, and
is a fold.
Control is loose on purpose, a Run may end after any step and the host may bring along any
beginning or end of the history, since `AgentLoop` has the control and these properties must
not depend on it. `Requests` is what a model is sent in a state: by the Run in its rounds, by its
`finalWrap` (`limit` and `wrap` are the points before its notice and before its reply), or by
the fork of a task call. `Invoke` is modelled for replies that arrive whole, as `StreamReply` has those
that are streamed.

## 3. What is checked

| run | instance | shows |
|---|---|---|
| `ToolBatch_batch` | 3 calls, 2 start hooks, 1 end hook, both modes | one truthful answer per call (`ProtocolComplete`, `TruthfulAnswers`), one `tool_end` per call, refusals are final, `ToolRound` is implemented (with it, that the first cause wins), a stopped batch returns |
| `AgentLoop_conversation` | 2 Runs, 2 iterations, 2 calls per reply, 2 end hooks, streaming, contextfix | requests are complete, the outcome (also as a fork's answer) explains the run, failures are reported, at most one model call starts after a cancellation, none after Stop |
| `AwaitRouter_route` | 3 waiters, 1 decision each, 1 for anyone | no misrouting, no decision lost, owners in the select are woken, cancellation releases |
| `AwaitRouter_wakeup` | 2 waiters | **violated**: a decision stashed at the wrong moment does not wake its owner |
| `McpRouter_pool` | 2 servers, 2 callers of hook or host, 3 connections | no leak, no double close, right server |
| `ModelCall_retry` | 2 calls, 3 attempts, budget 4, timeout 2, 2 arrivals per attempt, streaming or not | no retry after output, waits within the budget, at most one attempt after the end of ctx, no early cut, every call ends |
| `StreamReply_fold` | 3 protocols, 3 calls, 2 fragments each, 1 text | the reply and the deltas shown (openai, anthropic) are what the server said |
| `TaskForks_batch` | 2 forks at a time, 2 Runs, 1 or 2 slots, channel of 1, 1 restart | usage is the exact sum (`UsageExact`), no confirmed edit is undone (`NoLostEdit`), forks of a process do not overwrite each other's archives (`ArchiveOfProcess`), every Run ends (`RunEnds`) |
| `ToolOutput_terminal` | 4 bytes, channel of 1, offload beyond 2 bytes, pages of 2 characters, limits 1 to 3 | all output is shown live, and nothing later; a plain result is complete; a stopped call returns; a long result is read back without gap or repetition |
| `ToolOutput_garbled` | 3 bytes | **violated**: a chunk of live output ends inside a character |
| `Histories_requests` | 2 Runs, 3 ids, 3 calls, replies of up to 3 blocks, 2 skills | calls and answers pair up in the strictest protocol, one system message, an image once, intact histories untouched, the protocols agree, a reply is echoed as it was said |
| `Histories_seed` | 1 Run, 2 ids | **violated**: a fork's seed loses the images read just before |

### Bounds

* `ToolBatch`: a third call sees effects that two calls have on each other (an abort and an
  error, while it waits). Two start hooks separate "the next hook" from "the tool"; with one
  end hook, success and failure at the end of a call both occur. The theorems hold for any
  number of each.
* `AgentLoop`: two iterations are the fewest in which the loop goes round; two Runs pass one
  interrupted history on; two calls per reply let some be answered and some not; two end
  hooks let one fail before and after another.
* `AwaitRouter`: with three waiters a decision can be received by somebody who is neither its
  owner nor the one that stashed before.
* `McpRouter`: two servers are needed for a wrong one, two callers to race, three connections
  for a race after an eviction. `CHECK_DEADLOCK FALSE`: when all calls are over and the dials
  used up, the pool may rest.
* `ModelCall`: two calls share one budget, which three attempts each exceed when it is not
  capped; a timeout of 2 tells a renewed timer from one that was not. Arrivals per attempt
  are bounded, or a stream might rightly last for ever.
* `StreamReply`: with three calls the registration order can differ from the order of the
  numbers in more than one place, and the last registered call need not be the one before;
  one text leaves a gap between block indices; two fragments can be interleaved with another
  call's, or be cut between.
* `TaskForks`: two forks are enough for every race between two of them, a channel of one
  event for a send that blocks, one reply for a fork that spends, two Runs for what outlives
  the first; a third fork would only queue longer. One spelling of the path in the run:
  `NoLostEdit` claims nothing for two. `MaxForks` is the number of ids a process hands out.
* `ToolOutput`: four bytes hold a wide character between two others and two line breaks; three
  make a result long enough to be offloaded and, with its marker line, to need three pages of
  one line or one page too long.
* `Histories`: two Runs for a history that is brought along, three calls for two rounds or one
  with an interrupted rest, three ids so that a repeated one can meet two fresh ones, three
  blocks for a text between two calls. Ids are symmetric; no temporal property is checked with
  symmetry.
* `CHECK_DEADLOCK FALSE` in the last five: the last call, the stream, the last Run or the
  reading back is over, or a bound is reached.

### Fairness

* Goroutines of the engine are scheduled (weak fairness of `EngineStep`, `LoopStep`,
  `RouterStep`).
* A start hook or a tool is only required to return once its ctx is done: the library's own
  blocking hooks (approve, ask_user, taskplan, mcp) select on `ctx.Done()`, and the terminal
  tool kills its process. End hooks do not wait for anybody and are taken to return.
* The `select` of `Await` takes `ctx.Done()` eventually; only finitely many wake-ups compete
  with it. For `DecisionReachesOwner` the consumer keeps an answer on offer until somebody
  receives it.
* In `ModelCall` the engine's steps and time go on; the server owes nothing.
* In `TaskForks` each goroutine runs on, and the consumer keeps taking events: with one that
  stops, the engine blocks by design. A tool must return only once its ctx has ended, so
  `RunEnds` excepts a tool that nobody has cancelled. Locks are taken under weak fairness only:
  nobody is starved, because each fork edits a bounded number of times.
* In `ToolOutput` a killed process ends, `WaitDelay` passes, and the consumer takes events while
  it reads; the command owes nothing. `CallReturns` excepts a consumer that stopped.
* Nothing is assumed about who cancels a run.

### Disagreements with the documentation

Three have a run that shows them and a quotation under `findings` in `PROJECT.json`:

* the lost wake-up between `take` and the reading of the wake channel in `Await`;
* `splitCompleteUTF8` (`filetools/tools.go:352`), which finds no cut when nothing but the first
  bytes of a character is pending, and flushes them;
* `contextSnapshot` (`task/hook.go:212`), which takes the image message that filetools inserted
  for the user's instruction.

The models also contain these, without a run of their own:

* a reply whose calls stay without answers when a model-end hook stops or fails the Run
  (`loop.go:143`, against `README.md:62`); contextfix repairs it in the next Run;
* a cancellation in the last iteration is reported as `max_iterations` (`loop.go:176`, against
  `docs/md/Loop引擎.md:57`);
* with `SerialTools` a call that a stop kept from starting gets a `tool_end` without a
  `tool_start` (against the comment at `loop.go:420`); `EndEventOnce` excepts it;
* a server removed while somebody dials it stays connected until `Close` (`router.go:402`,
  against line 117), and `CallWithAuth` goes through the allow check (against line 344);
* the idle timeout guards the wait for the header too, and there looks like the caller's
  cancellation (`provutil.go:106`, against 130-131);
* argument deltas of the responses protocol carry the Index of the last call
  (`responses.go:407`, against `types/model.go:22-25`);
* a cancelled command is an ordinary result with an exit code, though `tools.go:236-237` says
  that a cancellation is an error; and a command that ended by itself just before its deadline
  may be marked as not finished.

Behaviour to know of that no document speaks about: ids `task-N` start again in a new process
and overwrite the archives of the session it resumes; the usage of a fork whose Run or end hook
failed is not counted; two spellings of one path are two locks, and `read_file` takes none; a
line longer than a page cannot be read back; blank chunks are not shown live.

## 4. What is proved

Every property of a passing run that is not about liveness is a theorem.
Each theorem holds for all values of the constants that the named assumptions of its module
allow, and they allow what the code does: numbers are naturals, `Anyone` is not a waiter, the
calls of one reply are finitely many (`ForksAssumption`), a loop goes round at least once, and
the doubling delays of modelretry do not overflow (`NoOverflowAssumption`). One theorem has a
hypothesis of its own: `RequestsAreComplete` is about agents that register contextfix, as only
they have the property. The inductive invariants were checked by TLC on the bounds of section 3
before they were proved.

**ToolBatchProofs** (any number of calls and hooks, concurrent or serial). `BatchTyping` is
the type invariant. `ProtocolComplete` and `TruthfulAnswers` are not inductive: they speak of
the history, which is written from `results`, which the goroutines wrote before. `BatchInv`
adds what links them: `CallInv` says what `results`, `content` and `invoked` may be at each
program point of a call, `SummaryInv` that the summary starts when no goroutine is left and
copies results in order. `BatchInvariant` proves it inductive; `BatchProtocolComplete` and
`BatchTruthfulAnswers` follow. `BatchFirstCauseWins` and `BatchDeniedIsFinal` are action
properties proved from the same invariant, and `BatchRefinesRound` maps every step to a step
of `ToolRound` or a stutter. `EventInv` ties the two counters of events to the goroutine and
to `results`: `BatchEndEventOnce` rests on it, because the summary emits the `tool_end` of
exactly the calls whose result is still missing.

**AgentLoopProofs** (any number of Runs, iterations, calls and hooks). `TypeInv` gives
`LoopTyped`. `RunInv` has one conjunct for each part of `Run`: `BeforeEnd` (nothing is decided,
reported or returned), `AfterLoop` (what the reason found after the loop rests on) and `AtEnd`
(the reason explains the run, the returned error and the number of error events agree with it).
`ReasonIsTrue` and `ReportsFailures` follow for every way a Run ends, panics included.
`StopIsSilent` is an action property: a step of a stopped Run starts no model call. `LateInv`
counts the calls since the end of ctx for `OneLateCall`. `RequestsAreComplete` is the hard
one. Between Runs a history may lack answers, but only in a way `Fix` can mend: `Mendable` says
that each message has all its answers behind it or none at all, and `HistoryInv` at which points of
`Run` the history is complete. `FixCompletes` is the fact about the code: what `Fix` returns
for a mendable history, of any length, is complete.

**StreamReplyProofs** (the three protocols, any number of calls and fragments).
`ReplyFaithful` speaks of the end of the stream, so the invariant must say what the provider
has built on the way there: `RegistryInv` (every begun call is registered once, in the order
of the server, under the key its events carry), `KeyInv` (the keys a protocol can have; with it
openai's reading of the indices from 0 up meets every call), `UnsentInv`, `AccInv` (under
each key what was received, and nothing elsewhere) and `ShownInv` for what the deltas showed,
of a call with and of one without a name.
A pigeonhole lemma (`Room`) bounds the registry. `ReplyIsFaithful` and `ShownAsReceived`
follow: for every interleaving of deltas, and wherever the stream is cut.

**TaskForksProofs** (any forks, paths, slots, Runs and restarts). `UsageIsExact` needs a sum over
all forks; `Total` is defined by recursion over finite sets, and `UsageInv` says that it is
`usage`, and that whoever is about to write holds the mutex and has read what is still there.
`EditInv` is the same argument for a file (`EditsAreKept`): between the reading and the writing
of an edit the lock of its path is held. `IdInv` and `SessionInv` say that an id below the
counter names one fork in the answers and in the archives of this process
(`ArchivesAreKept`); across processes it does not, and the theorem does not claim it.
`ForksTyped` has the bounds as well, `SlotInv` that the semaphore's slots are not exceeded.

**ToolOutputProofs** (any amount of output, any capacity, threshold, page size and limits).
`FlushInv` links the two flushers: what was taken from the buffer has been shown or is being
shown by whoever holds the mutex, and `close` takes the rest. `AllIsShown` and
`NothingAfterwards` follow. The helper facts are about the model's operators, among them that
`splitCompleteUTF8` takes all of a buffer that ends with a character (`WholeIsTaken`).
`RunInv` ties the error of `cmd.Run` to what was copied: `OkIsAll`. `ReadInv` says that what
the model has read is a prefix of the result's lines up to the offset the last page named:
`PagesAreWhole`.

**McpHookProofs, the router** (any waiters, any number of decisions). `RouterInv` strengthens
`NoMisroute` and `NoDecisionLost` by two facts: a waiter holds a decision only after it
returned, and is never bound to a channel of the future. `RouterStashWakesOwner` is the
positive half of the wake-up: whoever already sits in the `select` is woken.

**McpHookProofs, the pool** (any servers, calls, connections, of the hook or the host). `PoolInv` joins `NoConnectionLost`,
`SingleOwner` and `RightServer`, none of which is inductive alone: that an evicted connection
is not still pooled under a second name needs `RightServer`; that a fresh connection is new
everywhere needs the type invariant and that undialled numbers were never closed. Steps that
move no connection share one lemma (`QuietStep`), and `ReplaceServers` and `Drop` are two
instances of one eviction step.

**ModelCallProofs** (any options, any timeout, any number of calls). Each theorem has an
inductive invariant of its own. `ShownInv`: whoever waits for a retry has shown nothing.
`BudgetInv`: the time slept is `waited` plus the wait in progress as long as ctx lives, and
nobody sleeps after that. `LateInv`: a wait that begins after ctx has ended cannot end, since
its delay is positive; this is where the delays must not overflow to zero. `TimerInv`: until
it fires the timer has run for as long as data has been quiet, or a Touch is pending.

**HistoriesProofs** (any Runs, replies, blocks, calls, ids and skills, and whatever beginning or
end of its history the host brings along). The histories here are sequences put together from
sequences, so the proofs stand on lemmas about `FlattenSeq`: where the parts of the whole come
to lie (`At`, `LaidOut`), that a whole laid out this way is the `FlattenSeq` of its parts
(`FlattenIs`). On them rest:

* `TypeInv`: every message is `Proper`, the kind of message that its role says, and at each point of
  a Run the last one has the role the next step expects; with `SystemFirst` it is `ShapeInv`.
  `HistoriesTyped` and `OneSystemMessage` follow, the latter because `Assemble` drops every
  system message that is brought along before it makes one.
* `ImageInv`: no image is in two places, and while the marks of a round are waiting for `OnLoop` (the
  point `answered`), no image has been made from them. `ImagesOnce` says nothing of marks and is not
  inductive without this: that the marks of earlier rounds are not read again is a matter
  of where `WithImages` starts to look. It gives `ImagesLoadedOnce`.
* `PairInv`: as long as no id has come twice, ids are called once, each answer is behind its call with only
  answers of the same message between, and each call has its answer, except for the last
  message when the Run is about to execute its calls or has ended there. `PairedBut` names the
  exception, and the proof follows it through all that happens to a history: a cut by the host, which may
  fall between a call and its answers on either side; `Fix`, which then removes and fills in
  (`FixPairs`); the round that closes the exception (`PairBatch`); the snapshot a fork starts
  from. `CallsPaired` then needs a second argument, about turns: `Grouped` describes the result of
  toAnthropic's fold by the positions at which it starts a new turn, and the blocks
  of a message with calls and those of its answers make two whole turns, one behind the other.
* `IntactHistoriesKept`, `ProtocolsSayTheSame` and `RepliesEchoed` are facts about the operators for
  histories of any length whose messages are `Proper`. The turns of anthropic and the items of responses are two ways of cutting
  one sequence of blocks, and a chat message differs from both only in the role of an answer
  (`Variant`), so their content is the same.

**Induction.** What `Fix`, a sum of usages or the fold of `splitLines` yields for every input is an
induction over data. The induction theorems of the library take an operator as parameter, which
the provers used here cannot instantiate. The proofs go round it with sets in the place of
predicates (`NatSetInduction`, `SubsetInduction`): the set of the inputs that fail has a
least element, or is empty. That serves where the statement can be written as a set of inputs, as
it can in all places where it was needed. A fold of the library is first shown to satisfy
its own equation (`JoinedDef`, `MergedDef`), since it is defined by a choice.

**Only model-checked**: liveness under fairness, which the prover cannot do (`StopReleasesBatch`,
`CancelReleases`, `CallReturns` of `ModelCall` and of `ToolOutput`, `RunEnds`,
`DecisionReachesOwner` in its violated run), and the other two disagreements with the
documentation, each of which is a counterexample.

## 5. What is not modelled

* Texts: prompts, results, schemas, JSON, skill files, the wording of errors.
* I/O: provider HTTP, directories, processes beyond their life and output, the MCP library and
  the OAuth flow.
* The construction of an Agent and its options: no state changes after `NewAgent`.
* `summary` (one more model call, on demand), `skilltool`, `safetool`, `toolgen`, the search
  and listing tools of filetools: sequential functions of their input.
* A custom `RetryIf`, the replay of reasoning, endpoints of the responses protocol that
  stream text and name their calls only in the last event.
* How the chat renders events. (Its `streamTag` and the buffer behind it take two different
  locks, `examples/chat/main.go:362`, so that deltas of two forks may come out under the wrong
  heading.) `internal/testutil/` is fakes for tests.

## 6. Plan

What is left:

1. Proof: the safety half of the releases, that a batch that was stopped has no goroutine left
   which waits for something other than a return of its hook or tool. The rest of it is liveness.
2. Proof: that `AgentLoop`'s `Fix`, for unique ids, is the `Fix` of `Histories`; today each module
   has lemmas of its own about it.

Modules to be proved about use no `RECURSIVE` operator, take their bounds as constants with
named assumptions, and keep one action per critical section.
