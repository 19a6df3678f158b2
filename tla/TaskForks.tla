----------------------------- MODULE TaskForks -----------------------------
(***************************************************************************)
(* The task calls of one tool batch, each of which runs a sub-agent (fork) *)
(* in its own goroutine, and everything the forks share:                   *)
(*   ext/hook/task          the hook, its id counter and its mutex         *)
(*   core/fork.go           the fork itself, a Run of its own              *)
(*   ext/warp/tool/limit    one semaphore for the tools of all forks       *)
(*   ext/hook/filetools     edit_file and the lock of its path             *)
(*   ext/hook/localsession  one archive per fork, one for the conversation *)
(*   core/runasync.go       the bounded channel that every event goes      *)
(*                          through                                        *)
(*   examples/chat          the host: resumes a conversation, in the same  *)
(*                          process or after a restart                     *)
(*                                                                         *)
(* What a fork does is reduced to replies, tool calls and an ending.       *)
(* AgentLoop and ToolBatch say how a Run gets there.                       *)
(***************************************************************************)
EXTENDS Integers, FiniteSets, FiniteSetsExt

CONSTANTS
  Calls,      \* the task calls of a batch
  Paths,      \* the ways to spell the path of the one shared file
  MaxSlots,   \* bound: n of limit.Warp(n)
  Capacity,   \* capacity of the event channel, 256 in the code
  MaxReplies, \* bound: model replies of one fork
  MaxForks,   \* bound: forks that one process starts
  MaxRuns,    \* bound: Runs of the conversation
  None        \* no call

ASSUME ForksAssumption ==
  /\ IsFiniteSet(Calls)
  /\ None \notin Calls
  /\ Paths # {}
  /\ MaxSlots \in Nat \ {0}
  /\ Capacity \in Nat \ {0}
  /\ MaxReplies \in Nat
  /\ MaxForks \in Nat
  /\ MaxRuns \in Nat \ {0}

Points   == {"called", "opening", "running", "queued", "locking", "reading",
             "writing", "working", "saving", "ending", "deciding", "storing",
             "done"}

VARIABLES
  slots,      \* limit.Warp(slots)
  run,        \* number of the Run
  process,    \* number of restarts
  mainpc,     \* the main loop: "batch", "ending", "closed"
  pc,         \* where the goroutine of each call is
  path,       \* how the fork of each call spells the shared file
  id,         \* N in the fork's id task-N, 0 before it has one
  seq,        \* Hook.seq
  spent,      \* usage of each fork's LoopState
  failed,     \* the forks whose Run ended with an error
  answered,   \* the calls that gave a fork's answer back to the batch
  usage,      \* state.Usage of the main loop
  mu,         \* who holds Hook.mu
  seen,       \* the usage read under mu
  inside,     \* the calls that hold a slot of the semaphore
  pathLock,   \* who holds the lock of each spelling
  content,    \* the edits the shared file shows
  copy,       \* the content an edit has read
  confirmed,  \* calls whose edit was reported as done since the file was last cut down
  archive,    \* localsession: which fork the file of an id was written by
  history,    \* references to archives in the messages of the main loop
  saved,      \* the same in the main session's file
  buffered,   \* events in the channel, whose consumer keeps reading
  cancelled   \* the Run's ctx has ended

forkVars == <<pc, path, id, seq, spent, failed, answered>>
usageVars == <<usage, mu, seen>>
toolVars == <<inside, pathLock, content, copy, confirmed>>
sessionVars == <<archive, history, saved>>
hostVars == <<slots, run, process, mainpc, cancelled>>
vars == <<forkVars, usageVars, toolVars, sessionVars, hostVars, buffered>>

Ids     == 1 .. MaxForks
\* A fork as the conversation knows it: which call of which Run of which process.
Fork(c) == [process |-> process, run |-> run, call |-> c]
Forks   == [process : 0 .. MaxRuns, run : 1 .. MaxRuns, call : Calls]
Refs    == [id : Ids, fork : Forks]
NoFork  == [process |-> 0, run |-> 0, call |-> None]

TypeOK ==
  /\ slots \in 1 .. MaxSlots
  /\ run \in 1 .. MaxRuns /\ process \in 0 .. MaxRuns
  /\ mainpc \in {"batch", "ending", "closed"}
  /\ pc \in [Calls -> Points] /\ path \in [Calls -> Paths]
  /\ id \in [Calls -> Ids \cup {0}] /\ seq \in Ids \cup {0}
  /\ spent \in [Calls -> 0 .. MaxReplies]
  /\ failed \subseteq Calls /\ answered \subseteq Calls
  /\ usage \in 0 .. MaxReplies * Cardinality(Calls)
  /\ seen \in [Calls -> 0 .. MaxReplies * Cardinality(Calls)]
  /\ mu \in Calls \cup {None}
  /\ inside \subseteq Calls /\ Cardinality(inside) <= slots
  /\ inside = {c \in Calls : pc[c] \in {"locking", "reading", "writing", "working"}}
  /\ pathLock \in [Paths -> Calls \cup {None}]
  /\ content \subseteq Calls /\ confirmed \subseteq Calls
  /\ copy \in [Calls -> SUBSET Calls]
  /\ archive \in [Ids -> Forks \cup {NoFork}]
  /\ history \subseteq Refs /\ saved \subseteq Refs
  /\ buffered \in 0 .. Capacity
  /\ cancelled \in BOOLEAN

-----------------------------------------------------------------------------
(* The Runs and their host                                                 *)

\* A new Run: LoopState, batch and event channel are fresh.
FreshRun ==
  /\ mainpc' = "batch"
  /\ pc' = [c \in Calls |-> "called"]
  /\ path' \in [Calls -> Paths]
  /\ id' = [c \in Calls |-> 0]
  /\ spent' = [c \in Calls |-> 0]
  /\ failed' = {} /\ answered' = {}
  /\ usage' = 0 /\ mu' = None /\ seen' = [c \in Calls |-> 0]
  /\ inside' = {} /\ pathLock' = [p \in Paths |-> None]
  /\ copy' = [c \in Calls |-> {}]
  /\ content' = {} /\ confirmed' = {}
  /\ buffered' = 0 /\ cancelled' = FALSE

\* limit.Warp: at least one slot.
Warp(n) == IF n < 1 THEN 1 ELSE n

Init ==
  /\ \E n \in 0 .. MaxSlots : slots = Warp(n)
  /\ run = 1 /\ process = 0 /\ mainpc = "batch"
  /\ pc = [c \in Calls |-> "called"]
  /\ path \in [Calls -> Paths]
  /\ id = [c \in Calls |-> 0] /\ seq = 0
  /\ spent = [c \in Calls |-> 0]
  /\ failed = {} /\ answered = {}
  /\ usage = 0 /\ mu = None /\ seen = [c \in Calls |-> 0]
  /\ inside = {} /\ pathLock = [p \in Paths |-> None]
  /\ copy = [c \in Calls |-> {}]
  /\ content = {} /\ confirmed = {}
  /\ archive = [i \in Ids |-> NoFork]
  /\ history = {} /\ saved = {}
  /\ buffered = 0 /\ cancelled = FALSE

\* The host goes on: WithHistory(state.Messages...) on the same Agent, whose task
\* hook goes on counting.  (The chat drops the messages of a Run that returned an error:
\* fewer references than here.)
NextRun ==
  /\ mainpc = "closed" /\ run < MaxRuns
  /\ run' = run + 1
  /\ FreshRun
  /\ UNCHANGED <<slots, process, seq, sessionVars>>

\* localsession.Load: what the last successful OnEnd wrote.
Load == saved

\* The process ends, in the middle of anything; a new one makes a new Agent with a
\* new task hook and resumes the session: Load, SetID, WithHistory.
Restart ==
  /\ run < MaxRuns
  /\ run' = run + 1 /\ process' = process + 1
  /\ seq' = 0
  /\ history' = Load
  /\ FreshRun
  /\ UNCHANGED <<slots, archive, saved>>

\* RunHandle.Cancel, or the end of the host's ctx.
Cancel ==
  /\ mainpc # "closed" /\ ~cancelled
  /\ cancelled' = TRUE
  /\ UNCHANGED <<forkVars, usageVars, toolVars, sessionVars, buffered, slots, run,
                 process, mainpc>>

\* The consumer of Events().
Deliver ==
  /\ buffered > 0
  /\ buffered' = buffered - 1
  /\ UNCHANGED <<forkVars, usageVars, toolVars, sessionVars, hostVars>>

\* onEvent of RunAsync: a send that blocks while the channel is full, whatever ctx says.
Send == buffered < Capacity /\ buffered' = buffered + 1

\* All calls of the batch are over: end hooks, among them localsession, whose failure
\* is only noted in Metadata.
SaveMain ==
  /\ mainpc = "batch" /\ \A c \in Calls : pc[c] = "done"
  /\ mainpc' = "ending"
  /\ saved' \in {saved, history}
  /\ UNCHANGED <<forkVars, usageVars, toolVars, archive, history, buffered, slots, run,
                 process, cancelled>>

\* loop_end is emitted, then Events and done are closed.
EndRun ==
  /\ mainpc = "ending"
  /\ Send
  /\ mainpc' = "closed"
  /\ UNCHANGED <<forkVars, usageVars, toolVars, sessionVars, slots, run, process, cancelled>>

-----------------------------------------------------------------------------
(* OnToolStart up to the fork                                              *)

Step(c, from, to) == pc[c] = from /\ pc' = [pc EXCEPT ![c] = to]

\* An empty task description is refused before anything is announced.
Refuse(c) ==
  /\ Step(c, "called", "done")
  /\ UNCHANGED <<path, id, seq, spent, failed, answered, usageVars, toolVars, sessionVars,
                 hostVars, buffered>>

\* Fault: the counter is not advanced.
OpenUncounted(c) ==
  /\ seq < MaxForks
  /\ Step(c, "called", "opening")
  /\ id' = [id EXCEPT ![c] = seq + 1]
  /\ UNCHANGED <<seq, path, spent, failed, answered, usageVars, toolVars, sessionVars, hostVars,
                 buffered>>

\* newForkID, and the snapshot of messages and tools that the fork starts from.
Open(c) ==
  /\ seq < MaxForks
  /\ Step(c, "called", "opening")
  /\ seq' = seq + 1
  /\ id' = [id EXCEPT ![c] = seq + 1]
  /\ UNCHANGED <<path, spent, failed, answered, usageVars, toolVars, sessionVars, hostVars,
                 buffered>>

\* task.start; an unknown model is found out only now.
AnnounceStart(c) ==
  /\ Send
  /\ Step(c, "opening", "done") \/ Step(c, "opening", "running")
  /\ UNCHANGED <<path, id, seq, spent, failed, answered, usageVars, toolVars, sessionVars, hostVars>>

-----------------------------------------------------------------------------
(* The fork's Run                                                          *)

\* The model replies: with a call of a tool, or with the final answer.  A nested task
\* call is refused at once and costs nothing but the reply.
Reply(c) ==
  /\ spent[c] < MaxReplies
  /\ Send
  /\ spent' = [spent EXCEPT ![c] = @ + 1]
  /\ \E to \in {"running", "queued", "saving"} : Step(c, "running", to)
  /\ UNCHANGED <<path, id, seq, failed, answered, usageVars, toolVars, sessionVars, hostVars>>

\* The iteration limit, or a hook that sets Stop: the Run ends without an error.
Stop(c) ==
  /\ Step(c, "running", "saving")
  /\ UNCHANGED <<path, id, seq, spent, failed, answered, usageVars, toolVars, sessionVars,
                 hostVars, buffered>>

\* fail(): an error event unless ctx has ended.
Fail(c) ==
  /\ Step(c, "running", "saving")
  /\ failed' = failed \cup {c}
  /\ IF cancelled THEN UNCHANGED buffered ELSE Send
  /\ UNCHANGED <<path, id, seq, spent, answered, usageVars, toolVars, sessionVars, hostVars>>

\* limited.Invoke: a slot, or the end of ctx; with both ready the select takes either.
\* The tool behind it is edit_file, or one that returns when it likes.
Acquire(c) ==
  /\ Cardinality(inside) < slots
  /\ inside' = inside \cup {c}
  /\ \/ Step(c, "queued", "locking")
     \/ Step(c, "queued", "working")
  /\ UNCHANGED <<path, id, seq, spent, failed, answered, pathLock, content, copy, confirmed,
                 usageVars, sessionVars, hostVars, buffered>>

LeaveQueue(c) ==
  /\ cancelled
  /\ Step(c, "queued", "running")
  /\ UNCHANGED <<path, id, seq, spent, failed, answered, usageVars, toolVars, sessionVars,
                 hostVars, buffered>>

\* Output, error or panic: the deferred receive gives the slot back.
ToolReturns(c) ==
  /\ Step(c, "working", "running")
  /\ inside' = inside \ {c}
  /\ UNCHANGED <<path, id, seq, spent, failed, answered, pathLock, content, copy, confirmed,
                 usageVars, sessionVars, hostVars, buffered>>

\* Fault: the lock is looked up but not taken.
LockUntaken(c) ==
  /\ Step(c, "locking", "reading")
  /\ UNCHANGED <<path, id, seq, spent, failed, answered, inside, pathLock, content, copy,
                 confirmed, usageVars, sessionVars, hostVars, buffered>>

\* lockPath: one mutex per path as it was written; ctx does not interrupt the wait.
Lock(c) ==
  /\ pathLock[path[c]] = None
  /\ Step(c, "locking", "reading")
  /\ pathLock' = [pathLock EXCEPT ![path[c]] = c]
  /\ UNCHANGED <<path, id, seq, spent, failed, answered, inside, content, copy, confirmed,
                 usageVars, sessionVars, hostVars, buffered>>

\* Local.Edit: read the file, then write it back changed.
EditRead(c) ==
  /\ Step(c, "reading", "writing")
  /\ copy' = [copy EXCEPT ![c] = content]
  /\ UNCHANGED <<path, id, seq, spent, failed, answered, inside, pathLock, content, confirmed,
                 usageVars, sessionVars, hostVars, buffered>>

\* Unlock and the release of the slot are deferred: they happen on every way out.
Leave(c) ==
  /\ pathLock' = [pathLock EXCEPT ![path[c]] = None]
  /\ inside' = inside \ {c}

EditWrite(c) ==
  /\ Step(c, "writing", "running")
  /\ content' = copy[c] \cup {c}
  /\ copy' = [copy EXCEPT ![c] = {}]
  /\ confirmed' = confirmed \cup {c}
  /\ Leave(c)
  /\ UNCHANGED <<path, id, seq, spent, failed, answered, usageVars, sessionVars, hostVars,
                 buffered>>

\* Local.Write fails: before the file is opened, or after that has cut it down, and with it
\* the edits that were reported as done.
EditWriteFails(c) ==
  /\ Step(c, "writing", "running")
  /\ \/ UNCHANGED <<content, confirmed>>
     \/ content' = {} /\ confirmed' = {}
  /\ copy' = [copy EXCEPT ![c] = {}]
  /\ Leave(c)
  /\ UNCHANGED <<path, id, seq, spent, failed, answered, usageVars, sessionVars, hostVars,
                 buffered>>

\* Fault: the lock is kept when the edit fails.
EditFailsLocked(c) ==
  /\ Step(c, "reading", "running")
  /\ inside' = inside \ {c}
  /\ UNCHANGED <<path, id, seq, spent, failed, answered, pathLock, content, copy, confirmed,
                 usageVars, sessionVars, hostVars, buffered>>

\* The file cannot be read, or old_text is not in it.
EditFails(c) ==
  /\ Step(c, "reading", "running")
  /\ Leave(c)
  /\ UNCHANGED <<path, id, seq, spent, failed, answered, content, copy, confirmed, usageVars,
                 sessionVars, hostVars, buffered>>

\* The fork's own end hooks: localsession writes <session>-task-N.json.
SaveFork(c) ==
  /\ Step(c, "saving", "ending")
  /\ archive' \in {archive, [archive EXCEPT ![id[c]] = Fork(c)]}
  /\ UNCHANGED <<path, id, seq, spent, failed, answered, usageVars, toolVars, history, saved,
                 hostVars, buffered>>

-----------------------------------------------------------------------------
(* OnToolStart after the fork                                              *)

AnnounceEnd(c) ==
  /\ Send
  /\ Step(c, "ending", "deciding")
  /\ UNCHANGED <<path, id, seq, spent, failed, answered, usageVars, toolVars, sessionVars,
                 hostVars>>

\* sessionRefSuffix: the result names the archive.
Cite(c) == history' = history \cup {[id |-> id[c], fork |-> Fork(c)]}

\* A fork that ended with an error: the call is given up when ctx has ended, and
\* otherwise the model is told.
ReportError(c) ==
  /\ c \in failed
  /\ Step(c, "deciding", "done")
  /\ IF cancelled THEN UNCHANGED history ELSE Cite(c)
  /\ UNCHANGED <<path, id, seq, spent, failed, answered, usageVars, toolVars, archive, saved,
                 hostVars, buffered>>

\* Fault: the usage is added without the mutex.
LockUsageNever(c) ==
  /\ c \notin failed
  /\ Step(c, "deciding", "storing")
  /\ seen' = [seen EXCEPT ![c] = usage]
  /\ UNCHANGED <<path, id, seq, spent, failed, answered, mu, usage, toolVars, sessionVars,
                 hostVars, buffered>>

\* accumulateUsage: mu.Lock and the read of Usage.Add, ...
LockUsage(c) ==
  /\ c \notin failed
  /\ Step(c, "deciding", "storing")
  /\ mu = None
  /\ mu' = c
  /\ seen' = [seen EXCEPT ![c] = usage]
  /\ UNCHANGED <<path, id, seq, spent, failed, answered, usage, toolVars, sessionVars,
                 hostVars, buffered>>

\* ... its write and mu.Unlock, and the answer goes back.
AddUsage(c) ==
  /\ Step(c, "storing", "done")
  /\ usage' = seen[c] + spent[c]
  /\ mu' = None
  /\ seen' = [seen EXCEPT ![c] = 0]
  /\ answered' = answered \cup {c}
  /\ Cite(c)
  /\ UNCHANGED <<path, id, seq, spent, failed, toolVars, archive, saved, hostVars, buffered>>

-----------------------------------------------------------------------------

Engine(c) ==
  \/ Refuse(c) \/ Open(c) \/ AnnounceStart(c)
  \/ Reply(c) \/ Stop(c) \/ Fail(c)
  \/ Acquire(c) \/ LeaveQueue(c)
  \/ Lock(c) \/ EditRead(c) \/ EditWrite(c) \/ EditWriteFails(c) \/ EditFails(c)
  \/ SaveFork(c) \/ AnnounceEnd(c) \/ ReportError(c)
  \/ LockUsage(c) \/ AddUsage(c)

Next ==
  \/ \E c \in Calls : Refuse(c)
  \/ \E c \in Calls : Open(c)
  \/ \E c \in Calls : AnnounceStart(c)
  \/ \E c \in Calls : Reply(c)
  \/ \E c \in Calls : Stop(c)
  \/ \E c \in Calls : Fail(c)
  \/ \E c \in Calls : Acquire(c)
  \/ \E c \in Calls : LeaveQueue(c)
  \/ \E c \in Calls : ToolReturns(c)
  \/ \E c \in Calls : Lock(c)
  \/ \E c \in Calls : EditRead(c)
  \/ \E c \in Calls : EditWrite(c)
  \/ \E c \in Calls : EditWriteFails(c)
  \/ \E c \in Calls : EditFails(c)
  \/ \E c \in Calls : SaveFork(c)
  \/ \E c \in Calls : AnnounceEnd(c)
  \/ \E c \in Calls : ReportError(c)
  \/ \E c \in Calls : LockUsage(c)
  \/ \E c \in Calls : AddUsage(c)
  \/ SaveMain
  \/ EndRun
  \/ Deliver
  \/ Cancel
  \/ NextRun
  \/ Restart

\* The goroutines of the engine run, and a tool returns once its ctx has ended.  The
\* consumer takes events.  Nobody has to cancel or to go on.
Spec ==
  /\ Init /\ [][Next]_vars
  /\ \A c \in Calls : WF_vars(Engine(c)) /\ WF_vars(cancelled /\ ToolReturns(c))
  /\ WF_vars(SaveMain) /\ WF_vars(EndRun) /\ WF_vars(Deliver)

-----------------------------------------------------------------------------
(* Properties                                                              *)

\* accumulateUsage (task/hook.go:264): whatever the order in which forks end, the usage
\* of the main loop is the sum of what the forks that have answered spent.
UsageExact ==
  usage = MapThenSumSet(LAMBDA c : spent[c], answered)

\* lockPath (filetools/hook.go:163): edits that name the file alike are serialised, so
\* that none of them undoes another that was reported as done.  (A write that fails halfway
\* undoes them all: WriteFile empties the file first.  They count again from there.)
NoLostEdit ==
  (\A c, d \in Calls : path[c] = path[d]) => confirmed \subseteq content

\* newForkID (task/hook.go:195) and localsession.OnEnd: forks do not overwrite each other's
\* archives.  An archive that an answer of this process refers to was never written by
\* another fork of this process, across any number of Runs.  (The ids start again at 1 in a
\* new process, whose forks do overwrite the archives of the session it resumes.)
ArchiveOfProcess ==
  \A r \in history : r.fork.process = process =>
    archive[r.id] \in {r.fork, NoFork} \/ archive[r.id].process # process

\* RunAsync with a consumer that keeps reading: again and again the Run is over (Wait
\* returns), unless a tool is at work that nobody has cancelled.  So neither the semaphore
\* nor the locks nor the channel make forks wait for each other for good.
RunEnds ==
  []<>(mainpc = "closed" \/ (~cancelled /\ \E c \in Calls : pc[c] = "working"))

=============================================================================
