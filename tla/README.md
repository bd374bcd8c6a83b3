# Formal models of Cheat Engine for Linux

TLA+ models of the parts of this program whose correctness is a matter of
ordering, interleaving and boundary cases; TLC runs that check them on small
instances; TLAPS proofs of results that hold for every instance.
`PROJECT.json` records for each definition the source lines it translates
(`map`), what each run checks (`runs`), the plausible bug that breaks each
property (`mutants`), what in this code is hard to test (`hazards`) and what is
proved (`theorems`). Paths below are relative to the repository's `src/`.

1. [Inventory](#1-inventory)
2. [Modules and how they correspond to the code](#2-modules-and-how-they-correspond-to-the-code)
3. [Runs](#3-runs)
4. [Proofs](#4-proofs)
5. [Where the code disagrees with itself](#5-where-the-code-disagrees-with-itself)
6. [What the models leave out](#6-what-the-models-leave-out)
7. [Plan](#7-plan)

## 1. Inventory

The program attaches to another Linux process, scans and edits its memory,
debugs it, assembles code into it and scripts all of that in Lua, behind a Qt
window, a command line and a network server.

**Debug session, command channel** (`debug/debug_session.cpp`). State:
`attached_`, the queue `commands_` under `cmdMutex_`, one promise per queued
command, the tracer thread. ptrace only accepts requests from the thread that
attached, so GUI, Lua and ceserver threads hand commands to the tracer thread
and block on a future. Hard: `attached_` is cleared without the lock, the last
drain races the last push, a callback that detaches runs on the thread to be
joined. Correct if each accepted command is answered exactly once, no caller
blocks for ever, and nothing is accepted once the tracer has ended.

**Debug session, tracer and target** (same files). State: `traced_`,
`stoppedTids_`, `stopped_`, `activeTid_`, `stopContext_`, the breakpoint tables;
in the target, the text bytes, the debug registers, each thread's registers and
ptrace state. Hard: the target's threads run, trap, clone and die between any two
requests; one trap has several possible causes; a status is consumed by whichever
`waitpid` comes first. Correct if the debugger is transparent to the program, a
reported stop is a stop of every traced thread, a detached target keeps no trap,
the registers shown are current, and the tracer comes back to its loop unless it
waits for a stepped thread that never stops.

**Memory scanner and scan session** (`scanner/memory_scanner.cpp`,
`gui/mainwindow.cpp`). State: the configuration, chunks and worker slices, per
worker a `ScanResult` of three streams and a frame list; in the window
`lastResult_` and `undoResult_`. Hard: values across chunk and page boundaries,
SIMD blocks with scalar tails, frames that must change before an offset
overflows, short writes, memory that changes between two reads. Correct if an
undisturbed scan finds exactly what its configuration says, once and in order, and
a disturbed one still reads back what it recorded or is flagged.

**Pointer scanner** (`scanner/pointer_scanner.cpp`) and **address expressions**
(`core/expression.cpp`). State: the pointer map, the paths, the process a path is
followed in. Hard: a bounded reverse search in shards with caps, a map that is
saved and loaded after the modules moved, one path followed in three ways.
Correct if what a scan returns leads to its target and the three ways agree.

**Auto assembler** (`core/autoasm.cpp`). State: the symbol table and the table of
allocations shared by all records, one `DisableInfo` per record, the patched
bytes. Hard: a script is a sequence of steps each of which may fail, with a
rollback; two records share names and blocks. Correct if disabling undoes
enabling, a block has one owner who frees it once, and the bytes emitted are those
the second pass resolved.

**Address list and freezing** (`core/address_list.hpp`, `gui/mainwindow.cpp`) and
**cheat tables** (`core/ct_file.cpp`). State: the rows with their indents,
activation, frozen values, hotkeys, codecs; the file. Hard: cascades through a
tree kept as indents, a freeze and a refresh timer between user operations, a
pointer that moves. Correct if identifiers are unique, what was set or frozen is in
the cell the row stands for now, subtrees move whole, and a table survives its file.

**Code finder, break-and-trace, injector** (`debug/code_finder.cpp`, `tracer.cpp`,
`platform/linux/injector.cpp`, `linux_process.cpp`). State: the threads seized, the
debug registers or the page protection, saved registers and the patched
instruction. Hard: one tracer per thread, a thread born or dying in every pass, a
pending stop that comes late. Correct if every thread is let go as it was found and
only real accesses are counted.

**ceserver** (`platform/linux/ceserver_*.cpp`). State: one byte stream per
connection, a request half read, a debug session with its queue of events. Hard:
both sides write the layout down separately, a read may be cut at any byte, a
client dies in the middle of a session, `stop()` meets a blocked worker, a scan
thread and the window call one client at once. Correct if both sides stay in step,
events belong to the session in force, and calls end.

**Main window** (`gui/mainwindow.cpp`) and **process watcher**
(`platform/linux/process_watcher.cpp`). State: `process_` and everyone's raw
pointer to it: models, Lua, tool windows, the debugger, scan workers. Hard: modal
boxes and scans pump events, so timers and queued callbacks replace the handle
under them. Correct if what the window promises to sever is severed, a scan keeps
its handle, and what the user paused stays paused.

**Debugger window** (`gui/debuggerwindow.cpp`). State: the rows of the list,
`pendingRtcId_`, what the panes show, queued events. Hard: a queued event is
handled after other windows have driven the session on. Correct if a checked row is
planted and a stop is shown.

**Memory viewer** (`gui/memorybrowser.cpp`). State: top addresses, selection as
offsets, history, half-typed nibbles. Hard: scrolls move the meaning of offsets;
menus run a nested event loop. Correct if a search is exact and a menu acts on what
it was opened on.

**Lua engine** (`scripting/lua_engine.cpp`, `lua_bindings.cpp`). State: one Lua
state with a stack of nested frames, the registry's references, the process entry,
the debug pump. Hard: a callback may switch, lose or close anything under the frame
that called it. Correct if references lead to their functions, scripts use live
handles, and no breakpoint stop is lost.

The remaining components (hardware trace readers, the GDB client, snapshots,
templates, logging, the kernel module, the Mono client, in-target agents, plugins,
the Vulkan layer, symbol readers, analysis, Capstone and Keystone wrappers, the
command line, other dialogs, vendored Lua) are listed in `PROJECT.json` with the
reason each is left out: conversions, file formats, or one end of a protocol whose
other end is not in the repository.

## 2. Modules and how they correspond to the code

```
CallService <-implements- CommandChannel <- CommandChannelProofs, MCCommandChannel
DebugSession  <- DebugSessionProofs, MCDebugSession
ScanConfig, ScanResult <- ScanMatch <- MemoryScanner \
AddressExpression      <- PointerScanner              > MCMemoryScanner
ScanResult     <- ScanResultProofs
AaScript  <- AutoAssembler <- MCAutoAssembler
ValueText <- CheatTable <- CtFile <- AddressList <- MCAddressList
PtraceTools    <- PtraceToolsProofs
Ceserver       <- CeserverProofs
MainWindow     <- MainWindowProofs
DebuggerWindow <- DebuggerWindowProofs
MemoryViewer   <- MCMemoryViewer
LuaEngine      <- LuaEngineProofs, MCLuaEngine
```

**CallService** is the abstract specification of the session's API: a call is
accepted, then served or refused, once; a closed session holds no pending call.

**CommandChannel** is `attach`, `postCommand`, `detach`, the tracer loop and the
final drain. A client's control point `cpc[c]` names the statement it is at: the
first test of `attached_`, the lock, the second test, the push, the wait on the
future. `tpc` does the same for the tracer. The promise is `done[c]`. A command a
callback issues on the tracer thread runs inline and never enters the queue. A
session object is attached once, as every caller in `src/` does.

**DebugSession** is what the tracer does to the target. The target and the
kernel's ptrace are external, modelled from the requests the code makes: a thread
executes instructions of a small looping program, runs into int3 bytes, takes
interrupts and signals, clones and exits; `ev[t]` is the status `waitpid` has not
taken yet, and the leader's exit is held back until its siblings are reaped.
`due[t]` is a ghost: where the thread would be without a debugger. Each blocking
`waitpid` in the code separates two actions (`StopOne`/`StopWait`,
`ResumeOne`/`OverWait`, `StepInto`/`StepWait`, `RunTo`/`RunWait`,
`CleanOne`/`CleanWait`, ...), so the target runs in between; what the code does
from one wait to the next is one action, since no other thread of the program
touches that state. `text[a]` is the first byte of the instruction at `a`. The
constant `Moves` says which disturbances an instance allows.

`CommandChannel` and `DebugSession` look at two faces of one thread. The loop,
`attached_` and the end of cleanup occur in both: the first keeps the lock and the
queue and reduces the command to its name, the second keeps what the command does
and lets `Command` happen whenever the loop is ready to take one.

**ScanConfig** and **ScanMatch** are operators only: the scan panel's form and the
configuration parsed from it, then which places of a buffer each comparison loop
records (vector blocks, scalar tails, anchors, rejection windows) and which recorded
matches survive a next scan. **ScanResult** is the store: `addResult` with its
frames, `flush` with the outcome of each stream's write, `finalize`, the manifest
of shards, reading back by index, `pruneScanResult`. A file is the sequence of what
was written to it, so a short write really shifts or truncates what is read later.
**MemoryScanner** composes them into `firstScan` and `nextScan`, one chunk or batch
per step of a worker, interleaved with `cancel` and with the target's writes, under
the window's scan session.

**AddressExpression** parses token sequences as `ExpressionParser` does.
**PointerScanner** builds the map window by window while the target runs, walks it
backwards, saves, reloads after the process was started again, and follows a path
by reading, in a map and as an expression. An address is the number of a four-byte
cell; a *journey* fixes one behaviour's process, restarts, writes and requests.

**AaScript** holds the preprocessor, the label passes and the sizes as functions of
a script and the memory; **AutoAssembler** is `execute` as a sequence of steps, one
per allocation, line and thread, each of which may fail, and `disable`, with one
assembler object for all records. The target may refuse a free (`Free`); the code
forgets the block all the same, and the ghost `leaked` is where it is kept.

**ValueText**, **CheatTable** and **CtFile** are the value codecs of a record of
type Byte, the rows as a tree kept by indents, and the `.CT` and JSON formats: field
by field, with what the `.CT` reader's search for the first tag of a name takes from
elsewhere, the comment of a note and the value of a hotkey (`FirstValue`).
**AddressList** is the model behind the list: user and Lua operations, the
100 ms freeze and 500 ms refresh timers, the target that stores and moves its
pointer, and files.

**PtraceTools** has one action per ptrace call or group of calls no other process
can see half done: the hardware and software finders and break-and-trace on a worker
thread, remote calls of the GUI thread. The kernel is external: one tracer per
thread, a request on a running thread fails, an interrupt of a stopped thread stays
pending, debug registers outlive the tracer; only a SEIZE that asked for it follows
clones, so a remote syscall's does not. A fault on a page that an earlier software
finder could not restore is no tool's own: the hardware finder and the tracer forward
it (`PassFault`, `Forwarded`). `failed` remembers that a SEIZE of the worker failed.

**Ceserver** keeps each field of the stream with its width: client and server each
write down what they read, and a read of another width takes bytes that mean
something else. A connection is the two directions plus, per side, what is left to
read of a message; it may be cut at any byte, and a client may die at any moment. The
client object has no lock: a second thread may begin a call inside another's
(`Overlap`). What the two then send and take is arbitrary, so the connection carries
no fields any more (`MixedCalls`), and the server takes it for any command, answers
anything, or waits (`ServerMisreads`). Behind the server are the session's events and
`stop()`.

**MainWindow**: a handle is the number of its creation and is alive exactly while
it is `process_`; dereferencing a dead one sets `fault`. A scan's `processEvents`
and modal boxes let timers and queued callbacks run while user input is shut out.

**DebuggerWindow** sees the session from outside (its table, armed registers,
whether it stands); the tracer's callback only queues `onDebugEvent` on the GUI
thread, and a memory viewer drives the same session.

**MemoryViewer** has both panes, Find, history and edits; addresses below `N` wrap
and a byte is two one-bit digits.

**LuaEngine** is a stack of frames: scripts and callbacks entered by a binding, the
timer pump, a widget or the debug pump. Three things cross frames: process handles
through the registry entry `ce_proc`, the `luaL_ref` free list, and breakpoint hits.
`done` is what the last binding acted on; one that acts through the debug session acts
on the process that session attached to first (`ActsOn`).

## 3. Runs

| Run | Instance | Checks |
|---|---|---|
| `command_channel` | 3 clients | `TypeOK`, `NoStrandedCaller`, `ImplementsService` (refinement of CallService), `EveryCallReturns` |
| `debug_session` | 2 threads, 3 instructions, 1 debug register; signals, runs to an address, register edits, detach at any moment | `TypeOK`, `Transparent`, `NoStrayTraps`, `ContextCurrent`; under fairness `TracerReturns`, `DetachEnds` |
| `debug_session_disturbed` | a thread that clones another, exit at any moment, runs to an address | `TracedFrozen` |
| `memory_scan` | 12 bytes, pages of 4, values of 2-bit bytes, 2 workers, up to 3 scans; pointer journeys | `FirstScanExact`, `NextScanExact`, `StoreFaithful`, `PathsReach`, `FollowedAlike` |
| `auto_assembler` | 5 scripts: a hook, data, an overlapping patch, one that breaks, one that is refused | `Restored`, `CavesOwned`, `LabelsAgree` |
| `address_list` | 4 tables, 4 files, 2 or 3 user steps, at most 5 rows | `IdsUnique`, `StoredAsShown`, `FreezeHolds`, `TableSurvives`, `SubtreesTravel` |
| `ptrace_tools` | 2 threads, 1 of them alive at the start; 4 tools, started twice; 3 kinds of remote call, called once; 1 signal, 2 touches | `LeftClean`, `HitsAreAccesses`, `FindersHarmless` |
| `ceserver` | 2 clients one after the other, 2 sessions, lists of up to 2 | `InStep`, `EventsOfSession`; under fairness `CallsEnd` |
| `main_window` | a local and a remote process, 2 handles at once, 2 tool windows | `Severed`, `ScanKeepsHandle`, `PausedStays` |
| `debugger_window` | 2 addresses, 1 row, 2 breakpoint ids, 2 events, 1 debug register | `ChecksArePlanted`, `StopShown` |
| `memory_viewer` | 10 addresses, rows of 1 and 2 bytes, 1 store of the target | `FindExact`, `MenuActsOnCapture` |
| `lua` | 2 processes, 2 functions, 2 threads, nesting 3, 2 stops | `RefsOwned`, `ScriptsUseLive`, `StopAccounted` |

*Bounds.* Three clients are the least number at which one may detach while another
sits between its two tests and a third is queued. Two target threads suffice for
every race the session and the tools handle pairwise (one reports, one is being
frozen, born or let go); three instructions let a thread be on, just past and away
from a breakpoint. In the scanner the page, the chunk, the frame span, the flush
threshold, the batch and the multi-threading floor are all small against 12 bytes,
so that values straddle chunks and pages, chunks do not divide regions, frames
change, and the serial and the parallel next scan are both used. The five scripts
are the least set with a shared block, an overlap, a rollback and a refusal. A table
of five rows has a group with a subtree to move over another subtree. Two clients
let one connection die with bytes under way while the next is served; a list of two
has a first and a last entry, and every count, prefix and cut of it. Two handles are
an old and a new one; two tool windows one that is told and one that is opened in
between. One row and two ids let a run to the cursor lend its id to a row. In the
viewer, ten addresses hold three chunks and a match across each boundary. Nesting
three in Lua is a script, a callback in it and a callback in that. Every bound on
the environment is a guard with a comment that names it; `Live` (DebuggerWindow) and
`FewInUse` (MemoryViewer) are constraints that stop behaviours, not guards.

*Deadlock* is checked in `auto_assembler` only; the other instances may legitimately
stop (a session ends, a target exits, the bounded inputs are used up). That nobody
waits for ever is stated where it matters: `NoStrandedCaller`, `EveryCallReturns`,
`TracerReturns`, `DetachEnds`, `CallsEnd`.

*Symmetry* is used in `main_window`, `debugger_window` and `lua`, which check no
liveness and name no element of the permuted sets.

*Fairness.* `CommandChannel`: a thread inside the API, and the tracer, keep running
(weak fairness); `std::mutex` gives no order, so getting `cmdMutex_` is strongly fair
only. `DebugSession`: weak fairness on the tracer's own steps and on a thread's stop
once it was interrupted, which the kernel gives even to a sleeping thread. No thread
has to execute: a step or a run to an address may wait for ever for one that sits in a
system call or never gets there (`debug/debug_session.cpp:715`), and `TracerReturns`
names that wait (`UpToTheTarget`) as the only endless one. `Ceserver`: weak fairness of the worker, of the thread in
`stop()`, and of a client that is reading or whose call has failed. No call, command,
signal, hit, exit or cut is ever assumed to come. The other modules state safety only:
their loops are bounded and their users may stop at any time.

## 4. Proofs

Every theorem holds for all values of the constants that satisfy the named
assumptions of its module: `ClientsAssumption` of CommandChannel ("free" is not a
client), `ConstantsAssumption` of DebugSession (the leader is alive at the start,
instructions have positive addresses, the program's flow stays inside it),
`LocalPids` of MainWindow (there is a local process; the remote pid and 0 are not
local ones), `ConditionsAssumption` and `BoundsAssumption` of DebuggerWindow (the
empty condition exists; the bounds are naturals, one event fits the queue),
`FunctionsAssumption` of LuaEngine (a function is not a reference number),
`CountAssumption` and `ClientsAssumption` of Ceserver (a list has at least one and
at most 2^20 entries, the limit beyond which the client refuses a count and drops
out of step; clients are positive numbers), `StoreAssumption` of ScanResult (the frame
span and the write buffer are not empty), `ThreadsAssumption`, `KindsAssumption` and
`PassesAssumption` of PtraceTools (threads are positive numbers and the main one is
there from the start; tools and calls are the ones the code has; there is at least one
seize pass). A proof module shows an invariant that
implies the property, in three facts: it holds initially, every action preserves
it, it implies the property; ScanResult has no state, and its proofs show what its
operators return.

**CommandChannelProofs**: `TypeCorrect`, `NobodyStranded`, `ServiceImplemented`.
`NoStrandedCaller` is not inductive. `ChannelInv` adds who holds the mutex
(`LockInv`), that a client past its second test keeps the tracer from ending
(`PhaseInv`), and that the commands in the queue and in the tracer's hand are
exactly the calls owed an answer, each once (`OwedInv`). Under `ChannelInv` each
step of the channel is a step of `CallService` or a stutter.

**DebugSessionProofs**, for every disturbance, clones and exits included:
`TypeCorrect`, `FrozenWhileStopped` (`TracedFrozen`), `ContextIsCurrent`. Their
invariant `SessionInv` says: a status waits only for a thread that has stopped or
ended (`EventInv`); traced threads exist, so a clone never starts one of them
(`PresentInv`); which thread the tracer waits for, and that nothing counts as
stopped while the target runs (`ControlInv`); the leader is not left running by the
seizing loop (`LeaderInv`); who is halted in each state of the tracer (`FrozenInv`);
the active thread does not run from the moment it is chosen (`ActiveInv`).

`ProgramKept` (`Transparent`) and `NothingStray` (`NoStrayTraps`) hold under two named
hypotheses. `LongInstructions`: no instruction is one byte long, so that the address an
int3 leaves `rip` at starts none. `Calm`: no clone, no step across another breakpoint,
no breakpoint changed while the target runs. The code is known to move the program or
to leave an int3 without them (section 5); signals, exits, register edits, runs to an
address and a detach at any moment are all allowed. `Transparent` speaks of the
threads that are traced and run: one let go by a detach that races its hit is past
its program (section 5) and outside the theorem. The invariant is `Gone \/ Live`: the
process has ended, or each thread is accounted for (`OwnInv`), no status is left over
from before a stop (`QuietInv`), the text is the code with the table's breakpoints less
the one lifted, or has its only int3 at the goal of a run (`TextInv`), a thread stands
where its program is or one past an int3 it has just reported (`FlowInv`), and a debug
register is armed only for an entry and in a traced thread (`WatchInv`). `QuietInv` is
what the induction turns on: a trap still waiting after a stop would let a thread sit
past an int3 while the text under it changes.

**MainWindowProofs**: `TypeCorrect`, `PointersSevered` (`Severed`),
`ScanHandleKept`, `UserPauseStays`. `Inv` joins what each holder of the handle may
hold at each point of a handler: the models (`ModelsInv`), Lua (`LuaInv`), windows
and the debugger (`WindowInv`), a running scan (`ScanInv`) and who paused the
process (`PauseInv`). The properties speak of the moments between handlers, so the
invariant has to say what is still stale inside one, while a modal box pumps events.

**DebuggerWindowProofs**: `TypeCorrect`, `ChecksPlanted` (`ChecksArePlanted`),
`StopsShown` (`StopShown`). `PlantInv` relates the list to the session: ids are
fresh (`FreshInv`) and unique in the table (`TableInv`), rows keep their own id
(`RowsInv`), each id has one owner, a row or the pending run to the cursor
(`OwnerInv`, `PendingInv`), and both kinds of checked row are in the session's
tables (`SoftPlanted`, `HardPlanted`). `ExitInv` says what is left after an exit.

**LuaEngineProofs**: `ScriptsAreLive` (`ScriptsUseLive`), `NoStopLost`
(`StopAccounted`), `CallbacksOwned` (`RefsOwned`). The three share what an action
does to the stack of frames (kept, grown by one, cut) and then use an invariant each:
which frames hold which handle, and that an attached session keeps its process
(`StackInv`, `ScriptInv`); where a hit is between the
queue, a frame and an error (`StopInv`); and that a callback is closed or owned with
the reference free list apart from all owned references (`RefInv`, that is
`CallbackInv` and `Closing`).

**CeserverProofs**: `SessionEvents` (`EventsOfSession`), `SidesInStep` (`InStep`).
`EventInv` says where events of an ended session can still be, and what `stop()` has
already joined. `InStep` says that no read takes bytes of another field, for a client of
which no two calls have overlapped; what an overlapped one sends or takes reaches no
other connection. The invariant behind it, `StreamInv`, is one statement per connection about both
directions at once. An open connection is quiet, or asked (the server has some of one
call left to read, or owes the answer), or answered (what came down is all of the
answer); a cut one has each side see a prefix of that. It rests on lemmas about the
operators that are the protocol's layout: what the server writes for any list of any
length is what the client reads (`CompleteStep`), what the client writes is what the
server reads (`ParametersStep`, `CallsReady`), and a prefix of a readable stream is
read without a mismatch (`PrefixRead`).

**PtraceToolsProofs**: `TypeCorrect`, `ToolsLeaveClean` (`LeftClean`), `HitsCounted`
(`HitsAreAccesses`), `NoDeathWatched` (`FindersHarmless`). `LeftClean` speaks of the
end only, so its invariant `CleanInv` says for every moment who traces each thread and
why it will be let go: which stops a thread can be in (`SaneInv`), where the worker
and the GUI thread are and of which kind (`WorkerInv`, `CallerInv`), that a tool inside
a remote syscall has the main thread, stopped while its code is overwritten
(`SysInv`), that what the worker holds or has to do is its own (`OwnInv`, `ChildInv`),
that a finder's watchpoint is only in a thread on the list the worker will clean up
(`ArmedInv`), and that what the GUI thread traces is what it will release (`HeldInv`).
`CountInv` adds the hits still to be read to those recorded. The proof sorts the steps
by what they do to a thread: leave its tracer alone, let go of it, take it, or create
it; each action is one of these at the threads it touches.

`NoDeathWatched` assumes that the target never has as many threads, ended ones
included, as there are seize passes (six). `PassInv` counts: each pass before the one
that seizes nothing has seized a thread, so with fewer threads than passes the last one
finds nothing new, and all threads are traced. In a larger target the sixth pass may
still seize a new thread, after which the code looks no further
(`code_finder.cpp:384`), and a thread that this one created before it
was seized stays untraced. Such targets are outside the theorem, and outside the run.

**ScanResultProofs** is about operators, not steps: whatever the scan store is given,
in any number, it gives back or says it cannot. `FreshHolds`, `AddResultsHolds`,
`WrittenReadsBack`, `ShardedReadsBack`, `BatchReadsTheSame`. The invariant of a writer is
`Holds`: all its streams are open and its buffers fill and empty together (`Sound`), and
unless it is flagged, file and buffer of each stream are exactly the records of the
matches (`Laid`) and the frames give each offset the base it was taken from (`Framed`),
the frame still open included. `addResult` keeps it, since a match that would not fit
the offset opens a frame (`FramedNew`, `FramedSame`); a flush keeps it or flags the
writer (`FlushHolds`); finalizing turns it into a shard whose frames cover all matches
(`FinalizeStored`). A reader finds the shard and the frame of an index by running sums
(`PartFound`), and there the record (`ReadStored`). Loops over matches, frames and
shards are functions defined by their first value and a step; `Recursion` shows that
such a function exists and `EveryNatural` is the induction, both stated over sets and
functions since the prover takes no operator as a parameter. The theorems assume that
the streams could be opened, which the code does not check (section 5), and records
of one size, which a scan's writers have. They do not say which matches a scan finds,
nor that its workers are joined before their parts are assembled: `StoreFaithful` stays
with TLC for that, because MemoryScanner reaches the bit operations of the value codecs.

`Live`, `StreamInv`, `EventInv`, `CleanInv`, `CountInv`, `PassInv`, the invariants of LuaEngineProofs and those of the two
window modules were checked by TLC on the instances of the runs before they were
proved.

Only model-checked, and why:

- *Liveness* (`EveryCallReturns`, `TracerReturns`, `DetachEnds`, `CallsEnd`): the
  prover has no fairness and no ENABLED.
- *Scanner (above its result store), pointer scanner, auto assembler, address list,
  Find and menus of the memory viewer*: their definitions are recursive or folds (a scan
  of a buffer, a sizing pass over a script, a cascade over a tree), which the library's
  induction theorems do not reach: they take an operator as a parameter, and the
  installed provers cannot instantiate it. The codecs use bit operations, and no module
  that reaches those or a RECURSIVE operator can hold a proof. The result store is free
  of both, and its loops are functions over intervals of naturals.

## 5. Where the code disagrees with itself

Places where a comment or a sibling path says one thing and the code does another.
The passing runs and proofs restrict their inputs to what these do not refute;
most are hazards in `PROJECT.json`.

- `debug/debug_session.cpp:153`: a thread that has just executed a one-byte
  instruction with a breakpoint is taken for a hit by `stopOtherThreads` and rewound;
  it executes twice (comment at 138). Instances have no one-byte instruction.
- `:656`: a step over, step out or run to cursor that meets another breakpoint
  rewinds only its own target (comment at 650). Move `runAcross`.
- `:472`: a breakpoint removed while the target runs: the poke fails, the entry
  goes, the int3 stays (comments at 21 and 472). Move `mutateRunning`.
- `:546`: the new thread's first stop may be consumed before its parent's clone
  event; the tracer then waits for a stop that is over (comment at 541). Move `clone`.
- A detach that races a breakpoint hit takes the trap without rewinding; two threads
  that may exit keep the tracer waiting for the leader alone, whose status the kernel
  holds back; a clone event taken by another operation's wait leaves the new thread
  running at a stop (hence `TracedFrozen` and not a freeze of every thread).
- `scanner/memory_scanner.cpp:2280`: a range that starts off the alignment grid loses
  values that cross a skipped page (2273). `:1548`: a result file that cannot be
  opened: matches are counted, nothing stored, nothing flagged (1938).
- `:1848`: a string first scan may ignore case, its exact next scan never does.
  `:1925`: an all-types next scan treats anything but changed and same-as-first as
  unchanged. `:1476`: a grouped array of bytes ignores the parser's verdict. In the
  window the first scan's alignment is 1 without Fast Scan (`gui/mainwindow.cpp:2707`)
  and the next scan's is the field's value (2843). The results list reads all-types
  records at half their width. `nextScan` drops `hasWriteError`, `cancel()` has no
  caller, a first-scan worker that throws ends silently and a next-scan one ends the
  program.
- `core/autoasm.cpp:1652`: the rollback of 1666 is not taken on most failures. Two
  records may share a name or free a block twice; a cave may be freed while its thread
  runs. A free may fail (`platform/linux/linux_process.cpp:552`); its result is ignored
  (1681, 2208) and the block forgotten, so the target keeps a block without an owner,
  where the comment at 1668 promises none. `CavesOwned` counts such blocks in `leaked`.
- `gui/mainwindow.cpp:5483`: the inline edit of a hexadecimal record stores another
  number than was typed (4943). A record frozen before its first refresh freezes 0.
- `core/ct_file.cpp:436`: a row with id 0 is never indexed, so a group in the first
  row loses its nesting. A truncated `.CT` loads as an empty table that replaces the
  list (1070); JSON is refused. `save` writes in place and never tests the stream
  (243). A JSON load keeps the previous table's comment and script.
- `:477`: `getTag` takes the first tag of a name at any depth. With an empty table
  comment, a note's `<Comment>` (295) is read as the table's (1020). A record with an
  empty text writes no `<Value>` (361), so a hotkey's (422) is read as its text (587).
  A plain `<Address>` becomes the record's expression (570), and the list keeps it as
  one (`gui/mainwindow.cpp:3408`). `TableSurvives` leaves out the first two cases and
  takes a numeric expression for the plain address it was.
- `debug/tracer.cpp:94`: the start breakpoint is not disarmed on running threads.
- `core/expression.cpp:103`: `[x]-8+4` is read as `[x]-(8+4)`. The scanner never
  resets its cancel flag, and two shards together may return more than the cap.
- Main window: the exit path does not sever the debugger, the code finder and "New
  window" viewers (comment at 177); Create Process, auto-attach and Connect sever
  nothing; a remote pid is taken for exited by a local `kill` (184). `Severed` names
  these exceptions. A remote handle is destroyed after `ceserverClient_.reset()` (373,
  645, 2366, 2480) and closes through the freed client; no property covers it.
- Debugger window: a user breakpoint over a pending run to the cursor takes over its
  id (448); a second run overwrites the first's id (293); a queued event is handled
  after a viewer has resumed the target (463).
- Memory viewer: Fill and Paste act on the selection of the moment they run
  (`memorybrowser.cpp:346`, comment at 240).
- Lua: `setProcess` does not write `ce_proc` (`lua_engine.hpp:35`, comment at
  `lua_engine.cpp:298`); an error in a handler leaves the target stopped (2193 of
  `lua_bindings.cpp`); `debugSession()` keeps its first session (`lua_engine.cpp:49`), so
  after a second `openProcess` the debug bindings act on the first process and all others
  on the second. `ScriptsUseLive` states the two apart.
- ceserver: `stop()` joins a worker that is blocked in `recv`
  (`ceserver_server.cpp:81`); a client's disconnect does not end the session
  (`.hpp:41`, `.cpp:252`); REMOVEBREAKPOINT does nothing (279). A remote scan reads on a
  worker thread (`gui/mainwindow.cpp:2636`) while the freeze timer writes through the same
  client, which has no lock (`platform/process_api.hpp:37` says what that does). `InStep`
  and `CallsEnd` speak only of clients whose calls have not overlapped.

## 6. What the models leave out

- *Data*: byte values beyond the small sets, register contents other than `rip`, the
  meaning of a signal, the text of errors, floating point beyond its unit and NaN.
- *Failure of ptrace requests* of the debug session other than by the state of the
  thread; in PtraceTools a request may fail where the thread is gone. The tracer's
  fallback to PTRACE_ATTACH (`debug/tracer.cpp:39`) and its steps over calls (130).
- *A second attach* of a session object, which no caller does (`std::thread` would
  terminate the program); an exception in a next-scan worker, after which there is no
  program.
- *Signals consumed by other waits*: the stop is modelled, the loss of the signal is a
  hazard without a property.
- *32-bit offsets* are a frame span of a few bytes.
- *Breakpoint manager*: only the evaluation of conditions; its own table is filled by
  tests and Lua only. *Lua bindings* that convert arguments for other components.
  *Protected tables and trainer archives*. *What windows draw*.
- The speed hack's clock is a small sequential program inside the target; reading
  shows that it can step back when the speed is changed, and no module models it.

## 7. Plan

Modelled: every component of section 1 but the ones it leaves out. Proved: section 4.

Next: that the owned spans of a range's chunks are disjoint and cover it, for which the
chunking has to move out of the modules that reach the bit operations; and a software
finder with as many threads as passes, to state which of them it may leave untraced.
