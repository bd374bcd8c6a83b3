------------------------------ MODULE Ceserver ------------------------------
(***************************************************************************)
(* A CEServerClient, with the RemoteProcessHandle and the RemoteDebugger   *)
(* that forward to it, and the CeserverServer it talks to.  The two sides  *)
(* share nothing but a byte stream whose layout each of them writes down   *)
(* on its own, field by field, so a field is kept with its width: a read   *)
(* whose width is not the width of the field that arrives takes bytes that *)
(* mean something else.  Of the values only those that steer the protocol  *)
(* are kept: command codes, counts, lengths, flags and results.            *)
(*                                                                         *)
(* The server debugs one process through a DebugSession whose tracer       *)
(* thread queues events.  A connection may be cut at any byte and a client *)
(* may die at any moment.                                                  *)
(*                                                                         *)
(* CEServerClient has no lock.  The program it belongs to calls it from    *)
(* its GUI thread and, while it scans, from the scan's worker thread as    *)
(* well (process_api.hpp: concurrent calls corrupt the wire protocol).     *)
(* Once two calls have overlapped, what either side takes off the stream   *)
(* is arbitrary: such a connection is in overlapped, carries no fields any *)
(* more, and its client and the server that serves it may do anything a    *)
(* misread stream makes them do.                                           *)
(***************************************************************************)
EXTENDS Integers, Sequences

CONSTANTS
    Clients,        \* connections, numbered in the order they are made
    MaxCount,       \* bound: length of a list, a name or a buffer on the wire
    MaxQueue,       \* bound: debug events waiting to be fetched
    MaxSessions     \* bound: STARTDEBUG commands

\* Longer lists and names than 2^20 are rejected by the client and stay unread.
ASSUME CountAssumption == MaxCount \in Nat \ {0} /\ MaxCount <= 2^20

ASSUME ClientsAssumption == Clients \subseteq Nat \ {0}

VARIABLES
    \* the client programs
    sock,       \* sock[c]: "none", "open", "cut" or "closed"
    call,       \* call[c]: the protocol call c is in, and what it still has to receive
    handle,     \* handle[c]: c owns a RemoteProcessHandle
    attached,   \* RemoteDebugger::attached_ of c
    \* the two directions of each connection
    up, down,
    \* the server
    running, listening, backlog,
    worker,     \* the accept thread: where it is, and the command in its hands
    stopper,    \* the caller of stop(): "away", "join", "reset" or "done"
    dbg, dbgQueue,
    \* history
    garbled,    \* a read took bytes of another field
    overlapped, \* clients two threads of which have been in a call at once
    sessions    \* number of sessions started so far

clientVars == <<sock, call, handle, attached>>
serverVars == <<running, listening, backlog, worker, stopper>>
debugVars == <<dbg, dbgQueue, sessions>>
vars == <<clientVars, up, down, serverVars, debugVars, garbled, overlapped>>

None == 0

\* A field on the wire: its width in bytes and its value.
F(w, v) == [w |-> w, v |-> v]
\* A series of recvAll calls: the widths asked for, and what the last value makes
\* the reader read next.
Read(ws, then) == [ws |-> ws, then |-> then]
Plain(ws) == Read(ws, "nothing")

Repeat(n, s) == [i \in 1 .. n * Len(s) |-> s[((i - 1) % Len(s)) + 1]]

(***************************************************************************)
(* The layouts of ceserver_client.cpp: what each call sends and the reads  *)
(* it answers with.                                                        *)
(***************************************************************************)
CMD_GETVERSION == 0
CMD_OPENPROCESS == 3
CMD_CLOSEHANDLE == 7
CMD_VIRTUALQUERYEX == 8
CMD_READPROCESSMEMORY == 9
CMD_WRITEPROCESSMEMORY == 10
CMD_STARTDEBUG == 11
CMD_STOPDEBUG == 12
CMD_WAITFORDEBUGEVENT == 13
CMD_CONTINUEFROMDEBUGEVENT == 14
CMD_SETBREAKPOINT == 15
CMD_REMOVEBREAKPOINT == 16
CMD_SUSPENDTHREAD == 17
CMD_RESUMETHREAD == 18
CMD_GETTHREADCONTEXT == 19
CMD_SETTHREADCONTEXT == 20
CMD_GETARCHITECTURE == 21
CMD_GETSYMBOLLISTFROMFILE == 24
CMD_ALLOC == 26
CMD_FREE == 27
CMD_SPEEDHACK_SETSPEED == 30
CMD_VIRTUALQUERYEXFULL == 31
CMD_CHANGEMEMORYPROTECTION == 36
CMD_CREATETOOLHELP32SNAPSHOTEX == 35
TH32CS_SNAPTHREAD == 4
TH32CS_SNAPMODULE == 8

Call(op, cmd, fields, recv, limit) ==
    [op |-> op, send |-> <<F(1, cmd)>> \o fields, want |-> recv, limit |-> limit]

getVersion == Call("getVersion", CMD_GETVERSION, <<>>, <<Read(<<4, 1>>, "bytes")>>, 255)
openProcess == Call("openProcess", CMD_OPENPROCESS, <<F(4, 1)>>, <<Plain(<<4>>)>>, 0)
closeHandle == Call("closeHandle", CMD_CLOSEHANDLE, <<F(4, 1)>>, <<Plain(<<4>>)>>, 0)

virtualQueryEx ==
    Call("virtualQueryEx", CMD_VIRTUALQUERYEX, <<F(4, 1), F(8, 0)>>,
         <<Plain(<<1, 4, 4, 8, 8>>)>>, 0)

virtualQueryExFull ==
    Call("virtualQueryExFull", CMD_VIRTUALQUERYEXFULL, <<F(4, 1), F(1, 0)>>,
         <<Read(<<4>>, "regions")>>, 2^20)

readProcessMemory(size) ==
    Call("readProcessMemory", CMD_READPROCESSMEMORY,
         <<F(4, 1), F(8, 0), F(4, size), F(1, 0)>>, <<Read(<<4>>, "bytes")>>, size)

writeProcessMemory(size) ==
    Call("writeProcessMemory", CMD_WRITEPROCESSMEMORY,
         <<F(4, 1), F(8, 0), F(4, size)>> \o IF size > 0 THEN <<F(size, 0)>> ELSE <<>>,
         <<Read(<<4>>, "count")>>, size)

getArchitecture == Call("getArchitecture", CMD_GETARCHITECTURE, <<F(4, 1)>>, <<Plain(<<1>>)>>, 0)

enumModules ==
    Call("enumModules", CMD_CREATETOOLHELP32SNAPSHOTEX, <<F(4, TH32CS_SNAPMODULE), F(4, 1)>>,
         <<Read(<<4>>, "module")>>, 2^20)

enumThreads ==
    Call("enumThreads", CMD_CREATETOOLHELP32SNAPSHOTEX, <<F(4, TH32CS_SNAPTHREAD), F(4, 1)>>,
         <<Read(<<4>>, "tids")>>, 2^20)

allocateMemory ==
    Call("allocateMemory", CMD_ALLOC, <<F(4, 1), F(8, 0), F(4, 1), F(4, 64)>>, <<Plain(<<8>>)>>, 0)
freeMemory == Call("freeMemory", CMD_FREE, <<F(4, 1), F(8, 0), F(4, 1)>>, <<Plain(<<4>>)>>, 0)

changeMemoryProtection ==
    Call("changeMemoryProtection", CMD_CHANGEMEMORYPROTECTION,
         <<F(4, 1), F(8, 0), F(4, 1), F(4, 64)>>, <<Plain(<<4, 4>>)>>, 0)

startDebug == Call("startDebug", CMD_STARTDEBUG, <<F(4, 1)>>, <<Plain(<<4>>)>>, 0)
stopDebug == Call("stopDebug", CMD_STOPDEBUG, <<F(4, 1)>>, <<Plain(<<4>>)>>, 0)

waitForDebugEvent ==
    Call("waitForDebugEvent", CMD_WAITFORDEBUGEVENT, <<F(4, 1), F(4, 100)>>,
         <<Read(<<4>>, "event")>>, 1)

continueFromDebugEvent ==
    Call("continueFromDebugEvent", CMD_CONTINUEFROMDEBUGEVENT, <<F(4, 1), F(4, 1), F(4, 0)>>,
         <<Plain(<<4>>)>>, 0)

setRemoteBreakpoint ==
    Call("setRemoteBreakpoint", CMD_SETBREAKPOINT,
         <<F(4, 1), F(4, 1), F(4, 0), F(8, 0), F(4, 0), F(4, 1)>>, <<Plain(<<4>>)>>, 0)

removeRemoteBreakpoint ==
    Call("removeRemoteBreakpoint", CMD_REMOVEBREAKPOINT,
         <<F(4, 1), F(4, 1), F(4, 0), F(4, 0)>>, <<Plain(<<4>>)>>, 0)

suspendThread == Call("suspendThread", CMD_SUSPENDTHREAD, <<F(4, 1), F(4, 1)>>, <<Plain(<<4>>)>>, 0)
resumeThread == Call("resumeThread", CMD_RESUMETHREAD, <<F(4, 1), F(4, 1)>>, <<Plain(<<4>>)>>, 0)

getThreadContext ==
    Call("getThreadContext", CMD_GETTHREADCONTEXT, <<F(4, 1), F(4, 1)>>,
         <<Read(<<4>>, "context")>>, 2^20)

setThreadContext(size) ==
    Call("setThreadContext", CMD_SETTHREADCONTEXT,
         <<F(4, 1), F(4, 1), F(4, size), F(size, 0)>>, <<Plain(<<4>>)>>, 0)

speedhackSetSpeed ==
    Call("speedhackSetSpeed", CMD_SPEEDHACK_SETSPEED, <<F(4, 1), F(4, 2)>>, <<Plain(<<4>>)>>, 0)

getSymbolListFromFile(size) ==
    Call("getSymbolListFromFile", CMD_GETSYMBOLLISTFROMFILE,
         <<F(4, 0), F(4, size), F(size, 0)>>, <<Read(<<8>>, "symbols")>>, 2^28)

\* What a reader reads next, once a field told it v.
Continuation(then, v) ==
    CASE then \in {"nothing", "count", "arg"} -> <<>>
      [] then = "bytes" -> IF v > 0 THEN <<Plain(<<v>>)>> ELSE <<>>
      [] then = "regions" -> Repeat(v, <<Plain(<<4, 4, 8, 8>>)>>)
      [] then = "tids" -> Repeat(v, <<Plain(<<4>>)>>)
      [] then = "event" -> IF v = 0 THEN <<>> ELSE <<Plain(<<4, 8, 8>>)>>
      [] then = "module" ->
            <<Read(<<8, 4, 4, 4, 4>>, "bytes")>>
                \o IF v = 0 THEN <<>> ELSE <<Read(<<4>>, "module")>>
      [] then = "context" -> IF v = 0 THEN <<>> ELSE <<Read(<<4>>, "bytes")>>
      [] then = "symbols" -> IF v = 0 THEN <<>> ELSE <<Plain(<<v - 8>>)>>

\* "ceserver returned invalid ...": the length is refused, nothing more is read.
Refused(read, v, limit) ==
    read.then \in {"bytes", "count", "regions", "tids"} /\ (v < 0 \/ v > limit)

\* The series fits in what has arrived; it lines up when each read meets a field
\* of its own width.
Available(s, read) == Len(s) >= Len(read.ws)
LinesUp(s, read) == \A i \in DOMAIN read.ws : s[i].w = read.ws[i]
LastOf(s, read) == s[Len(read.ws)].v
Rest(s, read) == SubSeq(s, Len(read.ws) + 1, Len(s))

-----------------------------------------------------------------------------
(***************************************************************************)
(* The layouts of ceserver_server.cpp.                                     *)
(***************************************************************************)
ServedCommands ==
    {CMD_GETVERSION, CMD_OPENPROCESS, CMD_CLOSEHANDLE, CMD_READPROCESSMEMORY,
     CMD_WRITEPROCESSMEMORY, CMD_STARTDEBUG, CMD_STOPDEBUG, CMD_WAITFORDEBUGEVENT,
     CMD_CONTINUEFROMDEBUGEVENT, CMD_SETBREAKPOINT, CMD_REMOVEBREAKPOINT,
     CMD_GETARCHITECTURE, CMD_ALLOC, CMD_FREE, CMD_VIRTUALQUERYEXFULL,
     CMD_CREATETOOLHELP32SNAPSHOTEX}

\* The reads that follow the command byte.
Parameters(cmd) ==
    CASE cmd = CMD_GETVERSION -> <<>>
      [] cmd \in {CMD_OPENPROCESS, CMD_CLOSEHANDLE, CMD_GETARCHITECTURE, CMD_STARTDEBUG,
                  CMD_STOPDEBUG} -> <<Plain(<<4>>)>>
      [] cmd = CMD_READPROCESSMEMORY -> <<Read(<<4, 8, 4>>, "arg"), Plain(<<1>>)>>
      [] cmd = CMD_WRITEPROCESSMEMORY -> <<Read(<<4, 8, 4>>, "bytes")>>
      [] cmd = CMD_VIRTUALQUERYEXFULL -> <<Plain(<<4, 1>>)>>
      [] cmd = CMD_CREATETOOLHELP32SNAPSHOTEX -> <<Read(<<4>>, "arg"), Plain(<<4>>)>>
      [] cmd = CMD_ALLOC -> <<Plain(<<4, 8, 4, 4>>)>>
      [] cmd = CMD_FREE -> <<Plain(<<4, 8, 4>>)>>
      [] cmd = CMD_SETBREAKPOINT ->
            <<Plain(<<4, 4, 4, 8, 4, 4>>)>>
      [] cmd = CMD_REMOVEBREAKPOINT -> <<Plain(<<4, 4, 4, 4>>)>>
      [] cmd = CMD_WAITFORDEBUGEVENT -> <<Plain(<<4, 4>>)>>
      [] cmd = CMD_CONTINUEFROMDEBUGEVENT -> <<Plain(<<4, 4, 4>>)>>

ModuleEntry(result, nameSize) ==
    <<F(4, result), F(8, 0), F(4, 0), F(4, 0), F(4, 0), F(4, nameSize)>>
        \o IF nameSize > 0 THEN <<F(nameSize, 0)>> ELSE <<>>

\* Mutant: the count leaves the main thread out.
UncountedLeader == {<<F(4, n)>> \o Repeat(n + 1, <<F(4, 1)>>) : n \in 0 .. MaxCount}
ThreadSnapshot == {<<F(4, n)>> \o Repeat(n, <<F(4, 1)>>) : n \in 0 .. MaxCount}
\* Mutant: the list ends with its last module.
UnterminatedModules == {Repeat(n, ModuleEntry(1, MaxCount)) : n \in 0 .. MaxCount}
ModuleSnapshot ==
    {Repeat(n, ModuleEntry(1, MaxCount)) \o ModuleEntry(0, 0) : n \in 0 .. MaxCount}
RegionList ==
    {<<F(4, n)>> \o Repeat(n, <<F(4, 1), F(4, 0), F(8, 0), F(8, 0)>>) : n \in 0 .. MaxCount}
BytesRead(size) ==
    {<<F(4, n)>> \o (IF n > 0 THEN <<F(n, 0)>> ELSE <<>>) : n \in 0 .. size}

\* What the server may send for a command that touches no debug session: the
\* target decides how much of it there is.
Answers(cmd, arg) ==
    CASE cmd = CMD_GETVERSION -> {<<F(4, 1), F(1, 15), F(15, 0)>>}
      [] cmd \in {CMD_OPENPROCESS, CMD_CLOSEHANDLE} -> {<<F(4, 1)>>}
      [] cmd = CMD_READPROCESSMEMORY -> BytesRead(arg)
      [] cmd = CMD_WRITEPROCESSMEMORY -> {<<F(4, n)>> : n \in 0 .. arg}
      [] cmd = CMD_GETARCHITECTURE -> {<<F(1, 1)>>}
      [] cmd = CMD_VIRTUALQUERYEXFULL -> RegionList
      [] cmd = CMD_CREATETOOLHELP32SNAPSHOTEX ->
            (IF arg = TH32CS_SNAPTHREAD THEN ThreadSnapshot
             ELSE IF arg = TH32CS_SNAPMODULE THEN ModuleSnapshot ELSE {<<F(4, 0)>>})
      [] cmd = CMD_ALLOC -> {<<F(8, n)>> : n \in {0, 1}}
      [] cmd = CMD_FREE -> {<<F(4, n)>> : n \in {0, 1}}

MemoryCommands ==
    {CMD_GETVERSION, CMD_OPENPROCESS, CMD_CLOSEHANDLE, CMD_READPROCESSMEMORY,
     CMD_WRITEPROCESSMEMORY, CMD_GETARCHITECTURE, CMD_VIRTUALQUERYEXFULL,
     CMD_CREATETOOLHELP32SNAPSHOTEX, CMD_ALLOC, CMD_FREE}

-----------------------------------------------------------------------------
(***************************************************************************)
(* The client programs.                                                    *)
(***************************************************************************)
Idle == [op |-> "none", want |-> <<>>, limit |-> 0]
Begun(q) == [op |-> q.op, want |-> q.want, limit |-> q.limit]
InCall(c) == call[c].op # "none"
\* Threads of one client wait for bytes that may be each other's.
Mixed == [op |-> "mixed", want |-> <<Plain(<<1>>)>>, limit |-> 0]

NoSession == [id |-> None, live |-> FALSE, stopped |-> FALSE, armed |-> FALSE, posted |-> FALSE]

Away == [at |-> "gone", conn |-> None, cmd |-> None, arg |-> 0, want |-> <<>>]
Accepting == [Away EXCEPT !.at = "accept"]
Serving(c) == [at |-> "command", conn |-> c, cmd |-> None, arg |-> 0, want |-> <<Plain(<<1>>)>>]

\* Everything the adapters may ask for; a read or a write of 0 bytes is no call.
MemoryCalls ==
    {getVersion, virtualQueryEx, virtualQueryExFull, enumModules, enumThreads,
     allocateMemory, freeMemory, changeMemoryProtection, speedhackSetSpeed}
    \cup {readProcessMemory(n) : n \in 1 .. MaxCount}
    \cup {writeProcessMemory(n) : n \in 1 .. MaxCount}
    \cup {getSymbolListFromFile(MaxCount)}

DebugCalls ==
    {waitForDebugEvent, continueFromDebugEvent, setRemoteBreakpoint, removeRemoteBreakpoint,
     suspendThread, resumeThread, getThreadContext, setThreadContext(MaxCount)}

\* A call returns to the adapter, which records what it opened or attached: open()
\* goes on with getArchitecture, whose failure it ignores; a debugger that asked to
\* detach is no longer attached, whatever came back.
Returned(c, op, ok, result) ==
    LET opened == op = "openProcess" /\ ok /\ result # 0 IN
    /\ call' = [call EXCEPT ![c] = IF opened THEN Begun(getArchitecture) ELSE Idle]
    /\ up' = IF opened /\ sock[c] = "open"
             THEN [up EXCEPT ![c] = @ \o getArchitecture.send] ELSE up
    /\ handle' = [handle EXCEPT ![c] = op = "getArchitecture" \/ (@ /\ op # "closeHandle")]
    /\ attached' = [attached EXCEPT ![c] =
            (op = "startDebug" /\ ok /\ result # 0) \/ (@ /\ op # "stopDebug")]

\* sendAll, which fails on a connection that is cut.
Invoke(c, q) ==
    /\ ~InCall(c) /\ c \notin overlapped
    /\ \/ /\ sock[c] = "open"
          /\ call' = [call EXCEPT ![c] = Begun(q)]
          /\ up' = [up EXCEPT ![c] = @ \o q.send]
          /\ UNCHANGED <<handle, attached>>
       \/ /\ sock[c] = "cut"
          /\ Returned(c, q.op, FALSE, 0)
    /\ UNCHANGED <<sock, down, serverVars, debugVars, garbled, overlapped>>

\* Another thread enters a call while one is under way: runScanWithProgress reads
\* through the handle on a thread of its own and lets the GUI's timers run on.
Overlap(c) ==
    /\ sock[c] = "open" /\ handle[c] /\ InCall(c) /\ c \notin overlapped
    /\ overlapped' = overlapped \cup {c}
    /\ call' = [call EXCEPT ![c] = Mixed]
    /\ up' = [up EXCEPT ![c] = <<>>] /\ down' = [down EXCEPT ![c] = <<>>]
    /\ UNCHANGED <<sock, handle, attached, serverVars, debugVars, garbled>>

\* From then on a call may return anything or never, and so open, close, attach
\* or detach in the program's eyes, and others may follow it.
MixedCalls(c) ==
    /\ c \in overlapped /\ sock[c] \in {"open", "cut"}
    /\ \E q \in {Idle, Mixed} : call' = [call EXCEPT ![c] = q]
    /\ \E h, a \in BOOLEAN :
        /\ handle' = [handle EXCEPT ![c] = h]
        /\ attached' = [attached EXCEPT ![c] = a]
    /\ UNCHANGED <<sock, up, down, serverVars, debugVars, garbled, overlapped>>

\* A program that connects while another is served waits in the backlog, and
\* nothing happens to it there; it is let in when the other has gone.
connectTcp(c) ==
    /\ sock[c] = "none" /\ listening
    /\ \A d \in Clients : d < c => sock[d] = "closed"
    /\ sock' = [sock EXCEPT ![c] = "open"]
    /\ backlog' = Append(backlog, c)
    /\ UNCHANGED <<call, handle, attached, up, down, running, listening, worker, stopper,
                   debugVars, garbled, overlapped>>

OpenHandle(c) == ~handle[c] /\ Invoke(c, openProcess)
UseHandle(c) == handle[c] /\ \E q \in MemoryCalls : Invoke(c, q)
DestroyHandle(c) == handle[c] /\ Invoke(c, closeHandle)

DebuggerAttach(c) == handle[c] /\ sessions < MaxSessions /\ Invoke(c, startDebug)
UseDebugger(c) == handle[c] /\ \E q \in DebugCalls : Invoke(c, q)
DebuggerDetach(c) == attached[c] /\ Invoke(c, stopDebug)

\* The next reads of a call; result keeps the value that says whether it succeeded.
Receive(c) ==
    /\ InCall(c) /\ c \notin overlapped
    /\ LET read == Head(call[c].want)
           v == LastOf(down[c], read)
           want == Continuation(read.then, v) \o Tail(call[c].want) IN
       /\ Available(down[c], read)
       /\ down' = [down EXCEPT ![c] = Rest(@, read)]
       /\ garbled' = (garbled \/ ~LinesUp(down[c], read))
       /\ IF Refused(read, v, call[c].limit) THEN Returned(c, call[c].op, FALSE, 0)
          ELSE IF want = <<>> THEN Returned(c, call[c].op, TRUE, v)
          ELSE /\ call' = [call EXCEPT ![c].want = want]
               /\ UNCHANGED <<up, handle, attached>>
    /\ UNCHANGED <<sock, serverVars, debugVars, overlapped>>

\* send or recv reports the end of the connection; fd_ stays as it is.
CallFails(c) ==
    /\ InCall(c) /\ sock[c] = "cut" /\ c \notin overlapped
    /\ ~Available(down[c], Head(call[c].want))
    /\ Returned(c, call[c].op, FALSE, 0)
    /\ down' = [down EXCEPT ![c] = <<>>]
    /\ UNCHANGED <<sock, serverVars, debugVars, garbled, overlapped>>

\* close(), by the program when it is done with its handle and its debugger.
Close(c) ==
    /\ sock[c] \in {"open", "cut"} /\ ~InCall(c) /\ ~handle[c] /\ ~attached[c]
    /\ sock' = [sock EXCEPT ![c] = "closed"]
    /\ UNCHANGED <<call, handle, attached, up, down, serverVars, debugVars, garbled, overlapped>>

\* What arrives of s: all of it, or too little.
Arrived(s) == {s, SubSeq(s, 1, Len(s) - 1)}

\* The client program dies, or the network drops the connection: what was on its
\* way may have arrived whole or not.
ClientDies(c) ==
    /\ sock[c] \in {"open", "cut"}
    /\ sock' = [sock EXCEPT ![c] = "closed"]
    /\ call' = [call EXCEPT ![c] = Idle]
    /\ handle' = [handle EXCEPT ![c] = FALSE]
    /\ attached' = [attached EXCEPT ![c] = FALSE]
    /\ \E s \in Arrived(up[c]) : up' = [up EXCEPT ![c] = s]
    /\ down' = [down EXCEPT ![c] = <<>>]
    /\ UNCHANGED <<serverVars, debugVars, garbled, overlapped>>

Cut(c) ==
    /\ sock[c] = "open"
    /\ sock' = [sock EXCEPT ![c] = "cut"]
    /\ \E s \in Arrived(up[c]) : up' = [up EXCEPT ![c] = s]
    /\ \E s \in Arrived(down[c]) : down' = [down EXCEPT ![c] = s]
    /\ UNCHANGED <<call, handle, attached, serverVars, debugVars, garbled, overlapped>>

-----------------------------------------------------------------------------
(***************************************************************************)
(* The server: acceptLoop and serveClient on the worker thread.            *)
(***************************************************************************)
\* start(): the constructor's caller binds, listens and starts the worker.
Init ==
    /\ sock = [c \in Clients |-> "none"]
    /\ call = [c \in Clients |-> Idle]
    /\ handle = [c \in Clients |-> FALSE]
    /\ attached = [c \in Clients |-> FALSE]
    /\ up = [c \in Clients |-> <<>>] /\ down = [c \in Clients |-> <<>>]
    /\ running = TRUE /\ listening = TRUE /\ backlog = <<>>
    /\ worker = Accepting /\ stopper = "away"
    /\ dbg = NoSession /\ dbgQueue = <<>>
    /\ garbled = FALSE /\ overlapped = {} /\ sessions = 0

\* acceptLoop: a closed listening socket, or running_ cleared, ends the thread.
Accept ==
    /\ worker.at = "accept"
    /\ \/ /\ running /\ backlog # <<>>
          /\ worker' = Serving(Head(backlog))
          /\ backlog' = Tail(backlog)
       \/ /\ ~running
          /\ worker' = Away
          /\ UNCHANGED backlog
    /\ UNCHANGED <<clientVars, up, down, running, listening, stopper, debugVars, garbled, overlapped>>

\* serveClient returns and acceptLoop closes the connection.
DropConnection ==
    /\ worker' = Accepting
    /\ sock' = [sock EXCEPT ![worker.conn] = IF @ = "open" THEN "cut" ELSE @]
    /\ up' = [up EXCEPT ![worker.conn] = <<>>]

\* recvAll of the command byte, then of the parameters of its case.
ServerReceive ==
    /\ (worker.at = "command" /\ running) \/ worker.at = "parameters"
    /\ worker.want # <<>> /\ worker.conn \notin overlapped
    /\ LET s == up[worker.conn]
           read == Head(worker.want)
           v == LastOf(s, read) IN
       /\ Available(s, read)
       /\ garbled' = (garbled \/ ~LinesUp(s, read))
       /\ worker.at = "command" => v \in ServedCommands
       /\ up' = [up EXCEPT ![worker.conn] = Rest(s, read)]
       /\ worker' =
            IF worker.at = "command"
            THEN [worker EXCEPT !.at = "parameters", !.cmd = v, !.want = Parameters(v)]
            ELSE [worker EXCEPT !.arg = IF read.then = "nothing" THEN @ ELSE v,
                                !.want = Continuation(read.then, v) \o Tail(@)]
    /\ UNCHANGED <<clientVars, down, running, listening, backlog, stopper, debugVars, overlapped>>

\* The bytes of overlapping calls are taken for one command or another, with any
\* parameters (which change only the answer, and nobody knows who takes that), or
\* for none the server knows.
ServerMisreads ==
    /\ worker.conn \in overlapped /\ worker.want # <<>>
    /\ \/ /\ (worker.at = "command" /\ running) \/ worker.at = "parameters"
          /\ \E cmd \in (IF worker.at = "command" THEN ServedCommands ELSE {worker.cmd}) :
                /\ cmd = CMD_STARTDEBUG => sessions < MaxSessions
                /\ worker' = [worker EXCEPT !.at = "parameters", !.cmd = cmd, !.arg = 0, !.want = <<>>]
          /\ UNCHANGED <<sock, up>>
       \/ /\ worker.at = "command"
          /\ DropConnection
    /\ UNCHANGED <<call, handle, attached, down, running, listening, backlog, stopper,
                   debugVars, garbled, overlapped>>

\* recv returns 0 or fails, stop() was called between two commands, or the command
\* is not one the server knows.
Hangup ==
    /\ LET s == up[worker.conn] IN
       \/ /\ worker.at \in {"command", "parameters"} /\ worker.want # <<>>
          /\ sock[worker.conn] # "open" /\ ~Available(s, Head(worker.want))
       \/ worker.at = "command" /\ ~running
       \/ worker.at = "command" /\ s # <<>> /\ s[1].v \notin ServedCommands
    /\ DropConnection
    /\ UNCHANGED <<call, handle, attached, down, running, listening, backlog, stopper,
                   debugVars, garbled, overlapped>>

\* sendAll on the server: an answer to a connection that is gone ends serveClient.
Answer(fields) ==
    /\ IF sock[worker.conn] = "open"
       THEN /\ down' = IF worker.conn \in overlapped THEN down
                       ELSE [down EXCEPT ![worker.conn] = @ \o fields]
            /\ worker' = Serving(worker.conn)
            /\ UNCHANGED <<sock, up>>
       ELSE DropConnection /\ UNCHANGED down
    /\ UNCHANGED <<call, handle, attached, running, listening, backlog, stopper, garbled, overlapped>>

Received(cmds) == worker.at = "parameters" /\ worker.want = <<>> /\ worker.cmd \in cmds

ServeMemory ==
    /\ Received(MemoryCommands)
    /\ \E fields \in Answers(worker.cmd, worker.arg) : Answer(fields)
    /\ UNCHANGED debugVars

\* dbg_.reset(): detach() asks the tracer to end, ...
ResetSession ==
    /\ Received({CMD_STARTDEBUG, CMD_STOPDEBUG})
    /\ worker' = [worker EXCEPT !.at = "join"]
    /\ dbg' = [dbg EXCEPT !.live = FALSE]
    /\ UNCHANGED <<clientVars, up, down, running, listening, backlog, stopper, dbgQueue,
                   sessions, garbled, overlapped>>

\* Mutant: the queue is cleared before the tracer is asked to end, not after.
JoinedUncleared ==
    /\ worker.at = "join"
    /\ dbg' = NoSession
    /\ worker' = [worker EXCEPT !.at = "cleared"]
    /\ UNCHANGED <<clientVars, up, down, running, listening, backlog, stopper, dbgQueue,
                   sessions, garbled, overlapped>>

\* ... and the destructor joins it; the queue is cleared once it is gone.
SessionJoined ==
    /\ worker.at = "join"
    /\ dbg' = NoSession
    /\ dbgQueue' = <<>>
    /\ worker' = [worker EXCEPT !.at = "cleared"]
    /\ UNCHANGED <<clientVars, up, down, running, listening, backlog, stopper, sessions, garbled, overlapped>>

\* STARTDEBUG: a new session seizes the target, or fails to and stays idle.
StartDebug ==
    /\ worker.at = "cleared" /\ worker.cmd = CMD_STARTDEBUG
    /\ sessions' = sessions + 1
    /\ \E ok \in BOOLEAN :
        /\ dbg' = [id |-> sessions', live |-> ok, stopped |-> ok, armed |-> FALSE, posted |-> FALSE]
        /\ Answer(<<F(4, IF ok THEN 1 ELSE 0)>>)
    /\ UNCHANGED dbgQueue

StopDebug ==
    /\ worker.at = "cleared" /\ worker.cmd = CMD_STOPDEBUG
    /\ Answer(<<F(4, 1)>>)
    /\ UNCHANGED debugVars

\* SETBREAKPOINT arms it and posts a Continue; only a live session does either.
SetBreakpoint ==
    /\ Received({CMD_SETBREAKPOINT})
    /\ \E ok \in {dbg.live, FALSE} :
        /\ dbg' = IF dbg.live THEN [dbg EXCEPT !.armed = @ \/ ok, !.posted = TRUE] ELSE dbg
        /\ Answer(<<F(4, IF ok THEN 1 ELSE 0)>>)
    /\ UNCHANGED <<dbgQueue, sessions>>

\* REMOVEBREAKPOINT is acknowledged and changes nothing.
RemoveBreakpoint ==
    /\ Received({CMD_REMOVEBREAKPOINT})
    /\ Answer(<<F(4, 1)>>)
    /\ UNCHANGED debugVars

ContinueFromEvent ==
    /\ Received({CMD_CONTINUEFROMDEBUGEVENT})
    /\ dbg' = [dbg EXCEPT !.posted = @ \/ dbg.live]
    /\ Answer(<<F(4, 1)>>)
    /\ UNCHANGED <<dbgQueue, sessions>>

\* wait_for returns with an event, or the timeout passes on an empty queue.
WaitForEvent ==
    /\ Received({CMD_WAITFORDEBUGEVENT})
    /\ IF dbgQueue # <<>>
       THEN /\ Answer(<<F(4, 1), F(4, 5), F(8, Head(dbgQueue)), F(8, 0)>>)
            /\ dbgQueue' = Tail(dbgQueue)
       ELSE Answer(<<F(4, 0)>>) /\ UNCHANGED dbgQueue
    /\ UNCHANGED <<dbg, sessions>>

-----------------------------------------------------------------------------
(***************************************************************************)
(* The tracer thread of the session, and stop().                           *)
(***************************************************************************)
tracerFrame == UNCHANGED <<clientVars, up, down, serverVars, sessions, garbled, overlapped>>

\* The tracer takes a posted Continue off its queue.
TracerContinues ==
    /\ dbg.live /\ dbg.posted
    /\ dbg' = [dbg EXCEPT !.posted = FALSE, !.stopped = FALSE]
    /\ UNCHANGED dbgQueue
    /\ tracerFrame

\* A thread hits the breakpoint: the callback queues the event.  A tracer that is
\* already handling the stop finishes it after detach() was called.
TargetHits ==
    /\ dbg.id # None /\ dbg.armed /\ ~dbg.stopped
    /\ dbg.live \/ worker.at = "join" \/ stopper = "reset"
    /\ Len(dbgQueue) < MaxQueue
    /\ dbg' = [dbg EXCEPT !.stopped = TRUE]
    /\ dbgQueue' = Append(dbgQueue, dbg.id)
    /\ tracerFrame

\* The target exits: ProcessExited is queued and the tracer ends by itself.
TargetExits ==
    /\ dbg.live /\ ~dbg.stopped
    /\ Len(dbgQueue) < MaxQueue
    /\ dbg' = [dbg EXCEPT !.live = FALSE, !.stopped = TRUE]
    /\ dbgQueue' = Append(dbgQueue, dbg.id)
    /\ tracerFrame

\* stop(): the listening socket is closed, which resets what waits in its backlog, ...
Stop ==
    /\ running
    /\ running' = FALSE /\ listening' = FALSE
    /\ sock' = [c \in Clients |->
                    IF sock[c] = "open" /\ (\E i \in DOMAIN backlog : backlog[i] = c)
                    THEN "cut" ELSE sock[c]]
    /\ backlog' = <<>>
    /\ stopper' = "join"
    /\ UNCHANGED <<call, handle, attached, up, down, worker, debugVars, garbled, overlapped>>

\* ... the worker is joined, and only then the session is torn down.
JoinWorker ==
    /\ stopper = "join" /\ worker.at = "gone"
    /\ stopper' = "reset"
    /\ dbg' = [dbg EXCEPT !.live = FALSE]
    /\ UNCHANGED <<clientVars, up, down, running, listening, backlog, worker, dbgQueue,
                   sessions, garbled, overlapped>>

TearDown ==
    /\ stopper = "reset"
    /\ stopper' = "done"
    /\ dbg' = NoSession
    /\ UNCHANGED <<clientVars, up, down, running, listening, backlog, worker, dbgQueue,
                   sessions, garbled, overlapped>>

Server ==
    \/ Accept
    \/ ServerReceive
    \/ Hangup
    \/ ServeMemory
    \/ ResetSession
    \/ SessionJoined
    \/ StartDebug
    \/ StopDebug
    \/ SetBreakpoint
    \/ RemoveBreakpoint
    \/ ContinueFromEvent
    \/ WaitForEvent

Next ==
    \/ \E c \in Clients : connectTcp(c)
    \/ \E c \in Clients : OpenHandle(c)
    \/ \E c \in Clients : UseHandle(c)
    \/ \E c \in Clients : DestroyHandle(c)
    \/ \E c \in Clients : DebuggerAttach(c)
    \/ \E c \in Clients : UseDebugger(c)
    \/ \E c \in Clients : DebuggerDetach(c)
    \/ \E c \in Clients : Overlap(c)
    \/ \E c \in Clients : MixedCalls(c)
    \/ \E c \in Clients : Receive(c)
    \/ \E c \in Clients : CallFails(c)
    \/ \E c \in Clients : Close(c)
    \/ \E c \in Clients : ClientDies(c)
    \/ \E c \in Clients : Cut(c)
    \/ Server
    \/ ServerMisreads
    \/ TracerContinues
    \/ TargetHits
    \/ TargetExits
    \/ Stop
    \/ JoinWorker
    \/ TearDown

Fairness ==
    /\ WF_vars(Server)
    /\ WF_vars(JoinWorker) /\ WF_vars(TearDown)
    /\ \A c \in Clients : WF_vars(Receive(c)) /\ WF_vars(CallFails(c))

Spec == Init /\ [][Next]_vars /\ Fairness

-----------------------------------------------------------------------------
\* The two sides agree on every layout: on connections whose calls never
\* overlapped no read takes bytes of another field, and such a client, when it is
\* between two calls on a connection that holds, has nothing left of an earlier
\* exchange in either direction, which its next call would take for its own
\* answer (CEServerClient never resynchronises the stream).  One connection whose
\* calls do overlap does not put another out of step.
InStep ==
    /\ ~garbled
    /\ \A c \in Clients \ overlapped :
        sock[c] = "open" /\ ~InCall(c) => up[c] = <<>> /\ down[c] = <<>>

\* WAITFORDEBUGEVENT hands out events of the session in force and of no earlier
\* one, though the tracer thread of a session that is being replaced queues
\* events until it is joined (STARTDEBUG, STOPDEBUG), and whatever commands the
\* server reads out of overlapping calls.
EventsOfSession ==
    worker.at # "gone" => \A i \in DOMAIN dbgQueue : dbgQueue[i] = dbg.id

\* A call of the client that is being served ends: with the server's answer, or
\* with the error of a connection that is gone; unless another thread of the
\* client calls meanwhile, when each may wait for bytes the other took.
CallsEnd ==
    \A c \in Clients :
        (InCall(c) /\ (worker.conn = c \/ sock[c] = "cut")) ~> (~InCall(c) \/ c \in overlapped)
=============================================================================
