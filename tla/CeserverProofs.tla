--------------------------- MODULE CeserverProofs ---------------------------
(***************************************************************************)
(* The two sides of a ceserver connection stay in step, and events belong  *)
(* to the session in force, for any number of connections and any length   *)
(* of list the client accepts.                                             *)
(***************************************************************************)
EXTENDS Ceserver, SequenceTheorems, TLAPS

-----------------------------------------------------------------------------
(***************************************************************************)
(* Events of the session in force.                                         *)
(*                                                                         *)
(* The queue is emptied while no tracer can add to it: between the join    *)
(* of one session and the start of the next there is no session at all.    *)
(***************************************************************************)
Stages == {"gone", "accept", "command", "parameters", "join", "cleared"}

WorkerOK == /\ worker = [at |-> worker.at, conn |-> worker.conn, cmd |-> worker.cmd,
                         arg |-> worker.arg, want |-> worker.want]
            /\ worker.at \in Stages

SessionOK == dbg \in [id : Nat, live : BOOLEAN, stopped : BOOLEAN, armed : BOOLEAN, posted : BOOLEAN]

EventInv ==
    /\ WorkerOK /\ SessionOK /\ sessions \in Nat
    /\ dbgQueue \in Seq(Nat)
    /\ worker.at = "cleared" => dbgQueue = <<>> /\ dbg = NoSession
    /\ stopper \in {"reset", "done"} => worker.at = "gone"
    /\ EventsOfSession

LEMMA SessionsDiffer == NoSession \in [id : Nat, live : BOOLEAN, stopped : BOOLEAN, armed : BOOLEAN, posted : BOOLEAN]
  BY DEF NoSession, None

LEMMA WorkersServe ==
    /\ Away = [at |-> "gone", conn |-> None, cmd |-> None, arg |-> 0, want |-> <<>>]
    /\ Accepting = [at |-> "accept", conn |-> None, cmd |-> None, arg |-> 0, want |-> <<>>]
    /\ \A c : Serving(c) = [at |-> "command", conn |-> c, cmd |-> None, arg |-> 0, want |-> <<Plain(<< 1 >>)>>]
  BY DEF Away, Accepting, Serving

LEMMA EventsInit == Init => EventInv
<1>1. <<>> \in Seq(Nat) /\ DOMAIN <<>> = {}
  OBVIOUS
<1> QED
  BY <1>1, SessionsDiffer, WorkersServe DEF Init, EventInv, WorkerOK, SessionOK, Stages, EventsOfSession

\* Nothing but the worker moves, and it neither ends nor enters a replacement.
WorkerMoves == /\ UNCHANGED <<dbg, dbgQueue, sessions, stopper>>
               /\ WorkerOK'
               /\ worker'.at \in {"gone", "cleared"} => worker'.at = worker.at \/ (worker.at = "accept" /\ worker'.at = "gone")
               /\ worker.at = "gone" => worker'.at = "gone"

LEMMA WorkerMovesEvents == ASSUME EventInv, WorkerMoves PROVE EventInv'
  BY DEF EventInv, WorkerMoves, SessionOK, EventsOfSession

\* An event is queued, and nothing else moves but the session's flags.
Queued == /\ dbgQueue' = Append(dbgQueue, dbg.id)
          /\ UNCHANGED <<worker, stopper, sessions>>
          /\ SessionOK' /\ dbg'.id = dbg.id /\ worker.at # "cleared"

LEMMA QueuedEvents == ASSUME EventInv, Queued PROVE EventInv'
<1>1. dbg.id \in Nat
  BY DEF EventInv, SessionOK
<1>2. /\ dbgQueue' \in Seq(Nat)
      /\ \A i \in DOMAIN dbgQueue' : (i \in DOMAIN dbgQueue /\ dbgQueue'[i] = dbgQueue[i]) \/ dbgQueue'[i] = dbg.id
  BY <1>1, AppendProperties DEF EventInv, Queued
<1> QED
  BY <1>2 DEF EventInv, Queued, WorkerOK, EventsOfSession

\* The server's answer: the worker serves on, or hangs up; never from "gone".
LEMMA AnswerMoves ==
    ASSUME NEW fields, Answer(fields)
    PROVE  WorkerOK' /\ worker'.at \in {"command", "accept"} /\ stopper' = stopper
  BY WorkersServe DEF Answer, DropConnection, WorkerOK, Stages

LEMMA EventsNext == EventInv /\ [Next]_vars => EventInv'
<1> SUFFICES ASSUME EventInv, [Next]_vars PROVE EventInv'
  OBVIOUS
<1>1. WorkerOK /\ SessionOK /\ sessions \in Nat /\ dbgQueue \in Seq(Nat)
  BY DEF EventInv
<1>a. \A c : UNCHANGED <<worker, stopper, debugVars>> => EventInv'
  BY DEF debugVars, EventInv, WorkerOK, SessionOK, EventsOfSession
<1>2. CASE UNCHANGED vars
  BY <1>2, <1>a DEF vars, serverVars, debugVars
<1>3. ASSUME NEW c \in Clients, connectTcp(c) \/ OpenHandle(c) \/ UseHandle(c) \/ DestroyHandle(c)
             \/ DebuggerAttach(c) \/ UseDebugger(c) \/ DebuggerDetach(c) \/ Receive(c) \/ CallFails(c)
             \/ Close(c) \/ ClientDies(c) \/ Cut(c) \/ Overlap(c) \/ MixedCalls(c)
      PROVE  EventInv'
  <2>1. UNCHANGED <<worker, stopper, debugVars>>
    <3>1. ASSUME NEW q, Invoke(c, q) PROVE UNCHANGED <<worker, stopper, debugVars>>
      BY <3>1 DEF Invoke, serverVars
    <3>2. CASE connectTcp(c)
      BY <3>2 DEF connectTcp
    <3>3. CASE OpenHandle(c) \/ UseHandle(c) \/ DestroyHandle(c) \/ DebuggerAttach(c) \/ UseDebugger(c) \/ DebuggerDetach(c)
      BY <3>1, <3>3 DEF OpenHandle, UseHandle, DestroyHandle, DebuggerAttach, UseDebugger, DebuggerDetach
    <3>4. CASE Receive(c)
      BY <3>4 DEF Receive, serverVars
    <3>5. CASE CallFails(c) \/ Close(c) \/ ClientDies(c) \/ Cut(c)
      BY <3>5 DEF CallFails, Close, ClientDies, Cut, serverVars
    <3>6. CASE Overlap(c) \/ MixedCalls(c)
      BY <3>6 DEF Overlap, MixedCalls, serverVars
    <3> QED
      BY <1>3, <3>2, <3>3, <3>4, <3>5, <3>6
  <2> QED
    BY <1>a, <2>1
<1>4. CASE Accept
  BY <1>1, <1>4, WorkersServe, WorkerMovesEvents DEF Accept, WorkerMoves, WorkerOK, Stages, debugVars
<1>5. CASE ServerReceive
  <2>1. worker.at \in {"command", "parameters"} /\ worker'.at = "parameters" /\ WorkerOK' /\ UNCHANGED <<stopper, debugVars>>
    BY <1>1, <1>5 DEF ServerReceive, WorkerOK, Stages
  <2> QED
    BY <2>1, WorkerMovesEvents DEF WorkerMoves, debugVars
<1>6. CASE Hangup
  <2>1. worker.at \in {"command", "parameters"} /\ worker'.at = "accept" /\ WorkerOK' /\ UNCHANGED <<stopper, debugVars>>
    BY <1>1, <1>6, WorkersServe DEF Hangup, DropConnection, WorkerOK, Stages
  <2> QED
    BY <2>1, WorkerMovesEvents DEF WorkerMoves, debugVars
<1>17. CASE ServerMisreads
  <2>1. worker.at \in {"command", "parameters"} /\ UNCHANGED <<stopper, debugVars>>
    BY <1>17 DEF ServerMisreads
  <2>2. CASE worker' = Accepting
    BY <2>1, <2>2, WorkersServe, WorkerMovesEvents DEF WorkerMoves, WorkerOK, Stages, debugVars
  <2>3. CASE \E cmd : worker' = [worker EXCEPT !.at = "parameters", !.cmd = cmd, !.arg = 0, !.want = <<>>]
    <3>1. PICK cmd : worker' = [worker EXCEPT !.at = "parameters", !.cmd = cmd, !.arg = 0, !.want = <<>>]
      BY <2>3
    <3>2. worker' = [at |-> "parameters", conn |-> worker.conn, cmd |-> cmd, arg |-> 0, want |-> <<>>]
      BY <1>1, <3>1 DEF WorkerOK
    <3>3. WorkerOK' /\ worker'.at = "parameters"
      BY <3>2 DEF WorkerOK, Stages
    <3> QED
      BY <2>1, <3>3, WorkerMovesEvents DEF WorkerMoves, debugVars
  <2> QED
    BY <1>17, <2>2, <2>3 DEF ServerMisreads, DropConnection
<1>7. CASE ServeMemory \/ RemoveBreakpoint \/ StopDebug
  <2>1. worker.at # "gone" /\ UNCHANGED debugVars
    BY <1>7 DEF ServeMemory, RemoveBreakpoint, StopDebug, Received
  <2>2. WorkerOK' /\ worker'.at \in {"command", "accept"} /\ stopper' = stopper
    BY <1>7, AnswerMoves DEF ServeMemory, RemoveBreakpoint, StopDebug
  <2> QED
    BY <2>1, <2>2, WorkerMovesEvents DEF WorkerMoves, debugVars
<1>8. CASE ResetSession
  <2>1. worker.at = "parameters" /\ worker'.at = "join" /\ WorkerOK' /\ UNCHANGED <<stopper, dbgQueue, sessions>>
    BY <1>1, <1>8 DEF ResetSession, Received, WorkerOK, Stages, serverVars
  <2>2. SessionOK' /\ dbg'.id = dbg.id
    BY <1>1, <1>8 DEF ResetSession, SessionOK
  <2> QED
    BY <2>1, <2>2 DEF EventInv, EventsOfSession
<1>9. CASE SessionJoined
  <2>1. worker.at = "join" /\ worker'.at = "cleared" /\ WorkerOK' /\ UNCHANGED <<stopper, sessions>> /\ dbgQueue' = <<>> /\ dbg' = NoSession
    BY <1>1, <1>9 DEF SessionJoined, WorkerOK, Stages
  <2> QED
    BY <2>1, SessionsDiffer DEF EventInv, EventsOfSession, SessionOK
<1>10. CASE StartDebug
  <2>1. worker.at = "cleared" /\ dbgQueue' = dbgQueue /\ sessions' = sessions + 1
    BY <1>10 DEF StartDebug
  <2>2. PICK ok \in BOOLEAN : dbg' = [id |-> sessions', live |-> ok, stopped |-> ok, armed |-> FALSE, posted |-> FALSE] /\ Answer(<<F(4, IF ok THEN 1 ELSE 0)>>)
    BY <1>10 DEF StartDebug
  <2>3. WorkerOK' /\ worker'.at \in {"command", "accept"} /\ stopper' = stopper
    BY <2>2, AnswerMoves
  <2>4. SessionOK'
    BY <1>1, <2>1, <2>2 DEF SessionOK
  <2>5. dbgQueue = <<>>
    BY <2>1 DEF EventInv
  <2> QED
    BY <1>1, <2>1, <2>3, <2>4, <2>5 DEF EventInv, EventsOfSession
<1>11. CASE SetBreakpoint \/ ContinueFromEvent
  <2>1. worker.at = "parameters" /\ UNCHANGED <<dbgQueue, sessions>> /\ SessionOK' /\ dbg'.id = dbg.id
    BY <1>1, <1>11 DEF SetBreakpoint, ContinueFromEvent, Received, SessionOK
  <2>2. WorkerOK' /\ worker'.at \in {"command", "accept"} /\ stopper' = stopper
    BY <1>11, AnswerMoves DEF SetBreakpoint, ContinueFromEvent
  <2> QED
    BY <2>1, <2>2 DEF EventInv, EventsOfSession
<1>12. CASE WaitForEvent
  <2>1. worker.at = "parameters" /\ UNCHANGED <<dbg, sessions>>
    BY <1>12 DEF WaitForEvent, Received
  <2>2. WorkerOK' /\ worker'.at \in {"command", "accept"} /\ stopper' = stopper
    BY <1>12, AnswerMoves DEF WaitForEvent
  <2>3. dbgQueue' = dbgQueue \/ (dbgQueue # <<>> /\ dbgQueue' = Tail(dbgQueue))
    BY <1>12 DEF WaitForEvent
  <2>4. dbgQueue' \in Seq(Nat) /\ \A i \in DOMAIN dbgQueue' : \E j \in DOMAIN dbgQueue : dbgQueue'[i] = dbgQueue[j]
    <3>1. CASE dbgQueue' = dbgQueue
      BY <1>1, <3>1
    <3>2. CASE dbgQueue # <<>> /\ dbgQueue' = Tail(dbgQueue)
      <4>1. /\ Tail(dbgQueue) \in Seq(Nat) /\ Len(Tail(dbgQueue)) = Len(dbgQueue) - 1
            /\ \A i \in 1 .. Len(Tail(dbgQueue)) : Tail(dbgQueue)[i] = dbgQueue[i + 1]
        BY <1>1, <3>2, HeadTailProperties
      <4>2. /\ Len(dbgQueue) \in Nat /\ DOMAIN dbgQueue = 1 .. Len(dbgQueue)
            /\ DOMAIN Tail(dbgQueue) = 1 .. Len(Tail(dbgQueue))
        BY <1>1, <4>1, LenProperties
      <4>3. \A i \in 1 .. Len(Tail(dbgQueue)) : i + 1 \in 1 .. Len(dbgQueue)
        BY <4>1, <4>2
      <4> QED
        BY <3>2, <4>1, <4>2, <4>3
    <3> QED
      BY <2>3, <3>1, <3>2
  <2> QED
    BY <2>1, <2>2, <2>4 DEF EventInv, EventsOfSession, SessionOK
<1>13. CASE TracerContinues
  <2>1. UNCHANGED <<worker, stopper, dbgQueue, sessions>> /\ dbg.live
    BY <1>13 DEF TracerContinues, tracerFrame, serverVars
  <2>2. SessionOK' /\ dbg'.id = dbg.id
    BY <1>1, <1>13 DEF TracerContinues, SessionOK
  <2>3. worker.at # "cleared"
    BY <2>1 DEF EventInv, NoSession
  <2> QED
    BY <2>1, <2>2, <2>3 DEF EventInv, WorkerOK, EventsOfSession
<1>14. CASE TargetHits \/ TargetExits
  <2>1. worker.at # "cleared"
    BY <1>14 DEF TargetHits, TargetExits, EventInv, NoSession, None
  <2>2. Queued
    BY <1>1, <1>14, <2>1 DEF TargetHits, TargetExits, Queued, tracerFrame, serverVars, SessionOK
  <2> QED
    BY <2>2, QueuedEvents
<1>15. CASE Stop
  BY <1>15 DEF Stop, debugVars, EventInv, WorkerOK, SessionOK, EventsOfSession
<1>16. CASE JoinWorker \/ TearDown
  <2>1. worker.at = "gone" /\ worker' = worker /\ UNCHANGED <<dbgQueue, sessions>> /\ stopper' \in {"reset", "done"}
    BY <1>16 DEF JoinWorker, TearDown, EventInv
  <2>2. SessionOK'
    BY <1>1, <1>16, SessionsDiffer DEF JoinWorker, TearDown, SessionOK
  <2> QED
    BY <2>1, <2>2 DEF EventInv, WorkerOK, EventsOfSession
<1> QED
  BY <1>2, <1>3, <1>4, <1>5, <1>6, <1>7, <1>8, <1>9, <1>10, <1>11, <1>12, <1>13, <1>14, <1>15, <1>16, <1>17, Zenon DEF Next, Server

\* WAITFORDEBUGEVENT hands out events of the session in force and of no earlier one.
THEOREM SessionEvents == Spec => []EventsOfSession
<1>1. EventInv => EventsOfSession
  BY DEF EventInv
<1> QED
  BY EventsInit, EventsNext, <1>1, PTL DEF Spec
-----------------------------------------------------------------------------
(***************************************************************************)
(* The layouts, end to end.                                                *)
(*                                                                         *)
(* Complete(want, limit, s) says that s is all of an answer that is still  *)
(* to be read with want: reading it takes whole fields and leaves an       *)
(* answer that is complete for what is read next (CompleteStep).           *)
(***************************************************************************)
Field == [w : Nat, v : Nat]
\* s begins with fields of these widths; and is made of them.
Fits(ws, s) == Len(s) >= Len(ws) /\ \A i \in 1 .. Len(ws) : s[i].w = ws[i]
Exactly(ws, s) == Len(s) = Len(ws) /\ Fits(ws, s)

\* A list is told by the distance of a field from its end: regions are entries of
\* four fields, modules of seven, before a last one of six.
RegionField(d, f) == f.w = IF d % 4 \in {0, 1} THEN 8 ELSE 4
RegionsLeft(s) == \A i \in 1 .. Len(s) : RegionField(Len(s) - i, s[i])
Part(d) == (d - 6) % 7
ModuleField(d, f) ==
    /\ d < 6 => /\ f.w = (IF d = 4 THEN 8 ELSE 4)
                /\ d \in {0, 5} => f.v = 0
    /\ d >= 6 => /\ Part(d) = 6 => f.w = 4 /\ f.v = 1
                 /\ Part(d) = 5 => f.w = 8
                 /\ Part(d) \in {2, 3, 4} => f.w = 4
                 /\ Part(d) = 1 => f.w = 4 /\ f.v = MaxCount
                 /\ Part(d) = 0 => f.w = MaxCount
ModulesLeft(s) == \A i \in 1 .. Len(s) : ModuleField(Len(s) - i, s[i])

\* One case for each kind of answer, at each point where a read of it may begin.
Result(want, s) == \E ws \in Seq(Nat) \ {<<>>} : want = <<Plain(ws)>> /\ Exactly(ws, s)
Count(want, limit, s) == want = <<Read(<< 4 >>, "count")>> /\ Exactly(<< 4 >>, s) /\ s[1].v <= limit
Bytes(want, limit, s) ==
    \E ws \in {<< 4 >>, <<4, 1>>} :
        /\ want = <<Read(ws, "bytes")>>
        /\ Fits(ws, s) /\ s[Len(ws)].v <= limit
        /\ IF s[Len(ws)].v = 0 THEN Len(s) = Len(ws)
           ELSE Len(s) = Len(ws) + 1 /\ s[Len(s)].w = s[Len(ws)].v
RegionsAhead(limit, s) ==
    /\ Len(s) >= 1 /\ s[1].w = 4 /\ s[1].v <= limit /\ Len(s) = 1 + 4 * s[1].v
    /\ \A i \in 2 .. Len(s) : RegionField(Len(s) - i, s[i])
Regions(want, limit, s) ==
    \/ want = <<Read(<< 4 >>, "regions")>> /\ RegionsAhead(limit, s)
    \/ want \in Seq({Plain(<<4, 4, 8, 8>>)}) /\ Len(s) = 4 * Len(want) /\ RegionsLeft(s)
TidsAhead(limit, s) ==
    /\ Len(s) >= 1 /\ s[1].v <= limit /\ Len(s) = 1 + s[1].v
    /\ \A i \in 1 .. Len(s) : s[i].w = 4
Tids(want, limit, s) ==
    \/ want = <<Read(<< 4 >>, "tids")>> /\ TidsAhead(limit, s)
    \/ want \in Seq({Plain(<< 4 >>)}) /\ Len(s) = Len(want) /\ \A i \in 1 .. Len(s) : s[i].w = 4
Modules(want, limit, s) ==
    /\ ModulesLeft(s) /\ Len(s) >= 5 /\ limit = 2^20
    /\ \/ want = <<Read(<< 4 >>, "module")>> /\ Len(s) % 7 = 6
       \/ want = <<Read(<<8, 4, 4, 4, 4>>, "bytes"), Read(<< 4 >>, "module")>> /\ Len(s) % 7 = 5 /\ Len(s) > 5
       \/ want = <<Read(<<8, 4, 4, 4, 4>>, "bytes")>> /\ Len(s) = 5
       \/ want = <<Plain(<<MaxCount>>), Read(<< 4 >>, "module")>> /\ Len(s) % 7 = 0 /\ Len(s) > 6
Event(want, s) ==
    /\ want = <<Read(<< 4 >>, "event")>>
    /\ IF s[1].v = 0 THEN Exactly(<< 4 >>, s) ELSE Exactly(<<4, 4, 8, 8>>, s)

\* All of an answer, of which want is still to be read.
Complete(want, limit, s) ==
    \/ want = <<>> /\ s = <<>>
    \/ Result(want, s)
    \/ Count(want, limit, s)
    \/ Bytes(want, limit, s)
    \/ Regions(want, limit, s)
    \/ Tids(want, limit, s)
    \/ Modules(want, limit, s)
    \/ Event(want, s)

\* The next read of it takes whole fields, is not refused, and leaves the rest.
Stepped(want, limit, s) ==
    LET read == Head(want) IN
    /\ Len(read.ws) \in Nat \ {0} /\ Available(s, read) /\ LinesUp(s, read)
    /\ ~Refused(read, LastOf(s, read), limit)
    /\ Rest(s, read) \in Seq(Field)
    /\ Complete(Continuation(read.then, LastOf(s, read)) \o Tail(want), limit, Rest(s, read))

LEMMA Dropped ==
    ASSUME NEW s \in Seq(Field), NEW n \in Nat, n <= Len(s), NEW r, r = SubSeq(s, n + 1, Len(s))
    PROVE  r \in Seq(Field) /\ Len(r) = Len(s) - n /\ \A i \in 1 .. Len(s) - n : r[i] = s[n + i]
  OBVIOUS

LEMMA Firsts ==
    ASSUME NEW s \in Seq(Field), NEW read, NEW then, NEW ws \in Seq(Nat) \ {<<>>}, read = Read(ws, then), Fits(ws, s)
    PROVE  /\ Len(read.ws) \in Nat \ {0} /\ Available(s, read) /\ LinesUp(s, read)
           /\ LastOf(s, read) = s[Len(ws)] .v /\ LastOf(s, read) \in Nat
           /\ Rest(s, read) \in Seq(Field)
           /\ Len(Rest(s, read)) = Len(s) - Len(ws)
           /\ \A i \in 1 .. Len(s) - Len(ws) : Rest(s, read)[i] = s[Len(ws) + i]
<1>1. read.ws = ws /\ Len(ws) \in Nat \ {0} /\ DOMAIN ws = 1 .. Len(ws) /\ Len(s) \in Nat /\ Len(ws) <= Len(s)
  BY DEF Fits, Read
<1>2. s[Len(ws)] \in Field
  BY <1>1
<1>3. /\ Rest(s, read) \in Seq(Field)
      /\ Len(Rest(s, read)) = Len(s) - Len(ws)
      /\ \A i \in 1 .. Len(s) - Len(ws) : Rest(s, read)[i] = s[Len(ws) + i]
  BY <1>1 DEF Rest
<1> QED
  BY <1>1, <1>2, <1>3 DEF Available, LinesUp, LastOf, Fits, Field

Took(s, read, n) ==
    /\ Len(read.ws) \in Nat \ {0} /\ Available(s, read) /\ LinesUp(s, read)
    /\ LastOf(s, read) = s[n].v /\ LastOf(s, read) \in Nat
    /\ Rest(s, read) \in Seq(Field) /\ Len(Rest(s, read)) = Len(s) - n
    /\ \A i \in 1 .. Len(s) - n : Rest(s, read)[i] = s[n + i]

LEMMA FirstsTook ==
    ASSUME NEW s \in Seq(Field), NEW then, NEW ws \in Seq(Nat) \ {<<>>}, Fits(ws, s)
    PROVE  Took(s, Read(ws, then), Len(ws))
<1>1. PICK read : read = Read(ws, then)
  OBVIOUS
<1>2. /\ Len(read.ws) \in Nat \ {0} /\ Available(s, read) /\ LinesUp(s, read)
      /\ LastOf(s, read) = s[Len(ws)] .v /\ LastOf(s, read) \in Nat
      /\ Rest(s, read) \in Seq(Field)
      /\ Len(Rest(s, read)) = Len(s) - Len(ws)
      /\ \A i \in 1 .. Len(s) - Len(ws) : Rest(s, read)[i] = s[Len(ws) + i]
  BY <1>1, Firsts
<1> QED
  BY <1>1, <1>2 DEF Took

LEMMA Continuations ==
    ASSUME NEW v \in Nat
    PROVE  /\ Continuation("nothing", v) = <<>> /\ Continuation("count", v) = <<>> /\ Continuation("arg", v) = <<>>
           /\ v = 0 => Continuation("bytes", v) = <<>> /\ Continuation("event", v) = <<>>
           /\ v # 0 => Continuation("bytes", v) = <<Plain(<<v>>)>> /\ Continuation("event", v) = <<Plain(<<4, 8, 8>>)>>
           /\ Continuation("regions", v) = Repeat(v, <<Plain(<<4, 4, 8, 8>>)>>)
           /\ Continuation("tids", v) = Repeat(v, <<Plain(<< 4 >>)>>)
           /\ Continuation("module", v) = <<Read(<<8, 4, 4, 4, 4>>, "bytes")>> \o IF v = 0 THEN <<>> ELSE <<Read(<< 4 >>, "module")>>
  BY DEF Continuation

LEMMA StepIs ==
    ASSUME NEW want, NEW limit, NEW s, NEW read, NEW v, NEW first, NEW tail, NEW next, NEW rest,
           Head(want) = read, v = LastOf(s, read), rest = Rest(s, read),
           Continuation(read.then, v) = first, Tail(want) = tail, first \o tail = next,
           Len(read.ws) \in Nat \ {0}, Available(s, read), LinesUp(s, read),
           ~Refused(read, v, limit), rest \in Seq(Field), Complete(next, limit, rest)
    PROVE  Stepped(want, limit, s)
  BY DEF Stepped

LEMMA EmptyIsSeq == <<>> \in Seq(Nat)
  OBVIOUS
LEMMA OneIsSeq == ASSUME NEW a PROVE <<a>> \in Seq({a})
  OBVIOUS

\* Nothing follows the read.
LEMMA LastStep ==
    ASSUME NEW want, NEW limit, NEW s, NEW read, NEW v, NEW next, NEW rest, NEW S, next \in Seq(S),
           Head(want) = read, v = LastOf(s, read), rest = Rest(s, read),
           Continuation(read.then, v) = next, Tail(want) = <<>>,
           Len(read.ws) \in Nat \ {0}, Available(s, read), LinesUp(s, read),
           ~Refused(read, v, limit), rest \in Seq(Field), Complete(next, limit, rest)
    PROVE  Stepped(want, limit, s)
<1>1. next \o <<>> = next
  OBVIOUS
<1> QED
  BY <1>1, StepIs

LEMMA ResultStep ==
    ASSUME NEW want, NEW limit, NEW s \in Seq(Field), Result(want, s)
    PROVE  Stepped(want, limit, s)
<1>1. PICK ws \in Seq(Nat) \ {<<>>} : want = <<Plain(ws)>> /\ Exactly(ws, s)
  BY DEF Result
<1>2. PICK read : read = Plain(ws)
  OBVIOUS
<1>3. Head(want) = read /\ Tail(want) = <<>>
  BY <1>1, <1>2
<1>4. read = Read(ws, "nothing") /\ read.then = "nothing"
  BY <1>2 DEF Plain, Read
<1>5. Rest(s, read) = <<>> /\ Rest(s, read) \in Seq(Field) /\ Len(read.ws) \in Nat \ {0} /\ Available(s, read) /\ LinesUp(s, read)
  BY <1>1, <1>4, Firsts DEF Exactly
<1>6. Continuation(read.then, LastOf(s, read)) \o Tail(want) = <<>>
  BY <1>3, <1>4 DEF Continuation
<1>7. ~Refused(read, LastOf(s, read), limit)
  BY <1>4 DEF Refused
<1> QED
  BY <1>3, <1>5, <1>6, <1>7 DEF Stepped, Complete

\* The read of one field of 4 bytes.
IsFour(read) == Len(read.ws) = 1 /\ read.ws[1] = 4 /\ \A i \in DOMAIN read.ws : i = 1

LEMMA Four ==
    ASSUME NEW s \in Seq(Field), NEW read, IsFour(read), Len(s) >= 1, s[1].w = 4
    PROVE  /\ Len(read.ws) \in Nat \ {0} /\ Available(s, read) /\ LinesUp(s, read)
           /\ LastOf(s, read) = s[1].v /\ LastOf(s, read) \in Nat
           /\ Rest(s, read) \in Seq(Field) /\ Len(Rest(s, read)) = Len(s) - 1
           /\ \A i \in 1 .. Len(s) - 1 : Rest(s, read)[i] = s[1 + i]
<1>1. Len(read.ws) = 1 /\ read.ws[1] = 4 /\ \A i \in DOMAIN read.ws : i = 1
  BY DEF IsFour
<1>2. s[1] \in Field /\ Len(s) \in Nat
  OBVIOUS
<1>3. /\ Rest(s, read) \in Seq(Field)
      /\ Len(Rest(s, read)) = Len(s) - 1
      /\ \A i \in 1 .. Len(s) - 1 : Rest(s, read)[i] = s[1 + i]
  <2>1. PICK n \in Nat : n = 1
    OBVIOUS
  <2>2. PICK r : r = SubSeq(s, n + 1, Len(s))
    OBVIOUS
  <2>3. n <= Len(s) /\ Len(read.ws) = n
    BY <1>1, <1>2, <2>1
  <2>4. r \in Seq(Field) /\ Len(r) = Len(s) - n /\ \A i \in 1 .. Len(s) - n : r[i] = s[n + i]
    BY <2>2, <2>3, Dropped
  <2>5. Rest(s, read) = r
    BY <2>2, <2>3 DEF Rest
  <2> QED
    BY <2>1, <2>4, <2>5
<1>4. /\ Len(read.ws) \in Nat \ {0} /\ Available(s, read) /\ LinesUp(s, read)
      /\ LastOf(s, read) = s[1].v /\ LastOf(s, read) \in Nat
  BY <1>1, <1>2 DEF Available, LinesUp, LastOf, Field
<1> QED
  BY <1>3, <1>4

LEMMA FourIs == ASSUME NEW then PROVE IsFour(Read(<< 4 >>, then)) /\ Read(<< 4 >>, then).then = then
  BY DEF IsFour, Read

LEMMA OneLeft ==
    ASSUME NEW v \in Nat, NEW s, Len(s) = 1, s[1].w = v
    PROVE  Result(<<Plain(<<v>>)>>, s)
<1>1. PICK ws : ws = <<v>>
  OBVIOUS
<1>2. ws \in Seq(Nat) \ {<<>>} /\ Len(ws) = 1 /\ ws[1] = v
  BY <1>1
<1>3. Exactly(ws, s)
  BY <1>2 DEF Exactly, Fits
<1> QED
  BY <1>1, <1>2, <1>3 DEF Result

LEMMA CountStep ==
    ASSUME NEW want, NEW limit, NEW s \in Seq(Field), Count(want, limit, s), limit \in Nat
    PROVE  Stepped(want, limit, s)
<1>1. Len(s) = 1 /\ s[1].w = 4 /\ s[1].v <= limit
  BY DEF Count, Exactly, Fits
<1>2. PICK read : read = Read(<< 4 >>, "count")
  OBVIOUS
<1>3. Head(want) = read /\ Tail(want) = <<>>
  BY <1>2 DEF Count
<1>4. PICK v : v = LastOf(s, read)
  OBVIOUS
<1>5. /\ Len(read.ws) \in Nat \ {0} /\ Available(s, read) /\ LinesUp(s, read)
      /\ v \in Nat /\ v <= limit /\ Rest(s, read) \in Seq(Field) /\ Rest(s, read) = <<>> /\ read.then = "count"
  BY <1>1, <1>2, <1>4, Four, FourIs
<1>6. Continuation(read.then, v) = <<>>
  BY <1>5, Continuations
<1>7. ~Refused(read, v, limit) /\ Complete(<<>>, limit, <<>>)
  BY <1>5 DEF Refused, Complete
<1> QED
  BY <1>3, <1>4, <1>5, <1>6, <1>7, EmptyIsSeq, LastStep

LEMMA BytesStep ==
    ASSUME NEW want, NEW limit, NEW s \in Seq(Field), Bytes(want, limit, s), limit \in Nat
    PROVE  Stepped(want, limit, s)
<1>1. PICK ws \in {<< 4 >>, <<4, 1>>} :
        /\ want = <<Read(ws, "bytes")>>
        /\ Fits(ws, s) /\ s[Len(ws)].v <= limit
        /\ IF s[Len(ws)].v = 0 THEN Len(s) = Len(ws)
           ELSE Len(s) = Len(ws) + 1 /\ s[Len(s)].w = s[Len(ws)].v
  BY DEF Bytes
<1>2. PICK read : read = Read(ws, "bytes")
  OBVIOUS
<1>3. Head(want) = read /\ Tail(want) = <<>>
  BY <1>1, <1>2
<1>4. ws \in Seq(Nat) \ {<<>>} /\ Len(ws) \in Nat
  <2>1. CASE ws = << 4 >>
    BY <2>1
  <2>2. CASE ws = <<4, 1>>
    BY <2>2
  <2> QED
    BY <2>1, <2>2
<1>5. PICK v : v = LastOf(s, read)
  OBVIOUS
<1>6. /\ Len(read.ws) \in Nat \ {0} /\ Available(s, read) /\ LinesUp(s, read)
      /\ v = s[Len(ws)].v /\ v \in Nat
      /\ Rest(s, read) \in Seq(Field) /\ Len(Rest(s, read)) = Len(s) - Len(ws)
      /\ \A i \in 1 .. Len(s) - Len(ws) : Rest(s, read)[i] = s[Len(ws) + i]
  BY <1>1, <1>2, <1>4, <1>5, Firsts
<1>7. read.then = "bytes" /\ ~Refused(read, v, limit)
  BY <1>1, <1>2, <1>6 DEF Read, Refused
<1>8. CASE v = 0
  <2>1. Rest(s, read) = <<>>
    BY <1>1, <1>4, <1>6, <1>8
  <2>2. Continuation(read.then, v) = <<>>
    BY <1>7, <1>8, Continuations
  <2>3. Complete(<<>>, limit, <<>>)
    BY DEF Complete
  <2> QED
    BY <1>3, <1>5, <1>6, <1>7, <2>1, <2>2, <2>3, EmptyIsSeq, LastStep
<1>9. CASE v # 0
  <2>1. Continuation(read.then, v) = <<Plain(<<v>>)>>
    BY <1>6, <1>7, <1>9, Continuations
  <2>2. Len(Rest(s, read)) = 1 /\ Rest(s, read)[1].w = v
    BY <1>1, <1>4, <1>6, <1>9
  <2>3. Result(<<Plain(<<v>>)>>, Rest(s, read))
    BY <1>6, <2>2, OneLeft
  <2>4. Complete(<<Plain(<<v>>)>>, limit, Rest(s, read))
    BY <2>3 DEF Complete
  <2> QED
    BY <1>3, <1>5, <1>6, <1>7, <2>1, <2>4, OneIsSeq, LastStep
<1> QED
  BY <1>8, <1>9

LEMMA EventStep ==
    ASSUME NEW want, NEW limit, NEW s \in Seq(Field), Event(want, s)
    PROVE  Stepped(want, limit, s)
<1>1. Len(s) >= 1 /\ s[1].w = 4
  BY DEF Event, Exactly, Fits
<1>2. PICK read : read = Read(<< 4 >>, "event")
  OBVIOUS
<1>3. Head(want) = read /\ Tail(want) = <<>>
  BY <1>2 DEF Event
<1>4. PICK v : v = LastOf(s, read)
  OBVIOUS
<1>5. /\ Len(read.ws) \in Nat \ {0} /\ Available(s, read) /\ LinesUp(s, read) /\ read.then = "event"
      /\ v = s[1].v /\ v \in Nat /\ Rest(s, read) \in Seq(Field) /\ Len(Rest(s, read)) = Len(s) - 1
      /\ \A i \in 1 .. Len(s) - 1 : Rest(s, read)[i] = s[1 + i]
  BY <1>1, <1>2, <1>4, Four, FourIs
<1>6. ~Refused(read, v, limit)
  BY <1>5 DEF Refused
<1>7. CASE v = 0
  <2>1. Len(s) = 1
    BY <1>5, <1>7 DEF Event, Exactly
  <2>2. Rest(s, read) = <<>>
    BY <1>5, <2>1
  <2>3. Continuation(read.then, v) = <<>>
    BY <1>5, <1>7, Continuations
  <2>4. Complete(<<>>, limit, <<>>)
    BY DEF Complete
  <2> QED
    BY <1>3, <1>4, <1>5, <1>6, <2>2, <2>3, <2>4, EmptyIsSeq, LastStep
<1>8. CASE v # 0
  <2>1. Len(s) = 4 /\ s[2].w = 4 /\ s[3].w = 8 /\ s[4].w = 8
    BY <1>5, <1>8 DEF Event, Exactly, Fits
  <2>2. Continuation(read.then, v) = <<Plain(<<4, 8, 8>>)>>
    BY <1>5, <1>8, Continuations
  <2>3. Exactly(<<4, 8, 8>>, Rest(s, read)) /\ <<4, 8, 8>> \in Seq(Nat) \ {<<>>}
    BY <1>5, <2>1 DEF Exactly, Fits
  <2>4. Result(<<Plain(<<4, 8, 8>>)>>, Rest(s, read))
    BY <2>3 DEF Result
  <2>5. Complete(<<Plain(<<4, 8, 8>>)>>, limit, Rest(s, read))
    BY <2>4 DEF Complete
  <2> QED
    BY <1>3, <1>4, <1>5, <1>6, <2>2, <2>5, OneIsSeq, LastStep
<1> QED
  BY <1>7, <1>8
LEMMA Repeated ==
    ASSUME NEW v \in Nat, NEW a, NEW r, r = Repeat(v, <<a>>)
    PROVE  r \in Seq({a}) /\ Len(r) = v
<1>1. Len(<<a>>) = 1 /\ <<a>>[1] = a
  OBVIOUS
<1>2. r = [i \in 1 .. v |-> a]
  BY <1>1 DEF Repeat
<1> QED
  BY <1>2

LEMMA OneOfMany ==
    ASSUME NEW a, NEW want \in Seq({a}), want # <<>>
    PROVE  Head(want) = a /\ Tail(want) \in Seq({a}) /\ Len(Tail(want)) = Len(want) - 1 /\ Len(want) \in Nat \ {0}
  OBVIOUS

LEMMA RegionsHeader ==
    ASSUME NEW want, NEW limit, NEW s \in Seq(Field), limit \in Nat,
           want = <<Read(<< 4 >>, "regions")>>, RegionsAhead(limit, s)
    PROVE  Stepped(want, limit, s)
<1>1. Len(s) >= 1 /\ s[1].w = 4 /\ s[1].v <= limit
  BY DEF RegionsAhead
<1>2. PICK read : read = Read(<< 4 >>, "regions")
  OBVIOUS
<1>3. Head(want) = read /\ Tail(want) = <<>>
  BY <1>2
<1>4. PICK v : v = LastOf(s, read)
  OBVIOUS
<1>5. PICK rest : rest = Rest(s, read)
  OBVIOUS
<1>6. /\ Len(read.ws) \in Nat \ {0} /\ Available(s, read) /\ LinesUp(s, read) /\ read.then = "regions"
      /\ v = s[1].v /\ v \in Nat /\ rest \in Seq(Field) /\ Len(rest) = Len(s) - 1
      /\ \A i \in 1 .. Len(s) - 1 : rest[i] = s[1 + i]
  BY <1>1, <1>2, <1>4, <1>5, Four, FourIs
<1>7. ~Refused(read, v, limit)
  BY <1>1, <1>6 DEF Refused
<1>8. PICK a : a = Plain(<<4, 4, 8, 8>>)
  OBVIOUS
<1>9. PICK next : next = Repeat(v, <<a>>)
  OBVIOUS
<1>10. Continuation(read.then, v) = next /\ next \in Seq({a}) /\ Len(next) = v
  BY <1>6, <1>8, <1>9, Continuations, Repeated
<1>11. Len(rest) = 4 * Len(next)
  <2>1. Len(s) = 1 + 4 * v
    BY <1>6 DEF RegionsAhead
  <2> QED
    BY <1>6, <1>10, <2>1
<1>12. RegionsLeft(rest)
  <2>1. SUFFICES ASSUME NEW i \in 1 .. Len(rest) PROVE RegionField(Len(rest) - i, rest[i])
    BY DEF RegionsLeft
  <2>2. rest[i] = s[1 + i] /\ 1 + i \in 2 .. Len(s) /\ Len(rest) - i = Len(s) - (1 + i)
    BY <1>6
  <2>3. RegionField(Len(s) - (1 + i), s[1 + i])
    BY <2>2 DEF RegionsAhead
  <2> QED
    BY <2>2, <2>3
<1>13. Complete(next, limit, rest)
  BY <1>8, <1>10, <1>11, <1>12 DEF Complete, Regions
<1> QED
  BY <1>3, <1>4, <1>5, <1>6, <1>7, <1>10, <1>13, LastStep

LEMMA TidsHeader ==
    ASSUME NEW want, NEW limit, NEW s \in Seq(Field), limit \in Nat,
           want = <<Read(<< 4 >>, "tids")>>, TidsAhead(limit, s)
    PROVE  Stepped(want, limit, s)
<1>1. Len(s) >= 1 /\ s[1].w = 4 /\ s[1].v <= limit
  BY DEF TidsAhead
<1>2. PICK read : read = Read(<< 4 >>, "tids")
  OBVIOUS
<1>3. Head(want) = read /\ Tail(want) = <<>>
  BY <1>2
<1>4. PICK v : v = LastOf(s, read)
  OBVIOUS
<1>5. PICK rest : rest = Rest(s, read)
  OBVIOUS
<1>6. /\ Len(read.ws) \in Nat \ {0} /\ Available(s, read) /\ LinesUp(s, read) /\ read.then = "tids"
      /\ v = s[1].v /\ v \in Nat /\ rest \in Seq(Field) /\ Len(rest) = Len(s) - 1
      /\ \A i \in 1 .. Len(s) - 1 : rest[i] = s[1 + i]
  BY <1>1, <1>2, <1>4, <1>5, Four, FourIs
<1>7. ~Refused(read, v, limit)
  BY <1>1, <1>6 DEF Refused
<1>8. PICK a : a = Plain(<< 4 >>)
  OBVIOUS
<1>9. PICK next : next = Repeat(v, <<a>>)
  OBVIOUS
<1>10. Continuation(read.then, v) = next /\ next \in Seq({a}) /\ Len(next) = v
  BY <1>6, <1>8, <1>9, Continuations, Repeated
<1>11. Len(rest) = Len(next)
  <2>1. Len(s) = 1 + v
    BY <1>6 DEF TidsAhead
  <2> QED
    BY <1>6, <1>10, <2>1
<1>12. \A i \in 1 .. Len(rest) : rest[i].w = 4
  <2>1. TAKE i \in 1 .. Len(rest)
  <2>2. rest[i] = s[1 + i] /\ 1 + i \in 1 .. Len(s)
    BY <1>6
  <2>3. s[1 + i].w = 4
    BY <2>2 DEF TidsAhead
  <2> QED
    BY <2>2, <2>3
<1>13. Complete(next, limit, rest)
  BY <1>8, <1>10, <1>11, <1>12 DEF Complete, Tids
<1> QED
  BY <1>3, <1>4, <1>5, <1>6, <1>7, <1>10, <1>13, LastStep

\* One of a series of equal reads.
LEMMA SeriesStep ==
    ASSUME NEW want, NEW limit, NEW s \in Seq(Field), NEW ws \in Seq(Nat) \ {<<>>}, NEW a, a = Plain(ws),
           want \in Seq({a}), want # <<>>, Fits(ws, s), NEW tail, tail = Tail(want), NEW rest, rest = Rest(s, a),
           Complete(tail, limit, rest)
    PROVE  Stepped(want, limit, s)
<1>1. Head(want) = a /\ tail \in Seq({a})
  BY OneOfMany
<1>2. a = Read(ws, "nothing") /\ a.then = "nothing"
  BY DEF Plain, Read
<1>3. /\ Len(a.ws) \in Nat \ {0} /\ Available(s, a) /\ LinesUp(s, a) /\ LastOf(s, a) \in Nat
      /\ rest \in Seq(Field)
  BY <1>2, Firsts
<1>4. PICK v : v = LastOf(s, a)
  OBVIOUS
<1>5. Continuation(a.then, v) = <<>> /\ ~Refused(a, v, limit)
  BY <1>2, <1>3, <1>4, Continuations DEF Refused
<1>6. <<>> \o tail = tail
  BY <1>1
<1> QED
  BY <1>1, <1>3, <1>4, <1>5, <1>6, StepIs

LEMMA SeriesRest ==
    ASSUME NEW s \in Seq(Field), NEW ws \in Seq(Nat) \ {<<>>}, Fits(ws, s), NEW rest, rest = Rest(s, Plain(ws))
    PROVE  /\ rest \in Seq(Field) /\ Len(rest) = Len(s) - Len(ws)
           /\ \A i \in 1 .. Len(s) - Len(ws) : rest[i] = s[Len(ws) + i]
<1>1. PICK a : a = Plain(ws)
  OBVIOUS
<1>2. a = Read(ws, "nothing")
  BY <1>1 DEF Plain, Read
<1>3. /\ Rest(s, a) \in Seq(Field) /\ Len(Rest(s, a)) = Len(s) - Len(ws)
      /\ \A i \in 1 .. Len(s) - Len(ws) : Rest(s, a)[i] = s[Len(ws) + i]
  BY <1>2, Firsts
<1> QED
  BY <1>1, <1>3

LEMMA RegionEntry ==
    ASSUME NEW s \in Seq(Field), NEW k \in Nat \ {0}, Len(s) = 4 * k, RegionsLeft(s), NEW ws, ws = <<4, 4, 8, 8>>
    PROVE  Fits(ws, s) /\ Len(ws) = 4 /\ ws \in Seq(Nat) \ {<<>>}
<1>1. \A i \in 1 .. 4 : RegionField(4 * k - i, s[i])
  BY DEF RegionsLeft
<1>2. (4 * k - 1) % 4 = 3 /\ (4 * k - 2) % 4 = 2 /\ (4 * k - 3) % 4 = 1 /\ (4 * k - 4) % 4 = 0
  OBVIOUS
<1>3. s[1].w = 4 /\ s[2].w = 4 /\ s[3].w = 8 /\ s[4].w = 8
  BY <1>1, <1>2 DEF RegionField
<1> QED
  BY <1>3 DEF Fits

LEMMA RegionsStep ==
    ASSUME NEW want, want # <<>>, NEW limit, NEW s \in Seq(Field), Regions(want, limit, s), limit \in Nat
    PROVE  Stepped(want, limit, s)
<1>1. CASE want = <<Read(<< 4 >>, "regions")>> /\ RegionsAhead(limit, s)
  BY <1>1, RegionsHeader
<1>2. CASE want \in Seq({Plain(<<4, 4, 8, 8>>)}) /\ Len(s) = 4 * Len(want) /\ RegionsLeft(s)
  <2>1. PICK ws : ws = <<4, 4, 8, 8>>
    OBVIOUS
  <2>2. PICK a : a = Plain(ws)
    OBVIOUS
  <2>3. want \in Seq({a}) /\ Len(want) \in Nat \ {0} /\ Tail(want) \in Seq({a}) /\ Len(Tail(want)) = Len(want) - 1
    BY <1>2, <2>1, <2>2, OneOfMany
  <2>4. Fits(ws, s) /\ Len(ws) = 4 /\ ws \in Seq(Nat) \ {<<>>}
    BY <1>2, <2>1, <2>3, RegionEntry
  <2>5. PICK rest : rest = Rest(s, a)
    OBVIOUS
  <2>6. /\ rest \in Seq(Field) /\ Len(rest) = Len(s) - 4 /\ \A i \in 1 .. Len(s) - 4 : rest[i] = s[4 + i]
    <3>1. /\ rest \in Seq(Field) /\ Len(rest) = Len(s) - Len(ws)
          /\ \A i \in 1 .. Len(s) - Len(ws) : rest[i] = s[Len(ws) + i]
      BY <2>2, <2>4, <2>5, SeriesRest
    <3> QED
      BY <2>4, <3>1
  <2>7. RegionsLeft(rest)
    <3>1. SUFFICES ASSUME NEW i \in 1 .. Len(rest) PROVE RegionField(Len(rest) - i, rest[i])
      BY DEF RegionsLeft
    <3>2. rest[i] = s[4 + i] /\ 4 + i \in 1 .. Len(s) /\ Len(rest) - i = Len(s) - (4 + i)
      BY <2>6
    <3>3. RegionField(Len(s) - (4 + i), s[4 + i])
      BY <1>2, <3>2 DEF RegionsLeft
    <3> QED
      BY <3>2, <3>3
  <2>8. Len(rest) = 4 * Len(Tail(want))
    BY <1>2, <2>3, <2>6
  <2>9. Complete(Tail(want), limit, rest)
    BY <2>1, <2>2, <2>3, <2>7, <2>8 DEF Complete, Regions
  <2> QED
    BY <2>2, <2>3, <2>4, <2>5, <2>9, SeriesStep
<1> QED
  BY <1>1, <1>2 DEF Regions

LEMMA TidsStep ==
    ASSUME NEW want, want # <<>>, NEW limit, NEW s \in Seq(Field), Tids(want, limit, s), limit \in Nat
    PROVE  Stepped(want, limit, s)
<1>1. CASE want = <<Read(<< 4 >>, "tids")>> /\ TidsAhead(limit, s)
  BY <1>1, TidsHeader
<1>2. CASE want \in Seq({Plain(<< 4 >>)}) /\ Len(s) = Len(want) /\ \A i \in 1 .. Len(s) : s[i].w = 4
  <2>1. PICK ws : ws = << 4 >>
    OBVIOUS
  <2>2. PICK a : a = Plain(ws)
    OBVIOUS
  <2>3. want \in Seq({a}) /\ Len(want) \in Nat \ {0} /\ Tail(want) \in Seq({a}) /\ Len(Tail(want)) = Len(want) - 1
    BY <1>2, <2>1, <2>2, OneOfMany
  <2>4. Fits(ws, s) /\ Len(ws) = 1 /\ ws \in Seq(Nat) \ {<<>>}
    BY <1>2, <2>1, <2>3 DEF Fits
  <2>5. PICK rest : rest = Rest(s, a)
    OBVIOUS
  <2>6. /\ rest \in Seq(Field) /\ Len(rest) = Len(s) - 1 /\ \A i \in 1 .. Len(s) - 1 : rest[i] = s[1 + i]
    <3>1. /\ rest \in Seq(Field) /\ Len(rest) = Len(s) - Len(ws)
          /\ \A i \in 1 .. Len(s) - Len(ws) : rest[i] = s[Len(ws) + i]
      BY <2>2, <2>4, <2>5, SeriesRest
    <3> QED
      BY <2>4, <3>1
  <2>7. \A i \in 1 .. Len(rest) : rest[i].w = 4
    <3>1. \A i \in 1 .. Len(rest) : rest[i] = s[1 + i] /\ 1 + i \in 1 .. Len(s)
      BY <2>6
    <3> QED
      BY <1>2, <3>1
  <2>9. Complete(Tail(want), limit, rest)
    BY <1>2, <2>1, <2>2, <2>3, <2>6, <2>7 DEF Complete, Tids
  <2> QED
    BY <2>2, <2>3, <2>4, <2>5, <2>9, SeriesStep
<1> QED
  BY <1>1, <1>2 DEF Tids
LEMMA ModulesDrop ==
    ASSUME NEW s \in Seq(Field), ModulesLeft(s), NEW n \in Nat, NEW rest, Len(rest) \in Nat, Len(rest) = Len(s) - n,
           \A i \in 1 .. Len(s) - n : rest[i] = s[n + i]
    PROVE  ModulesLeft(rest)
<1>1. SUFFICES ASSUME NEW i \in 1 .. Len(rest) PROVE ModuleField(Len(rest) - i, rest[i])
  BY DEF ModulesLeft
<1>2. rest[i] = s[n + i] /\ n + i \in 1 .. Len(s) /\ Len(rest) - i = Len(s) - (n + i)
  OBVIOUS
<1>3. ModuleField(Len(s) - (n + i), s[n + i])
  BY <1>2 DEF ModulesLeft
<1> QED
  BY <1>2, <1>3

\* Whole entries of 7 fields, then what is left of the one that is being read.
ModulesAt(s, r) == ModulesLeft(s) /\ Len(s) >= 5 /\ Len(s) % 7 = r
Longest(limit) == limit = 2^20
ResultRead == Read(<< 4 >>, "module")
EntryRead == Read(<<8, 4, 4, 4, 4>>, "bytes")

LEMMA TwoReads == ASSUME NEW a, NEW b PROVE <<a>> \o <<b>> = <<a, b>>
<1>1. PICK r : r = <<a>> \o <<b>>
  OBVIOUS
<1>2. <<a>> \in Seq({a, b}) /\ <<b>> \in Seq({a, b}) /\ <<a, b>> \in Seq({a, b})
  OBVIOUS
<1>3. r \in Seq({a, b}) /\ Len(r) = 2 /\ r[1] = a /\ r[2] = b
  BY <1>1, <1>2
<1>4. r = <<a, b>>
  BY <1>3
<1> QED
  BY <1>1, <1>4

LEMMA AtResult ==
    ASSUME NEW n \in Nat, n >= 5, n % 7 = 6
    PROVE  /\ n # 6 => n >= 13 /\ ((n - 1) - 6) % 7 = 6 /\ ~(n - 1 < 6) /\ n - 1 > 5
           /\ (n - 1) % 7 = 5 /\ n - 1 >= 5
  OBVIOUS
LEMMA AtEntry ==
    ASSUME NEW n \in Nat, n >= 5, n % 7 = 5, n # 5
    PROVE  /\ n >= 12 /\ ((n - 1) - 6) % 7 = 5 /\ ((n - 2) - 6) % 7 = 4 /\ ((n - 3) - 6) % 7 = 3
           /\ ((n - 4) - 6) % 7 = 2 /\ ((n - 5) - 6) % 7 = 1 /\ (n - 5) % 7 = 0 /\ n - 5 > 6
<1>1. PICK k \in Nat : n = 7 * k + 5
  OBVIOUS
<1>2. k >= 1
  BY <1>1
<1> QED
  BY <1>1, <1>2
LEMMA AtName ==
    ASSUME NEW n \in Nat, n >= 5, n % 7 = 0
    PROVE  n > 6 /\ ((n - 1) - 6) % 7 = 0 /\ ~(n - 1 < 6) /\ (n - 1) % 7 = 6 /\ n - 1 >= 5
  OBVIOUS

\* The result field: 0 ends the list.
LEMMA ResultField ==
    ASSUME NEW s \in Seq(Field), ModulesAt(s, 6)
    PROVE  s[1].w = 4 /\ s[1].v = (IF Len(s) = 6 THEN 0 ELSE 1) /\ Len(s) >= 1
<1>1. PICK n \in Nat : n = Len(s)
  OBVIOUS
<1>2. n >= 5 /\ n % 7 = 6 /\ ModuleField(n - 1, s[1])
  BY <1>1 DEF ModulesAt, ModulesLeft
<1>3. CASE n = 6
  <2>1. ModuleField(5, s[1])
    BY <1>2, <1>3
  <2>2. s[1].w = 4 /\ s[1].v = 0
    BY <2>1 DEF ModuleField
  <2> QED
    BY <1>1, <1>2, <1>3, <2>2
<1>4. CASE n # 6
  <2>1. PICK d \in Nat : d = n - 1
    BY <1>2
  <2>2. Part(d) = 6 /\ d >= 6 /\ ModuleField(d, s[1])
    BY <1>2, <1>4, <2>1, AtResult DEF Part
  <2>3. s[1].w = 4 /\ s[1].v = 1
    BY <2>2 DEF ModuleField
  <2> QED
    BY <1>1, <1>2, <1>4, <2>3
<1> QED
  BY <1>3, <1>4

LEMMA EntryFields ==
    ASSUME NEW s \in Seq(Field), ModulesAt(s, 5)
    PROVE  /\ s[1].w = 8 /\ s[2].w = 4 /\ s[3].w = 4 /\ s[4].w = 4 /\ s[5].w = 4
           /\ s[5].v = IF Len(s) = 5 THEN 0 ELSE MaxCount
<1>1. PICK n \in Nat : n = Len(s)
  OBVIOUS
<1>2. n >= 5 /\ n % 7 = 5 /\ \A i \in 1 .. 5 : ModuleField(n - i, s[i])
  BY <1>1 DEF ModulesAt, ModulesLeft
<1>3. CASE n = 5
  <2>1. /\ ModuleField(4, s[1]) /\ ModuleField(3, s[2]) /\ ModuleField(2, s[3]) /\ ModuleField(1, s[4])
        /\ ModuleField(0, s[5])
    BY <1>2, <1>3
  <2> QED
    BY <1>1, <1>3, <2>1 DEF ModuleField
<1>4. CASE n # 5
  <2>1. /\ n >= 12 /\ ((n - 1) - 6) % 7 = 5 /\ ((n - 2) - 6) % 7 = 4 /\ ((n - 3) - 6) % 7 = 3
        /\ ((n - 4) - 6) % 7 = 2 /\ ((n - 5) - 6) % 7 = 1
    BY <1>2, <1>4, AtEntry
  <2>2. ASSUME NEW i \in 1 .. 5 PROVE \E d \in Nat : d = n - i /\ ~(d < 6) /\ ModuleField(d, s[i])
    BY <1>2, <2>1
  <2>3. s[1].w = 8
    <3>1. PICK d \in Nat : d = n - 1 /\ ~(d < 6) /\ ModuleField(d, s[1])
      BY <2>2
    <3>2. Part(d) = 5 /\ d >= 6
      BY <2>1, <3>1 DEF Part
    <3> QED
      BY <3>1, <3>2 DEF ModuleField
  <2>4. s[2].w = 4
    <3>1. PICK d \in Nat : d = n - 2 /\ ~(d < 6) /\ ModuleField(d, s[2])
      BY <2>2
    <3>2. Part(d) = 4 /\ d >= 6
      BY <2>1, <3>1 DEF Part
    <3> QED
      BY <3>1, <3>2 DEF ModuleField
  <2>5. s[3].w = 4
    <3>1. PICK d \in Nat : d = n - 3 /\ ~(d < 6) /\ ModuleField(d, s[3])
      BY <2>2
    <3>2. Part(d) = 3 /\ d >= 6
      BY <2>1, <3>1 DEF Part
    <3> QED
      BY <3>1, <3>2 DEF ModuleField
  <2>6. s[4].w = 4
    <3>1. PICK d \in Nat : d = n - 4 /\ ~(d < 6) /\ ModuleField(d, s[4])
      BY <2>2
    <3>2. Part(d) = 2 /\ d >= 6
      BY <2>1, <3>1 DEF Part
    <3> QED
      BY <3>1, <3>2 DEF ModuleField
  <2>7. s[5].w = 4 /\ s[5].v = MaxCount
    <3>1. PICK d \in Nat : d = n - 5 /\ ~(d < 6) /\ ModuleField(d, s[5])
      BY <2>2
    <3>2. Part(d) = 1 /\ d >= 6
      BY <2>1, <3>1 DEF Part
    <3> QED
      BY <3>1, <3>2 DEF ModuleField
  <2> QED
    BY <1>1, <1>4, <2>3, <2>4, <2>5, <2>6, <2>7
<1> QED
  BY <1>3, <1>4

LEMMA NameField ==
    ASSUME NEW s \in Seq(Field), ModulesAt(s, 0)
    PROVE  s[1].w = MaxCount /\ Len(s) >= 1
<1>1. PICK n \in Nat : n = Len(s)
  OBVIOUS
<1>2. n >= 5 /\ n % 7 = 0 /\ ModuleField(n - 1, s[1])
  BY <1>1 DEF ModulesAt, ModulesLeft
<1>3. PICK d \in Nat : d = n - 1
  BY <1>2
<1>4. Part(d) = 0 /\ d >= 6 /\ ModuleField(d, s[1])
  BY <1>2, <1>3, AtName DEF Part
<1>5. s[1].w = MaxCount
  BY <1>4 DEF ModuleField
<1> QED
  BY <1>1, <1>2, <1>5

LEMMA Moved ==
    ASSUME NEW l \in Nat, NEW r \in Nat, NEW n \in Nat, NEW m \in Nat, l >= 5, l % 7 = r, m = l - n
    PROVE  /\ r = 6 /\ n = 1 => m >= 5 /\ m % 7 = 5 /\ (l # 6 => m # 5)
           /\ r = 5 /\ n = 5 /\ l # 5 => m >= 5 /\ m % 7 = 0
           /\ r = 0 /\ n = 1 => m >= 5 /\ m % 7 = 6
<1>1. CASE r = 6 /\ n = 1
  BY <1>1, AtResult
<1>2. CASE r = 5 /\ n = 5 /\ l # 5
  BY <1>2, AtEntry
<1>3. CASE r = 0 /\ n = 1
  BY <1>3, AtName
<1> QED
  BY <1>1, <1>2, <1>3

\* What is left once the first n fields are read.
LEMMA ModulesMove ==
    ASSUME NEW s \in Seq(Field), NEW r \in Nat, ModulesAt(s, r), NEW n \in Nat, NEW rest \in Seq(Field),
           Len(rest) = Len(s) - n, \A i \in 1 .. Len(s) - n : rest[i] = s[n + i]
    PROVE  /\ ModulesLeft(rest)
           /\ r = 6 /\ n = 1 => ModulesAt(rest, 5) /\ (Len(s) # 6 => Len(rest) # 5)
           /\ r = 5 /\ n = 5 /\ Len(s) # 5 => ModulesAt(rest, 0)
           /\ r = 0 /\ n = 1 => ModulesAt(rest, 6)
<1>1. PICK l \in Nat : l = Len(s)
  OBVIOUS
<1>0. Len(rest) \in Nat
  OBVIOUS
<1>2. PICK m \in Nat : m = Len(rest)
  BY <1>0
<1>3. l >= 5 /\ l % 7 = r /\ m = l - n
  BY <1>1, <1>2 DEF ModulesAt
<1>4. ModulesLeft(rest)
  BY ModulesDrop DEF ModulesAt
<1>5. /\ r = 6 /\ n = 1 => m >= 5 /\ m % 7 = 5 /\ (l # 6 => m # 5)
      /\ r = 5 /\ n = 5 /\ l # 5 => m >= 5 /\ m % 7 = 0
      /\ r = 0 /\ n = 1 => m >= 5 /\ m % 7 = 6
  BY ONLY <1>3, Moved, r \in Nat, n \in Nat, m \in Nat, l \in Nat
<1> QED
  BY <1>1, <1>2, <1>4, <1>5 DEF ModulesAt

LEMMA ModuleWants ==
    ASSUME NEW s \in Seq(Field), NEW limit, Longest(limit)
    PROVE  /\ ModulesAt(s, 6) => Complete(<<ResultRead>>, limit, s)
           /\ ModulesAt(s, 5) /\ Len(s) # 5 => Complete(<<EntryRead, ResultRead>>, limit, s)
           /\ ModulesAt(s, 5) /\ Len(s) = 5 => Complete(<<EntryRead>>, limit, s)
           /\ ModulesAt(s, 0) => Complete(<<Plain(<<MaxCount>>), ResultRead>>, limit, s)
<1>1. Len(s) \in Nat
  OBVIOUS
<1>2. ModulesAt(s, 6) => Modules(<<ResultRead>>, limit, s)
  BY DEF Modules, ModulesAt, Longest, ResultRead
<1>3. ModulesAt(s, 5) /\ Len(s) # 5 => Modules(<<EntryRead, ResultRead>>, limit, s)
  BY <1>1 DEF Modules, ModulesAt, Longest, ResultRead, EntryRead
<1>4. ModulesAt(s, 5) /\ Len(s) = 5 => Modules(<<EntryRead>>, limit, s)
  BY DEF Modules, ModulesAt, Longest, EntryRead
<1>5. ModulesAt(s, 0) => Modules(<<Plain(<<MaxCount>>), ResultRead>>, limit, s)
  BY <1>1, AtName DEF Modules, ModulesAt, Longest, ResultRead
<1> QED
  BY <1>2, <1>3, <1>4, <1>5 DEF Complete

LEMMA ModuleResultStep ==
    ASSUME NEW want, NEW limit, NEW s \in Seq(Field), ModulesAt(s, 6), Longest(limit), want = <<ResultRead>>
    PROVE  Stepped(want, limit, s)
<1>1. s[1].w = 4 /\ s[1].v = (IF Len(s) = 6 THEN 0 ELSE 1) /\ Len(s) >= 1
  BY ResultField
<1>2. PICK read : read = ResultRead
  OBVIOUS
<1>3. Head(want) = read /\ Tail(want) = <<>>
  BY <1>2
<1>4. PICK v : v = LastOf(s, read)
  OBVIOUS
<1>5. PICK rest : rest = Rest(s, read)
  OBVIOUS
<1>6. /\ Len(read.ws) \in Nat \ {0} /\ Available(s, read) /\ LinesUp(s, read) /\ read.then = "module"
      /\ v = s[1].v /\ v \in Nat /\ rest \in Seq(Field) /\ Len(rest) = Len(s) - 1
      /\ \A i \in 1 .. Len(s) - 1 : rest[i] = s[1 + i]
  BY <1>1, <1>2, <1>4, <1>5, Four, FourIs DEF ResultRead
<1>7. ~Refused(read, v, limit)
  BY <1>6 DEF Refused
<1>8. ModulesAt(rest, 5) /\ (Len(s) # 6 => Len(rest) # 5)
  BY <1>6, ModulesMove
<1>9. CASE Len(s) = 6
  <2>1. Continuation("module", v) = <<EntryRead>> \o <<>>
    <3>1. v = 0
      BY <1>1, <1>6, <1>9
    <3> QED
      BY <1>6, <3>1, Continuations DEF EntryRead
  <2>2. Continuation(read.then, v) = <<EntryRead>>
    BY <1>6, <2>1
  <2>3. Len(rest) = 5
    BY <1>6, <1>9
  <2>4. Complete(<<EntryRead>>, limit, rest)
    BY <1>6, <1>8, <2>3, ModuleWants
  <2> QED
    BY <1>3, <1>4, <1>5, <1>6, <1>7, <2>2, <2>4, OneIsSeq, LastStep
<1>10. CASE Len(s) # 6
  <2>1. Continuation("module", v) = <<EntryRead>> \o <<ResultRead>>
    <3>1. v # 0
      BY <1>1, <1>6, <1>10
    <3>2. Continuation("module", v) = <<EntryRead>> \o IF v = 0 THEN <<>> ELSE <<ResultRead>>
      BY <1>6, Continuations DEF EntryRead, ResultRead
    <3> QED
      BY <3>1, <3>2
  <2>2. Continuation(read.then, v) = <<EntryRead, ResultRead>>
    BY <1>6, <2>1, TwoReads
  <2>4. Complete(<<EntryRead, ResultRead>>, limit, rest)
    BY <1>6, <1>8, <1>10, ModuleWants
  <2>5. <<EntryRead, ResultRead>> \in Seq({EntryRead, ResultRead})
    OBVIOUS
  <2> QED
    BY <1>3, <1>4, <1>5, <1>6, <1>7, <2>2, <2>4, <2>5, LastStep
<1> QED
  BY <1>9, <1>10

LEMMA ModuleEntryStep ==
    ASSUME NEW want, NEW limit, NEW s \in Seq(Field), ModulesAt(s, 5), Longest(limit),
           Head(want) = EntryRead, Len(s) = 5 => Tail(want) = <<>>, Len(s) # 5 => Tail(want) = <<ResultRead>>
    PROVE  Stepped(want, limit, s)
<1>1. /\ s[1].w = 8 /\ s[2].w = 4 /\ s[3].w = 4 /\ s[4].w = 4 /\ s[5].w = 4
      /\ s[5].v = (IF Len(s) = 5 THEN 0 ELSE MaxCount) /\ Len(s) >= 5
  BY EntryFields DEF ModulesAt
<1>2. PICK ws : ws = <<8, 4, 4, 4, 4>>
  OBVIOUS
<1>3. ws \in Seq(Nat) \ {<<>>} /\ Len(ws) = 5
  BY <1>2
<1>4. Fits(ws, s)
  BY <1>1, <1>2 DEF Fits
<1>5. PICK read : read = EntryRead
  OBVIOUS
<1>6. read = Read(ws, "bytes")
  BY <1>2, <1>5 DEF EntryRead
<1>0. read.then = "bytes"
  BY <1>6 DEF Read
<1>7. PICK v : v = LastOf(s, read)
  OBVIOUS
<1>8. PICK rest : rest = Rest(s, read)
  OBVIOUS
<1>9. /\ Len(read.ws) \in Nat \ {0} /\ Available(s, read) /\ LinesUp(s, read)
      /\ v = s[5].v /\ v \in Nat /\ rest \in Seq(Field) /\ Len(rest) = Len(s) - 5
      /\ \A i \in 1 .. Len(s) - 5 : rest[i] = s[5 + i]
  <2>1. Took(s, read, Len(ws))
    BY <1>3, <1>4, <1>6, FirstsTook
  <2>2. Took(s, read, 5)
    BY <1>3, <2>1
  <2> QED
    BY <1>7, <1>8, <2>2 DEF Took
<1>10. v = (IF Len(s) = 5 THEN 0 ELSE MaxCount) /\ Len(rest) = Len(s) - 5 /\ \A i \in 1 .. Len(s) - 5 : rest[i] = s[5 + i]
  BY <1>1, <1>3, <1>9
<1>11. ~Refused(read, v, limit)
  <2>1. v <= MaxCount
    BY <1>9, <1>10, CountAssumption
  <2>2. ~(v < 0) /\ ~(v > limit)
    BY <1>9, <2>1, CountAssumption DEF Longest
  <2> QED
    BY <2>2 DEF Refused
<1>13. CASE Len(s) = 5
  <2>1. Continuation(read.then, v) = <<>> /\ Tail(want) = <<>>
    BY <1>0, <1>9, <1>10, <1>13, Continuations
  <2>2. rest = <<>>
    BY <1>9, <1>10, <1>13
  <2>3. Complete(<<>>, limit, <<>>)
    BY DEF Complete
  <2> QED
    BY <1>5, <1>7, <1>8, <1>9, <1>11, <2>1, <2>2, <2>3, EmptyIsSeq, LastStep
<1>14. CASE Len(s) # 5
  <2>1. v \in Nat /\ v # 0 /\ v = MaxCount
    BY <1>9, <1>10, <1>14, CountAssumption
  <2>2. Continuation(read.then, v) = <<Plain(<<MaxCount>>)>> /\ Tail(want) = <<ResultRead>>
    <3>1. Continuation(read.then, v) = <<Plain(<<v>>)>>
      BY <1>0, <2>1, Continuations
    <3> QED
      BY <1>14, <2>1, <3>1
  <2>3. <<Plain(<<MaxCount>>)>> \o <<ResultRead>> = <<Plain(<<MaxCount>>), ResultRead>>
    BY TwoReads
  <2>4. ModulesAt(rest, 0)
    BY <1>9, <1>10, <1>14, ModulesMove
  <2>5. Complete(<<Plain(<<MaxCount>>), ResultRead>>, limit, rest)
    BY <1>9, <2>4, ModuleWants
  <2> QED
    BY <1>5, <1>7, <1>8, <1>9, <1>11, <2>2, <2>3, <2>5, StepIs
<1> QED
  BY <1>13, <1>14

LEMMA ModuleNameStep ==
    ASSUME NEW want, NEW limit, NEW s \in Seq(Field), ModulesAt(s, 0), Longest(limit),
           want = <<Plain(<<MaxCount>>), ResultRead>>
    PROVE  Stepped(want, limit, s)
<1>1. s[1].w = MaxCount /\ Len(s) >= 1
  BY NameField
<1>2. PICK ws : ws = <<MaxCount>>
  OBVIOUS
<1>3. ws \in Seq(Nat) \ {<<>>} /\ Len(ws) = 1 /\ ws[1] = MaxCount
  BY <1>2, CountAssumption
<1>4. Fits(ws, s)
  BY <1>1, <1>3 DEF Fits
<1>5. PICK read : read = Plain(ws)
  OBVIOUS
<1>6. read = Read(ws, "nothing")
  BY <1>5 DEF Plain
<1>0. read.then = "nothing"
  BY <1>6 DEF Read
<1>7. Head(want) = read /\ Tail(want) = <<ResultRead>>
  BY <1>2, <1>5
<1>8. PICK v : v = LastOf(s, read)
  OBVIOUS
<1>9. PICK rest : rest = Rest(s, read)
  OBVIOUS
<1>10. /\ Len(read.ws) \in Nat \ {0} /\ Available(s, read) /\ LinesUp(s, read)
       /\ v \in Nat /\ rest \in Seq(Field) /\ Len(rest) = Len(s) - 1
       /\ \A i \in 1 .. Len(s) - 1 : rest[i] = s[1 + i]
  <2>1. Took(s, read, Len(ws))
    BY <1>3, <1>4, <1>6, FirstsTook
  <2>2. Took(s, read, 1)
    BY <1>3, <2>1
  <2> QED
    BY <1>8, <1>9, <2>2 DEF Took
<1>11. ~Refused(read, v, limit) /\ Continuation(read.then, v) = <<>>
  BY <1>0, <1>10, Continuations DEF Refused
<1>12. Len(rest) = Len(s) - 1 /\ \A i \in 1 .. Len(s) - 1 : rest[i] = s[1 + i]
  BY <1>3, <1>10
<1>13. ModulesAt(rest, 6)
  BY <1>10, <1>12, ModulesMove
<1>14. Complete(<<ResultRead>>, limit, rest)
  BY <1>10, <1>13, ModuleWants
<1>15. <<>> \o <<ResultRead>> = <<ResultRead>>
  <2>1. <<ResultRead>> \in Seq({ResultRead})
    BY OneIsSeq
  <2> QED
    BY <2>1
<1> QED
  BY <1>7, <1>8, <1>9, <1>10, <1>11, <1>14, <1>15, StepIs

LEMMA ModulesStep ==
    ASSUME NEW want, NEW limit, NEW s \in Seq(Field), Modules(want, limit, s)
    PROVE  Stepped(want, limit, s)
<1>1. ModulesLeft(s) /\ Len(s) >= 5 /\ Longest(limit) /\ Len(s) \in Nat
  BY DEF Modules, Longest
<1>2. CASE want = <<Read(<< 4 >>, "module")>> /\ Len(s) % 7 = 6
  BY <1>1, <1>2, ModuleResultStep DEF ResultRead, ModulesAt
<1>3. CASE want = <<Read(<<8, 4, 4, 4, 4>>, "bytes"), Read(<< 4 >>, "module")>> /\ Len(s) % 7 = 5 /\ Len(s) > 5
  <2>1. Head(want) = EntryRead /\ Tail(want) = <<ResultRead>>
    BY <1>3 DEF EntryRead, ResultRead
  <2>2. ModulesAt(s, 5)
    BY <1>1, <1>3 DEF ModulesAt
  <2>3. Len(s) # 5
    <3>1. PICK n \in Nat : n = Len(s)
      BY <1>1
    <3>2. n > 5
      BY <1>3, <3>1
    <3>3. n # 5
      BY <3>2
    <3> QED
      BY <3>1, <3>3
  <2> QED
    BY <1>1, <2>1, <2>2, <2>3, ModuleEntryStep
<1>4. CASE want = <<Read(<<8, 4, 4, 4, 4>>, "bytes")>> /\ Len(s) = 5
  <2>1. Head(want) = EntryRead /\ Tail(want) = <<>>
    BY <1>4 DEF EntryRead
  <2>2. ModulesAt(s, 5)
    BY <1>1, <1>4 DEF ModulesAt
  <2> QED
    BY <1>1, <1>4, <2>1, <2>2, ModuleEntryStep
<1>5. CASE want = <<Plain(<<MaxCount>>), Read(<< 4 >>, "module")>> /\ Len(s) % 7 = 0 /\ Len(s) > 6
  BY <1>1, <1>5, ModuleNameStep DEF ResultRead, ModulesAt
<1> QED
  BY <1>2, <1>3, <1>4, <1>5 DEF Modules

\* What the server has sent of an answer, the client reads field by field.
LEMMA CompleteStep ==
    ASSUME NEW want, want # <<>>, NEW limit \in Nat, NEW s \in Seq(Field), Complete(want, limit, s)
    PROVE  Stepped(want, limit, s)
  BY ResultStep, CountStep, BytesStep, RegionsStep, TidsStep, ModulesStep, EventStep DEF Complete

-----------------------------------------------------------------------------
(***************************************************************************)
(* What the server sends is what the client expects: each answer to a      *)
(* command is complete for the reads of the call that sent the command.    *)
(***************************************************************************)

LEMMA FieldsAre == \A w, v \in Nat : F(w, v) \in Field /\ F(w, v).w = w /\ F(w, v).v = v
  BY DEF F, Field

\* One field that is read as the result.
LEMMA OneField ==
    ASSUME NEW limit, NEW n \in Nat, NEW v \in Nat
    PROVE  Complete(<<Plain(<<n>>)>>, limit, <<F(n, v)>>)
<1>1. PICK s : s = <<F(n, v)>>
  OBVIOUS
<1>2. Len(s) = 1 /\ s[1].w = n
  BY <1>1, FieldsAre
<1>3. Result(<<Plain(<<n>>)>>, s)
  BY <1>2, OneLeft
<1> QED
  BY <1>1, <1>3 DEF Complete

LEMMA VersionAnswer == Complete(<<Read(<<4, 1>>, "bytes")>>, 255, <<F(4, 1), F(1, 15), F(15, 0)>>)
<1>1. PICK s : s = <<F(4, 1), F(1, 15), F(15, 0)>>
  OBVIOUS
<1>2. Len(s) = 3 /\ s[1].w = 4 /\ s[2].w = 1 /\ s[2].v = 15 /\ s[3].w = 15
  BY <1>1, FieldsAre
<1>3. PICK ws : ws = <<4, 1>>
  OBVIOUS
<1>4. Fits(ws, s) /\ Len(ws) = 2
  BY <1>2, <1>3 DEF Fits
<1>5. Bytes(<<Read(ws, "bytes")>>, 255, s)
  BY <1>2, <1>3, <1>4 DEF Bytes
<1> QED
  BY <1>1, <1>3, <1>5 DEF Complete

LEMMA BytesAnswer ==
    ASSUME NEW limit \in Nat, NEW k \in Nat, k <= limit, NEW s,
           s = <<F(4, k)>> \o (IF k > 0 THEN <<F(k, 0)>> ELSE <<>>)
    PROVE  Complete(<<Read(<< 4 >>, "bytes")>>, limit, s)
<1>1. PICK ws : ws = << 4 >>
  OBVIOUS
<1>0. F(4, k).w = 4 /\ F(4, k).v = k /\ F(k, 0).w = k
  BY FieldsAre
<1>2. CASE k = 0
  <2>1. s = <<F(4, k)>>
    BY <1>2
  <2>4. PICK e : e = <<F(4, k)>>
    OBVIOUS
  <2>5. Len(e) = 1 /\ e[1].w = 4 /\ e[1].v = k
    BY <1>0, <2>4
  <2>2. Len(s) = 1 /\ s[1].w = 4 /\ s[1].v = k
    BY <2>1, <2>4, <2>5
  <2>3. Bytes(<<Read(ws, "bytes")>>, limit, s)
    BY <1>1, <1>2, <2>2 DEF Bytes, Fits
  <2> QED
    BY <1>1, <2>3 DEF Complete
<1>3. CASE k # 0
  <2>1. s = <<F(4, k), F(k, 0)>>
    <3>1. s = <<F(4, k)>> \o <<F(k, 0)>>
      BY <1>3
    <3> QED
      BY <3>1, TwoReads
  <2>2. Len(s) = 2 /\ s[1].w = 4 /\ s[1].v = k /\ s[2].w = k
    BY <1>0, <2>1
  <2>3. Bytes(<<Read(ws, "bytes")>>, limit, s)
    BY <1>1, <1>3, <2>2 DEF Bytes, Fits
  <2> QED
    BY <1>1, <2>3 DEF Complete
<1> QED
  BY <1>2, <1>3

LEMMA CountAnswer ==
    ASSUME NEW limit \in Nat, NEW k \in Nat, k <= limit
    PROVE  Complete(<<Read(<< 4 >>, "count")>>, limit, <<F(4, k)>>)
<1>1. PICK s : s = <<F(4, k)>>
  OBVIOUS
<1>2. Len(s) = 1 /\ s[1].w = 4 /\ s[1].v = k
  BY <1>1, FieldsAre
<1>3. Count(<<Read(<< 4 >>, "count")>>, limit, s)
  BY <1>2 DEF Count, Exactly, Fits
<1> QED
  BY <1>1, <1>3 DEF Complete

LEMMA EventAnswer ==
    ASSUME NEW limit, NEW n \in Nat
    PROVE  /\ Complete(<<Read(<< 4 >>, "event")>>, limit, <<F(4, 0)>>)
           /\ Complete(<<Read(<< 4 >>, "event")>>, limit, <<F(4, 1), F(4, 5), F(8, n), F(8, 0)>>)
<1>1. PICK s : s = <<F(4, 0)>>
  OBVIOUS
<1>2. Len(s) = 1 /\ s[1].w = 4 /\ s[1].v = 0
  BY <1>1, FieldsAre
<1>3. Event(<<Read(<< 4 >>, "event")>>, s)
  BY <1>2 DEF Event, Exactly, Fits
<1>4. PICK e : e = <<F(4, 1), F(4, 5), F(8, n), F(8, 0)>>
  OBVIOUS
<1>5. Len(e) = 4 /\ e[1].w = 4 /\ e[1].v = 1 /\ e[2].w = 4 /\ e[3].w = 8 /\ e[4].w = 8
  BY <1>4, FieldsAre
<1>6. Event(<<Read(<< 4 >>, "event")>>, e)
  BY <1>5 DEF Event, Exactly, Fits
<1> QED
  BY <1>1, <1>3, <1>4, <1>6 DEF Complete

LEMMA Behind ==
    ASSUME NEW a \in Field, NEW r \in Seq(Field), NEW s, s = <<a>> \o r
    PROVE  /\ s \in Seq(Field) /\ Len(s) = 1 + Len(r) /\ s[1] = a
           /\ \A i \in 2 .. Len(s) : s[i] = r[i - 1] /\ i - 1 \in 1 .. Len(r)
<1>1. <<a>> \in Seq(Field) /\ Len(<<a>>) = 1 /\ <<a>>[1] = a
  OBVIOUS
<1> QED
  BY <1>1

LEMMA TidsAnswer ==
    ASSUME NEW n \in 0 .. MaxCount, NEW s, s = <<F(4, n)>> \o Repeat(n, <<F(4, 1)>>)
    PROVE  s \in Seq(Field) /\ Complete(<<Read(<< 4 >>, "tids")>>, 2^20, s)
<1>0. n \in Nat /\ n <= 2^20
  BY CountAssumption
<1>1. PICK a : a = F(4, 1)
  OBVIOUS
<1>2. PICK r : r = Repeat(n, <<a>>)
  OBVIOUS
<1>3. r \in Seq({a}) /\ Len(r) = n
  BY <1>0, <1>2, Repeated
<1>4. a \in Field /\ a.w = 4
  BY <1>1, FieldsAre
<1>5. r \in Seq(Field) /\ \A i \in 1 .. Len(r) : r[i] = a
  BY <1>3, <1>4
<1>6. F(4, n) \in Field /\ F(4, n).w = 4 /\ F(4, n).v = n
  BY <1>0, FieldsAre
<1>7. s = <<F(4, n)>> \o r
  BY <1>1, <1>2
<1>8. /\ s \in Seq(Field) /\ Len(s) = 1 + Len(r) /\ s[1] = F(4, n)
      /\ \A i \in 2 .. Len(s) : s[i] = r[i - 1] /\ i - 1 \in 1 .. Len(r)
  BY <1>5, <1>6, <1>7, Behind
<1>9. ASSUME NEW i \in 1 .. Len(s) PROVE s[i].w = 4
  <2>1. CASE i = 1
    BY <1>6, <1>8, <2>1
  <2>2. CASE i # 1
    <3>1. i \in 2 .. Len(s)
      BY <1>8, <2>2
    <3> QED
      BY <1>4, <1>5, <1>8, <3>1
  <2> QED
    BY <2>1, <2>2
<1>10. TidsAhead(2^20, s)
  BY <1>0, <1>3, <1>6, <1>8, <1>9 DEF TidsAhead
<1> QED
  BY <1>8, <1>10 DEF Complete, Tids

FourCycle(r, n, a, b, c, d) ==
    \A i \in 1 .. 4 * n :
        /\ (i - 1) % 4 = 0 => r[i] = a
        /\ (i - 1) % 4 = 1 => r[i] = b
        /\ (i - 1) % 4 = 2 => r[i] = c
        /\ (i - 1) % 4 = 3 => r[i] = d

\* The element of a repeated series.
LEMMA RepeatedFour ==
    ASSUME NEW n \in Nat, NEW S, NEW a \in S, NEW b \in S, NEW c \in S, NEW d \in S,
           NEW r, r = Repeat(n, <<a, b, c, d>>)
    PROVE  r \in Seq(S) /\ Len(r) = 4 * n /\ FourCycle(r, n, a, b, c, d)
<1>1. PICK e : e = <<a, b, c, d>>
  OBVIOUS
<1>2. Len(e) = 4 /\ e[1] = a /\ e[2] = b /\ e[3] = c /\ e[4] = d
  BY <1>1
<1>3. r = [i \in 1 .. n * 4 |-> e[((i - 1) % 4) + 1]]
  BY <1>1, <1>2 DEF Repeat
<1>4. n * 4 = 4 * n /\ 4 * n \in Nat
  OBVIOUS
<1>5. \A i \in 1 .. 4 * n : (i - 1) % 4 \in 0 .. 3
  OBVIOUS
<1>6. \A i \in 1 .. 4 * n : r[i] = e[((i - 1) % 4) + 1]
  BY <1>3, <1>4
<1>7. \A i \in 1 .. 4 * n : r[i] \in S
  BY <1>2, <1>5, <1>6
<1>8. r \in Seq(S) /\ Len(r) = 4 * n
  <2>1. PICK m \in Nat : m = 4 * n
    BY <1>4
  <2>2. r = [i \in 1 .. m |-> e[((i - 1) % 4) + 1]]
    BY <1>3, <1>4, <2>1
  <2>3. r \in [1 .. m -> S]
    BY <1>7, <2>1, <2>2
  <2>4. r \in Seq(S) /\ Len(r) = m
    BY <2>3
  <2> QED
    BY <2>1, <2>4
<1> QED
  BY <1>2, <1>6, <1>8 DEF FourCycle

LEMMA RegionWidth ==
    ASSUME NEW n \in Nat, NEW i \in 2 .. 4 * n + 1, NEW d, d = 1 + 4 * n - i
    PROVE  /\ i - 1 \in 1 .. 4 * n /\ (i - 1) - 1 = i - 2
           /\ d % 4 = 0 => (i - 2) % 4 = 3
           /\ d % 4 = 1 => (i - 2) % 4 = 2
           /\ d % 4 = 2 => (i - 2) % 4 = 1
           /\ d % 4 = 3 => (i - 2) % 4 = 0
           /\ d % 4 \in 0 .. 3
  OBVIOUS

LEMMA RegionsAnswer ==
    ASSUME NEW n \in 0 .. MaxCount, NEW s, s = <<F(4, n)>> \o Repeat(n, <<F(4, 1), F(4, 0), F(8, 0), F(8, 0)>>)
    PROVE  s \in Seq(Field) /\ Complete(<<Read(<< 4 >>, "regions")>>, 2^20, s)
<1>0. n \in Nat /\ n <= 2^20
  BY CountAssumption
<1>1. PICK a : a = F(4, 1)
  OBVIOUS
<1>2. PICK b : b = F(4, 0)
  OBVIOUS
<1>3. PICK c : c = F(8, 0)
  OBVIOUS
<1>4. PICK r : r = Repeat(n, <<a, b, c, c>>)
  OBVIOUS
<1>6. a \in Field /\ a.w = 4 /\ b \in Field /\ b.w = 4 /\ c \in Field /\ c.w = 8
  BY <1>1, <1>2, <1>3, FieldsAre
<1>5. r \in Seq(Field) /\ Len(r) = 4 * n /\ FourCycle(r, n, a, b, c, c)
  BY <1>0, <1>4, <1>6, RepeatedFour
<1>8. F(4, n) \in Field /\ F(4, n).w = 4 /\ F(4, n).v = n
  BY <1>0, FieldsAre
<1>9. s = <<F(4, n)>> \o r
  BY <1>1, <1>2, <1>3, <1>4
<1>10. /\ s \in Seq(Field) /\ Len(s) = 1 + Len(r) /\ s[1] = F(4, n)
       /\ \A i \in 2 .. Len(s) : s[i] = r[i - 1] /\ i - 1 \in 1 .. Len(r)
  BY <1>5, <1>8, <1>9, Behind
<1>13. Len(s) = 1 + 4 * n
  <2>1. Len(s) = 1 + Len(r) /\ Len(r) = 4 * n
    BY <1>5, <1>10
  <2> QED
    BY <2>1
<1>11. ASSUME NEW i \in 2 .. Len(s) PROVE RegionField(Len(s) - i, s[i])
  <2>1. i \in 2 .. 4 * n + 1
    BY <1>0, <1>13
  <2>2. PICK d \in Nat : d = 1 + 4 * n - i
    BY <1>0, <2>1
  <2>3. /\ i - 1 \in 1 .. 4 * n /\ (i - 1) - 1 = i - 2
        /\ d % 4 = 0 => (i - 2) % 4 = 3
        /\ d % 4 = 1 => (i - 2) % 4 = 2
        /\ d % 4 = 2 => (i - 2) % 4 = 1
        /\ d % 4 = 3 => (i - 2) % 4 = 0
        /\ d % 4 \in 0 .. 3
    BY <1>0, <2>1, <2>2, RegionWidth
  <2>4. s[i] = r[i - 1]
    BY <1>10
  <2>5. /\ (i - 2) % 4 = 0 => s[i] = a
        /\ (i - 2) % 4 = 1 => s[i] = b
        /\ (i - 2) % 4 = 2 => s[i] = c
        /\ (i - 2) % 4 = 3 => s[i] = c
    BY <1>5, <2>3, <2>4 DEF FourCycle
  <2>6. RegionField(d, s[i])
    <3>1. (d % 4 \in {0, 1} /\ s[i] = c) \/ (~(d % 4 \in {0, 1}) /\ s[i].w = 4)
      BY <1>6, <2>3, <2>5
    <3> QED
      BY <1>6, <3>1 DEF RegionField
  <2>7. Len(s) - i = d
    BY <1>0, <1>13, <2>2
  <2> QED
    BY <2>6, <2>7
<1>12. RegionsAhead(2^20, s)
  <2>1. Len(s) >= 1 /\ s[1].w = 4 /\ s[1].v <= 2^20
    BY <1>0, <1>8, <1>10, <1>13
  <2>2. Len(s) = 1 + 4 * s[1].v
    BY <1>8, <1>10, <1>13
  <2> QED
    BY <1>11, <2>1, <2>2 DEF RegionsAhead
<1> QED
  BY <1>10, <1>12 DEF Complete, Regions

LEMMA RepeatedSeven ==
    ASSUME NEW n \in Nat, NEW e \in Seq(Field), Len(e) = 7, NEW r, r = Repeat(n, e)
    PROVE  /\ r \in Seq(Field) /\ Len(r) = 7 * n
           /\ \A i \in 1 .. 7 * n : r[i] = e[((i - 1) % 7) + 1]
<1>1. r = [i \in 1 .. n * 7 |-> e[((i - 1) % 7) + 1]]
  BY DEF Repeat
<1>2. n * 7 = 7 * n /\ 7 * n \in Nat
  OBVIOUS
<1>3. \A i \in 1 .. 7 * n : ((i - 1) % 7) + 1 \in 1 .. 7
  OBVIOUS
<1>4. \A i \in 1 .. 7 * n : r[i] = e[((i - 1) % 7) + 1]
  BY <1>1, <1>2
<1>5. ASSUME NEW i \in 1 .. 7 * n PROVE r[i] \in Field
  <2>1. PICK j \in 1 .. 7 : j = ((i - 1) % 7) + 1
    BY <1>3
  <2>2. e[j] \in Field
    <3>1. j \in 1 .. Len(e)
      BY <2>1
    <3> QED
      BY <3>1, ElementOfSeq
  <2> QED
    BY <1>4, <2>1, <2>2
<1>6. PICK m \in Nat : m = 7 * n
  BY <1>2
<1>7. r = [i \in 1 .. m |-> e[((i - 1) % 7) + 1]]
  BY <1>1, <1>2, <1>6
<1>8. r \in [1 .. m -> Field]
  BY <1>5, <1>6, <1>7
<1>9. r \in Seq(Field) /\ Len(r) = m
  BY <1>8
<1> QED
  BY <1>4, <1>6, <1>9

LEMMA LastEntry ==
    ASSUME NEW e, e = ModuleEntry(0, 0)
    PROVE  /\ e \in Seq(Field) /\ Len(e) = 6
           /\ e[1].w = 4 /\ e[1].v = 0 /\ e[2].w = 8 /\ e[3].w = 4 /\ e[4].w = 4 /\ e[5].w = 4
           /\ e[6].w = 4 /\ e[6].v = 0
<1>1. PICK a : a = F(4, 0)
  OBVIOUS
<1>2. PICK b : b = F(8, 0)
  OBVIOUS
<1>3. PICK t : t = <<a, b, a, a, a, a>>
  OBVIOUS
<1>4. a \in Field /\ a.w = 4 /\ a.v = 0 /\ b \in Field /\ b.w = 8
  BY <1>1, <1>2, FieldsAre
<1>5. t \in Seq(Field) /\ Len(t) = 6
  BY <1>3, <1>4
<1>6. t \o <<>> = t
  BY <1>5
<1>7. ModuleEntry(0, 0) = <<a, b, a, a, a, a>> \o <<>>
  BY <1>1, <1>2 DEF ModuleEntry
<1>8. e = t
  BY <1>3, <1>6, <1>7
<1>9. t[1] = a /\ t[2] = b /\ t[3] = a /\ t[4] = a /\ t[5] = a /\ t[6] = a
  BY <1>3
<1> QED
  BY <1>4, <1>5, <1>8, <1>9

LEMMA NamedEntry ==
    ASSUME NEW e, e = ModuleEntry(1, MaxCount)
    PROVE  /\ e \in Seq(Field) /\ Len(e) = 7
           /\ e[1].w = 4 /\ e[1].v = 1 /\ e[2].w = 8 /\ e[3].w = 4 /\ e[4].w = 4 /\ e[5].w = 4
           /\ e[6].w = 4 /\ e[6].v = MaxCount /\ e[7].w = MaxCount
<1>1. PICK a : a = F(4, 0)
  OBVIOUS
<1>2. PICK b : b = F(8, 0)
  OBVIOUS
<1>3. PICK o : o = F(4, 1)
  OBVIOUS
<1>4. PICK k : k = F(4, MaxCount)
  OBVIOUS
<1>5. PICK m : m = F(MaxCount, 0)
  OBVIOUS
<1>6. /\ a \in Field /\ a.w = 4 /\ b \in Field /\ b.w = 8 /\ o \in Field /\ o.w = 4 /\ o.v = 1
      /\ k \in Field /\ k.w = 4 /\ k.v = MaxCount /\ m \in Field /\ m.w = MaxCount
  BY <1>1, <1>2, <1>3, <1>4, <1>5, FieldsAre, CountAssumption
<1>7. PICK t : t = <<o, b, a, a, a, k>>
  OBVIOUS
<1>8. PICK u : u = <<m>>
  OBVIOUS
<1>9. t \in Seq(Field) /\ Len(t) = 6 /\ t[1] = o /\ t[2] = b /\ t[3] = a /\ t[4] = a /\ t[5] = a /\ t[6] = k
  BY <1>6, <1>7
<1>10. u \in Seq(Field) /\ Len(u) = 1 /\ u[1] = m
  BY <1>6, <1>8
<1>11. MaxCount > 0
  BY CountAssumption
<1>12. ModuleEntry(1, MaxCount) = <<o, b, a, a, a, k>> \o <<m>>
  BY <1>1, <1>2, <1>3, <1>4, <1>5, <1>11 DEF ModuleEntry
<1>13. e = t \o u
  BY <1>7, <1>8, <1>12
<1>14. PICK x : x = t \o u
  OBVIOUS
<1>15. /\ x \in Seq(Field) /\ Len(x) = 7 /\ \A i \in 1 .. 6 : x[i] = t[i]
       /\ x[7] = u[1]
  <2>1. /\ t \o u \in Seq(Field) /\ Len(t \o u) = Len(t) + Len(u)
        /\ \A i \in 1 .. Len(t) + Len(u) : (t \o u)[i] = IF i <= Len(t) THEN t[i] ELSE u[i - Len(t)]
    BY <1>9, <1>10, ConcatProperties
  <2>2. Len(t) = 6 /\ Len(u) = 1
    BY <1>9, <1>10
  <2>3. /\ x \in Seq(Field) /\ Len(x) = 7
        /\ \A i \in 1 .. 7 : x[i] = IF i <= 6 THEN t[i] ELSE u[i - 6]
    BY <1>14, <2>1, <2>2
  <2> QED
    BY <2>3
<1>16. x[1] = o /\ x[2] = b /\ x[3] = a /\ x[4] = a /\ x[5] = a /\ x[6] = k /\ x[7] = m
  BY <1>9, <1>10, <1>15
<1>17. e = x
  BY <1>13, <1>14
<1> QED
  BY <1>6, <1>15, <1>16, <1>17

LEMMA PartAt ==
    ASSUME NEW n \in Nat, NEW i \in 1 .. 7 * n
    PROVE  /\ 7 * n + 6 - i \in Nat /\ 7 * n + 6 - i >= 6
           /\ ((7 * n + 6 - i) - 6) % 7 = 6 - ((i - 1) % 7)
           /\ (i - 1) % 7 \in 0 .. 6
<1>1. PICK q \in Nat, j \in 0 .. 6 : i - 1 = 7 * q + j
  <2>1. (i - 1) = 7 * ((i - 1) \div 7) + ((i - 1) % 7) /\ (i - 1) % 7 \in 0 .. 6 /\ (i - 1) \div 7 \in Nat
    OBVIOUS
  <2> QED
    BY <2>1
<1>2. (i - 1) % 7 = j
  BY <1>1
<1>3. (7 * n + 6 - i) - 6 = 7 * (n - q - 1) + (6 - j)
  BY <1>1
<1>4. n - q - 1 \in Int
  BY <1>1
<1>5. (7 * (n - q - 1) + (6 - j)) % 7 = 6 - j
  BY <1>1, <1>4
<1> QED
  BY <1>1, <1>2, <1>3, <1>5

NamedFits(p, x) ==
    /\ p = 6 => x.w = 4 /\ x.v = 1
    /\ p = 5 => x.w = 8
    /\ p \in {2, 3, 4} => x.w = 4
    /\ p = 1 => x.w = 4 /\ x.v = MaxCount
    /\ p = 0 => x.w = MaxCount
LastFits(d, x) == x.w = (IF d = 4 THEN 8 ELSE 4) /\ (d \in {0, 5} => x.v = 0)

LEMMA NamedAt == \A j \in 0 .. 6 : NamedFits(6 - j, ModuleEntry(1, MaxCount)[j + 1])
<1>1. PICK a : a = ModuleEntry(1, MaxCount)
  OBVIOUS
<1>2. /\ a[1].w = 4 /\ a[1].v = 1 /\ a[2].w = 8 /\ a[3].w = 4 /\ a[4].w = 4 /\ a[5].w = 4
      /\ a[6].w = 4 /\ a[6].v = MaxCount /\ a[7].w = MaxCount
  BY <1>1, NamedEntry
<1>3. \A j \in 0 .. 6 : NamedFits(6 - j, a[j + 1])
  BY <1>2 DEF NamedFits
<1> QED
  BY <1>1, <1>3

LEMMA LastAt == \A j \in 1 .. 6 : LastFits(6 - j, ModuleEntry(0, 0)[j])
<1>1. PICK a : a = ModuleEntry(0, 0)
  OBVIOUS
<1>2. /\ a[1].w = 4 /\ a[1].v = 0 /\ a[2].w = 8 /\ a[3].w = 4 /\ a[4].w = 4 /\ a[5].w = 4
      /\ a[6].w = 4 /\ a[6].v = 0
  BY <1>1, LastEntry
<1>3. \A j \in 1 .. 6 : LastFits(6 - j, a[j])
  BY <1>2 DEF LastFits
<1> QED
  BY <1>1, <1>3

LEMMA ModulesAnswer ==
    ASSUME NEW n \in 0 .. MaxCount, NEW s, s = Repeat(n, ModuleEntry(1, MaxCount)) \o ModuleEntry(0, 0)
    PROVE  s \in Seq(Field) /\ Complete(<<Read(<< 4 >>, "module")>>, 2^20, s)
<1>0. n \in Nat
  BY CountAssumption
<1>1. PICK e : e = ModuleEntry(1, MaxCount)
  OBVIOUS
<1>2. PICK l : l = ModuleEntry(0, 0)
  OBVIOUS
<1>3. /\ e \in Seq(Field) /\ Len(e) = 7
      /\ e[1].w = 4 /\ e[1].v = 1 /\ e[2].w = 8 /\ e[3].w = 4 /\ e[4].w = 4 /\ e[5].w = 4
      /\ e[6].w = 4 /\ e[6].v = MaxCount /\ e[7].w = MaxCount
  BY <1>1, NamedEntry
<1>4. /\ l \in Seq(Field) /\ Len(l) = 6
      /\ l[1].w = 4 /\ l[1].v = 0 /\ l[2].w = 8 /\ l[3].w = 4 /\ l[4].w = 4 /\ l[5].w = 4
      /\ l[6].w = 4 /\ l[6].v = 0
  BY <1>2, LastEntry
<1>5. PICK r : r = Repeat(n, e)
  OBVIOUS
<1>6. /\ r \in Seq(Field) /\ Len(r) = 7 * n
      /\ \A i \in 1 .. 7 * n : r[i] = e[((i - 1) % 7) + 1]
  BY <1>0, <1>3, <1>5, RepeatedSeven
<1>7. s = r \o l
  BY <1>1, <1>2, <1>5
<1>8. /\ s \in Seq(Field) /\ Len(s) = Len(r) + Len(l)
      /\ \A i \in 1 .. Len(r) + Len(l) : s[i] = IF i <= Len(r) THEN r[i] ELSE l[i - Len(r)]
  <2>1. /\ r \o l \in Seq(Field) /\ Len(r \o l) = Len(r) + Len(l)
        /\ \A i \in 1 .. Len(r) + Len(l) : (r \o l)[i] = IF i <= Len(r) THEN r[i] ELSE l[i - Len(r)]
    BY <1>4, <1>6, ConcatProperties
  <2> QED
    BY <1>7, <2>1
<1>9. Len(s) = 7 * n + 6
  BY <1>4, <1>6, <1>8
<1>10. ASSUME NEW i \in 1 .. 7 * n PROVE ModuleField(Len(s) - i, s[i])
  <2>1. s[i] = r[i]
    <3>1. i <= Len(r) /\ i \in 1 .. Len(r) + Len(l)
      BY <1>0, <1>4, <1>6
    <3> QED
      BY <1>8, <3>1
  <2>2. PICK j \in 0 .. 6 : j = (i - 1) % 7
    BY <1>0, PartAt
  <2>3. s[i] = e[j + 1]
    BY <1>6, <2>1, <2>2
  <2>4. PICK d \in Nat : d = 7 * n + 6 - i
    BY <1>0, PartAt
  <2>5. d >= 6 /\ ~(d < 6) /\ Part(d) = 6 - j
    BY <1>0, <2>2, <2>4, PartAt DEF Part
  <2>6. ModuleField(d, s[i])
    <3>1. /\ Part(d) = 6 => s[i].w = 4 /\ s[i].v = 1
          /\ Part(d) = 5 => s[i].w = 8
          /\ Part(d) \in {2, 3, 4} => s[i].w = 4
          /\ Part(d) = 1 => s[i].w = 4 /\ s[i].v = MaxCount
          /\ Part(d) = 0 => s[i].w = MaxCount
      <4>1. NamedFits(6 - j, e[j + 1])
        BY <1>1, NamedAt
      <4>2. NamedFits(Part(d), s[i])
        BY <2>3, <2>5, <4>1
      <4> QED
        BY <4>2 DEF NamedFits
    <3> QED
      BY <2>5, <3>1 DEF ModuleField
  <2> QED
    BY <1>9, <2>4, <2>6
<1>11. ASSUME NEW i \in 7 * n + 1 .. 7 * n + 6 PROVE ModuleField(Len(s) - i, s[i])
  <2>1. PICK j \in 1 .. 6 : i = 7 * n + j
    <3>1. i - 7 * n \in 1 .. 6 /\ i = 7 * n + (i - 7 * n)
      BY <1>0
    <3> QED
      BY <3>1
  <2>2. s[i] = l[j]
    <3>1. ~(i <= Len(r)) /\ i \in 1 .. Len(r) + Len(l) /\ i - Len(r) = j
      BY <1>0, <1>4, <1>6, <2>1
    <3> QED
      BY <1>8, <3>1
  <2>3. PICK d \in Nat : d = 6 - j
    OBVIOUS
  <2>4. d < 6 /\ Len(s) - i = d
    BY <1>0, <1>9, <2>1, <2>3
  <2>5. ModuleField(d, s[i])
    <3>1. s[i].w = (IF d = 4 THEN 8 ELSE 4) /\ (d \in {0, 5} => s[i].v = 0)
      <4>1. LastFits(6 - j, l[j])
        BY <1>2, LastAt
      <4>2. LastFits(d, s[i])
        BY <2>2, <2>3, <4>1
      <4> QED
        BY <4>2 DEF LastFits
    <3>2. ~(d >= 6)
      BY <2>4
    <3> QED
      BY <2>4, <3>1, <3>2 DEF ModuleField
  <2> QED
    BY <2>4, <2>5
<1>12. ModulesLeft(s)
  <2>1. SUFFICES ASSUME NEW i \in 1 .. Len(s) PROVE ModuleField(Len(s) - i, s[i])
    BY DEF ModulesLeft
  <2>2. i \in 1 .. 7 * n \/ i \in 7 * n + 1 .. 7 * n + 6
    BY <1>0, <1>9
  <2> QED
    BY <1>10, <1>11, <2>2
<1>13. Len(s) % 7 = 6 /\ Len(s) >= 5
  <2>1. (7 * n + 6) % 7 = 6 /\ 7 * n + 6 >= 5
    BY <1>0
  <2> QED
    BY <1>9, <2>1
<1>14. ModulesAt(s, 6)
  BY <1>12, <1>13 DEF ModulesAt
<1>15. PICK limit : Longest(limit)
  BY DEF Longest
<1>16. Complete(<<ResultRead>>, limit, s)
  BY <1>8, <1>14, <1>15, ModuleWants
<1> QED
  BY <1>8, <1>15, <1>16 DEF Longest, ResultRead

-----------------------------------------------------------------------------
(***************************************************************************)
(* What the client sends is what the server reads: Parametrized says that  *)
(* f is what the server has still to read of call q, with want and arg in  *)
(* its hands, and that its answers will be complete for q.                 *)
(***************************************************************************)

Calls == MemoryCalls \cup DebugCalls \cup {openProcess, closeHandle, startDebug, stopDebug, getArchitecture}
CmdOf(q) == q.send[1].v

\* Everything the server may answer a command with.
MayAnswer(cmd, arg, fields) ==
    \/ cmd \in MemoryCommands /\ fields \in Answers(cmd, arg)
    \/ cmd \in {CMD_STARTDEBUG, CMD_STOPDEBUG, CMD_CONTINUEFROMDEBUGEVENT, CMD_SETBREAKPOINT, CMD_REMOVEBREAKPOINT}
         /\ fields \in {<<F(4, 0)>>, <<F(4, 1)>>}
    \/ cmd = CMD_WAITFORDEBUGEVENT
         /\ \/ fields = <<F(4, 0)>>
            \/ \E n \in Nat : fields = <<F(4, 1), F(4, 5), F(8, n), F(8, 0)>>
FitsAnswers(q, arg) ==
    \A fields : MayAnswer(CmdOf(q), arg, fields) => fields \in Seq(Field) /\ Complete(q.want, q.limit, fields)

\* The server has f of call q still to read, and reads it with want.
LastParameters(want, f, q, arg) ==
    \E ws \in Seq(Nat) \ {<<>>} : want = <<Plain(ws)>> /\ Exactly(ws, f) /\ FitsAnswers(q, arg)
SizedParameters(want, f, q) ==
    \E ws \in Seq(Nat) \ {<<>>}, us \in Seq(Nat) \ {<<>>} :
        /\ want = <<Read(ws, "arg"), Plain(us)>>
        /\ Fits(ws, f) /\ Len(f) = Len(ws) + Len(us)
        /\ \A i \in 1 .. Len(us) : f[Len(ws) + i].w = us[i]
        /\ FitsAnswers(q, f[Len(ws)].v)
WriteParameters(want, f, q) ==
    /\ want = <<Read(<<4, 8, 4>>, "bytes")>>
    /\ Fits(<<4, 8, 4>>, f) /\ FitsAnswers(q, f[3].v)
    /\ f[3].v # 0 /\ Len(f) = 4 /\ f[4].w = f[3].v
Parametrized(want, arg, f, q) ==
    \/ want = <<>> /\ f = <<>> /\ FitsAnswers(q, arg)
    \/ LastParameters(want, f, q, arg)
    \/ SizedParameters(want, f, q)
    \/ WriteParameters(want, f, q)

ParameterStep(want, arg, f, q) ==
    LET read == Head(want) IN
    /\ Len(read.ws) \in Nat \ {0} /\ Available(f, read) /\ LinesUp(f, read)
    /\ Rest(f, read) \in Seq(Field)
    /\ Parametrized(Continuation(read.then, LastOf(f, read)) \o Tail(want),
                    IF read.then = "nothing" THEN arg ELSE LastOf(f, read), Rest(f, read), q)

LEMMA ParameterStepIs ==
    ASSUME NEW want, NEW arg, NEW f, NEW q, NEW read, NEW first, NEW tail, NEW next, NEW new, NEW rest,
           Head(want) = read, Continuation(read.then, LastOf(f, read)) = first, Tail(want) = tail, first \o tail = next,
           rest = Rest(f, read), new = (IF read.then = "nothing" THEN arg ELSE LastOf(f, read)),
           Len(read.ws) \in Nat \ {0}, Available(f, read), LinesUp(f, read),
           rest \in Seq(Field), Parametrized(next, new, rest, q)
    PROVE  ParameterStep(want, arg, f, q)
  BY DEF ParameterStep

LEMMA LastParametersStep ==
    ASSUME NEW want, NEW arg, NEW f \in Seq(Field), NEW q, LastParameters(want, f, q, arg)
    PROVE  ParameterStep(want, arg, f, q)
<1>1. PICK ws \in Seq(Nat) \ {<<>>} : want = <<Plain(ws)>> /\ Exactly(ws, f) /\ FitsAnswers(q, arg)
  BY DEF LastParameters
<1>2. PICK read : read = Read(ws, "nothing")
  OBVIOUS
<1>3. read.then = "nothing" /\ Head(want) = read /\ Tail(want) = <<>>
  BY <1>1, <1>2 DEF Read, Plain
<1>4. Fits(ws, f) /\ Len(f) = Len(ws)
  BY <1>1 DEF Exactly
<1>5. Took(f, read, Len(ws))
  BY <1>2, <1>4, FirstsTook
<1>6. Len(Rest(f, read)) = 0
  BY <1>4, <1>5 DEF Took
<1>7. Rest(f, read) = <<>>
  BY <1>5, <1>6 DEF Took
<1>8. Continuation(read.then, LastOf(f, read)) = <<>>
  BY <1>3, <1>5, Continuations DEF Took
<1>9. Parametrized(<<>>, arg, <<>>, q)
  BY <1>1 DEF Parametrized
<1>10. <<>> \o <<>> = <<>>
  OBVIOUS
<1> QED
  BY <1>3, <1>5, <1>7, <1>8, <1>9, <1>10, ParameterStepIs DEF Took

LEMMA SizedParametersStep ==
    ASSUME NEW want, NEW arg, NEW f \in Seq(Field), NEW q, SizedParameters(want, f, q)
    PROVE  ParameterStep(want, arg, f, q)
<1>1. PICK ws \in Seq(Nat) \ {<<>>}, us \in Seq(Nat) \ {<<>>} :
        /\ want = <<Read(ws, "arg"), Plain(us)>>
        /\ Fits(ws, f) /\ Len(f) = Len(ws) + Len(us)
        /\ \A i \in 1 .. Len(us) : f[Len(ws) + i].w = us[i]
        /\ FitsAnswers(q, f[Len(ws)].v)
  BY DEF SizedParameters
<1>2. PICK read : read = Read(ws, "arg")
  OBVIOUS
<1>3. read.then = "arg" /\ Head(want) = read /\ Tail(want) = <<Plain(us)>>
  BY <1>1, <1>2 DEF Read
<1>4. Took(f, read, Len(ws))
  BY <1>1, <1>2, FirstsTook
<1>5. PICK v : v = LastOf(f, read)
  OBVIOUS
<1>6. PICK rest : rest = Rest(f, read)
  OBVIOUS
<1>7. v = f[Len(ws)].v /\ rest \in Seq(Field) /\ Len(rest) = Len(f) - Len(ws) /\ \A i \in 1 .. Len(f) - Len(ws) : rest[i] = f[Len(ws) + i]
  BY <1>4, <1>5, <1>6 DEF Took
<1>8. Len(ws) \in Nat /\ Len(us) \in Nat
  OBVIOUS
<1>9. Exactly(us, rest)
  <2>1. Len(rest) = Len(us)
    BY <1>1, <1>7, <1>8
  <2>2. \A i \in 1 .. Len(us) : rest[i].w = us[i]
    BY <1>1, <1>7, <1>8
  <2> QED
    BY <2>1, <2>2, <1>8 DEF Exactly, Fits
<1>10. Continuation(read.then, v) = <<>>
  BY <1>3, <1>4, <1>5, Continuations DEF Took
<1>11. LastParameters(<<Plain(us)>>, rest, q, v)
  BY <1>1, <1>7, <1>9 DEF LastParameters
<1>12. Parametrized(<<Plain(us)>>, v, rest, q)
  BY <1>11 DEF Parametrized
<1>13. <<>> \o <<Plain(us)>> = <<Plain(us)>>
  <2>1. <<Plain(us)>> \in Seq({Plain(us)})
    BY OneIsSeq
  <2> QED
    BY <2>1
<1>14. v = IF read.then = "nothing" THEN arg ELSE LastOf(f, read)
  BY <1>3, <1>5
<1> QED
  BY <1>3, <1>4, <1>5, <1>6, <1>10, <1>12, <1>13, <1>14, ParameterStepIs DEF Took

LEMMA WriteParametersStep ==
    ASSUME NEW want, NEW arg, NEW f \in Seq(Field), NEW q, WriteParameters(want, f, q)
    PROVE  ParameterStep(want, arg, f, q)
<1>1. PICK ws : ws = <<4, 8, 4>>
  OBVIOUS
<1>2. ws \in Seq(Nat) \ {<<>>} /\ Len(ws) = 3
  BY <1>1
<1>3. /\ want = <<Read(ws, "bytes")>> /\ Fits(ws, f) /\ FitsAnswers(q, f[3].v)
      /\ f[3].v # 0 /\ Len(f) = 4 /\ f[4].w = f[3].v
  BY <1>1 DEF WriteParameters
<1>4. PICK read : read = Read(ws, "bytes")
  OBVIOUS
<1>5. read.then = "bytes" /\ Head(want) = read /\ Tail(want) = <<>>
  BY <1>3, <1>4 DEF Read
<1>6. Took(f, read, 3)
  <2>1. Took(f, read, Len(ws))
    BY <1>2, <1>3, <1>4, FirstsTook
  <2> QED
    BY <1>2, <2>1
<1>7. PICK v : v = LastOf(f, read)
  OBVIOUS
<1>8. PICK rest : rest = Rest(f, read)
  OBVIOUS
<1>9. v = f[3].v /\ v \in Nat /\ rest \in Seq(Field) /\ Len(rest) = 1 /\ rest[1] = f[4]
  BY <1>3, <1>6, <1>7, <1>8 DEF Took
<1>10. Continuation(read.then, v) = <<Plain(<<v>>)>>
  BY <1>3, <1>5, <1>9, Continuations
<1>11. PICK us : us = <<v>>
  OBVIOUS
<1>12. us \in Seq(Nat) \ {<<>>} /\ Len(us) = 1 /\ us[1] = v
  BY <1>9, <1>11
<1>13. Exactly(us, rest)
  BY <1>3, <1>9, <1>12 DEF Exactly, Fits
<1>14. LastParameters(<<Plain(us)>>, rest, q, v)
  BY <1>3, <1>9, <1>12, <1>13 DEF LastParameters
<1>15. Parametrized(<<Plain(us)>>, v, rest, q)
  BY <1>14 DEF Parametrized
<1>16. <<Plain(us)>> \o <<>> = <<Plain(us)>>
  <2>1. <<Plain(us)>> \in Seq({Plain(us)})
    BY OneIsSeq
  <2> QED
    BY <2>1
<1>17. v = IF read.then = "nothing" THEN arg ELSE LastOf(f, read)
  BY <1>5, <1>7
<1> QED
  BY <1>5, <1>6, <1>7, <1>8, <1>9, <1>10, <1>11, <1>15, <1>16, <1>17, ParameterStepIs DEF Took

\* The server reads what is left of a call, field by field.
LEMMA ParametersStep ==
    ASSUME NEW want, want # <<>>, NEW arg, NEW f \in Seq(Field), NEW q, Parametrized(want, arg, f, q)
    PROVE  ParameterStep(want, arg, f, q)
  BY LastParametersStep, SizedParametersStep, WriteParametersStep DEF Parametrized

-----------------------------------------------------------------------------
(***************************************************************************)
(* The calls: each one, sent whole, is read whole and answered in full.    *)
(***************************************************************************)

CommandRead == Plain(<< 1 >>)

\* What a call sends, seen from its command byte.
Sends(q, cmd, fields) ==
    /\ q.send \in Seq(Field) /\ CmdOf(q) = cmd /\ cmd \in Nat
    /\ Len(CommandRead.ws) \in Nat \ {0} /\ Available(q.send, CommandRead) /\ LinesUp(q.send, CommandRead)
    /\ LastOf(q.send, CommandRead) = cmd /\ Rest(q.send, CommandRead) = fields /\ fields \in Seq(Field)
Asks(q, op, recv, limit) == q.op = op /\ q.want = recv /\ q.limit = limit

LEMMA CallSends ==
    ASSUME NEW op, NEW cmd \in Nat, NEW fields \in Seq(Field), NEW recv, NEW limit
    PROVE  LET q == Call(op, cmd, fields, recv, limit) IN Sends(q, cmd, fields) /\ Asks(q, op, recv, limit)
<1>1. PICK q : q = Call(op, cmd, fields, recv, limit)
  OBVIOUS
<1>2. Asks(q, op, recv, limit) /\ q.send = <<F(1, cmd)>> \o fields
  BY <1>1 DEF Call, Asks
<1>3. F(1, cmd) \in Field /\ F(1, cmd).w = 1 /\ F(1, cmd).v = cmd
  BY FieldsAre
<1>4. PICK s : s = q.send
  OBVIOUS
<1>5. PICK n \in Nat : n = 1
  OBVIOUS
<1>6. /\ s \in Seq(Field) /\ Len(s) = 1 + Len(fields) /\ s[1] = F(1, cmd)
      /\ \A i \in 2 .. Len(s) : s[i] = fields[i - 1] /\ i - 1 \in 1 .. Len(fields)
  BY <1>2, <1>3, <1>4, Behind
<1>7. PICK ws : ws = << 1 >>
  OBVIOUS
<1>8. ws \in Seq(Nat) \ {<<>>} /\ Len(ws) = 1 /\ ws[1] = 1
  BY <1>7
<1>9. Fits(ws, s)
  BY <1>3, <1>6, <1>8 DEF Fits
<1>10. CommandRead = Read(ws, "nothing")
  BY <1>7 DEF CommandRead, Plain
<1>11. Took(s, CommandRead, 1)
  <2>1. Took(s, CommandRead, Len(ws))
    BY <1>6, <1>8, <1>9, <1>10, FirstsTook
  <2> QED
    BY <1>8, <2>1
<1>12. PICK rest : rest = Rest(s, CommandRead)
  OBVIOUS
<1>13. rest \in Seq(Field) /\ Len(rest) = Len(fields) /\ \A i \in 1 .. Len(fields) : rest[i] = s[1 + i]
  BY <1>6, <1>11, <1>12 DEF Took
<1>14. rest = fields
  <2>1. \A i \in 1 .. Len(fields) : rest[i] = fields[i]
    <3>1. SUFFICES ASSUME NEW i \in 1 .. Len(fields) PROVE rest[i] = fields[i]
      OBVIOUS
    <3>2. 1 + i \in 2 .. Len(s) /\ (1 + i) - 1 = i
      BY <1>6
    <3> QED
      BY <1>6, <1>13, <3>2
  <2> QED
    BY <1>13, <2>1
<1>15. CmdOf(q) = cmd
  BY <1>3, <1>4, <1>6 DEF CmdOf
<1>16. LastOf(s, CommandRead) = cmd
  BY <1>3, <1>6, <1>11 DEF Took
<1>17. Sends(q, cmd, fields)
  BY <1>4, <1>6, <1>11, <1>12, <1>14, <1>15, <1>16 DEF Sends, Took
<1> QED
  BY <1>1, <1>2, <1>17

LEMMA ParametersAre ==
    /\ Parameters(CMD_GETVERSION) = <<>>
    /\ \A cmd \in {CMD_OPENPROCESS, CMD_CLOSEHANDLE, CMD_GETARCHITECTURE, CMD_STARTDEBUG, CMD_STOPDEBUG} :
         Parameters(cmd) = <<Plain(<< 4 >>)>>
    /\ Parameters(CMD_READPROCESSMEMORY) = <<Read(<<4, 8, 4>>, "arg"), Plain(<< 1 >>)>>
    /\ Parameters(CMD_WRITEPROCESSMEMORY) = <<Read(<<4, 8, 4>>, "bytes")>>
    /\ Parameters(CMD_VIRTUALQUERYEXFULL) = <<Plain(<<4, 1>>)>>
    /\ Parameters(CMD_CREATETOOLHELP32SNAPSHOTEX) = <<Read(<< 4 >>, "arg"), Plain(<< 4 >>)>>
    /\ Parameters(CMD_ALLOC) = <<Plain(<<4, 8, 4, 4>>)>>
    /\ Parameters(CMD_FREE) = <<Plain(<<4, 8, 4>>)>>
    /\ Parameters(CMD_SETBREAKPOINT) = <<Plain(<<4, 4, 4, 8, 4, 4>>)>>
    /\ Parameters(CMD_REMOVEBREAKPOINT) = <<Plain(<<4, 4, 4, 4>>)>>
    /\ Parameters(CMD_WAITFORDEBUGEVENT) = <<Plain(<<4, 4>>)>>
    /\ Parameters(CMD_CONTINUEFROMDEBUGEVENT) = <<Plain(<<4, 4, 4>>)>>
  BY DEF Parameters, CMD_GETVERSION, CMD_OPENPROCESS, CMD_CLOSEHANDLE, CMD_GETARCHITECTURE, CMD_STARTDEBUG, CMD_STOPDEBUG,
         CMD_READPROCESSMEMORY, CMD_WRITEPROCESSMEMORY, CMD_VIRTUALQUERYEXFULL, CMD_CREATETOOLHELP32SNAPSHOTEX, CMD_ALLOC,
         CMD_FREE, CMD_SETBREAKPOINT, CMD_REMOVEBREAKPOINT, CMD_WAITFORDEBUGEVENT, CMD_CONTINUEFROMDEBUGEVENT

LEMMA AnswersAre ==
    ASSUME NEW arg
    PROVE  /\ Answers(CMD_GETVERSION, arg) = {<<F(4, 1), F(1, 15), F(15, 0)>>}
           /\ \A cmd \in {CMD_OPENPROCESS, CMD_CLOSEHANDLE} : Answers(cmd, arg) = {<<F(4, 1)>>}
           /\ Answers(CMD_READPROCESSMEMORY, arg) = BytesRead(arg)
           /\ Answers(CMD_WRITEPROCESSMEMORY, arg) = {<<F(4, n)>> : n \in 0 .. arg}
           /\ Answers(CMD_GETARCHITECTURE, arg) = {<<F(1, 1)>>}
           /\ Answers(CMD_VIRTUALQUERYEXFULL, arg) = RegionList
           /\ arg = TH32CS_SNAPTHREAD => Answers(CMD_CREATETOOLHELP32SNAPSHOTEX, arg) = ThreadSnapshot
           /\ arg = TH32CS_SNAPMODULE => Answers(CMD_CREATETOOLHELP32SNAPSHOTEX, arg) = ModuleSnapshot
           /\ Answers(CMD_ALLOC, arg) = {<<F(8, n)>> : n \in {0, 1}}
           /\ Answers(CMD_FREE, arg) = {<<F(4, n)>> : n \in {0, 1}}
  BY DEF Answers, CMD_GETVERSION, CMD_OPENPROCESS, CMD_CLOSEHANDLE, CMD_GETARCHITECTURE, CMD_READPROCESSMEMORY,
         CMD_WRITEPROCESSMEMORY, CMD_VIRTUALQUERYEXFULL, CMD_CREATETOOLHELP32SNAPSHOTEX, CMD_ALLOC, CMD_FREE,
         TH32CS_SNAPTHREAD, TH32CS_SNAPMODULE

\* The commands of the debugger, and the others.
LEMMA CommandsDiffer ==
    /\ \A cmd \in MemoryCommands : cmd \notin {CMD_STARTDEBUG, CMD_STOPDEBUG, CMD_CONTINUEFROMDEBUGEVENT,
                                                CMD_SETBREAKPOINT, CMD_REMOVEBREAKPOINT, CMD_WAITFORDEBUGEVENT}
    /\ CMD_WAITFORDEBUGEVENT \notin {CMD_STARTDEBUG, CMD_STOPDEBUG, CMD_CONTINUEFROMDEBUGEVENT,
                                     CMD_SETBREAKPOINT, CMD_REMOVEBREAKPOINT}
    /\ {CMD_STARTDEBUG, CMD_STOPDEBUG, CMD_CONTINUEFROMDEBUGEVENT, CMD_SETBREAKPOINT, CMD_REMOVEBREAKPOINT,
        CMD_WAITFORDEBUGEVENT} \cap MemoryCommands = {}
  BY DEF MemoryCommands, CMD_GETVERSION, CMD_OPENPROCESS, CMD_CLOSEHANDLE, CMD_GETARCHITECTURE, CMD_STARTDEBUG, CMD_STOPDEBUG,
         CMD_READPROCESSMEMORY, CMD_WRITEPROCESSMEMORY, CMD_VIRTUALQUERYEXFULL, CMD_CREATETOOLHELP32SNAPSHOTEX, CMD_ALLOC,
         CMD_FREE, CMD_SETBREAKPOINT, CMD_REMOVEBREAKPOINT, CMD_WAITFORDEBUGEVENT, CMD_CONTINUEFROMDEBUGEVENT

LEMMA MemoryAnswer ==
    ASSUME NEW q, CmdOf(q) \in MemoryCommands, NEW arg,
           \A fields \in Answers(CmdOf(q), arg) : fields \in Seq(Field) /\ Complete(q.want, q.limit, fields)
    PROVE  FitsAnswers(q, arg)
  BY CommandsDiffer DEF FitsAnswers, MayAnswer

LEMMA OneFieldSent == \A w, v \in Nat : <<F(w, v)>> \in Seq(Field)
  BY FieldsAre

LEMMA ResultAnswers ==
    ASSUME NEW q, NEW arg, q.want = <<Plain(<< 4 >>)>>,
           CmdOf(q) \in {CMD_OPENPROCESS, CMD_CLOSEHANDLE, CMD_FREE, CMD_STARTDEBUG, CMD_STOPDEBUG, CMD_CONTINUEFROMDEBUGEVENT,
                         CMD_SETBREAKPOINT, CMD_REMOVEBREAKPOINT}
    PROVE  FitsAnswers(q, arg)
<1>1. \A n \in {0, 1} : <<F(4, n)>> \in Seq(Field) /\ Complete(q.want, q.limit, <<F(4, n)>>)
  BY OneField, OneFieldSent
<1>2. CASE CmdOf(q) \in {CMD_OPENPROCESS, CMD_CLOSEHANDLE}
  <2>1. Answers(CmdOf(q), arg) = {<<F(4, 1)>>} /\ CmdOf(q) \in MemoryCommands
    BY <1>2, AnswersAre DEF MemoryCommands
  <2> QED
    BY <1>1, <2>1, MemoryAnswer
<1>3. CASE CmdOf(q) = CMD_FREE
  <2>1. Answers(CmdOf(q), arg) = {<<F(4, n)>> : n \in {0, 1}} /\ CmdOf(q) \in MemoryCommands
    BY <1>3, AnswersAre DEF MemoryCommands
  <2> QED
    BY <1>1, <2>1, MemoryAnswer
<1>4. CASE CmdOf(q) \in {CMD_STARTDEBUG, CMD_STOPDEBUG, CMD_CONTINUEFROMDEBUGEVENT, CMD_SETBREAKPOINT, CMD_REMOVEBREAKPOINT}
  BY <1>1, <1>4, CommandsDiffer DEF FitsAnswers, MayAnswer
<1> QED
  BY <1>2, <1>3, <1>4

LEMMA WidthAnswers ==
    ASSUME NEW q, NEW arg
    PROVE  /\ CmdOf(q) = CMD_ALLOC /\ q.want = <<Plain(<< 8 >>)>> => FitsAnswers(q, arg)
           /\ CmdOf(q) = CMD_GETARCHITECTURE /\ q.want = <<Plain(<< 1 >>)>> => FitsAnswers(q, arg)
           /\ CmdOf(q) = CMD_GETVERSION /\ q.want = <<Read(<<4, 1>>, "bytes")>> /\ q.limit = 255 => FitsAnswers(q, arg)
           /\ CmdOf(q) = CMD_WAITFORDEBUGEVENT /\ q.want = <<Read(<< 4 >>, "event")>> => FitsAnswers(q, arg)
<1>1. ASSUME CmdOf(q) = CMD_ALLOC, q.want = <<Plain(<< 8 >>)>>
      PROVE  FitsAnswers(q, arg)
  <2>1. Answers(CmdOf(q), arg) = {<<F(8, n)>> : n \in {0, 1}} /\ CmdOf(q) \in MemoryCommands
    BY <1>1, AnswersAre DEF MemoryCommands
  <2>2. \A n \in {0, 1} : <<F(8, n)>> \in Seq(Field) /\ Complete(q.want, q.limit, <<F(8, n)>>)
    BY <1>1, OneField, OneFieldSent
  <2> QED
    BY <2>1, <2>2, MemoryAnswer
<1>2. ASSUME CmdOf(q) = CMD_GETARCHITECTURE, q.want = <<Plain(<< 1 >>)>>
      PROVE  FitsAnswers(q, arg)
  <2>1. Answers(CmdOf(q), arg) = {<<F(1, 1)>>} /\ CmdOf(q) \in MemoryCommands
    BY <1>2, AnswersAre DEF MemoryCommands
  <2>2. <<F(1, 1)>> \in Seq(Field) /\ Complete(q.want, q.limit, <<F(1, 1)>>)
    BY <1>2, OneField, OneFieldSent
  <2> QED
    BY <2>1, <2>2, MemoryAnswer
<1>3. ASSUME CmdOf(q) = CMD_GETVERSION, q.want = <<Read(<<4, 1>>, "bytes")>>, q.limit = 255
      PROVE  FitsAnswers(q, arg)
  <2>1. Answers(CmdOf(q), arg) = {<<F(4, 1), F(1, 15), F(15, 0)>>} /\ CmdOf(q) \in MemoryCommands
    BY <1>3, AnswersAre DEF MemoryCommands
  <2>2. <<F(4, 1), F(1, 15), F(15, 0)>> \in Seq(Field)
    BY FieldsAre
  <2>3. Complete(q.want, q.limit, <<F(4, 1), F(1, 15), F(15, 0)>>)
    BY <1>3, VersionAnswer
  <2>4. \A fields \in Answers(CmdOf(q), arg) : fields \in Seq(Field) /\ Complete(q.want, q.limit, fields)
    BY <2>1, <2>2, <2>3
  <2> QED
    BY <2>1, <2>4, MemoryAnswer
<1>4. ASSUME CmdOf(q) = CMD_WAITFORDEBUGEVENT, q.want = <<Read(<< 4 >>, "event")>>
      PROVE  FitsAnswers(q, arg)
  <2>1. \A n \in Nat : <<F(4, 1), F(4, 5), F(8, n), F(8, 0)>> \in Seq(Field)
    BY FieldsAre
  <2>2. <<F(4, 0)>> \in Seq(Field)
    BY OneFieldSent
  <2>3. \A n \in Nat : Complete(q.want, q.limit, <<F(4, 1), F(4, 5), F(8, n), F(8, 0)>>)
    BY <1>4, EventAnswer
  <2>4. Complete(q.want, q.limit, <<F(4, 0)>>)
    BY <1>4, EventAnswer
  <2> QED
    BY <1>4, <2>1, <2>2, <2>3, <2>4, CommandsDiffer DEF FitsAnswers, MayAnswer
<1> QED
  BY <1>1, <1>2, <1>3, <1>4

LEMMA BulkAnswers ==
    ASSUME NEW q, NEW n \in Nat
    PROVE  /\ CmdOf(q) = CMD_READPROCESSMEMORY /\ q.want = <<Read(<< 4 >>, "bytes")>> /\ q.limit = n => FitsAnswers(q, n)
           /\ CmdOf(q) = CMD_WRITEPROCESSMEMORY /\ q.want = <<Read(<< 4 >>, "count")>> /\ q.limit = n => FitsAnswers(q, n)
<1>1. ASSUME CmdOf(q) = CMD_READPROCESSMEMORY, q.want = <<Read(<< 4 >>, "bytes")>>, q.limit = n
      PROVE  FitsAnswers(q, n)
  <2>1. Answers(CmdOf(q), n) = BytesRead(n) /\ CmdOf(q) \in MemoryCommands
    BY <1>1, AnswersAre DEF MemoryCommands
  <2>2. ASSUME NEW fields \in BytesRead(n) PROVE fields \in Seq(Field) /\ Complete(q.want, q.limit, fields)
    <3>1. PICK k \in 0 .. n : fields = <<F(4, k)>> \o (IF k > 0 THEN <<F(k, 0)>> ELSE <<>>)
      BY DEF BytesRead
    <3>2. k \in Nat /\ k <= n
      OBVIOUS
    <3>3. Complete(q.want, q.limit, fields)
      BY <1>1, <3>1, <3>2, BytesAnswer
    <3>4. F(4, k) \in Field /\ F(k, 0) \in Field
      BY <3>2, FieldsAre
    <3>5. <<F(4, k)>> \in Seq(Field) /\ <<F(k, 0)>> \in Seq(Field) /\ <<>> \in Seq(Field)
      BY <3>4
    <3>6. PICK r \in Seq(Field) : fields = <<F(4, k)>> \o r
      BY <3>1, <3>5
    <3> QED
      BY <3>3, <3>5, <3>6, ConcatProperties
  <2> QED
    BY <2>1, <2>2, MemoryAnswer
<1>2. ASSUME CmdOf(q) = CMD_WRITEPROCESSMEMORY, q.want = <<Read(<< 4 >>, "count")>>, q.limit = n
      PROVE  FitsAnswers(q, n)
  <2>1. Answers(CmdOf(q), n) = {<<F(4, k)>> : k \in 0 .. n} /\ CmdOf(q) \in MemoryCommands
    BY <1>2, AnswersAre DEF MemoryCommands
  <2>2. \A k \in 0 .. n : k \in Nat /\ k <= n
    OBVIOUS
  <2>3. \A k \in 0 .. n : <<F(4, k)>> \in Seq(Field) /\ Complete(q.want, q.limit, <<F(4, k)>>)
    BY <1>2, <2>2, OneFieldSent, CountAnswer
  <2> QED
    BY <2>1, <2>3, MemoryAnswer
<1> QED
  BY <1>1, <1>2

LEMMA ListAnswers ==
    ASSUME NEW q, NEW arg, Longest(q.limit)
    PROVE  /\ CmdOf(q) = CMD_VIRTUALQUERYEXFULL /\ q.want = <<Read(<< 4 >>, "regions")>> => FitsAnswers(q, arg)
           /\ CmdOf(q) = CMD_CREATETOOLHELP32SNAPSHOTEX /\ q.want = <<Read(<< 4 >>, "tids")>> /\ arg = TH32CS_SNAPTHREAD
                => FitsAnswers(q, arg)
           /\ CmdOf(q) = CMD_CREATETOOLHELP32SNAPSHOTEX /\ q.want = <<Read(<< 4 >>, "module")>> /\ arg = TH32CS_SNAPMODULE
                => FitsAnswers(q, arg)
<1>1. ASSUME CmdOf(q) = CMD_VIRTUALQUERYEXFULL, q.want = <<Read(<< 4 >>, "regions")>>
      PROVE  FitsAnswers(q, arg)
  <2>1. Answers(CmdOf(q), arg) = RegionList /\ CmdOf(q) \in MemoryCommands
    BY <1>1, AnswersAre DEF MemoryCommands
  <2>2. \A fields \in RegionList : fields \in Seq(Field) /\ Complete(q.want, q.limit, fields)
    BY <1>1, RegionsAnswer DEF RegionList, Longest
  <2> QED
    BY <2>1, <2>2, MemoryAnswer
<1>2. ASSUME CmdOf(q) = CMD_CREATETOOLHELP32SNAPSHOTEX, q.want = <<Read(<< 4 >>, "tids")>>, arg = TH32CS_SNAPTHREAD
      PROVE  FitsAnswers(q, arg)
  <2>1. Answers(CmdOf(q), arg) = ThreadSnapshot /\ CmdOf(q) \in MemoryCommands
    BY <1>2, AnswersAre DEF MemoryCommands
  <2>2. \A fields \in ThreadSnapshot : fields \in Seq(Field) /\ Complete(q.want, q.limit, fields)
    BY <1>2, TidsAnswer DEF ThreadSnapshot, Longest
  <2> QED
    BY <2>1, <2>2, MemoryAnswer
<1>3. ASSUME CmdOf(q) = CMD_CREATETOOLHELP32SNAPSHOTEX, q.want = <<Read(<< 4 >>, "module")>>, arg = TH32CS_SNAPMODULE
      PROVE  FitsAnswers(q, arg)
  <2>1. Answers(CmdOf(q), arg) = ModuleSnapshot /\ CmdOf(q) \in MemoryCommands
    BY <1>3, AnswersAre DEF MemoryCommands
  <2>2. \A fields \in ModuleSnapshot : fields \in Seq(Field) /\ Complete(q.want, q.limit, fields)
    BY <1>3, ModulesAnswer DEF ModuleSnapshot, Longest
  <2> QED
    BY <2>1, <2>2, MemoryAnswer
<1> QED
  BY <1>1, <1>2, <1>3

-----------------------------------------------------------------------------
\* A call that, sent whole, is read whole and answered in full.
Ready(q) ==
    /\ q.op # "none" /\ q.limit \in Nat
    /\ q.want # <<>> /\ Len(Head(q.want).ws) \in Nat \ {0}
    /\ \E cmd \in Nat : \E fields :
        /\ Sends(q, cmd, fields)
        /\ cmd \in ServedCommands => \A arg : Parametrized(Parameters(cmd), arg, fields, q)

LEMMA OneHead == \A a : <<a>> # <<>> /\ Head(<<a>>) = a
  OBVIOUS

LEMMA CallReady ==
    ASSUME NEW q, NEW op, NEW cmd \in Nat, NEW fields \in Seq(Field), NEW ws \in Seq(Nat) \ {<<>>}, NEW then,
           NEW limit \in Nat, q = Call(op, cmd, fields, <<Read(ws, then)>>, limit), op # "none",
           cmd \in ServedCommands => \A arg : Parametrized(Parameters(cmd), arg, fields, q)
    PROVE  Ready(q)
<1>1. Sends(q, cmd, fields) /\ Asks(q, op, <<Read(ws, then)>>, limit)
  BY CallSends
<1>2. q.want # <<>> /\ Head(q.want) = Read(ws, then)
  BY <1>1, OneHead DEF Asks
<1>3. Read(ws, then).ws = ws /\ Len(ws) \in Nat \ {0}
  BY DEF Read
<1> QED
  BY <1>1, <1>2, <1>3 DEF Ready, Asks

LEMMA PlainCallReady ==
    ASSUME NEW q, NEW op, NEW cmd \in Nat, NEW fields \in Seq(Field), NEW ws \in Seq(Nat) \ {<<>>}, NEW then,
           NEW limit \in Nat, q = Call(op, cmd, fields, <<Read(ws, then)>>, limit), op # "none",
           NEW ps \in Seq(Nat) \ {<<>>}, Parameters(cmd) = <<Plain(ps)>>, Exactly(ps, fields),
           \A arg : FitsAnswers(q, arg)
    PROVE  Ready(q)
<1>1. ASSUME NEW arg PROVE Parametrized(Parameters(cmd), arg, fields, q)
  BY DEF Parametrized, LastParameters
<1> QED
  BY <1>1, CallReady

\* The parameters as they are sent and as they are read.
Layout(ps, fields) == ps \in Seq(Nat) \ {<<>>} /\ fields \in Seq(Field) /\ Exactly(ps, fields)

LEMMA LayoutOf1 ==
    ASSUME NEW p \in Nat, NEW v \in Nat
    PROVE  Layout(<<p>>, <<F(p, v)>>)
<1>1. PICK a \in Field : a = F(p, v) /\ a.w = p
  BY FieldsAre
<1> QED
  BY <1>1 DEF Layout, Exactly, Fits

LEMMA LayoutOf2 ==
    ASSUME NEW p \in Nat, NEW v \in Nat, NEW q \in Nat, NEW w \in Nat
    PROVE  Layout(<<p, q>>, <<F(p, v), F(q, w)>>)
<1>1. PICK a \in Field, b \in Field : a = F(p, v) /\ a.w = p /\ b = F(q, w) /\ b.w = q
  BY FieldsAre
<1> QED
  BY <1>1 DEF Layout, Exactly, Fits

LEMMA LayoutOf3 ==
    ASSUME NEW p \in Nat, NEW v \in Nat, NEW q \in Nat, NEW w \in Nat, NEW r \in Nat, NEW x \in Nat
    PROVE  Layout(<<p, q, r>>, <<F(p, v), F(q, w), F(r, x)>>)
<1>1. PICK a \in Field, b \in Field, c \in Field : a = F(p, v) /\ a.w = p /\ b = F(q, w) /\ b.w = q /\ c = F(r, x) /\ c.w = r
  BY FieldsAre
<1> QED
  BY <1>1 DEF Layout, Exactly, Fits

LEMMA LayoutOf4 ==
    ASSUME NEW p \in Nat, NEW v \in Nat, NEW q \in Nat, NEW w \in Nat, NEW r \in Nat, NEW x \in Nat,
           NEW s \in Nat, NEW y \in Nat
    PROVE  Layout(<<p, q, r, s>>, <<F(p, v), F(q, w), F(r, x), F(s, y)>>)
<1>1. PICK a \in Field, b \in Field, c \in Field, d \in Field :
        a = F(p, v) /\ a.w = p /\ b = F(q, w) /\ b.w = q /\ c = F(r, x) /\ c.w = r /\ d = F(s, y) /\ d.w = s
  BY FieldsAre
<1> QED
  BY <1>1 DEF Layout, Exactly, Fits

LEMMA BreakpointLayout ==
    Layout(<<4, 4, 4, 8, 4, 4>>, <<F(4, 1), F(4, 1), F(4, 0), F(8, 0), F(4, 0), F(4, 1)>>)
<1>1. PICK ps, fields : ps = <<4, 4, 4, 8, 4, 4>> /\ fields = <<F(4, 1), F(4, 1), F(4, 0), F(8, 0), F(4, 0), F(4, 1)>>
  OBVIOUS
<1>2. ps \in Seq(Nat) \ {<<>>} /\ Len(ps) = 6 /\ ps[1] = 4 /\ ps[2] = 4 /\ ps[3] = 4 /\ ps[4] = 8 /\ ps[5] = 4 /\ ps[6] = 4
  BY <1>1
<1>3. fields \in Seq(Field) /\ Len(fields) = 6
  BY <1>1, FieldsAre
<1>4. fields[1].w = 4 /\ fields[2].w = 4 /\ fields[3].w = 4 /\ fields[4].w = 8 /\ fields[5].w = 4 /\ fields[6].w = 4
  BY <1>1, FieldsAre
<1>5. Fits(ps, fields)
  BY <1>2, <1>3, <1>4 DEF Fits
<1> QED
  BY <1>1, <1>2, <1>3, <1>5 DEF Layout, Exactly

\* A plain call, by the layout of its parameters.
LEMMA LaidOutReady ==
    ASSUME NEW q, NEW op, NEW cmd \in Nat, NEW fields, NEW ws \in Seq(Nat) \ {<<>>}, NEW then,
           NEW limit \in Nat, q = Call(op, cmd, fields, <<Read(ws, then)>>, limit), op # "none",
           NEW ps, Parameters(cmd) = <<Plain(ps)>>, Layout(ps, fields), \A arg : FitsAnswers(q, arg)
    PROVE  Ready(q)
  BY PlainCallReady DEF Layout

LEMMA SentAs ==
    ASSUME NEW q, NEW op, NEW cmd \in Nat, NEW fields \in Seq(Field), NEW recv, NEW limit, q = Call(op, cmd, fields, recv, limit)
    PROVE  CmdOf(q) = cmd /\ q.want = recv /\ q.limit = limit
  BY CallSends DEF Sends, Asks

Widths == << 4 >> \in Seq(Nat) \ {<<>>} /\ << 8 >> \in Seq(Nat) \ {<<>>} /\ << 1 >> \in Seq(Nat) \ {<<>>} /\ <<4, 1>> \in Seq(Nat) \ {<<>>}
LEMMA WidthsAre == Widths
  BY DEF Widths

\* The calls that are answered with a result of four bytes.
LEMMA ResultCallReady ==
    ASSUME NEW q, NEW op, NEW cmd \in Nat, NEW fields, q = Call(op, cmd, fields, <<Plain(<< 4 >>)>>, 0), op # "none",
           NEW ps, Parameters(cmd) = <<Plain(ps)>>, Layout(ps, fields),
           cmd \in {CMD_OPENPROCESS, CMD_CLOSEHANDLE, CMD_FREE, CMD_STARTDEBUG, CMD_STOPDEBUG, CMD_CONTINUEFROMDEBUGEVENT,
                    CMD_SETBREAKPOINT, CMD_REMOVEBREAKPOINT}
    PROVE  Ready(q)
<1>1. CmdOf(q) = cmd /\ q.want = <<Plain(<< 4 >>)>>
  <2>1. fields \in Seq(Field)
    BY DEF Layout
  <2> QED
    BY <2>1, SentAs
<1>2. \A arg : FitsAnswers(q, arg)
  BY <1>1, ResultAnswers
<1>3. <<Plain(<< 4 >>)>> = <<Read(<< 4 >>, "nothing")>> /\ 0 \in Nat
  BY DEF Plain
<1> QED
  BY <1>2, <1>3, WidthsAre, LaidOutReady DEF Widths

LEMMA ResultCallsReady ==
    /\ Ready(openProcess) /\ Ready(closeHandle) /\ Ready(freeMemory) /\ Ready(startDebug) /\ Ready(stopDebug)
    /\ Ready(continueFromDebugEvent) /\ Ready(setRemoteBreakpoint) /\ Ready(removeRemoteBreakpoint)
<1>1. Layout(<< 4 >>, <<F(4, 1)>>)
  BY LayoutOf1
<1>2. Layout(<<4, 8, 4>>, <<F(4, 1), F(8, 0), F(4, 1)>>)
  BY LayoutOf3
<1>3. Layout(<<4, 4, 4>>, <<F(4, 1), F(4, 1), F(4, 0)>>)
  BY LayoutOf3
<1>4. Layout(<<4, 4, 4, 4>>, <<F(4, 1), F(4, 1), F(4, 0), F(4, 0)>>)
  BY LayoutOf4
<1>5. {CMD_OPENPROCESS, CMD_CLOSEHANDLE, CMD_FREE, CMD_STARTDEBUG, CMD_STOPDEBUG, CMD_CONTINUEFROMDEBUGEVENT,
       CMD_SETBREAKPOINT, CMD_REMOVEBREAKPOINT} \subseteq Nat
  BY DEF CMD_OPENPROCESS, CMD_CLOSEHANDLE, CMD_FREE, CMD_STARTDEBUG, CMD_STOPDEBUG, CMD_CONTINUEFROMDEBUGEVENT,
         CMD_SETBREAKPOINT, CMD_REMOVEBREAKPOINT
<1>6. Ready(openProcess)
  BY <1>1, <1>5, ParametersAre, ResultCallReady DEF openProcess
<1>7. Ready(closeHandle)
  BY <1>1, <1>5, ParametersAre, ResultCallReady DEF closeHandle
<1>8. Ready(freeMemory)
  BY <1>2, <1>5, ParametersAre, ResultCallReady DEF freeMemory
<1>9. Ready(startDebug)
  BY <1>1, <1>5, ParametersAre, ResultCallReady DEF startDebug
<1>10. Ready(stopDebug)
  BY <1>1, <1>5, ParametersAre, ResultCallReady DEF stopDebug
<1>11. Ready(continueFromDebugEvent)
  BY <1>3, <1>5, ParametersAre, ResultCallReady DEF continueFromDebugEvent
<1>12. Ready(setRemoteBreakpoint)
  BY <1>5, BreakpointLayout, ParametersAre, ResultCallReady DEF setRemoteBreakpoint
<1>13. Ready(removeRemoteBreakpoint)
  BY <1>4, <1>5, ParametersAre, ResultCallReady DEF removeRemoteBreakpoint
<1> QED
  BY <1>6, <1>7, <1>8, <1>9, <1>10, <1>11, <1>12, <1>13

\* Calls the server does not know; it hangs up on them.
LEMMA UnknownReady ==
    ASSUME NEW q, NEW op, NEW cmd \in Nat, NEW fields \in Seq(Field), NEW ws \in Seq(Nat) \ {<<>>}, NEW then,
           NEW limit \in Nat, q = Call(op, cmd, fields, <<Read(ws, then)>>, limit), op # "none", cmd \notin ServedCommands
    PROVE  Ready(q)
  BY CallReady

Unknown == {CMD_VIRTUALQUERYEX, CMD_CHANGEMEMORYPROTECTION, CMD_SPEEDHACK_SETSPEED, CMD_GETSYMBOLLISTFROMFILE,
            CMD_SUSPENDTHREAD, CMD_RESUMETHREAD, CMD_GETTHREADCONTEXT, CMD_SETTHREADCONTEXT}
LEMMA UnknownAre == Unknown \subseteq Nat /\ Unknown \cap ServedCommands = {}
  BY DEF Unknown, ServedCommands, CMD_VIRTUALQUERYEX, CMD_CHANGEMEMORYPROTECTION, CMD_SPEEDHACK_SETSPEED,
         CMD_GETSYMBOLLISTFROMFILE, CMD_SUSPENDTHREAD, CMD_RESUMETHREAD, CMD_GETTHREADCONTEXT, CMD_SETTHREADCONTEXT,
         CMD_GETVERSION, CMD_OPENPROCESS, CMD_CLOSEHANDLE, CMD_READPROCESSMEMORY, CMD_WRITEPROCESSMEMORY,
         CMD_STARTDEBUG, CMD_STOPDEBUG, CMD_WAITFORDEBUGEVENT, CMD_CONTINUEFROMDEBUGEVENT, CMD_SETBREAKPOINT,
         CMD_REMOVEBREAKPOINT, CMD_GETARCHITECTURE, CMD_ALLOC, CMD_FREE, CMD_VIRTUALQUERYEXFULL,
         CMD_CREATETOOLHELP32SNAPSHOTEX

LEMMA UnknownCallsReady ==
    /\ Ready(virtualQueryEx) /\ Ready(changeMemoryProtection) /\ Ready(speedhackSetSpeed)
    /\ Ready(suspendThread) /\ Ready(resumeThread) /\ Ready(getThreadContext)
    /\ \A size \in Nat : Ready(setThreadContext(size)) /\ Ready(getSymbolListFromFile(size))
<1>1. /\ <<F(4, 1), F(8, 0)>> \in Seq(Field) /\ <<F(4, 1), F(4, 1)>> \in Seq(Field) /\ <<F(4, 1), F(4, 2)>> \in Seq(Field)
      /\ <<F(4, 1), F(8, 0), F(4, 1), F(4, 64)>> \in Seq(Field)
  BY FieldsAre
<1>2. \A size \in Nat : <<F(4, 1), F(4, 1), F(4, size), F(size, 0)>> \in Seq(Field) /\ <<F(4, 0), F(4, size), F(size, 0)>> \in Seq(Field)
  BY FieldsAre
<1>3. <<1, 4, 4, 8, 8>> \in Seq(Nat) \ {<<>>} /\ <<4, 4>> \in Seq(Nat) \ {<<>>} /\ << 4 >> \in Seq(Nat) \ {<<>>} /\ << 8 >> \in Seq(Nat) \ {<<>>}
  OBVIOUS
<1>4. 2^20 \in Nat /\ 2^28 \in Nat /\ 0 \in Nat
  OBVIOUS
<1>5. Ready(virtualQueryEx)
  BY <1>1, <1>3, <1>4, UnknownAre, UnknownReady DEF virtualQueryEx, Unknown, Plain
<1>6. Ready(changeMemoryProtection)
  BY <1>1, <1>3, <1>4, UnknownAre, UnknownReady DEF changeMemoryProtection, Unknown, Plain
<1>7. Ready(speedhackSetSpeed)
  BY <1>1, <1>3, <1>4, UnknownAre, UnknownReady DEF speedhackSetSpeed, Unknown, Plain
<1>8. Ready(suspendThread)
  BY <1>1, <1>3, <1>4, UnknownAre, UnknownReady DEF suspendThread, Unknown, Plain
<1>9. Ready(resumeThread)
  BY <1>1, <1>3, <1>4, UnknownAre, UnknownReady DEF resumeThread, Unknown, Plain
<1>10. Ready(getThreadContext)
  BY <1>1, <1>3, <1>4, UnknownAre, UnknownReady DEF getThreadContext, Unknown
<1>11. ASSUME NEW size \in Nat PROVE Ready(setThreadContext(size))
  BY <1>2, <1>3, <1>4, UnknownAre, UnknownReady DEF setThreadContext, Unknown, Plain
<1>12. ASSUME NEW size \in Nat PROVE Ready(getSymbolListFromFile(size))
  BY <1>2, <1>3, <1>4, UnknownAre, UnknownReady DEF getSymbolListFromFile, Unknown
<1> QED
  BY <1>5, <1>6, <1>7, <1>8, <1>9, <1>10, <1>11, <1>12

\* Calls with an answer of their own.
LEMMA ArchitectureReady == Ready(getArchitecture)
<1>1. PICK q : q = getArchitecture
  OBVIOUS
<1>2. q = Call("getArchitecture", CMD_GETARCHITECTURE, <<F(4, 1)>>, <<Plain(<< 1 >>)>>, 0)
  BY <1>1 DEF getArchitecture
<1>3. Layout(<< 4 >>, <<F(4, 1)>>) /\ CMD_GETARCHITECTURE \in Nat
  BY LayoutOf1 DEF CMD_GETARCHITECTURE
<1>4. CmdOf(q) = CMD_GETARCHITECTURE /\ q.want = <<Plain(<< 1 >>)>> /\ q.limit = 0
  <2>1. PICK fields, recv : fields = <<F(4, 1)>> /\ recv = <<Plain(<< 1 >>)>>
    OBVIOUS
  <2>2. fields \in Seq(Field)
    BY <2>1, FieldsAre
  <2>3. q = Call("getArchitecture", CMD_GETARCHITECTURE, fields, recv, 0)
    BY <1>2, <2>1
  <2>4. CmdOf(q) = CMD_GETARCHITECTURE /\ q.want = recv /\ q.limit = 0
    BY <1>3, <2>2, <2>3, SentAs
  <2> QED
    BY <2>1, <2>4
<1>5. \A arg : FitsAnswers(q, arg)
  BY <1>4, WidthAnswers
<1> QED
  BY <1>1, <1>2, <1>3, <1>5, ParametersAre, WidthsAre, LaidOutReady DEF Plain, Widths

LEMMA AllocateReady == Ready(allocateMemory)
<1>1. PICK q : q = allocateMemory
  OBVIOUS
<1>2. q = Call("allocateMemory", CMD_ALLOC, <<F(4, 1), F(8, 0), F(4, 1), F(4, 64)>>, <<Plain(<< 8 >>)>>, 0)
  BY <1>1 DEF allocateMemory
<1>3. Layout(<<4, 8, 4, 4>>, <<F(4, 1), F(8, 0), F(4, 1), F(4, 64)>>) /\ CMD_ALLOC \in Nat
  BY LayoutOf4 DEF CMD_ALLOC
<1>4. CmdOf(q) = CMD_ALLOC /\ q.want = <<Plain(<< 8 >>)>> /\ q.limit = 0
  <2>1. PICK fields, recv : fields = <<F(4, 1), F(8, 0), F(4, 1), F(4, 64)>> /\ recv = <<Plain(<< 8 >>)>>
    OBVIOUS
  <2>2. fields \in Seq(Field)
    BY <2>1, FieldsAre
  <2>3. q = Call("allocateMemory", CMD_ALLOC, fields, recv, 0)
    BY <1>2, <2>1
  <2>4. CmdOf(q) = CMD_ALLOC /\ q.want = recv /\ q.limit = 0
    BY <1>3, <2>2, <2>3, SentAs
  <2> QED
    BY <2>1, <2>4
<1>5. \A arg : FitsAnswers(q, arg)
  BY <1>4, WidthAnswers
<1> QED
  BY <1>1, <1>2, <1>3, <1>5, ParametersAre, WidthsAre, LaidOutReady DEF Plain, Widths

LEMMA WaitReady == Ready(waitForDebugEvent)
<1>1. PICK q : q = waitForDebugEvent
  OBVIOUS
<1>2. q = Call("waitForDebugEvent", CMD_WAITFORDEBUGEVENT, <<F(4, 1), F(4, 100)>>, <<Read(<< 4 >>, "event")>>, 1)
  BY <1>1 DEF waitForDebugEvent
<1>3. Layout(<<4, 4>>, <<F(4, 1), F(4, 100)>>) /\ CMD_WAITFORDEBUGEVENT \in Nat
  BY LayoutOf2 DEF CMD_WAITFORDEBUGEVENT
<1>4. CmdOf(q) = CMD_WAITFORDEBUGEVENT /\ q.want = <<Read(<< 4 >>, "event")>> /\ q.limit = 1
  <2>1. PICK fields, recv : fields = <<F(4, 1), F(4, 100)>> /\ recv = <<Read(<< 4 >>, "event")>>
    OBVIOUS
  <2>2. fields \in Seq(Field)
    BY <2>1, FieldsAre
  <2>3. q = Call("waitForDebugEvent", CMD_WAITFORDEBUGEVENT, fields, recv, 1)
    BY <1>2, <2>1
  <2>4. CmdOf(q) = CMD_WAITFORDEBUGEVENT /\ q.want = recv /\ q.limit = 1
    BY <1>3, <2>2, <2>3, SentAs
  <2> QED
    BY <2>1, <2>4
<1>5. \A arg : FitsAnswers(q, arg)
  BY <1>4, WidthAnswers
<1> QED
  BY <1>1, <1>2, <1>3, <1>5, ParametersAre, WidthsAre, LaidOutReady DEF Widths

LEMMA RegionsReady == Ready(virtualQueryExFull)
<1>1. PICK q : q = virtualQueryExFull
  OBVIOUS
<1>2. q = Call("virtualQueryExFull", CMD_VIRTUALQUERYEXFULL, <<F(4, 1), F(1, 0)>>, <<Read(<< 4 >>, "regions")>>, 2^20)
  BY <1>1 DEF virtualQueryExFull
<1>3. Layout(<<4, 1>>, <<F(4, 1), F(1, 0)>>) /\ CMD_VIRTUALQUERYEXFULL \in Nat /\ 2^20 \in Nat
  BY LayoutOf2 DEF CMD_VIRTUALQUERYEXFULL
<1>4. CmdOf(q) = CMD_VIRTUALQUERYEXFULL /\ q.want = <<Read(<< 4 >>, "regions")>> /\ q.limit = 2^20
  <2>1. PICK fields, recv : fields = <<F(4, 1), F(1, 0)>> /\ recv = <<Read(<< 4 >>, "regions")>>
    OBVIOUS
  <2>2. fields \in Seq(Field)
    BY <2>1, FieldsAre
  <2>3. q = Call("virtualQueryExFull", CMD_VIRTUALQUERYEXFULL, fields, recv, 2^20)
    BY <1>2, <2>1
  <2>4. CmdOf(q) = CMD_VIRTUALQUERYEXFULL /\ q.want = recv /\ q.limit = 2^20
    BY <1>3, <2>2, <2>3, SentAs
  <2> QED
    BY <2>1, <2>4
<1>5. \A arg : FitsAnswers(q, arg)
  BY <1>4, ListAnswers DEF Longest
<1> QED
  BY <1>1, <1>2, <1>3, <1>5, ParametersAre, WidthsAre, LaidOutReady DEF Widths

LEMMA VersionReady == Ready(getVersion)
<1>1. PICK q : q = getVersion
  OBVIOUS
<1>2. q = Call("getVersion", CMD_GETVERSION, <<>>, <<Read(<<4, 1>>, "bytes")>>, 255)
  BY <1>1 DEF getVersion
<1>3. <<>> \in Seq(Field) /\ CMD_GETVERSION \in Nat
  BY DEF CMD_GETVERSION
<1>4. CmdOf(q) = CMD_GETVERSION /\ q.want = <<Read(<<4, 1>>, "bytes")>> /\ q.limit = 255
  <2>1. PICK fields, recv : fields = <<>> /\ recv = <<Read(<<4, 1>>, "bytes")>>
    OBVIOUS
  <2>2. fields \in Seq(Field)
    BY <2>1, FieldsAre
  <2>3. q = Call("getVersion", CMD_GETVERSION, fields, recv, 255)
    BY <1>2, <2>1
  <2>4. CmdOf(q) = CMD_GETVERSION /\ q.want = recv /\ q.limit = 255
    BY <1>3, <2>2, <2>3, SentAs
  <2> QED
    BY <2>1, <2>4
<1>5. \A arg : FitsAnswers(q, arg)
  BY <1>4, WidthAnswers
<1>6. \A arg : Parametrized(Parameters(CMD_GETVERSION), arg, <<>>, q)
  BY <1>5, ParametersAre DEF Parametrized
<1>7. PICK fields, ws : fields = <<>> /\ ws = <<4, 1>>
  OBVIOUS
<1>8. q = Call("getVersion", CMD_GETVERSION, fields, <<Read(ws, "bytes")>>, 255) /\ fields \in Seq(Field)
  BY <1>2, <1>3, <1>7
<1>9. ws \in Seq(Nat) \ {<<>>}
  BY <1>7, WidthsAre DEF Widths
<1>10. \A arg : Parametrized(Parameters(CMD_GETVERSION), arg, fields, q)
  BY <1>6, <1>7
<1> QED
  BY <1>1, <1>3, <1>8, <1>9, <1>10, CallReady

\* Calls whose second read depends on the first.
LEMMA SizedReady ==
    ASSUME NEW q, NEW op, NEW cmd \in Nat, NEW fields \in Seq(Field), NEW then,
           NEW limit \in Nat, q = Call(op, cmd, fields, <<Read(<< 4 >>, then)>>, limit), op # "none",
           NEW ws \in Seq(Nat) \ {<<>>}, NEW us \in Seq(Nat) \ {<<>>},
           Parameters(cmd) = <<Read(ws, "arg"), Plain(us)>>,
           Fits(ws, fields), Len(fields) = Len(ws) + Len(us),
           \A i \in 1 .. Len(us) : fields[Len(ws) + i].w = us[i],
           FitsAnswers(q, fields[Len(ws)].v)
    PROVE  Ready(q)
<1>1. SizedParameters(Parameters(cmd), fields, q)
  BY DEF SizedParameters
<1>2. \A arg : Parametrized(Parameters(cmd), arg, fields, q)
  BY <1>1 DEF Parametrized
<1> QED
  BY <1>2, WidthsAre, CallReady DEF Widths

LEMMA SnapshotReady ==
    ASSUME NEW q, NEW op, op # "none", NEW kind \in Nat, NEW then,
           q = Call(op, CMD_CREATETOOLHELP32SNAPSHOTEX, <<F(4, kind), F(4, 1)>>, <<Read(<< 4 >>, then)>>, 2^20),
           FitsAnswers(q, kind)
    PROVE  Ready(q)
<1>1. PICK ws : ws = << 4 >>
  OBVIOUS
<1>2. PICK fields : fields = <<F(4, kind), F(4, 1)>>
  OBVIOUS
<1>3. PICK n \in Nat : n = 1
  OBVIOUS
<1>4. ws \in Seq(Nat) \ {<<>>} /\ Len(ws) = n /\ ws[1] = 4
  BY <1>1, <1>3
<1>5. fields \in Seq(Field) /\ Len(fields) = n + n /\ fields[1].w = 4 /\ fields[1].v = kind /\ fields[2].w = 4
  BY <1>2, <1>3, FieldsAre
<1>6. Fits(ws, fields)
  BY <1>3, <1>4, <1>5 DEF Fits
<1>7. \A i \in 1 .. Len(ws) : fields[Len(ws) + i].w = ws[i]
  BY <1>3, <1>4, <1>5
<1>8. Parameters(CMD_CREATETOOLHELP32SNAPSHOTEX) = <<Read(ws, "arg"), Plain(ws)>>
  BY <1>1, ParametersAre
<1>9. FitsAnswers(q, fields[Len(ws)].v)
  BY <1>3, <1>4, <1>5
<1>10. q = Call(op, CMD_CREATETOOLHELP32SNAPSHOTEX, fields, <<Read(<< 4 >>, then)>>, 2^20)
  BY <1>2
<1>11. CMD_CREATETOOLHELP32SNAPSHOTEX \in Nat /\ 2^20 \in Nat
  BY DEF CMD_CREATETOOLHELP32SNAPSHOTEX
<1>12. Len(fields) = Len(ws) + Len(ws)
  BY <1>4, <1>5
<1> QED
  BY <1>4, <1>5, <1>6, <1>7, <1>8, <1>9, <1>10, <1>11, <1>12, SizedReady

LEMMA SnapshotSent ==
    ASSUME NEW q, NEW op, NEW kind \in Nat, NEW recv,
           q = Call(op, CMD_CREATETOOLHELP32SNAPSHOTEX, <<F(4, kind), F(4, 1)>>, recv, 2^20)
    PROVE  CmdOf(q) = CMD_CREATETOOLHELP32SNAPSHOTEX /\ q.want = recv /\ Longest(q.limit)
<1>1. <<F(4, kind), F(4, 1)>> \in Seq(Field)
  BY FieldsAre
<1>2. CMD_CREATETOOLHELP32SNAPSHOTEX \in Nat
  BY DEF CMD_CREATETOOLHELP32SNAPSHOTEX
<1>3. PICK fields : fields = <<F(4, kind), F(4, 1)>>
  OBVIOUS
<1>4. q = Call(op, CMD_CREATETOOLHELP32SNAPSHOTEX, fields, recv, 2^20) /\ fields \in Seq(Field)
  BY <1>1, <1>3
<1>5. CmdOf(q) = CMD_CREATETOOLHELP32SNAPSHOTEX /\ q.want = recv /\ q.limit = 2^20
  BY <1>2, <1>4, SentAs
<1> QED
  BY <1>5 DEF Longest

LEMMA ListsReady == Ready(enumModules) /\ Ready(enumThreads)
<1>1. Ready(enumModules)
  <2>1. PICK q : q = enumModules
    OBVIOUS
  <2>2. PICK recv : recv = <<Read(<< 4 >>, "module")>>
    OBVIOUS
  <2>3. PICK kind \in Nat : kind = TH32CS_SNAPMODULE
    BY DEF TH32CS_SNAPMODULE
  <2>4. q = Call("enumModules", CMD_CREATETOOLHELP32SNAPSHOTEX, <<F(4, kind), F(4, 1)>>, recv, 2^20)
    BY <2>1, <2>2, <2>3 DEF enumModules
  <2>5. CmdOf(q) = CMD_CREATETOOLHELP32SNAPSHOTEX /\ q.want = recv /\ Longest(q.limit)
    BY <2>4, SnapshotSent
  <2>6. FitsAnswers(q, kind)
    BY <2>2, <2>3, <2>5, ListAnswers
  <2> QED
    BY <2>1, <2>2, <2>4, <2>6, SnapshotReady
<1>2. Ready(enumThreads)
  <2>1. PICK q : q = enumThreads
    OBVIOUS
  <2>2. PICK recv : recv = <<Read(<< 4 >>, "tids")>>
    OBVIOUS
  <2>3. PICK kind \in Nat : kind = TH32CS_SNAPTHREAD
    BY DEF TH32CS_SNAPTHREAD
  <2>4. q = Call("enumThreads", CMD_CREATETOOLHELP32SNAPSHOTEX, <<F(4, kind), F(4, 1)>>, recv, 2^20)
    BY <2>1, <2>2, <2>3 DEF enumThreads
  <2>5. CmdOf(q) = CMD_CREATETOOLHELP32SNAPSHOTEX /\ q.want = recv /\ Longest(q.limit)
    BY <2>4, SnapshotSent
  <2>6. FitsAnswers(q, kind)
    BY <2>2, <2>3, <2>5, ListAnswers
  <2> QED
    BY <2>1, <2>2, <2>4, <2>6, SnapshotReady
<1> QED
  BY <1>1, <1>2

LEMMA ReadReady == \A size \in Nat : Ready(readProcessMemory(size))
<1>1. SUFFICES ASSUME NEW size \in Nat PROVE Ready(readProcessMemory(size))
  OBVIOUS
<1>2. PICK q : q = readProcessMemory(size)
  OBVIOUS
<1>3. PICK ws, us, fields : ws = <<4, 8, 4>> /\ us = << 1 >> /\ fields = <<F(4, 1), F(8, 0), F(4, size), F(1, 0)>>
  OBVIOUS
<1>4. PICK n \in Nat : n = 3
  OBVIOUS
<1>5. ws \in Seq(Nat) \ {<<>>} /\ Len(ws) = n /\ ws[1] = 4 /\ ws[2] = 8 /\ ws[3] = 4
  BY <1>3, <1>4
<1>6. us \in Seq(Nat) \ {<<>>} /\ Len(us) = 1 /\ us[1] = 1
  BY <1>3
<1>7. fields \in Seq(Field) /\ Len(fields) = n + 1
  BY <1>3, <1>4, FieldsAre
<1>8. fields[1].w = 4 /\ fields[2].w = 8 /\ fields[3].w = 4 /\ fields[3].v = size /\ fields[4].w = 1
  BY <1>3, FieldsAre
<1>9. Fits(ws, fields)
  BY <1>4, <1>5, <1>7, <1>8 DEF Fits
<1>10. \A i \in 1 .. Len(us) : fields[Len(ws) + i].w = us[i]
  BY <1>4, <1>5, <1>6, <1>8
<1>11. PICK recv : recv = <<Read(<< 4 >>, "bytes")>>
  OBVIOUS
<1>12. q = Call("readProcessMemory", CMD_READPROCESSMEMORY, fields, recv, size)
  BY <1>2, <1>3, <1>11 DEF readProcessMemory
<1>13. CMD_READPROCESSMEMORY \in Nat
  BY DEF CMD_READPROCESSMEMORY
<1>14. CmdOf(q) = CMD_READPROCESSMEMORY /\ q.want = recv /\ q.limit = size
  BY <1>7, <1>12, <1>13, SentAs
<1>15. FitsAnswers(q, fields[Len(ws)].v)
  BY <1>4, <1>5, <1>8, <1>11, <1>14, BulkAnswers
<1>16. Parameters(CMD_READPROCESSMEMORY) = <<Read(ws, "arg"), Plain(us)>>
  BY <1>3, ParametersAre
<1>17. Len(fields) = Len(ws) + Len(us)
  BY <1>5, <1>6, <1>7
<1> QED
  BY <1>2, <1>5, <1>6, <1>7, <1>9, <1>10, <1>11, <1>12, <1>13, <1>15, <1>16, <1>17, SizedReady

LEMMA WriteReady == \A size \in Nat \ {0} : Ready(writeProcessMemory(size))
<1>1. SUFFICES ASSUME NEW size \in Nat \ {0} PROVE Ready(writeProcessMemory(size))
  OBVIOUS
<1>2. PICK q : q = writeProcessMemory(size)
  OBVIOUS
<1>3. PICK fields : fields = <<F(4, 1), F(8, 0), F(4, size)>> \o <<F(size, 0)>>
  OBVIOUS
<1>4. PICK n \in Nat : n = 3
  OBVIOUS
<1>5. PICK s : s = <<F(4, 1), F(8, 0), F(4, size)>>
  OBVIOUS
<1>6. s \in Seq(Field) /\ Len(s) = n /\ s[1].w = 4 /\ s[2].w = 8 /\ s[3].w = 4 /\ s[3].v = size
  BY <1>4, <1>5, FieldsAre
<1>7. PICK t : t = <<F(size, 0)>>
  OBVIOUS
<1>8. t \in Seq(Field) /\ Len(t) = 1 /\ t[1].w = size
  BY <1>7, FieldsAre
<1>9. fields = s \o t
  BY <1>3, <1>5, <1>7
<1>10. fields \in Seq(Field) /\ Len(fields) = n + 1
  BY <1>6, <1>8, <1>9, ConcatProperties
<1>11. \A i \in 1 .. n : fields[i] = s[i]
  BY <1>6, <1>8, <1>9
<1>12. fields[n + 1] = t[1]
  <2>1. PICK k \in 1 .. Len(s) + Len(t) : k = n + 1 /\ ~(k <= Len(s)) /\ k - Len(s) = 1
    BY <1>6, <1>8
  <2>2. fields[k] = t[k - Len(s)]
    BY <1>6, <1>8, <1>9, <2>1, ConcatProperties
  <2> QED
    BY <2>1, <2>2
<1>13. fields[1].w = 4 /\ fields[2].w = 8 /\ fields[3].w = 4 /\ fields[3].v = size /\ fields[4].w = size
  BY <1>4, <1>6, <1>8, <1>11, <1>12
<1>14. PICK ws : ws = <<4, 8, 4>>
  OBVIOUS
<1>15. Len(ws) = 3 /\ ws[1] = 4 /\ ws[2] = 8 /\ ws[3] = 4
  BY <1>14
<1>16. Fits(ws, fields)
  BY <1>4, <1>10, <1>13, <1>15 DEF Fits
<1>17. PICK recv : recv = <<Read(<< 4 >>, "count")>>
  OBVIOUS
<1>18. q = Call("writeProcessMemory", CMD_WRITEPROCESSMEMORY, fields, recv, size)
  <2>1. size > 0
    OBVIOUS
  <2> QED
    BY <1>2, <1>3, <1>17, <2>1 DEF writeProcessMemory
<1>19. CMD_WRITEPROCESSMEMORY \in Nat
  BY DEF CMD_WRITEPROCESSMEMORY
<1>20. CmdOf(q) = CMD_WRITEPROCESSMEMORY /\ q.want = recv /\ q.limit = size
  BY <1>10, <1>18, <1>19, SentAs
<1>21. FitsAnswers(q, fields[3].v)
  BY <1>13, <1>17, <1>20, BulkAnswers
<1>22. WriteParameters(Parameters(CMD_WRITEPROCESSMEMORY), fields, q)
  <2>1. Parameters(CMD_WRITEPROCESSMEMORY) = <<Read(<<4, 8, 4>>, "bytes")>>
    BY ParametersAre
  <2>2. Fits(<<4, 8, 4>>, fields)
    BY <1>14, <1>16
  <2>3. Len(fields) = 4 /\ fields[4].w = fields[3].v /\ fields[3].v # 0
    BY <1>4, <1>10, <1>13
  <2> QED
    BY <1>21, <2>1, <2>2, <2>3 DEF WriteParameters
<1>23. \A arg : Parametrized(Parameters(CMD_WRITEPROCESSMEMORY), arg, fields, q)
  BY <1>22 DEF Parametrized
<1> QED
  BY <1>2, <1>10, <1>17, <1>18, <1>19, <1>23, WidthsAre, CallReady DEF Widths

LEMMA CallsReady == \A q \in Calls : Ready(q)
<1>1. MaxCount \in Nat /\ \A n \in 1 .. MaxCount : n \in Nat \ {0}
  BY CountAssumption
<1>2. ASSUME NEW q \in MemoryCalls PROVE Ready(q)
  <2>1. CASE \E n \in 1 .. MaxCount : q = readProcessMemory(n)
    BY <1>1, <2>1, ReadReady
  <2>2. CASE \E n \in 1 .. MaxCount : q = writeProcessMemory(n)
    BY <1>1, <2>2, WriteReady
  <2>3. CASE q = getSymbolListFromFile(MaxCount)
    BY <1>1, <2>3, UnknownCallsReady
  <2>4. CASE q \in {getVersion, virtualQueryEx, virtualQueryExFull, enumModules, enumThreads,
                    allocateMemory, freeMemory, changeMemoryProtection, speedhackSetSpeed}
    BY <2>4, UnknownCallsReady, ResultCallsReady, AllocateReady, RegionsReady, VersionReady, ListsReady
  <2> QED
    BY <2>1, <2>2, <2>3, <2>4, Zenon DEF MemoryCalls
<1>3. ASSUME NEW q \in DebugCalls PROVE Ready(q)
  <2>1. CASE q = setThreadContext(MaxCount)
    BY <1>1, <2>1, UnknownCallsReady
  <2>2. CASE q \in {waitForDebugEvent, continueFromDebugEvent, setRemoteBreakpoint, removeRemoteBreakpoint,
                    suspendThread, resumeThread, getThreadContext}
    BY <2>2, UnknownCallsReady, ResultCallsReady, WaitReady
  <2> QED
    BY <2>1, <2>2, Zenon DEF DebugCalls
<1> QED
  BY <1>2, <1>3, ResultCallsReady, ArchitectureReady, Zenon DEF Calls

-----------------------------------------------------------------------------
(***************************************************************************)
(* A connection, from both ends.                                           *)
(*                                                                         *)
(* InStep is not inductive: what a read meets depends on what the other    *)
(* side still has to read or to send.  While the connection holds, one of  *)
(* three things is true: nothing is on its way and the server waits for a  *)
(* command (Quiet), the server has some of one call still to read or owes  *)
(* its answer (Asked), or what has come down is all of the answer          *)
(* (Answered).  Once it is cut each side sees only a prefix of what it     *)
(* would have seen, and the two no longer depend on each other.            *)
(***************************************************************************)

Prefix(s, f) == Len(s) <= Len(f) /\ \A i \in 1 .. Len(s) : s[i] = f[i]

\* The worker is between two commands of the connection, or elsewhere.
Waiting(w) == w.at = "gone" \/ (w.at = "command" /\ w.want = <<CommandRead>>)
\* Of call q the worker has f still to read, or owes the answer.
Pending(q, w, f) ==
    \/ Waiting(w) /\ f = q.send
    \/ w.at = "parameters" /\ w.cmd = CmdOf(q) /\ Parametrized(w.want, w.arg, f, q)
    \/ /\ w.at \in {"join", "cleared"} /\ w.cmd = CmdOf(q) /\ w.cmd \in {CMD_STARTDEBUG, CMD_STOPDEBUG}
       /\ f = <<>> /\ FitsAnswers(q, w.arg)

\* On a connection that holds a call is not begun, asked, or answered; ...
Quiet(cl, u, d, w) == cl = Idle /\ u = <<>> /\ d = <<>> /\ Waiting(w)
Asked(cl, u, d, w) == d = <<>> /\ \E q \in Calls : cl = Begun(q) /\ Pending(q, w, u)
Answered(cl, u, d, w) ==
    cl.op # "none" /\ cl.want # <<>> /\ u = <<>> /\ Waiting(w) /\ Complete(cl.want, cl.limit, d)

\* ... on one that is cut each side has a part of what was on its way.
ServerSide(u, w) == \E q \in Calls, f \in Seq(Field) : Pending(q, w, f) /\ Prefix(u, f)
Owing(cl, f) == (f = <<>> /\ Len(Head(cl.want).ws) \in Nat \ {0}) \/ Complete(cl.want, cl.limit, f)
ClientSide(cl, d) == cl.op # "none" => cl.want # <<>> /\ \E f \in Seq(Field) : Owing(cl, f) /\ Prefix(d, f)

Shaped(cl) == cl = [op |-> cl.op, want |-> cl.want, limit |-> cl.limit] /\ cl.limit \in Nat
Conn(k, cl, u, d, w) ==
    /\ Shaped(cl) /\ u \in Seq(Field) /\ d \in Seq(Field)
    /\ \/ k = "none" /\ Quiet(cl, u, d, w)
       \/ k = "open" /\ (Quiet(cl, u, d, w) \/ Asked(cl, u, d, w) \/ Answered(cl, u, d, w))
       \/ /\ k \in {"cut", "closed"} /\ ServerSide(u, w) /\ ClientSide(cl, d)
          /\ k = "closed" => cl.op = "none"

Serves(w, c) == w.at \notin {"gone", "accept"} /\ w.conn = c
Hand(c) == IF Serves(worker, c) THEN worker ELSE Away
\* Nothing is claimed of a connection once calls on it have overlapped.
Connected(c) == c \notin overlapped => Conn(sock[c], call[c], up[c], down[c], Hand(c))

StreamInv ==
    /\ ~garbled
    /\ worker.at \notin {"gone", "accept"} => worker.conn \in Clients
    /\ backlog \in Seq(Clients)
    /\ sock = [c \in Clients |-> sock[c]] /\ call = [c \in Clients |-> call[c]]
    /\ up = [c \in Clients |-> up[c]] /\ down = [c \in Clients |-> down[c]]
    /\ \A c \in Clients : Connected(c)

\* A read whose widths are a sequence.
Spelled(read) == read.ws \in Seq(Nat)

LEMMA SpelledRead == \A then : \A ws \in Seq(Nat) : Spelled(Read(ws, then)) /\ Spelled(Plain(ws))
  BY DEF Spelled, Read, Plain

LEMMA SpelledSeries ==
    ASSUME NEW read, Spelled(read), NEW want \in Seq({read}), want # <<>>
    PROVE  Spelled(Head(want))
  OBVIOUS

LEMMA HeadOfTwo == \A a, b : Head(<<a, b>>) = a
  OBVIOUS

LEMMA CompleteSpelled ==
    ASSUME NEW want, want # <<>>, NEW limit, NEW s, Complete(want, limit, s)
    PROVE  Spelled(Head(want))
<1>1. /\ << 4 >> \in Seq(Nat) /\ <<4, 1>> \in Seq(Nat) /\ <<4, 4, 8, 8>> \in Seq(Nat) /\ <<8, 4, 4, 4, 4>> \in Seq(Nat)
      /\ <<MaxCount>> \in Seq(Nat)
  BY CountAssumption
<1>2. CASE Result(want, s)
  <2>1. PICK ws \in Seq(Nat) : want = <<Plain(ws)>>
    BY <1>2 DEF Result
  <2> QED
    BY <2>1, OneHead, SpelledRead
<1>3. CASE Count(want, limit, s)
  <2>1. want = <<Read(<< 4 >>, "count")>>
    BY <1>3 DEF Count
  <2> QED
    BY <1>1, <2>1, OneHead, SpelledRead
<1>4. CASE Bytes(want, limit, s)
  <2>1. PICK ws \in {<< 4 >>, <<4, 1>>} : want = <<Read(ws, "bytes")>>
    BY <1>4 DEF Bytes
  <2> QED
    BY <1>1, <2>1, OneHead, SpelledRead
<1>5. CASE Regions(want, limit, s)
  <2>1. CASE want = <<Read(<< 4 >>, "regions")>>
    BY <1>1, <2>1, OneHead, SpelledRead
  <2>2. CASE want \in Seq({Plain(<<4, 4, 8, 8>>)})
    BY <1>1, <2>2, SpelledSeries, SpelledRead
  <2> QED
    BY <1>5, <2>1, <2>2 DEF Regions
<1>6. CASE Tids(want, limit, s)
  <2>1. CASE want = <<Read(<< 4 >>, "tids")>>
    BY <1>1, <2>1, OneHead, SpelledRead
  <2>2. CASE want \in Seq({Plain(<< 4 >>)})
    BY <1>1, <2>2, SpelledSeries, SpelledRead
  <2> QED
    BY <1>6, <2>1, <2>2 DEF Tids
<1>7. CASE Modules(want, limit, s)
  <2>1. CASE want = <<Read(<< 4 >>, "module")>>
    BY <1>1, <2>1, OneHead, SpelledRead
  <2>2. CASE want = <<Read(<<8, 4, 4, 4, 4>>, "bytes"), Read(<< 4 >>, "module")>>
    BY <1>1, <2>2, HeadOfTwo, SpelledRead
  <2>3. CASE want = <<Read(<<8, 4, 4, 4, 4>>, "bytes")>>
    BY <1>1, <2>3, OneHead, SpelledRead
  <2>4. CASE want = <<Plain(<<MaxCount>>), Read(<< 4 >>, "module")>>
    BY <1>1, <2>4, HeadOfTwo, SpelledRead
  <2> QED
    BY <1>7, <2>1, <2>2, <2>3, <2>4 DEF Modules
<1>8. CASE Event(want, s)
  <2>1. want = <<Read(<< 4 >>, "event")>>
    BY <1>8 DEF Event
  <2> QED
    BY <1>1, <2>1, OneHead, SpelledRead
<1> QED
  BY <1>2, <1>3, <1>4, <1>5, <1>6, <1>7, <1>8, Zenon DEF Complete

LEMMA ParametrizedSpelled ==
    ASSUME NEW want, want # <<>>, NEW arg, NEW f, NEW q, Parametrized(want, arg, f, q)
    PROVE  Spelled(Head(want))
<1>1. CASE LastParameters(want, f, q, arg)
  <2>1. PICK ws \in Seq(Nat) : want = <<Plain(ws)>>
    BY <1>1 DEF LastParameters
  <2> QED
    BY <2>1, OneHead, SpelledRead
<1>2. CASE SizedParameters(want, f, q)
  <2>1. PICK ws \in Seq(Nat), us \in Seq(Nat) : want = <<Read(ws, "arg"), Plain(us)>>
    BY <1>2 DEF SizedParameters
  <2> QED
    BY <2>1, HeadOfTwo, SpelledRead
<1>3. CASE WriteParameters(want, f, q)
  <2>1. want = <<Read(<<4, 8, 4>>, "bytes")>>
    BY <1>3 DEF WriteParameters
  <2>2. <<4, 8, 4>> \in Seq(Nat)
    OBVIOUS
  <2> QED
    BY <2>1, <2>2, OneHead, SpelledRead
<1> QED
  BY <1>1, <1>2, <1>3, Zenon DEF Parametrized

\* A part of what is expected is read like the whole.
LEMMA PrefixRead ==
    ASSUME NEW u \in Seq(Field), NEW f \in Seq(Field), Prefix(u, f), NEW read, Spelled(read),
           Available(u, read), LinesUp(f, read)
    PROVE  /\ LinesUp(u, read) /\ (read.ws # <<>> => LastOf(u, read) = LastOf(f, read))
           /\ Rest(u, read) \in Seq(Field) /\ Prefix(Rest(u, read), Rest(f, read))
<1>1. PICK n \in Nat : n = Len(read.ws) /\ DOMAIN read.ws = 1 .. n /\ n <= Len(u) /\ n <= Len(f)
  BY DEF Spelled, Available, Prefix
<1>2. \A i \in 1 .. n : u[i] = f[i]
  BY <1>1 DEF Prefix
<1>3. PICK r : r = Rest(u, read)
  OBVIOUS
<1>4. PICK t : t = Rest(f, read)
  OBVIOUS
<1>5. r \in Seq(Field) /\ Len(r) = Len(u) - n /\ \A i \in 1 .. Len(u) - n : r[i] = u[n + i]
  BY <1>1, <1>3, Dropped DEF Rest
<1>6. t \in Seq(Field) /\ Len(t) = Len(f) - n /\ \A i \in 1 .. Len(f) - n : t[i] = f[n + i]
  BY <1>1, <1>4, Dropped DEF Rest
<1>7. Prefix(r, t)
  <2>1. Len(u) \in Nat /\ Len(f) \in Nat /\ Len(u) <= Len(f) /\ \A i \in 1 .. Len(u) : u[i] = f[i]
    BY DEF Prefix
  <2>2. ASSUME NEW i \in 1 .. Len(r) PROVE r[i] = t[i]
    <3>1. i \in 1 .. Len(u) - n /\ i \in 1 .. Len(f) - n /\ n + i \in 1 .. Len(u)
      BY <1>1, <1>5, <2>1
    <3> QED
      BY <1>5, <1>6, <2>1, <3>1
  <2> QED
    BY <1>1, <1>5, <1>6, <2>1, <2>2 DEF Prefix
<1>8. LinesUp(u, read)
  BY <1>1, <1>2 DEF LinesUp
<1>9. read.ws # <<>> => LastOf(u, read) = LastOf(f, read)
  <2>1. read.ws # <<>> => n \in 1 .. n
    BY <1>1 DEF Spelled
  <2> QED
    BY <1>1, <1>2, <2>1 DEF LastOf
<1> QED
  BY <1>3, <1>4, <1>5, <1>7, <1>8, <1>9

LEMMA EmptyPrefix == \A f \in Seq(Field) : <<>> \in Seq(Field) /\ Prefix(<<>>, f)
  BY DEF Prefix

LEMMA SelfPrefix == \A f \in Seq(Field) : Prefix(f, f)
  BY DEF Prefix

LEMMA ArrivedPrefix ==
    ASSUME NEW s \in Seq(Field), NEW f \in Seq(Field), Prefix(s, f), NEW t \in Arrived(s)
    PROVE  t \in Seq(Field) /\ Prefix(t, f)
<1>1. CASE t = s
  BY <1>1
<1>2. CASE t = SubSeq(s, 1, Len(s) - 1) /\ Len(s) = 0
  <2>1. t = <<>>
    BY <1>2
  <2> QED
    BY <2>1, EmptyPrefix
<1>3. CASE t = SubSeq(s, 1, Len(s) - 1) /\ Len(s) # 0
  <2>1. PICK n \in Nat : n = Len(s) - 1 /\ n <= Len(s)
    BY <1>3
  <2>2. t \in Seq(Field) /\ Len(t) = n /\ \A i \in 1 .. n : t[i] = s[i]
    <3>1. n = Len(s) - 1 /\ t = SubSeq(s, 1, n)
      BY <1>3, <2>1
    <3>2. \A i \in 1 .. n : i \in 1 .. Len(s)
      BY <2>1
    <3> QED
      BY <2>1, <3>1, <3>2, SubSeqProperties
  <2> QED
    BY <1>3, <2>1, <2>2 DEF Prefix
<1> QED
  BY <1>1, <1>2, <1>3 DEF Arrived

LEMMA OpensProcess == openProcess \in Calls /\ getArchitecture \in Calls
  BY DEF Calls

LEMMA CallsSend == \A q \in Calls : q.send \in Seq(Field) /\ q.op # "none" /\ q.want # <<>> /\ q.limit \in Nat
                                     /\ Len(Head(q.want).ws) \in Nat \ {0}
  BY CallsReady DEF Ready, Sends

LEMMA BegunIs == \A q : Begun(q).op = q.op /\ Begun(q).want = q.want /\ Begun(q).limit = q.limit
  BY DEF Begun

LEMMA IdleIs == Shaped(Idle) /\ Idle.op = "none"
  BY DEF Idle, Shaped

LEMMA BegunShaped == \A q \in Calls : Shaped(Begun(q)) /\ Begun(q).op # "none" /\ Begun(q) # Idle
  BY CallsSend, IdleIs DEF Begun, Shaped

\* It makes no difference to a connection where the worker waits.
LEMMA WaitsAlike ==
    ASSUME NEW u, NEW w, NEW v, Waiting(w), Waiting(v)
    PROVE  /\ \A q, f : Pending(q, w, f) => Pending(q, v, f)
           /\ ServerSide(u, w) => ServerSide(u, v)
           /\ \A cl, d : Asked(cl, u, d, w) => Asked(cl, u, d, v)
<1>1. w.at # "parameters" /\ w.at \notin {"join", "cleared"}
  BY DEF Waiting
<1>2. \A q, f : Pending(q, w, f) => Pending(q, v, f)
  BY <1>1 DEF Pending
<1> QED
  BY <1>2 DEF ServerSide, Asked

LEMMA WaitingAlike ==
    ASSUME NEW k, NEW cl, NEW u, NEW d, NEW w, NEW v, Conn(k, cl, u, d, w), Waiting(w), Waiting(v)
    PROVE  Conn(k, cl, u, d, v)
  BY WaitsAlike DEF Conn, Quiet, Answered

\* What holds of both ends of a connection that is still open.
LEMMA OpenSides ==
    ASSUME NEW cl, NEW u, NEW d, NEW w, Conn("open", cl, u, d, w)
    PROVE  ServerSide(u, w) /\ ClientSide(cl, d)
<1>1. u \in Seq(Field) /\ d \in Seq(Field) /\ (Quiet(cl, u, d, w) \/ Asked(cl, u, d, w) \/ Answered(cl, u, d, w))
  BY DEF Conn
<1>2. ASSUME Waiting(w), u = <<>> PROVE ServerSide(u, w)
  <2>1. Pending(openProcess, w, openProcess.send)
    BY <1>2 DEF Pending
  <2> QED
    BY <1>2, <2>1, OpensProcess, CallsSend, EmptyPrefix DEF ServerSide
<1>3. CASE Quiet(cl, u, d, w)
  BY <1>2, <1>3, IdleIs DEF Quiet, ClientSide
<1>4. CASE Asked(cl, u, d, w)
  <2>1. PICK q \in Calls : cl = Begun(q) /\ Pending(q, w, u) /\ d = <<>>
    BY <1>4 DEF Asked
  <2>2. ServerSide(u, w)
    BY <1>1, <2>1, SelfPrefix DEF ServerSide
  <2>3. Owing(cl, <<>>) /\ cl.want # <<>>
    BY <2>1, CallsSend, BegunIs DEF Owing
  <2>4. PICK f \in Seq(Field) : f = <<>> /\ Prefix(d, f)
    <3>1. d = <<>>
      BY <2>1
    <3>2. <<>> \in Seq(Field)
      OBVIOUS
    <3>3. Prefix(<<>>, <<>>)
      BY <3>2, EmptyPrefix
    <3> QED
      BY <3>1, <3>2, <3>3, Zenon
  <2>5. Owing(cl, f)
    BY <2>3, <2>4
  <2>6. ClientSide(cl, d)
    BY <2>3, <2>4, <2>5 DEF ClientSide
  <2> QED
    BY <2>2, <2>6
<1>5. CASE Answered(cl, u, d, w)
  <2>1. Owing(cl, d) /\ cl.want # <<>> /\ ServerSide(u, w)
    BY <1>2, <1>5 DEF Answered, Owing
  <2> QED
    <3>1. \E f \in Seq(Field) : Owing(cl, f) /\ Prefix(d, f)
      BY <1>1, <2>1, SelfPrefix
    <3> QED
      BY <2>1, <3>1 DEF ClientSide
<1> QED
  BY <1>1, <1>3, <1>4, <1>5

LEMMA PartOfServerSide ==
    ASSUME NEW u \in Seq(Field), NEW w, ServerSide(u, w), NEW t \in Arrived(u)
    PROVE  t \in Seq(Field) /\ ServerSide(t, w)
<1>1. PICK q \in Calls, f \in Seq(Field) : Pending(q, w, f) /\ Prefix(u, f)
  BY DEF ServerSide
<1> QED
  BY <1>1, ArrivedPrefix DEF ServerSide

LEMMA PartOfClientSide ==
    ASSUME NEW cl, NEW d \in Seq(Field), ClientSide(cl, d), NEW t \in Arrived(d)
    PROVE  t \in Seq(Field) /\ ClientSide(cl, t)
<1>1. t \in Seq(Field)
  BY SelfPrefix, ArrivedPrefix
<1>2. CASE cl.op = "none"
  BY <1>1, <1>2 DEF ClientSide
<1>3. CASE cl.op # "none"
  <2>1. PICK f \in Seq(Field) : Owing(cl, f) /\ Prefix(d, f) /\ cl.want # <<>>
    BY <1>3 DEF ClientSide
  <2> QED
    BY <2>1, ArrivedPrefix DEF ClientSide
<1> QED
  BY <1>2, <1>3

\* An open connection is cut.
LEMMA OpenBreaks ==
    ASSUME NEW cl, NEW u, NEW d, NEW w, Conn("open", cl, u, d, w), NEW t \in Arrived(u), NEW e \in Arrived(d)
    PROVE  Conn("cut", cl, t, e, w)
<1>1. Shaped(cl) /\ u \in Seq(Field) /\ d \in Seq(Field)
  BY DEF Conn
<1>2. ServerSide(u, w) /\ ClientSide(cl, d)
  BY OpenSides
<1> QED
  BY <1>1, <1>2, PartOfServerSide, PartOfClientSide DEF Conn

\* The client of a connection dies, or closes it.
LEMMA ClientGone ==
    ASSUME NEW k \in {"open", "cut", "closed"}, NEW cl, NEW u, NEW d, NEW w, Conn(k, cl, u, d, w), NEW t \in Arrived(u)
    PROVE  Conn("closed", Idle, t, <<>>, w)
<1>1. u \in Seq(Field)
  BY DEF Conn
<1>2. ServerSide(u, w)
  BY OpenSides DEF Conn
<1>3. ClientSide(Idle, <<>>) /\ <<>> \in Seq(Field)
  BY IdleIs DEF ClientSide
<1> QED
  BY <1>1, <1>2, <1>3, IdleIs, PartOfServerSide DEF Conn

LEMMA ClientCloses ==
    ASSUME NEW k \in {"open", "cut"}, NEW cl, NEW u, NEW d, NEW w, Conn(k, cl, u, d, w), cl.op = "none"
    PROVE  Conn("closed", cl, u, d, w)
<1>1. ServerSide(u, w) /\ ClientSide(cl, d)
  BY OpenSides DEF Conn
<1> QED
  BY <1>1 DEF Conn

\* serveClient returns.
LEMMA ServerDrops ==
    ASSUME NEW k, NEW cl, NEW u, NEW d, NEW w, Conn(k, cl, u, d, w)
    PROVE  Conn(IF k = "open" THEN "cut" ELSE k, cl, <<>>, d, Away)
<1>1. Waiting(Away)
  BY DEF Waiting, Away
<1>2. Pending(openProcess, Away, openProcess.send)
  BY <1>1 DEF Pending
<1>3. <<>> \in Seq(Field) /\ ServerSide(<<>>, Away)
  BY <1>2, OpensProcess, CallsSend, EmptyPrefix DEF ServerSide
<1>4. CASE k = "none"
  BY <1>1, <1>4 DEF Conn, Quiet
<1>5. CASE k = "open"
  <2>1. ClientSide(cl, d) /\ Shaped(cl) /\ d \in Seq(Field)
    BY <1>5, OpenSides DEF Conn
  <2> QED
    BY <1>3, <1>5, <2>1 DEF Conn
<1>6. CASE k \in {"cut", "closed"}
  <2>1. ClientSide(cl, d) /\ Shaped(cl) /\ d \in Seq(Field) /\ (k = "closed" => cl.op = "none")
    BY <1>6 DEF Conn
  <2> QED
    BY <1>3, <1>6, <2>1 DEF Conn
<1> QED
  BY <1>4, <1>5, <1>6 DEF Conn

\* The worker w once it has read the series it was at, whose last value is v.
After(w, v) ==
    IF w.at = "command"
    THEN [at |-> "parameters", conn |-> w.conn, cmd |-> v, arg |-> w.arg, want |-> Parameters(v)]
    ELSE [at |-> w.at, conn |-> w.conn, cmd |-> w.cmd,
          arg |-> IF Head(w.want).then = "nothing" THEN w.arg ELSE v,
          want |-> Continuation(Head(w.want).then, v) \o Tail(w.want)]

LEMMA CommandSpelled ==
    Spelled(CommandRead) /\ Len(CommandRead.ws) = 1 /\ CommandRead.ws # <<>> /\ Head(<<CommandRead>>) = CommandRead
<1>1. PICK ws : ws = << 1 >>
  OBVIOUS
<1>2. ws \in Seq(Nat) /\ Len(ws) = 1 /\ ws # <<>>
  BY <1>1
<1>3. CommandRead.ws = ws
  BY <1>1 DEF CommandRead, Plain, Read
<1> QED
  BY <1>2, <1>3, OneHead DEF Spelled

LEMMA NothingToRead ==
    ASSUME NEW w, Waiting(w), w.at # "gone" PROVE ~Available(<<>>, Head(w.want))
<1>1. Len(Head(w.want).ws) = 1
  BY CommandSpelled DEF Waiting
<1>2. PICK s : s = <<>>
  OBVIOUS
<1>3. Len(s) = 0
  BY <1>2
<1>4. ~Available(s, Head(w.want))
  BY <1>1, <1>3 DEF Available
<1> QED
  BY <1>2, <1>4, Zenon

LEMMA CommandIsRead ==
    ASSUME NEW q \in Calls, NEW w, Pending(q, w, q.send), w.at = "command",
           LastOf(q.send, Head(w.want)) \in ServedCommands
    PROVE  LET read == Head(w.want) IN
           /\ Spelled(read) /\ read.ws # <<>> /\ LinesUp(q.send, read) /\ Rest(q.send, read) \in Seq(Field)
           /\ Pending(q, After(w, LastOf(q.send, read)), Rest(q.send, read))
<1>1. Head(w.want) = CommandRead
  BY CommandSpelled DEF Pending, Waiting
<1>2. Ready(q)
  BY CallsReady
<1>3. PICK cmd \in Nat : \E fields : Sends(q, cmd, fields)
        /\ (cmd \in ServedCommands => \A arg : Parametrized(Parameters(cmd), arg, fields, q))
  BY <1>2 DEF Ready
<1>4. PICK fields : Sends(q, cmd, fields)
        /\ (cmd \in ServedCommands => \A arg : Parametrized(Parameters(cmd), arg, fields, q))
  BY <1>3
<1>5. /\ LinesUp(q.send, CommandRead) /\ LastOf(q.send, CommandRead) = cmd /\ CmdOf(q) = cmd
      /\ Rest(q.send, CommandRead) = fields /\ fields \in Seq(Field)
  BY <1>4 DEF Sends
<1>6. Parametrized(Parameters(cmd), w.arg, fields, q)
  BY <1>1, <1>4, <1>5
<1>7. PICK v : v = After(w, cmd)
  OBVIOUS
<1>8. v.at = "parameters" /\ v.cmd = cmd /\ v.arg = w.arg /\ v.want = Parameters(cmd)
  BY <1>7 DEF After
<1>9. Pending(q, v, fields)
  BY <1>5, <1>6, <1>8 DEF Pending
<1> QED
  BY <1>1, <1>5, <1>7, <1>9, CommandSpelled

LEMMA ParameterIsRead ==
    ASSUME NEW q \in Calls, NEW w, NEW f \in Seq(Field), Pending(q, w, f), w.at = "parameters", w.want # <<>>
    PROVE  LET read == Head(w.want) IN
           /\ Spelled(read) /\ read.ws # <<>> /\ LinesUp(f, read) /\ Rest(f, read) \in Seq(Field)
           /\ Pending(q, After(w, LastOf(f, read)), Rest(f, read))
<1>1. w.cmd = CmdOf(q) /\ Parametrized(w.want, w.arg, f, q)
  BY DEF Pending, Waiting
<1>2. PICK read : read = Head(w.want)
  OBVIOUS
<1>3. Spelled(read)
  BY <1>1, <1>2, ParametrizedSpelled
<1>4. /\ Len(read.ws) \in Nat \ {0} /\ LinesUp(f, read) /\ Rest(f, read) \in Seq(Field)
      /\ Parametrized(Continuation(read.then, LastOf(f, read)) \o Tail(w.want),
                      IF read.then = "nothing" THEN w.arg ELSE LastOf(f, read), Rest(f, read), q)
  BY <1>1, <1>2, ParametersStep DEF ParameterStep
<1>5. read.ws # <<>>
  BY <1>3, <1>4 DEF Spelled
<1>6. PICK v : v = After(w, LastOf(f, read))
  OBVIOUS
<1>7. /\ v.at = "parameters" /\ v.cmd = CmdOf(q)
      /\ v.arg = (IF read.then = "nothing" THEN w.arg ELSE LastOf(f, read))
      /\ v.want = Continuation(read.then, LastOf(f, read)) \o Tail(w.want)
  BY <1>1, <1>2, <1>6 DEF After
<1>8. Pending(q, v, Rest(f, read))
  BY <1>4, <1>7 DEF Pending
<1> QED
  BY <1>2, <1>3, <1>4, <1>5, <1>6, <1>8

LEMMA PendingRead ==
    ASSUME NEW q \in Calls, NEW w, NEW f \in Seq(Field), Pending(q, w, f), w.at \in {"command", "parameters"}, w.want # <<>>,
           w.at = "command" => LastOf(f, Head(w.want)) \in ServedCommands
    PROVE  LET read == Head(w.want) IN
           /\ Spelled(read) /\ read.ws # <<>> /\ LinesUp(f, read) /\ Rest(f, read) \in Seq(Field)
           /\ Pending(q, After(w, LastOf(f, read)), Rest(f, read))
<1>1. CASE w.at = "command"
  <2>1. f = q.send
    BY <1>1 DEF Pending
  <2> QED
    BY <1>1, <2>1, CommandIsRead
<1>2. CASE w.at = "parameters"
  BY <1>2, ParameterIsRead
<1> QED
  BY <1>1, <1>2

\* The worker's next read takes whole fields of the call, on any connection.
LEMMA ServerReads ==
    ASSUME NEW k, NEW cl, NEW u, NEW d, NEW w, Conn(k, cl, u, d, w),
           w.at \in {"command", "parameters"}, w.want # <<>>, Available(u, Head(w.want)),
           w.at = "command" => LastOf(u, Head(w.want)) \in ServedCommands
    PROVE  LET read == Head(w.want) IN
           LinesUp(u, read) /\ Conn(k, cl, Rest(u, read), d, After(w, LastOf(u, read)))
<1>1. Shaped(cl) /\ u \in Seq(Field) /\ d \in Seq(Field)
  BY DEF Conn
<1>2. PICK read : read = Head(w.want)
  OBVIOUS
<1>3. ~(u = <<>> /\ Waiting(w))
  BY NothingToRead
<1>4. CASE k = "none"
  BY <1>3, <1>4 DEF Conn, Quiet
<1>5. CASE k = "open"
  <2>1. Asked(cl, u, d, w)
    BY <1>3, <1>5 DEF Conn, Quiet, Answered
  <2>2. PICK q \in Calls : d = <<>> /\ cl = Begun(q) /\ Pending(q, w, u)
    BY <2>1 DEF Asked
  <2>3. /\ LinesUp(u, read) /\ Rest(u, read) \in Seq(Field)
        /\ Pending(q, After(w, LastOf(u, read)), Rest(u, read))
    BY <1>1, <1>2, <2>2, PendingRead
  <2>4. Asked(cl, Rest(u, read), d, After(w, LastOf(u, read)))
    BY <2>2, <2>3 DEF Asked
  <2> QED
    BY <1>1, <1>2, <1>5, <2>3, <2>4 DEF Conn
<1>6. CASE k \in {"cut", "closed"}
  <2>1. ServerSide(u, w) /\ ClientSide(cl, d) /\ (k = "closed" => cl.op = "none")
    BY <1>6 DEF Conn
  <2>2. PICK q \in Calls, f \in Seq(Field) : Pending(q, w, f) /\ Prefix(u, f)
    BY <2>1 DEF ServerSide
  <2>3. w.at = "command" => LastOf(f, read) \in ServedCommands
    <3>1. CASE w.at = "command"
      <4>1. read = CommandRead
        BY <1>2, <2>2, <3>1, CommandSpelled DEF Pending, Waiting
      <4>2. PICK i \in Nat : i = 1 /\ i = Len(read.ws) /\ i <= Len(u)
        BY <1>2, <4>1, CommandSpelled DEF Available
      <4>a. \A j \in 1 .. Len(u) : u[j] = f[j]
        BY <2>2 DEF Prefix
      <4>b. 1 \in 1 .. Len(u)
        BY <1>1, <4>2, LenProperties
      <4>c. u[1] = f[1]
        BY <4>a, <4>b
      <4>3. LastOf(u, read) = LastOf(f, read)
        BY <4>2, <4>c, Zenon DEF LastOf
      <4> QED
        BY <1>2, <3>1, <4>3
    <3> QED
      BY <3>1
  <2>4. /\ Spelled(read) /\ read.ws # <<>> /\ LinesUp(f, read) /\ Rest(f, read) \in Seq(Field)
        /\ Pending(q, After(w, LastOf(f, read)), Rest(f, read))
    BY <1>2, <2>2, <2>3, PendingRead
  <2>5. /\ LinesUp(u, read) /\ LastOf(u, read) = LastOf(f, read)
        /\ Rest(u, read) \in Seq(Field) /\ Prefix(Rest(u, read), Rest(f, read))
    BY <1>1, <1>2, <2>2, <2>4, PrefixRead
  <2>6. ServerSide(Rest(u, read), After(w, LastOf(u, read)))
    BY <2>4, <2>5 DEF ServerSide
  <2> QED
    BY <1>1, <1>2, <1>6, <2>1, <2>5, <2>6 DEF Conn
<1> QED
  BY <1>4, <1>5, <1>6 DEF Conn

\* The worker answers the command in its hands, on a connection that holds.
LEMMA ServerAnswers ==
    ASSUME NEW cl, NEW u, NEW d, NEW w, Conn("open", cl, u, d, w),
           (w.at = "parameters" /\ w.want = <<>>) \/ w.at \in {"join", "cleared"},
           NEW fields, MayAnswer(w.cmd, w.arg, fields), NEW v, Waiting(v)
    PROVE  Conn("open", cl, u, d \o fields, v)
<1>1. ~Waiting(w)
  BY DEF Waiting
<1>2. Asked(cl, u, d, w) /\ Shaped(cl)
  BY <1>1 DEF Conn, Quiet, Answered
<1>3. PICK q \in Calls : d = <<>> /\ cl = Begun(q) /\ Pending(q, w, u)
  BY <1>2 DEF Asked
<1>4. w.cmd = CmdOf(q) /\ u = <<>> /\ FitsAnswers(q, w.arg)
  <2>1. CASE w.at = "parameters" /\ w.want = <<>>
    <3>1. w.cmd = CmdOf(q) /\ Parametrized(w.want, w.arg, u, q)
      BY <1>1, <1>3, <2>1 DEF Pending
    <3>2. ~LastParameters(w.want, u, q, w.arg) /\ ~SizedParameters(w.want, u, q) /\ ~WriteParameters(w.want, u, q)
      BY <2>1 DEF LastParameters, SizedParameters, WriteParameters
    <3> QED
      BY <3>1, <3>2 DEF Parametrized
  <2>2. CASE w.at \in {"join", "cleared"}
    BY <1>1, <1>3, <2>2 DEF Pending
  <2> QED
    BY <2>1, <2>2
<1>5. fields \in Seq(Field) /\ Complete(q.want, q.limit, fields)
  BY <1>4 DEF FitsAnswers
<1>6. d \o fields = fields
  BY <1>3, <1>5
<1>7. Answered(cl, u, fields, v)
  BY <1>3, <1>4, <1>5, CallsSend, BegunIs DEF Answered
<1>8. u \in Seq(Field)
  BY DEF Conn
<1> QED
  BY <1>2, <1>5, <1>6, <1>7, <1>8 DEF Conn

LEMMA IdleOpen ==
    ASSUME NEW cl, NEW u, NEW d, NEW w, Conn("open", cl, u, d, w), cl.op = "none"
    PROVE  cl = Idle /\ u = <<>> /\ d = <<>> /\ Waiting(w)
<1>1. ~Asked(cl, u, d, w)
  BY BegunShaped DEF Asked, Begun
<1> QED
  BY <1>1 DEF Conn, Quiet, Answered

\* A call is sent.
LEMMA CallBegins ==
    ASSUME NEW cl, NEW u, NEW d, NEW w, Conn("open", cl, u, d, w), cl.op = "none", NEW q \in Calls
    PROVE  Conn("open", Begun(q), u \o q.send, d, w)
<1>1. u = <<>> /\ d = <<>> /\ Waiting(w)
  BY IdleOpen
<1>2. q.send \in Seq(Field)
  BY CallsSend
<1>3. PICK s \in Seq(Field) : s = q.send
  BY <1>2
<1>4. u \o s = s
  BY <1>1, <1>3
<1>5. Pending(q, w, s)
  BY <1>1, <1>3 DEF Pending
<1>6. Asked(Begun(q), s, d, w)
  BY <1>1, <1>5 DEF Asked
<1>7. Shaped(Begun(q)) /\ u \in Seq(Field) /\ d \in Seq(Field)
  BY BegunShaped DEF Conn
<1> QED
  BY <1>3, <1>4, <1>6, <1>7 DEF Conn

\* A call that is being sent while the connection goes, and one that fails on it.
LEMMA CallOnCut ==
    ASSUME NEW cl, NEW u, NEW d, NEW w, Conn("cut", cl, u, d, w), d = <<>>, NEW q \in Calls
    PROVE  Conn("cut", Begun(q), u, d, w)
<1>1. PICK f : f = <<>>
  OBVIOUS
<1>2. f \in Seq(Field) /\ Prefix(d, f) /\ d = f
  <2>1. <<>> \in Seq(Field)
    OBVIOUS
  <2>2. Prefix(<<>>, <<>>)
    BY <2>1, EmptyPrefix
  <2> QED
    BY <1>1, <2>1, <2>2, Zenon
<1>3. Owing(Begun(q), f) /\ Begun(q).want # <<>>
  BY <1>1, CallsSend, BegunIs DEF Owing
<1>4. ClientSide(Begun(q), d)
  BY <1>2, <1>3 DEF ClientSide
<1> QED
  BY <1>2, <1>4, BegunShaped DEF Conn

LEMMA CallFailed ==
    ASSUME NEW k, k = "cut", NEW cl, NEW u, NEW d, NEW w, Conn(k, cl, u, d, w), NEW e \in Seq(Field)
    PROVE  Conn(k, Idle, u, e, w)
<1>1. ClientSide(Idle, e)
  BY IdleIs DEF ClientSide
<1> QED
  BY <1>1, IdleIs DEF Conn

LEMMA ConnectionMade ==
    ASSUME NEW cl, NEW u, NEW d, NEW w, Conn("none", cl, u, d, w)
    PROVE  Conn("open", cl, u, d, w)
  BY DEF Conn

\* A call that has received all it asked for leaves nothing behind.
LEMMA NoMore ==
    ASSUME NEW want, want = <<>>, NEW limit, NEW s \in Seq(Field), Complete(want, limit, s)
    PROVE  s = <<>>
<1>1. \A a, b : want # <<a>> /\ want # <<a, b>>
  OBVIOUS
<1>2. ~Result(want, s) /\ ~Count(want, limit, s) /\ ~Bytes(want, limit, s) /\ ~Modules(want, limit, s) /\ ~Event(want, s)
  BY <1>1 DEF Result, Count, Bytes, Modules, Event
<1>3. Regions(want, limit, s) => Len(s) = 0
  <2>1. Regions(want, limit, s) => Len(s) = 4 * Len(want)
    BY <1>1 DEF Regions
  <2> QED
    BY <2>1
<1>4. Tids(want, limit, s) => Len(s) = 0
  <2>1. Tids(want, limit, s) => Len(s) = Len(want)
    BY <1>1 DEF Tids
  <2> QED
    BY <2>1
<1> QED
  BY <1>2, <1>3, <1>4 DEF Complete

\* The state of a call once it has received the series it was at.
Left(cl, v) == Continuation(Head(cl.want).then, v) \o Tail(cl.want)
Onward(cl, v) == [op |-> cl.op, want |-> Left(cl, v), limit |-> cl.limit]

LEMMA OwingRead ==
    ASSUME NEW cl, Shaped(cl), cl.want # <<>>, NEW f \in Seq(Field), Owing(cl, f), NEW d \in Seq(Field), Prefix(d, f),
           NEW read, read = Head(cl.want), Available(d, read)
    PROVE  /\ read.ws # <<>> /\ LinesUp(d, read) /\ LastOf(d, read) = LastOf(f, read)
           /\ ~Refused(read, LastOf(d, read), cl.limit)
           /\ Rest(d, read) \in Seq(Field) /\ Rest(f, read) \in Seq(Field) /\ Prefix(Rest(d, read), Rest(f, read))
           /\ Complete(Left(cl, LastOf(d, read)), cl.limit, Rest(f, read))
<1>1. cl.limit \in Nat
  BY DEF Shaped
<1>2. Complete(cl.want, cl.limit, f)
  <2>1. f = <<>> /\ Len(Head(cl.want).ws) \in Nat \ {0} => FALSE
    BY DEF Available, Prefix
  <2> QED
    BY <2>1 DEF Owing
<1>3. Stepped(cl.want, cl.limit, f)
  BY <1>1, <1>2, CompleteStep
<1>4. /\ Len(read.ws) \in Nat \ {0} /\ LinesUp(f, read) /\ ~Refused(read, LastOf(f, read), cl.limit)
      /\ Rest(f, read) \in Seq(Field)
      /\ Complete(Continuation(read.then, LastOf(f, read)) \o Tail(cl.want), cl.limit, Rest(f, read))
  BY <1>3 DEF Stepped
<1>5. Spelled(read)
  BY <1>2, CompleteSpelled
<1>6. read.ws # <<>>
  BY <1>4, <1>5 DEF Spelled
<1>7. /\ LinesUp(d, read) /\ LastOf(d, read) = LastOf(f, read)
      /\ Rest(d, read) \in Seq(Field) /\ Prefix(Rest(d, read), Rest(f, read))
  BY <1>4, <1>5, <1>6, PrefixRead
<1> QED
  BY <1>4, <1>6, <1>7 DEF Left

LEMMA NextShaped ==
    ASSUME NEW cl, NEW v, Shaped(cl)
    PROVE  /\ Shaped(Onward(cl, v)) /\ Onward(cl, v).op = cl.op /\ Onward(cl, v).want = Left(cl, v)
           /\ Onward(cl, v).limit = cl.limit
  BY DEF Shaped, Onward

LEMMA EmptyPart ==
    ASSUME NEW f, f = <<>>, NEW d \in Seq(Field), Prefix(d, f) PROVE d = <<>>
  BY DEF Prefix

LEMMA ClientReads ==
    ASSUME NEW k \in {"open", "cut"}, NEW cl, NEW u, NEW d, NEW w, Conn(k, cl, u, d, w), cl.op # "none",
           NEW read, read = Head(cl.want), Available(d, read), NEW v, v = LastOf(d, read)
    PROVE  /\ LinesUp(d, read) /\ ~Refused(read, v, cl.limit)
           /\ Left(cl, v) # <<>> => Conn(k, Onward(cl, v), u, Rest(d, read), w)
           /\ Left(cl, v) = <<>> => Rest(d, read) = <<>> /\ Conn(k, Idle, u, Rest(d, read), w)
<1>1. Shaped(cl) /\ u \in Seq(Field) /\ d \in Seq(Field)
  BY DEF Conn
<1>2. ClientSide(cl, d)
  BY OpenSides DEF Conn
<1>3. PICK f \in Seq(Field) : cl.want # <<>> /\ Owing(cl, f) /\ Prefix(d, f)
  BY <1>2 DEF ClientSide
<1>4. /\ read.ws # <<>> /\ LinesUp(d, read) /\ ~Refused(read, v, cl.limit)
      /\ Rest(d, read) \in Seq(Field) /\ Rest(f, read) \in Seq(Field) /\ Prefix(Rest(d, read), Rest(f, read))
      /\ Complete(Left(cl, v), cl.limit, Rest(f, read))
  BY <1>1, <1>3, OwingRead
<1>5. PICK n : n = Onward(cl, v) /\ Shaped(n) /\ n.op # "none" /\ n.want = Left(cl, v) /\ n.limit = cl.limit
  BY <1>1, NextShaped
<1>6. PICK r : r = Rest(d, read)
  OBVIOUS
<1>7. Left(cl, v) = <<>> => r = <<>>
  BY <1>4, <1>6, NoMore, EmptyPart
<1>8. CASE k = "cut"
  <2>1. ServerSide(u, w)
    BY <1>8 DEF Conn
  <2>2. Owing(n, Rest(f, read))
    BY <1>4, <1>5 DEF Owing
  <2>3. Left(cl, v) # <<>> => ClientSide(n, r)
    BY <1>4, <1>5, <1>6, <2>2 DEF ClientSide
  <2>4. ClientSide(Idle, r)
    BY IdleIs DEF ClientSide
  <2> QED
    BY <1>1, <1>4, <1>5, <1>6, <1>7, <1>8, <2>1, <2>3, <2>4, IdleIs DEF Conn
<1>9. CASE k = "open"
  <2>1. ~Quiet(cl, u, d, w)
    BY IdleIs DEF Quiet
  <2>2. ~Asked(cl, u, d, w)
    <3>1. Len(read.ws) \in Nat \ {0}
      <4>1. PICK g \in Seq(Field) : Owing(cl, g)
        BY <1>3
      <4>2. CASE g = <<>> /\ Len(Head(cl.want).ws) \in Nat \ {0}
        BY <4>2
      <4>3. CASE Complete(cl.want, cl.limit, g)
        BY <1>1, <1>3, <4>3, CompleteStep DEF Stepped, Shaped
      <4> QED
        BY <4>1, <4>2, <4>3 DEF Owing
    <3>2. d # <<>>
      BY <3>1 DEF Available
    <3> QED
      BY <3>2 DEF Asked
  <2>3. Answered(cl, u, d, w)
    BY <1>9, <2>1, <2>2 DEF Conn
  <2>4. Owing(cl, d) /\ u = <<>> /\ Waiting(w) /\ Prefix(d, d)
    BY <1>1, <2>3, SelfPrefix DEF Answered, Owing
  <2>5. Complete(Left(cl, v), cl.limit, r)
    BY <1>1, <1>3, <1>6, <2>4, OwingRead
  <2>6. Left(cl, v) # <<>> => Answered(n, u, r, w)
    BY <1>5, <2>4, <2>5 DEF Answered
  <2>7. r = <<>> => Quiet(Idle, u, r, w)
    BY <2>4 DEF Quiet
  <2> QED
    BY <1>1, <1>4, <1>5, <1>6, <1>7, <1>9, <2>6, <2>7, IdleIs DEF Conn
<1> QED
  BY <1>8, <1>9

-----------------------------------------------------------------------------
(***************************************************************************)
(* The steps of the two sides.                                             *)
(***************************************************************************)
\* Of the connections, a step touches c at most.
Only(c) ==
    /\ sock' = [d \in Clients |-> sock'[d]] /\ call' = [d \in Clients |-> call'[d]]
    /\ up' = [d \in Clients |-> up'[d]] /\ down' = [d \in Clients |-> down'[d]]
    /\ \A d \in Clients \ {c} : sock'[d] = sock[d] /\ call'[d] = call[d] /\ up'[d] = up[d] /\ down'[d] = down[d]
    /\ overlapped \subseteq overlapped'

\* The connection d as its two ends see it does not change.
Still(d) == /\ sock'[d] = sock[d] /\ call'[d] = call[d] /\ up'[d] = up[d] /\ down'[d] = down[d]
            /\ overlapped \subseteq overlapped'
            /\ Hand(d)' = Hand(d) \/ (Waiting(Hand(d)) /\ Waiting(Hand(d)'))

LEMMA StillConnected == ASSUME NEW d \in Clients, Connected(d), Still(d) PROVE Connected(d)'
<1>1. CASE d \in overlapped' \/ Hand(d)' = Hand(d)
  BY <1>1 DEF Connected, Still
<1>2. CASE d \notin overlapped' /\ Waiting(Hand(d)) /\ Waiting(Hand(d)')
  <2>0. d \notin overlapped
    BY <1>2 DEF Still
  <2>1. Conn(sock[d], call[d], up[d], down[d], Hand(d)')
    BY <1>2, <2>0, WaitingAlike DEF Connected
  <2> QED
    BY <2>1 DEF Connected, Still
<1> QED
  BY <1>1, <1>2 DEF Still

\* A step of the client of connection c.
LEMMA ClientMoves ==
    ASSUME StreamInv, NEW c \in Clients, Only(c), worker' = worker, ~garbled', backlog' \in Seq(Clients),
           c \notin overlapped' => Conn(sock'[c], call'[c], up'[c], down'[c], Hand(c))
    PROVE  StreamInv'
<1>1. \A d \in Clients : Hand(d)' = Hand(d)
  BY DEF Hand, Serves
<1>2. \A d \in Clients \ {c} : Still(d) /\ Connected(d)
  BY <1>1 DEF Still, Only, StreamInv
<1>3. Connected(c)'
  BY <1>1 DEF Connected
<1> QED
  BY <1>2, <1>3, StillConnected DEF StreamInv, Only

\* A step of the worker on the connection it serves.
LEMMA ServerMoves ==
    ASSUME StreamInv, NEW c \in Clients, Only(c), Serves(worker, c), worker'.at \notin {"gone", "accept"} => worker'.conn = c,
           ~garbled', backlog' = backlog,
           c \notin overlapped' => Conn(sock'[c], call'[c], up'[c], down'[c], Hand(c)')
    PROVE  StreamInv'
<1>1. \A d \in Clients \ {c} : Hand(d)' = Hand(d)
  BY DEF Hand, Serves
<1>2. \A d \in Clients \ {c} : Still(d) /\ Connected(d)
  BY <1>1 DEF Still, Only, StreamInv
<1>3. Connected(c)'
  BY DEF Connected
<1> QED
  BY <1>2, <1>3, StillConnected DEF StreamInv, Only

\* A step that touches no connection.
LEMMA NobodyMoves ==
    ASSUME StreamInv, UNCHANGED <<sock, call, up, down, garbled, overlapped, backlog, worker>> PROVE StreamInv'
<1>1. \A d \in Clients : Hand(d)' = Hand(d)
  BY DEF Hand, Serves
<1>2. \A d \in Clients : Still(d) /\ Connected(d)
  BY <1>1 DEF Still, StreamInv
<1> QED
  BY <1>2, StillConnected DEF StreamInv

LEMMA StreamInit == Init => StreamInv
<1> SUFFICES ASSUME Init PROVE StreamInv
  OBVIOUS
<1>1. worker.at = "accept"
  BY WorkersServe DEF Init
<1>2. Waiting(Away) /\ \A c \in Clients : Hand(c) = Away
  BY <1>1 DEF Waiting, Away, Hand, Serves
<1>3. ASSUME NEW c \in Clients PROVE Connected(c)
  <2>1. sock[c] = "none" /\ call[c] = Idle /\ up[c] = <<>> /\ down[c] = <<>>
    BY DEF Init
  <2>2. Quiet(call[c], up[c], down[c], Hand(c))
    BY <1>2, <2>1 DEF Quiet
  <2>3. up[c] \in Seq(Field) /\ down[c] \in Seq(Field)
    BY <2>1
  <2> QED
    BY <2>1, <2>2, <2>3, IdleIs DEF Connected, Conn
<1>4. <<>> \in Seq(Clients)
  OBVIOUS
<1>5. ~garbled /\ backlog \in Seq(Clients)
  BY <1>4 DEF Init
<1>6. /\ sock = [c \in Clients |-> sock[c]] /\ call = [c \in Clients |-> call[c]]
      /\ up = [c \in Clients |-> up[c]] /\ down = [c \in Clients |-> down[c]]
  BY DEF Init
<1> QED
  BY <1>1, <1>3, <1>5, <1>6 DEF StreamInv

LEMMA ConnectStep == ASSUME StreamInv, NEW c \in Clients, connectTcp(c) PROVE StreamInv'
<1>0. backlog \in Seq(Clients) /\ ~garbled
  BY DEF StreamInv
<1>1. c \notin overlapped => Conn(sock[c], call[c], up[c], down[c], Hand(c))
  BY DEF StreamInv, Connected
<1>2. sock[c] = "none" /\ sock' = [sock EXCEPT ![c] = "open"] /\ backlog' = Append(backlog, c)
      /\ UNCHANGED <<call, up, down, worker, garbled, overlapped>>
  BY DEF connectTcp
<1>3. backlog' \in Seq(Clients)
  BY <1>0, <1>2, AppendProperties
<1>4. Only(c) /\ sock'[c] = "open"
  BY <1>2 DEF Only, StreamInv
<1>5. c \notin overlapped => Conn(sock'[c], call'[c], up'[c], down'[c], Hand(c))
  BY <1>1, <1>2, <1>4, ConnectionMade
<1> QED
  BY <1>0, <1>1, <1>2, <1>3, <1>4, <1>5, ClientMoves

LEMMA InvokeStep == ASSUME StreamInv, NEW c \in Clients, NEW q \in Calls, Invoke(c, q) PROVE StreamInv'
<1>1. Conn(sock[c], call[c], up[c], down[c], Hand(c)) /\ backlog \in Seq(Clients) /\ ~garbled
  BY DEF StreamInv, Connected, Invoke
<1>2. call[c].op = "none" /\ UNCHANGED <<sock, down, worker, backlog, garbled, overlapped>>
  BY DEF Invoke, InCall, serverVars
<1>3. CASE sock[c] = "open"
  <2>1. call' = [call EXCEPT ![c] = Begun(q)] /\ up' = [up EXCEPT ![c] = @ \o q.send]
    BY <1>3 DEF Invoke
  <2>2. Only(c) /\ call'[c] = Begun(q) /\ up'[c] = up[c] \o q.send
    BY <1>2, <2>1 DEF Only, StreamInv
  <2>3. Conn(sock'[c], call'[c], up'[c], down'[c], Hand(c))
    BY <1>1, <1>2, <1>3, <2>2, CallBegins
  <2> QED
    BY <1>1, <1>2, <2>2, <2>3, ClientMoves
<1>4. CASE sock[c] = "cut"
  <2>1. call' = [call EXCEPT ![c] = Idle] /\ up' = up
    BY <1>4 DEF Invoke, Returned
  <2>2. Only(c) /\ call'[c] = Idle
    BY <1>2, <2>1 DEF Only, StreamInv
  <2>3. down[c] \in Seq(Field)
    BY <1>1 DEF Conn
  <2>4. Conn(sock'[c], call'[c], up'[c], down'[c], Hand(c))
    BY <1>1, <1>2, <1>4, <2>1, <2>2, <2>3, CallFailed
  <2> QED
    BY <1>1, <1>2, <2>2, <2>4, ClientMoves
<1> QED
  BY <1>3, <1>4 DEF Invoke

LEMMA UserCalls ==
    ASSUME NEW c \in Clients,
           OpenHandle(c) \/ UseHandle(c) \/ DestroyHandle(c) \/ DebuggerAttach(c) \/ UseDebugger(c) \/ DebuggerDetach(c)
    PROVE  \E q \in Calls : Invoke(c, q)
<1>1. MemoryCalls \subseteq Calls /\ DebugCalls \subseteq Calls /\ {openProcess, closeHandle, startDebug, stopDebug} \subseteq Calls
  BY DEF Calls
<1>2. \E q \in {openProcess, closeHandle, startDebug, stopDebug} \cup MemoryCalls \cup DebugCalls : Invoke(c, q)
  BY DEF OpenHandle, UseHandle, DestroyHandle, DebuggerAttach, UseDebugger, DebuggerDetach
<1> QED
  BY <1>1, <1>2

LEMMA ReceiveStep == ASSUME StreamInv, NEW c \in Clients, Receive(c) PROVE StreamInv'
<1>1. Conn(sock[c], call[c], up[c], down[c], Hand(c)) /\ backlog \in Seq(Clients) /\ ~garbled
  BY DEF StreamInv, Connected, Receive
<1>2. PICK read : read = Head(call[c].want)
  OBVIOUS
<1>3. PICK v : v = LastOf(down[c], read)
  OBVIOUS
<1>4. /\ call[c].op # "none" /\ Available(down[c], read) /\ down' = [down EXCEPT ![c] = Rest(@, read)]
      /\ garbled' = (garbled \/ ~LinesUp(down[c], read)) /\ UNCHANGED <<sock, worker, backlog, overlapped>>
  BY <1>2 DEF Receive, InCall, serverVars
<1>5. sock[c] \in {"open", "cut"}
  BY <1>1, <1>4, IdleIs DEF Conn, Quiet
<1>6. /\ LinesUp(down[c], read) /\ ~Refused(read, v, call[c].limit)
      /\ Left(call[c], v) # <<>> => Conn(sock[c], Onward(call[c], v), up[c], Rest(down[c], read), Hand(c))
      /\ Left(call[c], v) = <<>> => Rest(down[c], read) = <<>> /\ Conn(sock[c], Idle, up[c], Rest(down[c], read), Hand(c))
  BY <1>1, <1>2, <1>3, <1>4, <1>5, ClientReads
<1>7. ~garbled' /\ down'[c] = Rest(down[c], read) /\ down' = [d \in Clients |-> down'[d]]
      /\ \A d \in Clients \ {c} : down'[d] = down[d]
  BY <1>1, <1>4, <1>6 DEF StreamInv
<1>8. CASE Left(call[c], v) # <<>>
  <2>1. call' = [call EXCEPT ![c].want = Left(call[c], v)] /\ up' = up
    BY <1>2, <1>3, <1>6, <1>8 DEF Receive, Left
  <2>2. Shaped(call[c])
    BY <1>1 DEF Conn
  <2>3. call'[c] = Onward(call[c], v)
    BY <2>1, <2>2 DEF Shaped, Onward, StreamInv
  <2>4. Only(c)
    BY <1>4, <1>7, <2>1 DEF Only, StreamInv
  <2>5. Conn(sock'[c], call'[c], up'[c], down'[c], Hand(c))
    BY <1>4, <1>6, <1>7, <1>8, <2>1, <2>3
  <2> QED
    BY <1>1, <1>4, <1>7, <2>4, <2>5, ClientMoves
<1>9. CASE Left(call[c], v) = <<>>
  <2>1. Returned(c, call[c].op, TRUE, v)
    BY <1>2, <1>3, <1>6, <1>9 DEF Receive, Left
  <2>2. Conn(sock[c], Idle, up[c], down'[c], Hand(c)) /\ down'[c] = <<>>
    BY <1>6, <1>7, <1>9
  <2>3. PICK opened \in BOOLEAN :
          /\ call' = [call EXCEPT ![c] = IF opened THEN Begun(getArchitecture) ELSE Idle]
          /\ up' = IF opened /\ sock[c] = "open" THEN [up EXCEPT ![c] = @ \o getArchitecture.send] ELSE up
    BY <2>1 DEF Returned
  <2>4. Only(c) /\ call'[c] = (IF opened THEN Begun(getArchitecture) ELSE Idle)
        /\ up'[c] = (IF opened /\ sock[c] = "open" THEN up[c] \o getArchitecture.send ELSE up[c])
    BY <1>4, <1>7, <2>3 DEF Only, StreamInv
  <2>5. CASE ~opened
    <3>1. Conn(sock'[c], call'[c], up'[c], down'[c], Hand(c))
      BY <1>4, <2>2, <2>4, <2>5
    <3> QED
      BY <1>1, <1>4, <1>7, <2>4, <3>1, ClientMoves
  <2>6. CASE opened /\ sock[c] = "open"
    <3>1. Conn("open", Begun(getArchitecture), up[c] \o getArchitecture.send, down'[c], Hand(c))
      BY <2>2, <2>6, IdleIs, OpensProcess, CallBegins
    <3>2. Conn(sock'[c], call'[c], up'[c], down'[c], Hand(c))
      BY <1>4, <2>4, <2>6, <3>1
    <3> QED
      BY <1>1, <1>4, <1>7, <2>4, <3>2, ClientMoves
  <2>7. CASE opened /\ sock[c] = "cut"
    <3>1. Conn("cut", Begun(getArchitecture), up[c], down'[c], Hand(c))
      BY <2>2, <2>7, OpensProcess, CallOnCut
    <3>2. Conn(sock'[c], call'[c], up'[c], down'[c], Hand(c))
      BY <1>4, <2>4, <2>7, <3>1
    <3> QED
      BY <1>1, <1>4, <1>7, <2>4, <3>2, ClientMoves
  <2> QED
    BY <1>5, <2>5, <2>6, <2>7
<1> QED
  BY <1>8, <1>9

LEMMA CallFailsStep == ASSUME StreamInv, NEW c \in Clients, CallFails(c) PROVE StreamInv'
<1>1. Conn(sock[c], call[c], up[c], down[c], Hand(c)) /\ backlog \in Seq(Clients) /\ ~garbled
  BY DEF StreamInv, Connected, CallFails
<1>2. /\ sock[c] = "cut" /\ call' = [call EXCEPT ![c] = Idle] /\ up' = up /\ down' = [down EXCEPT ![c] = <<>>]
      /\ UNCHANGED <<sock, worker, backlog, garbled, overlapped>>
  BY DEF CallFails, Returned, serverVars
<1>3. Only(c) /\ call'[c] = Idle /\ down'[c] = <<>>
  BY <1>2 DEF Only, StreamInv
<1>a. down'[c] \in Seq(Field)
  BY <1>3
<1>4. Conn(sock'[c], call'[c], up'[c], down'[c], Hand(c))
  BY <1>1, <1>2, <1>3, <1>a, CallFailed
<1> QED
  BY <1>1, <1>2, <1>3, <1>4, ClientMoves

LEMMA CloseStep == ASSUME StreamInv, NEW c \in Clients, Close(c) PROVE StreamInv'
<1>0. backlog \in Seq(Clients) /\ ~garbled
  BY DEF StreamInv
<1>1. c \notin overlapped => Conn(sock[c], call[c], up[c], down[c], Hand(c))
  BY DEF StreamInv, Connected
<1>2. /\ sock[c] \in {"open", "cut"} /\ call[c].op = "none" /\ sock' = [sock EXCEPT ![c] = "closed"]
      /\ UNCHANGED <<call, up, down, worker, backlog, garbled, overlapped>>
  BY DEF Close, InCall, serverVars
<1>3. Only(c) /\ sock'[c] = "closed"
  BY <1>2 DEF Only, StreamInv
<1>4. c \notin overlapped => Conn(sock'[c], call'[c], up'[c], down'[c], Hand(c))
  BY <1>1, <1>2, <1>3, ClientCloses
<1> QED
  BY <1>0, <1>1, <1>2, <1>3, <1>4, ClientMoves

LEMMA ClientDiesStep == ASSUME StreamInv, NEW c \in Clients, ClientDies(c) PROVE StreamInv'
<1>0. backlog \in Seq(Clients) /\ ~garbled
  BY DEF StreamInv
<1>1. c \notin overlapped => Conn(sock[c], call[c], up[c], down[c], Hand(c))
  BY DEF StreamInv, Connected
<1>2. PICK s \in Arrived(up[c]) : up' = [up EXCEPT ![c] = s]
  BY DEF ClientDies
<1>3. /\ sock[c] \in {"open", "cut"} /\ sock' = [sock EXCEPT ![c] = "closed"] /\ call' = [call EXCEPT ![c] = Idle]
      /\ down' = [down EXCEPT ![c] = <<>>] /\ UNCHANGED <<worker, backlog, garbled, overlapped>>
  BY DEF ClientDies, serverVars
<1>4. Only(c) /\ sock'[c] = "closed" /\ call'[c] = Idle /\ up'[c] = s /\ down'[c] = <<>>
  BY <1>2, <1>3 DEF Only, StreamInv
<1>5. c \notin overlapped => Conn("closed", Idle, s, <<>>, Hand(c))
  BY <1>1, <1>3, ClientGone
<1> QED
  BY <1>0, <1>1, <1>3, <1>4, <1>5, ClientMoves

LEMMA CutStep == ASSUME StreamInv, NEW c \in Clients, Cut(c) PROVE StreamInv'
<1>0. backlog \in Seq(Clients) /\ ~garbled
  BY DEF StreamInv
<1>1. c \notin overlapped => Conn(sock[c], call[c], up[c], down[c], Hand(c))
  BY DEF StreamInv, Connected
<1>2. PICK s \in Arrived(up[c]) : up' = [up EXCEPT ![c] = s]
  BY DEF Cut
<1>3. PICK t \in Arrived(down[c]) : down' = [down EXCEPT ![c] = t]
  BY DEF Cut
<1>4. sock[c] = "open" /\ sock' = [sock EXCEPT ![c] = "cut"] /\ UNCHANGED <<call, worker, backlog, garbled, overlapped>>
  BY DEF Cut, serverVars
<1>5. Only(c) /\ sock'[c] = "cut" /\ up'[c] = s /\ down'[c] = t
  BY <1>2, <1>3, <1>4 DEF Only, StreamInv
<1>6. c \notin overlapped => Conn("cut", call[c], s, t, Hand(c))
  BY <1>1, <1>4, OpenBreaks
<1> QED
  BY <1>0, <1>1, <1>4, <1>5, <1>6, ClientMoves

\* Two threads are in a call of c at once; what its calls do from then on.
LEMMA OverlapStep == ASSUME StreamInv, NEW c \in Clients, Overlap(c) \/ MixedCalls(c) PROVE StreamInv'
<1>1. /\ UNCHANGED <<sock, worker, backlog, garbled>> /\ c \in overlapped'
      /\ overlapped \subseteq overlapped'
  BY DEF Overlap, MixedCalls, serverVars
<1>2. \E q : call' = [call EXCEPT ![c] = q]
  BY DEF Overlap, MixedCalls
<1>3. (up' = up \/ up' = [up EXCEPT ![c] = <<>>]) /\ (down' = down \/ down' = [down EXCEPT ![c] = <<>>])
  BY DEF Overlap, MixedCalls
<1>4. Only(c)
  BY <1>1, <1>2, <1>3 DEF Only, StreamInv
<1>5. ~garbled' /\ worker' = worker /\ backlog' \in Seq(Clients)
  BY <1>1 DEF StreamInv
<1> QED
  BY <1>1, <1>4, <1>5, ClientMoves

LEMMA ServingWaits == \A c : Waiting(Serving(c)) /\ Serves(Serving(c), c) /\ Serving(c).at = "command" /\ Serving(c).conn = c
  BY WorkersServe DEF Waiting, CommandRead, Serves

LEMMA AwayWaits == Waiting(Away) /\ Accepting.at = "accept" /\ Away.at = "gone"
  BY WorkersServe DEF Waiting

LEMMA AcceptStep == ASSUME StreamInv, Accept PROVE StreamInv'
<1>1. worker.at = "accept" /\ UNCHANGED <<sock, call, up, down, garbled, overlapped>>
  BY DEF Accept, clientVars
<1>2. \A d \in Clients : Hand(d) = Away
  BY <1>1 DEF Hand, Serves
<1>3. CASE backlog # <<>> /\ worker' = Serving(Head(backlog)) /\ backlog' = Tail(backlog)
  <2>1. Head(backlog) \in Clients /\ backlog' \in Seq(Clients)
    BY <1>3, HeadTailProperties DEF StreamInv
  <2>2. worker'.conn \in Clients
    BY <1>3, <2>1, ServingWaits
  <2>3. \A d \in Clients : Waiting(Hand(d)')
    BY <1>3, AwayWaits, ServingWaits DEF Hand
  <2>4. \A d \in Clients : Still(d) /\ Connected(d)
    BY <1>1, <1>2, <2>3, AwayWaits DEF Still, StreamInv
  <2> QED
    BY <1>1, <2>1, <2>2, <2>4, StillConnected DEF StreamInv
<1>4. CASE worker' = Away /\ backlog' = backlog
  <2>1. \A d \in Clients : Hand(d)' = Away
    BY <1>4, AwayWaits DEF Hand, Serves
  <2>2. \A d \in Clients : Still(d) /\ Connected(d)
    BY <1>1, <1>2, <2>1 DEF Still, StreamInv
  <2> QED
    BY <1>1, <1>4, <2>2, AwayWaits, StillConnected DEF StreamInv
<1> QED
  BY <1>3, <1>4 DEF Accept

LEMMA WorkerFields ==
    ASSUME NEW w, NEW at, NEW conn, NEW cmd, NEW arg, NEW want, NEW v, NEW p,
           w = [at |-> at, conn |-> conn, cmd |-> cmd, arg |-> arg, want |-> want]
    PROVE  /\ [w EXCEPT !.at = "parameters", !.cmd = v, !.want = p]
                 = [at |-> "parameters", conn |-> conn, cmd |-> v, arg |-> arg, want |-> p]
           /\ [w EXCEPT !.arg = v, !.want = p] = [at |-> at, conn |-> conn, cmd |-> cmd, arg |-> v, want |-> p]
           /\ [w EXCEPT !.at = v] = [at |-> v, conn |-> conn, cmd |-> cmd, arg |-> arg, want |-> want]
<1>1. PICK n : n = [w EXCEPT !.at = "parameters", !.cmd = v, !.want = p]
  OBVIOUS
<1>2. n = [at |-> n.at, conn |-> n.conn, cmd |-> n.cmd, arg |-> n.arg, want |-> n.want]
  BY <1>1
<1>3. n.at = "parameters" /\ n.conn = conn /\ n.cmd = v /\ n.arg = arg /\ n.want = p
  BY <1>1
<1>4. PICK m : m = [w EXCEPT !.arg = v, !.want = p]
  OBVIOUS
<1>5. m = [at |-> m.at, conn |-> m.conn, cmd |-> m.cmd, arg |-> m.arg, want |-> m.want]
  BY <1>4
<1>6. m.at = at /\ m.conn = conn /\ m.cmd = cmd /\ m.arg = v /\ m.want = p
  BY <1>4
<1>7. [w EXCEPT !.at = v] = [at |-> v, conn |-> conn, cmd |-> cmd, arg |-> arg, want |-> want]
  OBVIOUS
<1> QED
  BY <1>1, <1>2, <1>3, <1>4, <1>5, <1>6, <1>7, Zenon

LEMMA ServerReceiveStep == ASSUME EventInv, StreamInv, ServerReceive PROVE StreamInv'
<1>1. PICK c : c = worker.conn
  OBVIOUS
<1>2. /\ worker.at \in {"command", "parameters"} /\ worker.want # <<>> /\ c \notin overlapped
      /\ UNCHANGED <<sock, call, down, backlog, overlapped>>
  BY <1>1 DEF ServerReceive, clientVars
<1>3. c \in Clients /\ Serves(worker, c) /\ Hand(c) = worker
  BY <1>1, <1>2 DEF StreamInv, Serves, Hand
<1>4. Conn(sock[c], call[c], up[c], down[c], worker) /\ ~garbled
  BY <1>2, <1>3 DEF StreamInv, Connected
<1>5. PICK read : read = Head(worker.want)
  OBVIOUS
<1>6. PICK v : v = LastOf(up[c], read)
  OBVIOUS
<1>7. /\ Available(up[c], read) /\ garbled' = (garbled \/ ~LinesUp(up[c], read))
      /\ worker.at = "command" => v \in ServedCommands
      /\ up' = [up EXCEPT ![c] = Rest(up[c], read)]
  BY <1>1, <1>5, <1>6 DEF ServerReceive
<1>8. worker' = After(worker, v)
  <2>1. worker = [at |-> worker.at, conn |-> worker.conn, cmd |-> worker.cmd, arg |-> worker.arg, want |-> worker.want]
    BY DEF EventInv, WorkerOK
  <2>2. CASE worker.at = "command"
    <3>1. worker' = [worker EXCEPT !.at = "parameters", !.cmd = v, !.want = Parameters(v)]
      BY <1>1, <1>5, <1>6, <2>2 DEF ServerReceive
    <3>2. worker' = [at |-> "parameters", conn |-> worker.conn, cmd |-> v, arg |-> worker.arg, want |-> Parameters(v)]
      BY <2>1, <3>1, WorkerFields
    <3> QED
      BY <2>2, <3>2 DEF After
  <2>3. CASE worker.at # "command"
    <3>1. worker' = [worker EXCEPT !.arg = IF read.then = "nothing" THEN worker.arg ELSE v,
                                   !.want = Continuation(read.then, v) \o Tail(worker.want)]
      BY <1>1, <1>5, <1>6, <2>3 DEF ServerReceive
    <3>2. PICK a, p : a = (IF read.then = "nothing" THEN worker.arg ELSE v) /\ p = Continuation(read.then, v) \o Tail(worker.want)
      OBVIOUS
    <3>3. worker' = [worker EXCEPT !.arg = a, !.want = p]
      BY <3>1, <3>2
    <3>4. worker' = [at |-> worker.at, conn |-> worker.conn, cmd |-> worker.cmd, arg |-> a, want |-> p]
      BY <2>1, <3>3, WorkerFields
    <3> QED
      BY <1>5, <2>3, <3>2, <3>4 DEF After
  <2> QED
    BY <2>2, <2>3
<1>9. worker'.at = "parameters" /\ worker'.conn = c
  BY <1>1, <1>2, <1>8 DEF After
<1>10. LinesUp(up[c], read) /\ Conn(sock[c], call[c], Rest(up[c], read), down[c], After(worker, v))
  BY <1>2, <1>4, <1>5, <1>6, <1>7, ServerReads
<1>11. Only(c) /\ up'[c] = Rest(up[c], read)
  BY <1>2, <1>3, <1>7 DEF Only, StreamInv
<1>12. Hand(c)' = After(worker, v)
  BY <1>8, <1>9 DEF Hand, Serves
<1>13. Conn(sock'[c], call'[c], up'[c], down'[c], Hand(c)')
  BY <1>2, <1>10, <1>11, <1>12
<1>14. ~garbled'
  BY <1>4, <1>7, <1>10
<1> QED
  BY <1>2, <1>3, <1>9, <1>11, <1>13, <1>14, ServerMoves

LEMMA DropStep ==
    ASSUME StreamInv, worker.at \notin {"gone", "accept"}, DropConnection, UNCHANGED <<call, down, backlog, garbled, overlapped>>
    PROVE  StreamInv'
<1>1. PICK c : c = worker.conn
  OBVIOUS
<1>2. c \in Clients /\ Serves(worker, c) /\ Hand(c) = worker
  BY <1>1 DEF StreamInv, Serves, Hand
<1>3. ~garbled /\ (c \notin overlapped => Conn(sock[c], call[c], up[c], down[c], worker))
  BY <1>2 DEF StreamInv, Connected
<1>4. worker' = Accepting /\ sock' = [sock EXCEPT ![c] = IF sock[c] = "open" THEN "cut" ELSE sock[c]] /\ up' = [up EXCEPT ![c] = <<>>]
  BY <1>1 DEF DropConnection
<1>5. Only(c) /\ sock'[c] = (IF sock[c] = "open" THEN "cut" ELSE sock[c]) /\ up'[c] = <<>>
  BY <1>2, <1>4 DEF Only, StreamInv
<1>6. Hand(c)' = Away /\ worker'.at = "accept"
  BY <1>4, AwayWaits DEF Hand, Serves
<1>7. c \notin overlapped => Conn(IF sock[c] = "open" THEN "cut" ELSE sock[c], call[c], <<>>, down[c], Away)
  BY <1>3, ServerDrops
<1>8. c \notin overlapped' => Conn(sock'[c], call'[c], up'[c], down'[c], Hand(c)')
  BY <1>5, <1>6, <1>7
<1> QED
  BY <1>2, <1>3, <1>5, <1>6, <1>8, ServerMoves

LEMMA HangupStep == ASSUME StreamInv, Hangup PROVE StreamInv'
<1>1. worker.at \in {"command", "parameters"} /\ DropConnection /\ UNCHANGED <<call, down, backlog, garbled, overlapped>>
  BY DEF Hangup
<1> QED
  BY <1>1, DropStep

\* The server takes the bytes of overlapping calls for a command, or for none.
LEMMA MisreadStep == ASSUME StreamInv, ServerMisreads PROVE StreamInv'
<1>1. PICK c : c = worker.conn
  OBVIOUS
<1>2. /\ worker.at \in {"command", "parameters"} /\ c \in overlapped
      /\ UNCHANGED <<call, down, backlog, garbled, overlapped>>
  BY <1>1 DEF ServerMisreads
<1>3. c \in Clients /\ Serves(worker, c) /\ ~garbled
  BY <1>1, <1>2 DEF StreamInv, Serves
<1>4. CASE DropConnection
  BY <1>2, <1>4, DropStep
<1>5. CASE ~DropConnection
  <2>1. /\ UNCHANGED <<sock, up>>
        /\ \E cmd : worker' = [worker EXCEPT !.at = "parameters", !.cmd = cmd, !.arg = 0, !.want = <<>>]
    BY <1>5 DEF ServerMisreads
  <2>2. worker'.at \notin {"gone", "accept"} => worker'.conn = c
    BY <1>1, <2>1
  <2>3. Only(c)
    BY <1>2, <2>1 DEF Only, StreamInv
  <2> QED
    BY <1>2, <1>3, <2>2, <2>3, ServerMoves
<1> QED
  BY <1>4, <1>5

LEMMA AnswerStep ==
    ASSUME StreamInv, NEW fields, Answer(fields), MayAnswer(worker.cmd, worker.arg, fields),
           (worker.at = "parameters" /\ worker.want = <<>>) \/ worker.at \in {"join", "cleared"}
    PROVE  StreamInv'
<1>1. PICK c : c = worker.conn
  OBVIOUS
<1>2. UNCHANGED <<call, backlog, garbled, overlapped>> /\ worker.at \notin {"gone", "accept"}
  BY DEF Answer
<1>3. c \in Clients /\ Serves(worker, c) /\ Hand(c) = worker
  BY <1>1, <1>2 DEF StreamInv, Serves, Hand
<1>4. ~garbled /\ (c \notin overlapped => Conn(sock[c], call[c], up[c], down[c], worker))
  BY <1>3 DEF StreamInv, Connected
<1>5. CASE sock[c] # "open"
  <2>1. DropConnection /\ down' = down
    BY <1>1, <1>5 DEF Answer
  <2> QED
    BY <1>2, <2>1, DropStep
<1>6. CASE sock[c] = "open"
  <2>1. /\ down' = IF c \in overlapped THEN down ELSE [down EXCEPT ![c] = down[c] \o fields]
        /\ worker' = Serving(c) /\ UNCHANGED <<sock, up>>
    BY <1>1, <1>6 DEF Answer
  <2>2. Only(c) /\ (c \notin overlapped => down'[c] = down[c] \o fields)
    BY <1>2, <1>3, <2>1 DEF Only, StreamInv
  <2>3. Hand(c)' = Serving(c) /\ worker'.conn = c
    BY <2>1, ServingWaits DEF Hand
  <2>4. c \notin overlapped => Conn("open", call[c], up[c], down[c] \o fields, Serving(c))
    BY <1>4, <1>6, ServingWaits, ServerAnswers
  <2>5. c \notin overlapped' => Conn(sock'[c], call'[c], up'[c], down'[c], Hand(c)')
    BY <1>2, <1>6, <2>1, <2>2, <2>3, <2>4
  <2> QED
    BY <1>2, <1>3, <1>4, <2>2, <2>3, <2>5, ServerMoves
<1> QED
  BY <1>5, <1>6

LEMMA AnsweringStep ==
    ASSUME EventInv, StreamInv, ServeMemory \/ StartDebug \/ StopDebug \/ SetBreakpoint \/ RemoveBreakpoint \/ ContinueFromEvent
    PROVE  StreamInv'
<1>1. \A ok \in BOOLEAN : <<F(4, IF ok THEN 1 ELSE 0)>> \in {<<F(4, 0)>>, <<F(4, 1)>>}
  OBVIOUS
<1>2. CASE ServeMemory
  <2>1. PICK fields \in Answers(worker.cmd, worker.arg) : Answer(fields)
    BY <1>2 DEF ServeMemory
  <2>2. worker.cmd \in MemoryCommands /\ worker.at = "parameters" /\ worker.want = <<>>
    BY <1>2 DEF ServeMemory, Received
  <2>3. MayAnswer(worker.cmd, worker.arg, fields)
    BY <2>1, <2>2 DEF MayAnswer
  <2> QED
    BY <2>1, <2>2, <2>3, AnswerStep
<1>3. CASE StartDebug \/ StopDebug \/ SetBreakpoint \/ RemoveBreakpoint \/ ContinueFromEvent
  <2>1. PICK fields \in {<<F(4, 0)>>, <<F(4, 1)>>} : Answer(fields)
    <3>1. CASE StartDebug
      BY <1>1, <3>1, Zenon DEF StartDebug
    <3>2. CASE SetBreakpoint
      <4>1. {dbg.live, FALSE} \subseteq BOOLEAN
        BY DEF EventInv, SessionOK
      <4> QED
        BY <1>1, <3>2, <4>1, Zenon DEF SetBreakpoint
    <3>3. CASE StopDebug \/ RemoveBreakpoint \/ ContinueFromEvent
      BY <3>3, Zenon DEF StopDebug, RemoveBreakpoint, ContinueFromEvent
    <3> QED
      BY <1>3, <3>1, <3>2, <3>3
  <2>2. /\ (worker.at = "parameters" /\ worker.want = <<>>) \/ worker.at \in {"join", "cleared"}
        /\ worker.cmd \in {CMD_STARTDEBUG, CMD_STOPDEBUG, CMD_CONTINUEFROMDEBUGEVENT, CMD_SETBREAKPOINT, CMD_REMOVEBREAKPOINT}
    BY <1>3 DEF StartDebug, StopDebug, SetBreakpoint, RemoveBreakpoint, ContinueFromEvent, Received
  <2>3. MayAnswer(worker.cmd, worker.arg, fields)
    BY <2>1, <2>2 DEF MayAnswer
  <2> QED
    BY <2>1, <2>2, <2>3, AnswerStep
<1> QED
  BY <1>2, <1>3

LEMMA WaitStep == ASSUME EventInv, StreamInv, WaitForEvent PROVE StreamInv'
<1>1. worker.cmd = CMD_WAITFORDEBUGEVENT /\ worker.at = "parameters" /\ worker.want = <<>>
  BY DEF WaitForEvent, Received
<1>2. CASE dbgQueue # <<>>
  <2>1. Head(dbgQueue) \in Nat
    BY <1>2, HeadTailProperties DEF EventInv
  <2>2. PICK fields : fields = <<F(4, 1), F(4, 5), F(8, Head(dbgQueue)), F(8, 0)>>
    OBVIOUS
  <2>3. Answer(fields)
    BY <1>2, <2>2 DEF WaitForEvent
  <2>4. MayAnswer(worker.cmd, worker.arg, fields)
    BY <1>1, <2>1, <2>2 DEF MayAnswer
  <2> QED
    BY <1>1, <2>3, <2>4, AnswerStep
<1>3. CASE dbgQueue = <<>>
  <2>1. PICK fields : fields = <<F(4, 0)>>
    OBVIOUS
  <2>2. Answer(fields)
    BY <1>3, <2>1 DEF WaitForEvent
  <2>3. MayAnswer(worker.cmd, worker.arg, fields)
    BY <1>1, <2>1 DEF MayAnswer
  <2> QED
    BY <1>1, <2>2, <2>3, AnswerStep
<1> QED
  BY <1>2, <1>3

\* The worker goes on with a command it has read whole.
LEMMA WorkerGoesOn ==
    ASSUME NEW k, NEW cl, NEW u, NEW d, NEW w, NEW v, Conn(k, cl, u, d, w), ~Waiting(w),
           \A q, f : Pending(q, w, f) => Pending(q, v, f)
    PROVE  Conn(k, cl, u, d, v)
<1>1. k # "none" /\ ~Quiet(cl, u, d, w) /\ ~Answered(cl, u, d, w)
  BY DEF Conn, Quiet, Answered
<1>2. Asked(cl, u, d, w) => Asked(cl, u, d, v)
  BY DEF Asked
<1>3. ServerSide(u, w) => ServerSide(u, v)
  BY DEF ServerSide
<1> QED
  BY <1>1, <1>2, <1>3 DEF Conn

LEMMA ReplaceStep == ASSUME EventInv, StreamInv, ResetSession \/ SessionJoined PROVE StreamInv'
<1>1. PICK c : c = worker.conn
  OBVIOUS
<1>2. worker.at \in {"parameters", "join"} /\ UNCHANGED <<sock, call, up, down, garbled, overlapped, backlog>>
  BY DEF ResetSession, SessionJoined, Received, clientVars
<1>3. c \in Clients /\ Serves(worker, c) /\ Hand(c) = worker /\ ~Waiting(worker)
  BY <1>1, <1>2 DEF StreamInv, Serves, Hand, Waiting
<1>4. worker = [at |-> worker.at, conn |-> worker.conn, cmd |-> worker.cmd, arg |-> worker.arg, want |-> worker.want]
  BY DEF EventInv, WorkerOK
<1>5. PICK at \in {"join", "cleared"} : worker' = [worker EXCEPT !.at = at]
  BY DEF ResetSession, SessionJoined
<1>6. worker' = [at |-> at, conn |-> worker.conn, cmd |-> worker.cmd, arg |-> worker.arg, want |-> worker.want]
  BY <1>4, <1>5, WorkerFields
<1>7. worker'.at = at /\ worker'.conn = c /\ worker'.cmd = worker.cmd /\ worker'.arg = worker.arg
  BY <1>1, <1>6
<1>8. ASSUME NEW q, NEW f, Pending(q, worker, f) PROVE Pending(q, worker', f)
  <2>1. worker.cmd = CmdOf(q) /\ worker.cmd \in {CMD_STARTDEBUG, CMD_STOPDEBUG} /\ f = <<>> /\ FitsAnswers(q, worker.arg)
    <3>1. CASE worker.at = "join"
      BY <1>3, <1>8, <3>1 DEF Pending
    <3>2. CASE worker.at = "parameters"
      <4>1. worker.cmd \in {CMD_STARTDEBUG, CMD_STOPDEBUG} /\ worker.want = <<>>
        BY <3>2 DEF ResetSession, SessionJoined, Received
      <4>2. worker.cmd = CmdOf(q) /\ Parametrized(worker.want, worker.arg, f, q)
        BY <1>3, <1>8, <3>2 DEF Pending
      <4>3. ~LastParameters(worker.want, f, q, worker.arg) /\ ~SizedParameters(worker.want, f, q) /\ ~WriteParameters(worker.want, f, q)
        BY <4>1 DEF LastParameters, SizedParameters, WriteParameters
      <4> QED
        BY <4>1, <4>2, <4>3 DEF Parametrized
    <3> QED
      BY <1>2, <3>1, <3>2
  <2> QED
    BY <1>7, <2>1 DEF Pending
<1>9. ~garbled /\ (c \notin overlapped => Conn(sock[c], call[c], up[c], down[c], worker))
  BY <1>3 DEF StreamInv, Connected
<1>10. c \notin overlapped => Conn(sock[c], call[c], up[c], down[c], worker')
  BY <1>3, <1>8, <1>9, WorkerGoesOn
<1>11. Hand(c)' = worker' /\ Only(c)
  BY <1>2, <1>7 DEF Hand, Serves, Only, StreamInv
<1>12. c \notin overlapped' => Conn(sock'[c], call'[c], up'[c], down'[c], Hand(c)')
  BY <1>2, <1>10, <1>11
<1> QED
  BY <1>2, <1>3, <1>7, <1>9, <1>11, <1>12, ServerMoves

LEMMA StopStep == ASSUME StreamInv, Stop PROVE StreamInv'
<1>1. /\ sock' = [c \in Clients |-> IF sock[c] = "open" /\ (\E i \in DOMAIN backlog : backlog[i] = c) THEN "cut" ELSE sock[c]]
      /\ backlog' = <<>> /\ UNCHANGED <<call, up, down, worker, garbled, overlapped>>
  BY DEF Stop
<1>2. \A c \in Clients : Hand(c)' = Hand(c)
  BY <1>1 DEF Hand, Serves
<1>3. ASSUME NEW c \in Clients PROVE Connected(c)'
  <2>1. c \notin overlapped => Conn(sock[c], call[c], up[c], down[c], Hand(c))
    BY DEF StreamInv, Connected
  <2>2. c \notin overlapped /\ sock[c] = "open" => Conn("cut", call[c], up[c], down[c], Hand(c))
    <3>1. up[c] \in Arrived(up[c]) /\ down[c] \in Arrived(down[c])
      BY DEF Arrived
    <3> QED
      BY <2>1, <3>1, OpenBreaks
  <2>3. sock'[c] = sock[c] \/ (sock[c] = "open" /\ sock'[c] = "cut")
    BY <1>1
  <2> QED
    BY <1>1, <1>2, <2>1, <2>2, <2>3 DEF Connected
<1>4. backlog' \in Seq(Clients)
  BY <1>1
<1>5. sock' = [c \in Clients |-> sock'[c]]
  BY <1>1
<1> QED
  BY <1>1, <1>3, <1>4, <1>5 DEF StreamInv

LEMMA StreamNext == EventInv /\ StreamInv /\ [Next]_vars => StreamInv'
<1> SUFFICES ASSUME EventInv, StreamInv, [Next]_vars PROVE StreamInv'
  OBVIOUS
<1>1. CASE UNCHANGED vars
  BY <1>1, NobodyMoves DEF vars, clientVars, serverVars
<1>2. CASE \E c \in Clients : connectTcp(c) \/ Receive(c) \/ CallFails(c) \/ Close(c) \/ ClientDies(c) \/ Cut(c)
  BY <1>2, ConnectStep, ReceiveStep, CallFailsStep, CloseStep, ClientDiesStep, CutStep
<1>3. CASE \E c \in Clients : OpenHandle(c) \/ UseHandle(c) \/ DestroyHandle(c) \/ DebuggerAttach(c)
                                \/ UseDebugger(c) \/ DebuggerDetach(c)
  BY <1>3, UserCalls, InvokeStep
<1>7. CASE \E c \in Clients : Overlap(c) \/ MixedCalls(c)
  BY <1>7, OverlapStep
<1>8. CASE ServerMisreads
  BY <1>8, MisreadStep
<1>4. CASE Server
  BY <1>4, AcceptStep, ServerReceiveStep, HangupStep, AnsweringStep, WaitStep, ReplaceStep DEF Server
<1>5. CASE TracerContinues \/ TargetHits \/ TargetExits \/ JoinWorker \/ TearDown
  <2>1. UNCHANGED <<sock, call, up, down, garbled, overlapped, backlog, worker>>
    BY <1>5 DEF TracerContinues, TargetHits, TargetExits, JoinWorker, TearDown, tracerFrame, clientVars, serverVars
  <2> QED
    BY <2>1, NobodyMoves
<1>6. CASE Stop
  BY <1>6, StopStep
<1> QED
  BY <1>1, <1>2, <1>3, <1>4, <1>5, <1>6, <1>7, <1>8, Zenon DEF Next

LEMMA StreamHolds == StreamInv => InStep
<1> SUFFICES ASSUME StreamInv PROVE InStep
  OBVIOUS
<1>1. ASSUME NEW c \in Clients \ overlapped, sock[c] = "open", ~InCall(c) PROVE up[c] = <<>> /\ down[c] = <<>>
  <2>1. Conn(sock[c], call[c], up[c], down[c], Hand(c)) /\ call[c].op = "none"
    BY <1>1 DEF StreamInv, Connected, InCall
  <2> QED
    BY <1>1, <2>1, IdleOpen
<1> QED
  BY <1>1 DEF InStep, StreamInv

\* On every connection whose calls never overlapped the two sides agree on every
\* layout, for lists of any length the client accepts: no read takes bytes of another
\* field, and between two calls nothing is left over; overlapping calls on other
\* connections of the same server do not change that.
THEOREM SidesInStep == Spec => []InStep
  BY EventsInit, EventsNext, StreamInit, StreamNext, StreamHolds, PTL DEF Spec
=============================================================================
