--------------------------- MODULE CommandChannel ---------------------------
(***************************************************************************)
(* The command channel of ce::DebugSession (debug/debug_session.cpp, .hpp)  *)
(*                                                                         *)
(* ptrace requests are only valid on the thread that attached, so every    *)
(* public operation hands a command to the tracer thread and blocks on a   *)
(* future.  This module models attach, postCommand, detach, the loop of    *)
(* tracerThread and the end of tracerCleanup: who holds cmdMutex_, what is *)
(* in commands_, when attached_ is read and written.  What a command does  *)
(* to the target is the subject of module DebugSession.                    *)
(*                                                                         *)
(* A session object is attached once: that is how every caller in src/     *)
(* uses it.                                                                *)
(***************************************************************************)
EXTENDS Naturals, Sequences

CONSTANT Clients        \* threads that call the session (GUI, Lua, ceserver)

\* cmdMutex_ is held by a client or is free.
Free == "free"

ASSUME ClientsAssumption == Free \notin Clients

VARIABLES
    attached,   \* attached_
    tpc,        \* where the tracer thread is
    cmd,        \* the command taken from the queue, named by its client
    queue,      \* commands_
    lock,       \* holder of cmdMutex_
    cpc,        \* cpc[c]: where client c is inside the API
    done        \* done[c]: state of the promise of c's command

vars == <<attached, tpc, cmd, queue, lock, cpc, done>>

TracerStates == {"off", "seize", "loop", "drain", "perform", "poll", "clean", "done"}
ClientStates == {"idle", "attaching", "post", "locked", "push", "wait", "join"}
Promises     == {"none", "result", "failed"}

TypeOK ==
    /\ attached \in BOOLEAN
    /\ tpc \in TracerStates
    /\ cmd \in Clients \cup {Free}
    /\ queue \in Seq(Clients)
    /\ lock \in Clients \cup {Free}
    /\ cpc \in [Clients -> ClientStates]
    /\ done \in [Clients -> Promises]

Init ==
    /\ attached = FALSE
    /\ tpc = "off"
    /\ cmd = Free
    /\ queue = <<>>
    /\ lock = Free
    /\ cpc = [c \in Clients |-> "idle"]
    /\ done = [c \in Clients |-> "none"]

Goto(c, where) == cpc' = [cpc EXCEPT ![c] = where]
-----------------------------------------------------------------------------
(* Attaching and detaching, on a client thread *)

\* attach(): start the tracer thread, then block on attachPromise_.
Attach(c) ==
    /\ cpc[c] = "idle" /\ tpc = "off" /\ ~attached
    /\ Goto(c, "attaching")
    /\ tpc' = "seize"
    /\ UNCHANGED <<attached, cmd, queue, lock, done>>

\* fut.get() returns once the tracer thread has set the promise.
AttachReturn(c) ==
    /\ cpc[c] = "attaching" /\ tpc \notin {"off", "seize"}
    /\ Goto(c, "idle")
    /\ UNCHANGED <<attached, tpc, cmd, queue, lock, done>>

\* detach(): attached_.exchange(false), wake the tracer, then join it. A caller
\* that finds attached_ already false returns at once (no step).
Detach(c) ==
    /\ cpc[c] = "idle" /\ attached
    /\ attached' = FALSE
    /\ Goto(c, "join")
    /\ UNCHANGED <<tpc, cmd, queue, lock, done>>

JoinReturn(c) ==
    /\ cpc[c] = "join" /\ tpc = "done"
    /\ Goto(c, "idle")
    /\ UNCHANGED <<attached, tpc, cmd, queue, lock, done>>
-----------------------------------------------------------------------------
(* postCommand, on a client thread *)

\* The first, unlocked test of attached_ (false: return -1, no step).
PostCommand(c) ==
    /\ cpc[c] = "idle" /\ attached
    /\ Goto(c, "post")
    /\ UNCHANGED <<attached, tpc, cmd, queue, lock, done>>

PostLock(c) ==
    /\ cpc[c] = "post" /\ lock = Free
    /\ lock' = c
    /\ Goto(c, "locked")
    /\ UNCHANGED <<attached, tpc, cmd, queue, done>>

\* Mutant: attached_ is not tested again under the lock.
PostRecheckSkipped(c) ==
    /\ cpc[c] = "locked"
    /\ Goto(c, "push")
    /\ UNCHANGED <<attached, tpc, cmd, queue, lock, done>>

\* The second test, under the lock: false gives the lock back and returns -1.
\* attached_ is not protected by the lock: it may turn false before the push.
PostRecheck(c) ==
    /\ cpc[c] = "locked"
    /\ IF attached
       THEN Goto(c, "push") /\ UNCHANGED lock
       ELSE Goto(c, "idle") /\ lock' = Free
    /\ UNCHANGED <<attached, tpc, cmd, queue, done>>

\* push_back, unlock, notify; the caller now blocks in fut.get().
PostPush(c) ==
    /\ cpc[c] = "push"
    /\ queue' = Append(queue, c)
    /\ lock' = Free
    /\ Goto(c, "wait")
    /\ UNCHANGED <<attached, tpc, cmd, done>>

PostReturn(c) ==
    /\ cpc[c] = "wait" /\ done[c] # "none"
    /\ Goto(c, "idle")
    /\ done' = [done EXCEPT ![c] = "none"]
    /\ UNCHANGED <<attached, tpc, cmd, queue, lock>>
-----------------------------------------------------------------------------
(* tracerThread *)

TracerUnchanged == UNCHANGED <<attached, cmd, queue, lock, cpc, done>>

\* seizeAllThreads failed: report false and end the thread, without cleanup.
SeizeFails ==
    /\ tpc = "seize"
    /\ tpc' = "done"
    /\ TracerUnchanged

SeizeSucceeds ==
    /\ tpc = "seize"
    /\ attached' = TRUE
    /\ tpc' = "loop"
    /\ UNCHANGED <<cmd, queue, lock, cpc, done>>

\* while (attached_.load())
LoopTest ==
    /\ tpc = "loop"
    /\ tpc' = IF attached THEN "drain" ELSE "clean"
    /\ TracerUnchanged

\* Take at most one command under the lock.
DrainOne ==
    /\ tpc = "drain" /\ lock = Free
    /\ IF queue # <<>>
       THEN /\ cmd' = Head(queue)
            /\ queue' = Tail(queue)
            /\ tpc' = "perform"
       ELSE /\ tpc' = "poll"
            /\ UNCHANGED <<cmd, queue>>
    /\ UNCHANGED <<attached, lock, cpc, done>>

\* performCommand, then cmd.done->set_value(r).
PerformCommand ==
    /\ tpc = "perform"
    /\ done' = [done EXCEPT ![cmd] = "result"]
    /\ cmd' = Free
    /\ tpc' = "loop"
    /\ UNCHANGED <<attached, queue, lock, cpc>>

\* The loop found no command: it polled the target, slept, handled a stop or
\* waited on cmdCv_ (a wait bounded by 50 ms), and goes round again.
PollQuiet ==
    /\ tpc = "poll"
    /\ tpc' = "loop"
    /\ TracerUnchanged

\* Mutant: detach() joins the thread it runs on.
PollEndsSelfJoin ==
    /\ tpc = "poll"
    /\ attached' = FALSE
    /\ tpc' = "selfJoin"
    /\ UNCHANGED <<cmd, queue, lock, cpc, done>>

\* The target is gone, or a callback running on the tracer thread called
\* detach(), which cannot join itself: attached_ falls with nobody waiting.
PollEnds ==
    /\ tpc = "poll"
    /\ attached' = FALSE
    /\ tpc' = "loop"
    /\ UNCHANGED <<cmd, queue, lock, cpc, done>>

\* Mutant: the queue is emptied without taking the lock.
FailQueuedUnlocked ==
    /\ tpc = "clean"
    /\ done' = [c \in Clients |->
                  IF \E i \in 1..Len(queue) : queue[i] = c THEN "failed" ELSE done[c]]
    /\ queue' = <<>>
    /\ tpc' = "done"
    /\ UNCHANGED <<attached, cmd, lock, cpc>>

\* Mutant: the queue is emptied and the promises are forgotten.
FailQueuedSilently ==
    /\ tpc = "clean" /\ lock = Free
    /\ queue' = <<>>
    /\ tpc' = "done"
    /\ UNCHANGED <<attached, cmd, lock, cpc, done>>

\* tracerCleanup's last act, under the lock: fail whatever is still queued.
FailQueued ==
    /\ tpc = "clean" /\ lock = Free
    /\ done' = [c \in Clients |->
                  IF \E i \in 1..Len(queue) : queue[i] = c THEN "failed" ELSE done[c]]
    /\ queue' = <<>>
    /\ tpc' = "done"
    /\ UNCHANGED <<attached, cmd, lock, cpc>>
-----------------------------------------------------------------------------
ClientStep(c) ==
    \/ Attach(c) \/ AttachReturn(c) \/ Detach(c) \/ JoinReturn(c)
    \/ PostCommand(c) \/ PostLock(c) \/ PostRecheck(c) \/ PostPush(c) \/ PostReturn(c)

TracerStep ==
    \/ SeizeFails \/ SeizeSucceeds \/ LoopTest \/ DrainOne
    \/ PerformCommand \/ PollQuiet \/ PollEnds \/ FailQueued

Next == TracerStep \/ \E c \in Clients : ClientStep(c)

\* A client inside a call is a running thread: it does not stop half way. It need
\* not begin a call. The tracer runs; whether it gets cmdMutex_ is up to a lock
\* that gives no order, so its two locked regions are only strongly fair, as are
\* a client's.
Fairness ==
    /\ WF_vars(LoopTest \/ PerformCommand \/ SeizeFails \/ SeizeSucceeds
               \/ PollQuiet \/ PollEnds)
    /\ SF_vars(DrainOne) /\ SF_vars(FailQueued)
    /\ \A c \in Clients :
        /\ WF_vars(AttachReturn(c) \/ JoinReturn(c) \/ PostRecheck(c)
                   \/ PostPush(c) \/ PostReturn(c))
        /\ SF_vars(PostLock(c))

Spec == Init /\ [][Next]_vars

FairSpec == Spec /\ Fairness
-----------------------------------------------------------------------------
(* Properties *)

Owed(c) == cpc[c] = "wait" /\ done[c] = "none"

\* Once the tracer thread has ended, no caller of postCommand is left blocked on
\* a future that nothing will complete, whatever order the check, the push, the
\* detach and the final drain ran in (debug_session.cpp 252-255, 258-275).
NoStrandedCaller == tpc = "done" => \A c \in Clients : ~Owed(c)

\* A caller blocked on a future always gets an answer, and a caller blocked in
\* attach() or detach() always returns.
EveryCallReturns ==
    \A c \in Clients : (cpc[c] \in {"attaching", "post", "wait", "join"}) ~> (cpc[c] = "idle")

\* The refinement mapping: what a caller can tell of the session and its call.
ServicePhase ==
    CASE tpc \in {"off", "seize"} -> "new"
      [] tpc = "done" -> "closed"
      [] attached /\ tpc \notin {"off", "seize", "done"} -> "live"
      [] OTHER -> "closing"

ServiceCall ==
    [c \in Clients |->
        CASE cpc[c] # "wait" -> "none"
          [] cpc[c] = "wait" /\ done[c] = "none" -> "pending"
          [] cpc[c] = "wait" /\ done[c] = "result" -> "served"
          [] OTHER -> "refused"]

Service == INSTANCE CallService WITH phase <- ServicePhase, call <- ServiceCall

\* Every behaviour of the channel, read through that mapping, is a behaviour of
\* CallService: accepted calls are answered exactly once, none after closing.
ImplementsService == Service!ServiceSpec
=============================================================================
