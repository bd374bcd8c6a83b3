------------------------ MODULE CommandChannelProofs ------------------------
(***************************************************************************)
(* Proofs about CommandChannel, for any set of client threads: the state   *)
(* is well typed, no caller is stranded, and the channel implements        *)
(* CallService.                                                            *)
(***************************************************************************)
EXTENDS CommandChannel, TLAPS

Working == {"loop", "drain", "perform", "poll"}

\* c is an element of the sequence q; q repeats no element.
Elem(q, c) == \E i \in 1..Len(q) : q[i] = c
NoRepeat(q) == \A i, j \in 1..Len(q) : q[i] = q[j] => i = j

Queued(c) == Elem(queue, c)

InHand(c) == tpc = "perform" /\ cmd = c

\* cmdMutex_ is held exactly by the client inside the locked region.
LockInv == \A c \in Clients : cpc[c] \in {"locked", "push"} <=> lock = c

\* attached_ is up only while the loop runs, and before the loop nobody posts.
\* A client that passed the second test keeps the tracer out of "done": the
\* tracer needs the lock to get there.
PhaseInv ==
    /\ attached => tpc \in Working
    /\ tpc \in {"off", "seize"} => \A c \in Clients : cpc[c] \in {"idle", "attaching"}
    /\ tpc = "done" => \A c \in Clients : cpc[c] # "push"
    /\ tpc = "done" => queue = <<>>

\* The commands in the queue and in the tracer's hand are exactly the calls that
\* are owed an answer, each once.
OwedInv ==
    /\ \A c \in Clients : Owed(c) <=> Queued(c) \/ InHand(c)
    /\ \A c \in Clients : done[c] # "none" => cpc[c] = "wait"
    /\ tpc = "perform" => cmd \in Clients /\ ~Queued(cmd)
    /\ NoRepeat(queue)

ChannelInv == TypeOK /\ LockInv /\ PhaseInv /\ OwedInv

-----------------------------------------------------------------------------
(* Type correctness *)

\* The variables keep their types through every step of clients and tracer.
THEOREM TypeCorrect == Spec => []TypeOK
<1>1. Init => TypeOK
  <2>1. <<>> \in Seq(Clients)
    OBVIOUS
  <2> QED
    BY <2>1 DEF Init, TypeOK, TracerStates, ClientStates, Promises
<1>2. TypeOK /\ [Next]_vars => TypeOK'
  <2> SUFFICES ASSUME TypeOK, [Next]_vars PROVE TypeOK'
    OBVIOUS
  <2> USE DEF TypeOK, TracerStates, ClientStates, Promises, Goto
  <2>1. ASSUME NEW c \in Clients, ClientStep(c) PROVE TypeOK'
    <3>1. CASE Attach(c) \/ AttachReturn(c) \/ Detach(c) \/ JoinReturn(c) \/ PostCommand(c)
      BY <3>1 DEF Attach, AttachReturn, Detach, JoinReturn, PostCommand
    <3>2. CASE PostLock(c) \/ PostRecheck(c) \/ PostReturn(c)
      BY <3>2 DEF PostLock, PostRecheck, PostReturn
    <3>3. CASE PostPush(c)
      <4>1. queue' \in Seq(Clients)
        BY <3>3 DEF PostPush
      <4> QED
        BY <3>3, <4>1 DEF PostPush
    <3> QED
      BY <2>1, <3>1, <3>2, <3>3 DEF ClientStep
  <2>2. CASE SeizeFails \/ SeizeSucceeds \/ LoopTest \/ PollQuiet \/ PollEnds
    BY <2>2 DEF SeizeFails, SeizeSucceeds, LoopTest, PollQuiet, PollEnds, TracerUnchanged
  <2>3. CASE DrainOne
    BY <2>3 DEF DrainOne
  <2>4. CASE PerformCommand
    BY <2>4 DEF PerformCommand
  <2>5. CASE FailQueued
    BY <2>5 DEF FailQueued
  <2>6. CASE UNCHANGED vars
    BY <2>6 DEF vars
  <2> QED
    BY <2>1, <2>2, <2>3, <2>4, <2>5, <2>6 DEF Next, TracerStep
<1> QED
  BY <1>1, <1>2, PTL DEF Spec
-----------------------------------------------------------------------------
(* The queue *)

\* push_back adds the pushed command and nothing else.
LEMMA AppendElem ==
    ASSUME NEW S, NEW q \in Seq(S), NEW c \in S
    PROVE  /\ \A d : Elem(Append(q, c), d) <=> Elem(q, d) \/ d = c
           /\ NoRepeat(q) /\ ~Elem(q, c) => NoRepeat(Append(q, c))
<1> DEFINE r == Append(q, c)
<1>1. Len(r) = Len(q) + 1 /\ r[Len(q) + 1] = c /\ Len(q) \in Nat
  OBVIOUS
<1>2. \A i \in 1..Len(q) : r[i] = q[i]
  OBVIOUS
<1>3. \A i \in 1..Len(r) : i \in 1..Len(q) \/ i = Len(q) + 1
  BY <1>1
<1>4. 1..Len(q) \subseteq 1..Len(r) /\ Len(q) + 1 \in 1..Len(r)
  BY <1>1
<1> HIDE DEF r
<1>5. \A d : Elem(r, d) <=> Elem(q, d) \/ d = c
  BY <1>1, <1>2, <1>3, <1>4 DEF Elem
<1>6. NoRepeat(q) /\ ~Elem(q, c) => NoRepeat(r)
  BY <1>1, <1>2, <1>3, <1>4 DEF Elem, NoRepeat
<1> QED
  BY <1>5, <1>6 DEF r

\* pop_front takes the first command, which is then no longer in the queue.
LEMMA TailElem ==
    ASSUME NEW S, NEW q \in Seq(S), q # <<>>
    PROVE  /\ Head(q) \in S /\ Tail(q) \in Seq(S)
           /\ \A d : Elem(q, d) <=> Elem(Tail(q), d) \/ d = Head(q)
           /\ NoRepeat(q) => NoRepeat(Tail(q)) /\ ~Elem(Tail(q), Head(q))
<1> DEFINE r == Tail(q)
           h == Head(q)
<1>1. h \in S /\ r \in Seq(S) /\ h = q[1] /\ Len(q) \in Nat /\ Len(q) >= 1
  OBVIOUS
<1>2. Len(r) = Len(q) - 1 /\ \A i \in 1..Len(r) : r[i] = q[i + 1]
  OBVIOUS
<1> HIDE DEF r, h
<1>3. \A i \in 1..Len(r) : i + 1 \in 1..Len(q) /\ i + 1 # 1
  BY <1>1, <1>2
<1>4. \A i \in 1..Len(q) : i = 1 \/ (i - 1 \in 1..Len(r) /\ q[i] = r[i - 1])
  BY <1>1, <1>2
<1>5. \A d : Elem(q, d) <=> Elem(r, d) \/ d = h
  <2> SUFFICES ASSUME NEW d PROVE Elem(q, d) <=> Elem(r, d) \/ d = h
    OBVIOUS
  <2>1. ASSUME Elem(q, d) PROVE Elem(r, d) \/ d = h
    BY <1>1, <1>4, <2>1 DEF Elem
  <2>2. ASSUME Elem(r, d) PROVE Elem(q, d)
    BY <1>2, <1>3, <2>2 DEF Elem
  <2>3. Elem(q, h)
    BY <1>1 DEF Elem
  <2> QED
    BY <2>1, <2>2, <2>3
<1>6. ASSUME NoRepeat(q) PROVE NoRepeat(r) /\ ~Elem(r, h)
  <2>1. NoRepeat(r)
    BY <1>1, <1>2, <1>3, <1>6 DEF NoRepeat
  <2>2. ~Elem(r, h)
    BY <1>1, <1>2, <1>3, <1>6 DEF NoRepeat, Elem
  <2> QED
    BY <2>1, <2>2
<1> QED
  BY <1>1, <1>5, <1>6 DEF r, h
-----------------------------------------------------------------------------
(* The inductive invariant *)

LEMMA InvInit == Init => ChannelInv
<1> SUFFICES ASSUME Init PROVE ChannelInv
  OBVIOUS
<1>1. <<>> \in Seq(Clients) /\ Len(<<>>) = 0
  OBVIOUS
<1>2. TypeOK
  BY <1>1 DEF Init, TypeOK, TracerStates, ClientStates, Promises
<1>3. LockInv /\ PhaseInv
  BY ClientsAssumption DEF Init, LockInv, PhaseInv, Working
<1>4. OwedInv
  BY <1>1 DEF Init, OwedInv, Owed, Queued, InHand, Elem, NoRepeat
<1> QED
  BY <1>2, <1>3, <1>4 DEF ChannelInv

\* A step of client c: the lock is taken and given back by c alone, and a push
\* adds exactly the call that becomes owed.
LEMMA ClientKeepsInv ==
    ASSUME ChannelInv, TypeOK', NEW c \in Clients, ClientStep(c)
    PROVE  ChannelInv'
<1> USE DEF Goto
<1>1. TypeOK /\ LockInv /\ PhaseInv /\ OwedInv
  BY DEF ChannelInv
<1>2. CASE Attach(c)
  <2>1. LockInv' /\ PhaseInv'
    BY <1>1, <1>2 DEF Attach, TypeOK, LockInv, PhaseInv, Working
  <2>2. OwedInv'
    BY <1>1, <1>2 DEF Attach, TypeOK, OwedInv, Owed, Queued, InHand
  <2> QED
    BY <2>1, <2>2 DEF ChannelInv
<1>3. CASE AttachReturn(c) \/ Detach(c) \/ JoinReturn(c) \/ PostCommand(c)
  <2>1. LockInv'
    BY <1>1, <1>3 DEF AttachReturn, Detach, JoinReturn, PostCommand, TypeOK, LockInv
  <2>2. PhaseInv'
    BY <1>1, <1>3 DEF AttachReturn, Detach, JoinReturn, PostCommand, TypeOK, PhaseInv, Working
  <2>3. OwedInv'
    BY <1>1, <1>3 DEF AttachReturn, Detach, JoinReturn, PostCommand, TypeOK, OwedInv, Owed,
       Queued, InHand
  <2> QED
    BY <2>1, <2>2, <2>3 DEF ChannelInv
<1>4. CASE PostLock(c)
  <2>1. LockInv'
    BY <1>1, <1>4, ClientsAssumption DEF PostLock, TypeOK, LockInv
  <2>2. PhaseInv'
    BY <1>1, <1>4 DEF PostLock, TypeOK, PhaseInv, Working
  <2>3. OwedInv'
    BY <1>1, <1>4 DEF PostLock, TypeOK, OwedInv, Owed, Queued, InHand
  <2> QED
    BY <2>1, <2>2, <2>3 DEF ChannelInv
<1>5. CASE PostRecheck(c)
  <2>1. LockInv'
    BY <1>1, <1>5, ClientsAssumption DEF PostRecheck, TypeOK, LockInv
  <2>2. PhaseInv'
    BY <1>1, <1>5 DEF PostRecheck, TypeOK, PhaseInv, Working
  <2>3. OwedInv'
    BY <1>1, <1>5 DEF PostRecheck, TypeOK, OwedInv, Owed, Queued, InHand
  <2> QED
    BY <2>1, <2>2, <2>3 DEF ChannelInv
<1>6. CASE PostPush(c)
  <2>1. LockInv'
    BY <1>1, <1>6, ClientsAssumption DEF PostPush, TypeOK, LockInv
  <2>2. PhaseInv'
    BY <1>1, <1>6 DEF PostPush, TypeOK, PhaseInv, Working
  <2>3. ~Queued(c) /\ ~InHand(c) /\ done[c] = "none" /\ queue \in Seq(Clients)
    BY <1>1, <1>6 DEF PostPush, TypeOK, OwedInv, Owed, Promises
  <2>4. /\ \A d : Queued(d)' <=> Queued(d) \/ d = c
        /\ NoRepeat(queue)'
    BY <1>1, <1>6, <2>3, AppendElem DEF PostPush, Queued, OwedInv
  <2>5. OwedInv'
    BY <1>1, <1>6, <2>3, <2>4 DEF PostPush, TypeOK, OwedInv, Owed, InHand
  <2> QED
    BY <2>1, <2>2, <2>5 DEF ChannelInv
<1>7. CASE PostReturn(c)
  <2>1. LockInv' /\ PhaseInv'
    BY <1>1, <1>7 DEF PostReturn, TypeOK, LockInv, PhaseInv, Working
  <2>2. OwedInv'
    BY <1>1, <1>7 DEF PostReturn, TypeOK, OwedInv, Owed, Queued, InHand
  <2> QED
    BY <2>1, <2>2 DEF ChannelInv
<1> QED
  BY <1>2, <1>3, <1>4, <1>5, <1>6, <1>7 DEF ClientStep

\* A step of the tracer: it takes one owed call at a time, answers the one in its
\* hand, and reaches "done" only with the lock free and the queue failed.
LEMMA TracerKeepsInv ==
    ASSUME ChannelInv, TypeOK', TracerStep
    PROVE  ChannelInv'
<1>1. TypeOK /\ LockInv /\ PhaseInv /\ OwedInv
  BY DEF ChannelInv
<1>2. CASE SeizeFails \/ SeizeSucceeds \/ LoopTest \/ PollQuiet \/ PollEnds
  <2> USE <1>1, <1>2 DEF SeizeFails, SeizeSucceeds, LoopTest, PollQuiet, PollEnds, TracerUnchanged
  <2>1. LockInv'
    BY DEF LockInv
  <2>2. PhaseInv'
    <3>1. SeizeFails => queue = <<>>
      <4> SUFFICES ASSUME SeizeFails, queue # <<>> PROVE FALSE
        OBVIOUS
      <4>1. Head(queue) \in Clients /\ Queued(Head(queue))
        BY TailElem DEF TypeOK, Queued
      <4> QED
        BY <4>1 DEF PhaseInv, OwedInv, Owed
    <3> QED
      BY <3>1 DEF PhaseInv, Working
  <2>3. OwedInv'
    BY DEF OwedInv, Owed, Queued, InHand
  <2> QED
    BY <2>1, <2>2, <2>3 DEF ChannelInv
<1>3. CASE DrainOne
  <2>1. LockInv' /\ PhaseInv'
    BY <1>1, <1>3 DEF DrainOne, TypeOK, LockInv, PhaseInv, Working
  <2>2. CASE queue = <<>>
    BY <1>1, <1>3, <2>1, <2>2 DEF DrainOne, OwedInv, Owed, Queued, InHand, ChannelInv
  <2>3. CASE queue # <<>>
    <3>1. /\ cmd' \in Clients /\ tpc' = "perform" /\ cmd' = Head(queue)
          /\ \A d : Queued(d) <=> Queued(d)' \/ d = cmd'
          /\ NoRepeat(queue)' /\ ~Elem(queue', cmd')
      <4>1. cmd' = Head(queue) /\ queue' = Tail(queue) /\ tpc' = "perform"
        BY <1>3, <2>3 DEF DrainOne
      <4>2. queue \in Seq(Clients) /\ NoRepeat(queue)
        BY <1>1 DEF TypeOK, OwedInv
      <4>3. /\ Head(queue) \in Clients
            /\ \A d : Elem(queue, d) <=> Elem(Tail(queue), d) \/ d = Head(queue)
            /\ NoRepeat(Tail(queue)) /\ ~Elem(Tail(queue), Head(queue))
        BY <4>2, <2>3, TailElem
      <4>4. NoRepeat(queue)' /\ \A d : Queued(d)' <=> Elem(Tail(queue), d)
        BY <4>1, <4>3 DEF NoRepeat, Elem, Queued
      <4> QED
        BY <4>1, <4>3, <4>4 DEF Queued
    <3>2. \A d \in Clients : ~InHand(d) /\ (Owed(d)' <=> Owed(d))
      BY <1>3 DEF DrainOne, InHand, Owed
    <3>3. \A d \in Clients : InHand(d)' <=> d = cmd'
      BY <3>1 DEF InHand
    <3>4. \A d \in Clients : Owed(d)' <=> Queued(d)' \/ InHand(d)'
      BY <1>1, <3>1, <3>2, <3>3 DEF OwedInv
    <3>5. OwedInv'
      BY <1>1, <1>3, <3>1, <3>4 DEF DrainOne, OwedInv, Queued
    <3> QED
      BY <2>1, <3>5 DEF ChannelInv
  <2> QED
    BY <2>2, <2>3
<1>4. CASE PerformCommand
  <2>1. LockInv' /\ PhaseInv'
    BY <1>1, <1>4 DEF PerformCommand, LockInv, PhaseInv, Working
  <2>2. OwedInv'
    BY <1>1, <1>4 DEF PerformCommand, TypeOK, OwedInv, Owed, Queued, InHand
  <2> QED
    BY <2>1, <2>2 DEF ChannelInv
<1>5. CASE FailQueued
  <2>1. LockInv' /\ PhaseInv'
    BY <1>1, <1>5, ClientsAssumption DEF FailQueued, TypeOK, LockInv, PhaseInv, Working
  <2>2. /\ \A d \in Clients : done'[d] = IF Queued(d) THEN "failed" ELSE done[d]
        /\ \A d : ~Queued(d)'
        /\ NoRepeat(queue)'
    BY <1>5 DEF FailQueued, Queued, Elem, NoRepeat
  <2>3. OwedInv'
    BY <1>1, <1>5, <2>2 DEF FailQueued, OwedInv, Owed, InHand
  <2> QED
    BY <2>1, <2>3 DEF ChannelInv
<1> QED
  BY <1>2, <1>3, <1>4, <1>5 DEF TracerStep

\* The strengthened invariant holds in every reachable state.
THEOREM InvHolds == Spec => []ChannelInv
<1>1. ChannelInv /\ TypeOK' /\ [Next]_vars => ChannelInv'
  <2> SUFFICES ASSUME ChannelInv, TypeOK', [Next]_vars PROVE ChannelInv'
    OBVIOUS
  <2>1. CASE UNCHANGED vars
    BY <2>1 DEF vars, ChannelInv, TypeOK, LockInv, PhaseInv, OwedInv, Owed, Queued, InHand
  <2> QED
    BY <2>1, ClientKeepsInv, TracerKeepsInv DEF Next
<1> QED
  BY InvInit, TypeCorrect, <1>1, PTL DEF Spec

\* When the tracer thread has ended, nobody waits for an answer: the push and the
\* final drain exclude each other, and a push after the drain is impossible.
THEOREM NobodyStranded == Spec => []NoStrandedCaller
<1>1. ChannelInv => NoStrandedCaller
  <2> SUFFICES ASSUME ChannelInv, tpc = "done", NEW c \in Clients PROVE ~Owed(c)
    BY DEF NoStrandedCaller
  <2>1. ~Queued(c)
    BY DEF ChannelInv, PhaseInv, Queued, Elem
  <2> QED
    BY <2>1 DEF ChannelInv, OwedInv, InHand
<1> QED
  BY <1>1, InvHolds, PTL
-----------------------------------------------------------------------------
(* Refinement *)

\* ServicePhase, one equation per phase.
PhaseCases ==
    /\ tpc \in {"off", "seize"} => ServicePhase = "new"
    /\ tpc = "done" => ServicePhase = "closed"
    /\ attached /\ tpc \notin {"off", "seize", "done"} => ServicePhase = "live"
    /\ ~attached /\ tpc \notin {"off", "seize", "done"} => ServicePhase = "closing"

\* What one step of the channel looks like to the service.
LEMMA StepRefines ==
    ASSUME ChannelInv, ChannelInv', [Next]_vars
    PROVE  [Service!ServiceNext]_(Service!serviceVars)
<1> USE DEF Service!ServiceNext, Service!serviceVars
<1>1. TypeOK /\ TypeOK' /\ LockInv /\ PhaseInv /\ OwedInv
  BY DEF ChannelInv
<1>2. UNCHANGED <<cpc, done>> => UNCHANGED ServiceCall
  BY DEF ServiceCall
<1>3. UNCHANGED <<tpc, attached>> => UNCHANGED ServicePhase
  BY DEF ServicePhase
<1>a. PhaseCases /\ PhaseCases'
  BY <1>1 DEF PhaseCases, ServicePhase, TypeOK, TracerStates
<1>4. ASSUME NEW c \in Clients, ClientStep(c) PROVE [Service!ServiceNext]_(Service!serviceVars)
  <2> USE DEF Goto
  <2>1. CASE AttachReturn(c) \/ JoinReturn(c) \/ PostCommand(c) \/ PostLock(c) \/ PostRecheck(c)
    <3>1. UNCHANGED ServiceCall
      BY <1>1, <2>1 DEF AttachReturn, JoinReturn, PostCommand, PostLock, PostRecheck,
         TypeOK, ServiceCall
    <3>2. UNCHANGED ServicePhase
      BY <1>3, <2>1 DEF AttachReturn, JoinReturn, PostCommand, PostLock, PostRecheck
    <3> QED
      BY <3>1, <3>2
  <2>2. CASE Attach(c)
    <3>1. UNCHANGED ServiceCall
      BY <1>1, <2>2 DEF Attach, TypeOK, ServiceCall
    <3>2. UNCHANGED ServicePhase
      BY <1>1, <2>2, <1>a DEF PhaseCases, Attach
    <3> QED
      BY <3>1, <3>2
  <2>3. CASE Detach(c)
    <3>1. UNCHANGED ServiceCall
      BY <1>1, <2>3 DEF Detach, TypeOK, ServiceCall
    <3>2. ServicePhase = "live" /\ ServicePhase' = "closing"
      BY <1>1, <2>3, <1>a DEF PhaseCases, Detach, PhaseInv, Working
    <3> QED
      BY <3>1, <3>2 DEF Service!StartClosing
  <2>4. CASE PostPush(c)
    <3>1. ServicePhase \in {"live", "closing"} /\ UNCHANGED ServicePhase
      BY <1>1, <1>3, <2>4, <1>a DEF PhaseCases, PostPush, PhaseInv, TypeOK
    <3>2. ServiceCall[c] = "none" /\ ServiceCall' = [ServiceCall EXCEPT ![c] = "pending"]
      BY <1>1, <2>4 DEF PostPush, TypeOK, OwedInv, ServiceCall
    <3> QED
      BY <3>1, <3>2 DEF Service!Accept
  <2>5. CASE PostReturn(c)
    <3>1. UNCHANGED ServicePhase
      BY <1>3, <2>5 DEF PostReturn
    <3>2. /\ ServiceCall[c] \in {"served", "refused"}
          /\ ServiceCall' = [ServiceCall EXCEPT ![c] = "none"]
      BY <1>1, <2>5 DEF PostReturn, TypeOK, Promises, ServiceCall
    <3> QED
      BY <3>1, <3>2 DEF Service!Collect
  <2> QED
    BY <1>4, <2>1, <2>2, <2>3, <2>4, <2>5 DEF ClientStep
<1>5. CASE TracerStep
  <2>1. CASE SeizeFails \/ SeizeSucceeds
    <3>1. ServicePhase = "new" /\ ServicePhase' \in {"live", "closed"}
      BY <1>1, <2>1, <1>a DEF PhaseCases, SeizeFails, SeizeSucceeds, TracerUnchanged
    <3> QED
      BY <1>2, <2>1, <3>1 DEF SeizeFails, SeizeSucceeds, TracerUnchanged, Service!Open
  <2>2. CASE LoopTest \/ PollQuiet \/ DrainOne
    <3>1. UNCHANGED <<cpc, done, attached>> /\ {tpc, tpc'} \subseteq Working \cup {"clean"}
      BY <1>1, <2>2 DEF LoopTest, PollQuiet, DrainOne, TracerUnchanged, Working
    <3>2. UNCHANGED ServicePhase
      BY <1>1, <3>1, <1>a DEF PhaseCases, Working, TypeOK
    <3> QED
      BY <1>2, <3>1, <3>2
  <2>3. CASE PollEnds
    <3>1. ServicePhase \in {"live", "closing"} /\ ServicePhase' = "closing"
      BY <1>1, <2>3, <1>a DEF PhaseCases, PollEnds, TypeOK
    <3> QED
      BY <1>2, <2>3, <3>1 DEF PollEnds, Service!StartClosing
  <2>4. CASE PerformCommand
    <3>1. ServicePhase \in {"live", "closing"} /\ UNCHANGED ServicePhase
      BY <1>1, <2>4, <1>a DEF PhaseCases, PerformCommand, TypeOK
    <3>2. cmd \in Clients /\ Owed(cmd)
      BY <1>1, <2>4 DEF PerformCommand, OwedInv, InHand
    <3>3. ServiceCall[cmd] = "pending" /\ ServiceCall' = [ServiceCall EXCEPT ![cmd] = "served"]
      BY <1>1, <2>4, <3>2 DEF PerformCommand, TypeOK, Owed, ServiceCall
    <3> QED
      BY <3>1, <3>2, <3>3 DEF Service!Serve
  <2>5. CASE FailQueued
    <3>1. ServicePhase = "closing" /\ ServicePhase' = "closed"
      BY <1>1, <2>5, <1>a DEF PhaseCases, FailQueued, TypeOK, PhaseInv, Working
    <3>2. \A c \in Clients : done'[c] = IF Owed(c) THEN "failed" ELSE done[c]
      BY <1>1, <2>5 DEF FailQueued, TypeOK, OwedInv, Queued, Elem, InHand
    <3>3. ServiceCall' = [c \in Clients |->
                            IF ServiceCall[c] = "pending" THEN "refused" ELSE ServiceCall[c]]
      BY <1>1, <2>5, <3>2 DEF FailQueued, TypeOK, Promises, Owed, ServiceCall
    <3> QED
      BY <3>1, <3>3 DEF Service!Close
  <2> QED
    BY <1>5, <2>1, <2>2, <2>3, <2>4, <2>5 DEF TracerStep
<1>6. CASE UNCHANGED vars
  BY <1>2, <1>3, <1>6 DEF vars
<1> QED
  BY <1>4, <1>5, <1>6 DEF Next

\* The channel implements CallService: every accepted call is served or refused
\* exactly once, and a closed session owes nothing.
THEOREM ServiceImplemented == Spec => ImplementsService
<1>1. Init => Service!ServiceInit
  BY DEF Init, Service!ServiceInit, ServicePhase, ServiceCall
<1> QED
  BY <1>1, StepRefines, InvHolds, PTL DEF Spec, ImplementsService, Service!ServiceSpec
=============================================================================
