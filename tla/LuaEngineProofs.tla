-------------------------- MODULE LuaEngineProofs --------------------------
(***************************************************************************)
(* Proofs about LuaEngine, for any processes, functions, threads and any   *)
(* depth of nested callbacks: callbacks and registry agree, a script calls *)
(* live handles of the process it chose, and no breakpoint hit is lost.    *)
(*                                                                         *)
(* The three arguments share what each action does to the stack of frames: *)
(* it is kept, grows by a frame, or loses the innermost ones.              *)
(***************************************************************************)
EXTENDS LuaEngine, SequenceTheorems, TLAPS

-----------------------------------------------------------------------------
(* The stack                                                               *)

IsSeq(s) == s \in Seq({s[i] : i \in DOMAIN s})
IsFrame(f) == f = [kind |-> f.kind, obj |-> f.obj, fn |-> f.fn, rest |-> f.rest, hit |-> f.hit]
StackOK == IsSeq(stack) /\ \A i \in DOMAIN stack : IsFrame(stack[i])

\* The same frame, with other work left to do.
Alike(f, g) == f.kind = g.kind /\ f.obj = g.obj /\ f.hit = g.hit

\* What an action may do to the stack.
Kept == Len(stack') = Len(stack) /\ \A i \in 1 .. Len(stack) : Alike(stack'[i], stack[i])
Grown(f) == /\ Len(stack') = Len(stack) + 1 /\ stack'[Len(stack) + 1] = f
            /\ \A i \in 1 .. Len(stack) : Alike(stack'[i], stack[i])
Shrunk(n) == /\ Len(stack) >= n /\ Len(stack') = Len(stack) - n
             /\ \A i \in 1 .. Len(stack) - n : Alike(stack'[i], stack[i])

\* A sequence is one over any set that holds its elements.
LEMMA SeqOver ==
    ASSUME NEW s, IsSeq(s)
    PROVE  /\ Len(s) \in Nat /\ DOMAIN s = 1 .. Len(s)
           /\ s # << >> => Len(s) > 0
           /\ \A S : (\A i \in DOMAIN s : s[i] \in S) => s \in Seq(S)
<1> DEFINE T == {s[i] : i \in DOMAIN s}
<1>1. s \in Seq(T)
  BY DEF IsSeq
<1>2. ASSUME NEW S, \A i \in DOMAIN s : s[i] \in S
      PROVE  s \in Seq(S)
  <2>1. T \subseteq S
    BY <1>2
  <2> HIDE DEF T
  <2> QED
    BY <1>1, <2>1, SeqMonotonic
<1> HIDE DEF T
<1>3. Len(s) \in Nat /\ DOMAIN s = 1 .. Len(s)
  BY <1>1, LenProperties
<1>4. s # << >> => Len(s) > 0
  BY <1>1, EmptySeq
<1> QED
  BY <1>2, <1>3, <1>4

\* A sequence over any set is a sequence.
LEMMA SeqIsSeq ==
    ASSUME NEW S, NEW s \in Seq(S)
    PROVE  IsSeq(s)
<1> DEFINE T == {s[i] : i \in DOMAIN s}
           n == Len(s)
<1>1. n \in Nat /\ DOMAIN s = 1 .. n /\ s \in [1 .. n -> S]
  BY LenProperties
<1>2. \A i \in DOMAIN s : s[i] \in T
  OBVIOUS
<1> HIDE DEF T, n
<1>3. s \in [1 .. n -> T]
  BY <1>1, <1>2
<1>4. s \in Seq(T)
  BY <1>1, <1>3, SeqDef
<1> QED
  BY <1>4 DEF IsSeq, T

LEMMA NoneSeq == IsSeq(<< >>)
  BY EmptySeq, SeqIsSeq

LEMMA AppendSeq ==
    ASSUME NEW s, NEW e, IsSeq(s)
    PROVE  /\ IsSeq(Append(s, e))
           /\ Len(Append(s, e)) = Len(s) + 1
           /\ Append(s, e)[Len(s) + 1] = e
           /\ \A i \in 1 .. Len(s) : Append(s, e)[i] = s[i]
<1> DEFINE S == {s[i] : i \in DOMAIN s} \cup {e}
<1>1. (\A i \in DOMAIN s : s[i] \in S) /\ e \in S
  OBVIOUS
<1> HIDE DEF S
<1>2. s \in Seq(S)
  BY <1>1, SeqOver
<1>3. /\ Append(s, e) \in Seq(S) /\ Len(Append(s, e)) = Len(s) + 1
      /\ Append(s, e)[Len(s) + 1] = e
      /\ \A i \in 1 .. Len(s) : Append(s, e)[i] = s[i]
  BY <1>1, <1>2, AppendProperties
<1> QED
  BY <1>3, SeqIsSeq

LEMMA FrontSeq ==
    ASSUME NEW s, IsSeq(s), s # << >>
    PROVE  /\ IsSeq(Front(s))
           /\ Len(Front(s)) = Len(s) - 1
           /\ \A i \in 1 .. Len(s) - 1 : Front(s)[i] = s[i]
<1> DEFINE S == {s[i] : i \in DOMAIN s}
           n == Len(s)
<1>1. n \in Nat /\ n > 0 /\ DOMAIN s = 1 .. n
  BY SeqOver
<1>2. \A i \in 1 .. n - 1 : s[i] \in S
  BY <1>1
<1>3. Front(s) = SubSeq(s, 1, n - 1)
  BY DEF Front
<1> HIDE DEF S, n
<1>4. /\ SubSeq(s, 1, n - 1) \in Seq(S)
      /\ Len(SubSeq(s, 1, n - 1)) = IF 1 <= n - 1 THEN (n - 1) - 1 + 1 ELSE 0
      /\ \A i \in 1 .. (n - 1) - 1 + 1 : SubSeq(s, 1, n - 1)[i] = s[1 + i - 1]
  BY <1>1, <1>2, SubSeqProperties
<1>5. Len(Front(s)) = n - 1
  BY <1>1, <1>3, <1>4
<1>6. IsSeq(Front(s))
  BY <1>3, <1>4, SeqIsSeq
<1>7. ASSUME NEW i \in 1 .. n - 1
      PROVE  Front(s)[i] = s[i]
  <2>1. i \in 1 .. (n - 1) - 1 + 1 /\ 1 + i - 1 = i
    BY <1>1
  <2> QED
    BY <1>3, <1>4, <2>1
<1> QED
  BY <1>5, <1>6, <1>7 DEF n

\* An element is replaced, if it is there.
Put(s, i, e) == [s EXCEPT ![i] = e]
LEMMA PutSeq ==
    ASSUME NEW s, NEW i, NEW e, IsSeq(s)
    PROVE  /\ IsSeq(Put(s, i, e)) /\ Len(Put(s, i, e)) = Len(s)
           /\ \A j \in 1 .. Len(s) : Put(s, i, e)[j] = IF j = i THEN e ELSE s[j]
<1> DEFINE S == {s[j] : j \in DOMAIN s} \cup {e}
<1>1. (\A j \in DOMAIN s : s[j] \in S) /\ e \in S
  OBVIOUS
<1> HIDE DEF S
<1>2. s \in Seq(S) /\ DOMAIN s = 1 .. Len(s)
  BY <1>1, SeqOver
<1>3. CASE i \in 1 .. Len(s)
  BY <1>1, <1>2, <1>3, ExceptSeq, SeqIsSeq DEF Put
<1>4. CASE i \notin 1 .. Len(s)
  <2>1. s = [j \in DOMAIN s |-> s[j]]
    BY <1>2, LenProperties
  <2>2. Put(s, i, e) = s
    BY <1>2, <1>4, <2>1 DEF Put
  <2> QED
    BY <1>4, <2>2
<1> QED
  BY <1>3, <1>4

LEMMA FrameIsFrame ==
    ASSUME NEW k, NEW o, NEW fn, NEW rest, NEW hit
    PROVE  LET f == Frame(k, o, fn, rest, hit) IN
           IsFrame(f) /\ f.kind = k /\ f.obj = o /\ f.fn = fn /\ f.rest = rest /\ f.hit = hit
  BY DEF Frame, IsFrame

LEMMA Same == ASSUME StackOK, stack' = stack PROVE StackOK' /\ Kept
  BY DEF StackOK, Kept, Alike

LEMMA Pushing ==
    ASSUME StackOK, NEW f, IsFrame(f), stack' = Append(stack, f)
    PROVE  StackOK' /\ Grown(f)
<1>1. IsSeq(stack) /\ \A i \in 1 .. Len(stack) : IsFrame(stack[i])
  BY SeqOver DEF StackOK
<1>2. /\ IsSeq(stack') /\ Len(stack') = Len(stack) + 1 /\ stack'[Len(stack) + 1] = f
      /\ \A i \in 1 .. Len(stack) : stack'[i] = stack[i]
  BY <1>1, AppendSeq
<1>3. Len(stack) \in Nat /\ DOMAIN stack' = 1 .. Len(stack')
  BY <1>1, <1>2, SeqOver
<1> QED
  BY <1>1, <1>2, <1>3 DEF StackOK, Grown, Alike

LEMMA Popping ==
    ASSUME StackOK, stack # << >>, stack' = Front(stack)
    PROVE  StackOK' /\ Shrunk(1)
<1>1. IsSeq(stack) /\ \A i \in 1 .. Len(stack) : IsFrame(stack[i])
  BY SeqOver DEF StackOK
<1>2. /\ IsSeq(stack') /\ Len(stack') = Len(stack) - 1
      /\ \A i \in 1 .. Len(stack) - 1 : stack'[i] = stack[i]
  BY <1>1, FrontSeq
<1>3. Len(stack) \in Nat /\ Len(stack) > 0 /\ DOMAIN stack' = 1 .. Len(stack')
  BY <1>1, <1>2, SeqOver
<1> QED
  BY <1>1, <1>2, <1>3 DEF StackOK, Shrunk, Alike

\* The work a frame has left changes.
LEMMA Resting ==
    ASSUME NEW s, NEW i, NEW more, IsSeq(s), \A j \in DOMAIN s : IsFrame(s[j])
    PROVE  LET t == [s EXCEPT ![i].rest = more] IN
           /\ IsSeq(t) /\ Len(t) = Len(s) /\ \A j \in DOMAIN t : IsFrame(t[j])
           /\ \A j \in 1 .. Len(s) : Alike(t[j], s[j])
<1> DEFINE g == [s[i] EXCEPT !.rest = more]
           t == [s EXCEPT ![i].rest = more]
<1>3. ASSUME i \in DOMAIN s
      PROVE  IsFrame(g) /\ Alike(g, s[i])
  <2>1. s[i] = [kind |-> s[i].kind, obj |-> s[i].obj, fn |-> s[i].fn, rest |-> s[i].rest, hit |-> s[i].hit]
    BY <1>3 DEF IsFrame
  <2>2. g = [kind |-> s[i].kind, obj |-> s[i].obj, fn |-> s[i].fn, rest |-> more, hit |-> s[i].hit]
    BY <2>1
  <2> QED
    BY <2>2 DEF IsFrame, Alike
<1>4. t = Put(s, i, g)
  BY DEF Put
<1> HIDE DEF g, t
<1>1. /\ IsSeq(t) /\ Len(t) = Len(s)
      /\ \A j \in 1 .. Len(s) : t[j] = IF j = i THEN g ELSE s[j]
  BY <1>4, PutSeq
<1>2. DOMAIN t = 1 .. Len(s) /\ DOMAIN s = 1 .. Len(s)
  BY <1>1, SeqOver
<1>5. \A j \in 1 .. Len(s) : IsFrame(t[j]) /\ Alike(t[j], s[j])
  BY <1>1, <1>2, <1>3 DEF Alike
<1> QED
  BY <1>1, <1>2, <1>5 DEF t

LEMMA RestLeft ==
    ASSUME StackOK, NEW i, NEW more, stack' = [stack EXCEPT ![i].rest = more]
    PROVE  StackOK' /\ Kept
<1>1. LET t == [stack EXCEPT ![i].rest = more] IN
      /\ IsSeq(t) /\ Len(t) = Len(stack) /\ \A j \in DOMAIN t : IsFrame(t[j])
      /\ \A j \in 1 .. Len(stack) : Alike(t[j], stack[j])
  BY Resting DEF StackOK
<1> QED
  BY <1>1 DEF StackOK, Kept

LEMMA RestPushing ==
    ASSUME StackOK, NEW i, NEW more, NEW f, IsFrame(f),
           stack' = Append([stack EXCEPT ![i].rest = more], f)
    PROVE  StackOK' /\ Grown(f)
<1> DEFINE t == [stack EXCEPT ![i].rest = more]
<1>1. /\ IsSeq(t) /\ Len(t) = Len(stack) /\ \A j \in DOMAIN t : IsFrame(t[j])
      /\ \A j \in 1 .. Len(stack) : Alike(t[j], stack[j])
  BY Resting DEF StackOK
<1>2. stack' = Append(t, f)
  OBVIOUS
<1> HIDE DEF t
<1>0. /\ IsSeq(Append(t, f)) /\ Len(Append(t, f)) = Len(t) + 1 /\ Append(t, f)[Len(t) + 1] = f
      /\ \A j \in 1 .. Len(t) : Append(t, f)[j] = t[j]
  BY <1>1, AppendSeq
<1>3. /\ IsSeq(stack') /\ Len(stack') = Len(t) + 1 /\ stack'[Len(t) + 1] = f
      /\ \A j \in 1 .. Len(t) : stack'[j] = t[j]
  BY <1>0, <1>2
<1>4. Len(t) \in Nat /\ DOMAIN t = 1 .. Len(t) /\ DOMAIN stack' = 1 .. Len(stack')
  BY <1>1, <1>3, SeqOver
<1>5. \A j \in DOMAIN stack' : IsFrame(stack'[j])
  BY <1>1, <1>3, <1>4
<1> QED
  BY <1>1, <1>3, <1>4, <1>5 DEF StackOK, Grown

\* CloseReturns: the frame under the one that ends gets more to do.
LEMMA RestPopping ==
    ASSUME StackOK, stack # << >>, NEW i, NEW more, stack' = [Front(stack) EXCEPT ![i].rest = more]
    PROVE  StackOK' /\ Shrunk(1)
<1> DEFINE t == Front(stack)
<1>1. IsSeq(stack) /\ \A j \in 1 .. Len(stack) : IsFrame(stack[j])
  BY SeqOver DEF StackOK
<1>2. /\ IsSeq(t) /\ Len(t) = Len(stack) - 1
      /\ \A j \in 1 .. Len(stack) - 1 : t[j] = stack[j]
  BY <1>1, FrontSeq
<1>3. stack' = [t EXCEPT ![i].rest = more]
  OBVIOUS
<1> HIDE DEF t
<1>4. Len(stack) \in Nat /\ Len(stack) > 0 /\ DOMAIN t = 1 .. Len(t)
  BY <1>1, <1>2, SeqOver
<1>5. \A j \in DOMAIN t : IsFrame(t[j])
  BY <1>1, <1>2, <1>4
<1>0. LET u == [t EXCEPT ![i].rest = more] IN
      /\ IsSeq(u) /\ Len(u) = Len(t) /\ \A j \in DOMAIN u : IsFrame(u[j])
      /\ \A j \in 1 .. Len(t) : Alike(u[j], t[j])
  BY <1>2, <1>5, Resting
<1>6. /\ IsSeq(stack') /\ Len(stack') = Len(t) /\ \A j \in DOMAIN stack' : IsFrame(stack'[j])
      /\ \A j \in 1 .. Len(t) : Alike(stack'[j], t[j])
  BY <1>0, <1>3
<1> QED
  BY <1>2, <1>4, <1>6 DEF StackOK, Shrunk

\* HandlerFails: a frame and the one under it end.
LEMMA PoppingTwo ==
    ASSUME StackOK, Len(stack) > 1, stack' = Front(Front(stack))
    PROVE  StackOK' /\ Shrunk(2)
<1> DEFINE t == Front(stack)
<1>1. IsSeq(stack) /\ Len(stack) \in Nat /\ \A j \in 1 .. Len(stack) : IsFrame(stack[j])
  BY SeqOver DEF StackOK
<1>2. stack # << >>
  BY <1>1
<1>3. /\ IsSeq(t) /\ Len(t) = Len(stack) - 1
      /\ \A j \in 1 .. Len(stack) - 1 : t[j] = stack[j]
  BY <1>1, <1>2, FrontSeq
<1>4. stack' = Front(t)
  OBVIOUS
<1> HIDE DEF t
<1>5. t # << >>
  BY <1>1, <1>3
<1>6. /\ IsSeq(stack') /\ Len(stack') = Len(t) - 1
      /\ \A j \in 1 .. Len(t) - 1 : stack'[j] = t[j]
  BY <1>3, <1>4, <1>5, FrontSeq
<1>7. DOMAIN stack' = 1 .. Len(stack')
  BY <1>6, SeqOver
<1> QED
  BY <1>1, <1>3, <1>6, <1>7 DEF StackOK, Shrunk, Alike
-----------------------------------------------------------------------------
(* The registry                                                            *)

LiveSlots(R) == {r \in DOMAIN R.t : R.t[r] \in Fns}
FreeSlots(R) == {r \in DOMAIN R.t : R.t[r] \notin Fns}

\* The free list: every link leads to a free slot, no two lead to the same one and none
\* to the head, so a slot that is taken is in the list no more.
FreeListOK(R) ==
    /\ R.t \in Seq(Fns \cup Nat) /\ R.h \in Nat
    /\ R.h # 0 => R.h \in FreeSlots(R)
    /\ \A r \in FreeSlots(R) : R.t[r] # 0 => R.t[r] \in FreeSlots(R) /\ R.t[r] # R.h
    /\ \A q, r \in FreeSlots(R) : R.t[q] = R.t[r] /\ R.t[q] # 0 => q = r

\* What luaL_ref returns was free, and nothing else changes.
LEMMA RefTakes ==
    ASSUME NEW R, FreeListOK(R), NEW fn \in Fns
    PROVE  /\ FreeListOK(Ref(R, fn))
           /\ RefOf(R) \in Nat \ {0} /\ RefOf(R) \notin LiveSlots(R)
           /\ LiveSlots(Ref(R, fn)) = LiveSlots(R) \cup {RefOf(R)}
           /\ Ref(R, fn).t[RefOf(R)] = fn
           /\ \A q \in LiveSlots(R) : Ref(R, fn).t[q] = R.t[q]
<1> DEFINE n == Len(R.t)
           Q == Ref(R, fn)
<1>1. /\ R.t \in Seq(Fns \cup Nat) /\ R.h \in Nat
      /\ n \in Nat /\ DOMAIN R.t = 1 .. n
      /\ \A r \in 1 .. n : R.t[r] \in Fns \cup Nat
  BY LenProperties, ElementOfSeq DEF FreeListOK
<1>2. \A x \in Fns : x \notin Nat
  BY FunctionsAssumption
<1>3. CASE R.h # 0
  <2>1. R.h \in 1 .. n /\ R.t[R.h] \notin Fns /\ R.t[R.h] \in Nat
    BY <1>1, <1>3 DEF FreeListOK, FreeSlots
  <2>2. Q.t = [R.t EXCEPT ![R.h] = fn] /\ Q.h = R.t[R.h] /\ RefOf(R) = R.h
    BY <1>3, <2>1 DEF Ref, RefOf, LinkIn
  <2>3. /\ Q.t \in Seq(Fns \cup Nat) /\ DOMAIN Q.t = 1 .. n
        /\ \A r \in 1 .. n : Q.t[r] = IF r = R.h THEN fn ELSE R.t[r]
    BY <1>1, <2>1, <2>2, ExceptSeq
  <2> HIDE DEF Q, n
  <2>4. FreeSlots(Q) = FreeSlots(R) \ {R.h} /\ LiveSlots(Q) = LiveSlots(R) \cup {R.h}
    BY <1>1, <2>1, <2>3 DEF FreeSlots, LiveSlots
  <2>5. R.h \notin LiveSlots(R) /\ R.h \in FreeSlots(R)
    BY <1>1, <2>1 DEF LiveSlots, FreeSlots
  <2>6. \A r \in FreeSlots(Q) : r \in 1 .. n /\ r # R.h /\ Q.t[r] = R.t[r]
    BY <1>1, <2>3, <2>4 DEF FreeSlots
  <2>7. FreeListOK(Q)
    <3>1. Q.h # 0 => Q.h \in FreeSlots(Q)
      BY <2>2, <2>4, <2>5 DEF FreeListOK
    <3>2. \A r \in FreeSlots(Q) : Q.t[r] # 0 => Q.t[r] \in FreeSlots(Q) /\ Q.t[r] # Q.h
      BY <2>2, <2>4, <2>5, <2>6 DEF FreeListOK
    <3>3. \A q, r \in FreeSlots(Q) : Q.t[q] = Q.t[r] /\ Q.t[q] # 0 => q = r
      BY <2>4, <2>6 DEF FreeListOK
    <3> QED
      BY <2>1, <2>2, <2>3, <3>1, <3>2, <3>3 DEF FreeListOK
  <2>8. Q.t[R.h] = fn /\ \A q \in LiveSlots(R) : Q.t[q] = R.t[q]
    BY <1>1, <2>1, <2>3, <2>5 DEF LiveSlots
  <2> QED
    BY <1>1, <1>3, <2>2, <2>4, <2>5, <2>7, <2>8 DEF Q
<1>4. CASE R.h = 0
  <2>1. Q.t = Append(R.t, fn) /\ Q.h = 0 /\ RefOf(R) = n + 1
    BY <1>4 DEF Ref, RefOf
  <2>2. /\ Q.t \in Seq(Fns \cup Nat) /\ Len(Q.t) = n + 1
        /\ \A r \in 1 .. n : Q.t[r] = R.t[r]
        /\ Q.t[n + 1] = fn
    BY <1>1, <2>1, AppendProperties
  <2>3. DOMAIN Q.t = 1 .. n + 1
    BY <2>2, LenProperties
  <2> HIDE DEF Q, n
  <2>4. FreeSlots(Q) = FreeSlots(R) /\ LiveSlots(Q) = LiveSlots(R) \cup {n + 1}
    BY <1>1, <2>2, <2>3 DEF FreeSlots, LiveSlots
  <2>5. n + 1 \notin LiveSlots(R)
    BY <1>1 DEF LiveSlots
  <2>6. \A r \in FreeSlots(R) \cup LiveSlots(R) : Q.t[r] = R.t[r]
    BY <1>1, <2>2 DEF FreeSlots, LiveSlots
  <2>7. FreeListOK(Q)
    BY <1>4, <2>1, <2>2, <2>4, <2>6 DEF FreeListOK
  <2>8. RefOf(R) \in Nat \ {0} /\ RefOf(R) \notin LiveSlots(R)
    BY <1>1, <2>1, <2>5
  <2>9. LiveSlots(Q) = LiveSlots(R) \cup {RefOf(R)} /\ Q.t[RefOf(R)] = fn
    BY <2>1, <2>2, <2>4
  <2> QED
    BY <2>6, <2>7, <2>8, <2>9 DEF Q
<1> QED
  BY <1>3, <1>4

\* luaL_unref of a reference in use frees its slot and nothing else.
LEMMA UnrefGives ==
    ASSUME NEW R, FreeListOK(R), NEW r \in LiveSlots(R)
    PROVE  /\ FreeListOK(Unref(R, r))
           /\ LiveSlots(Unref(R, r)) = LiveSlots(R) \ {r}
           /\ \A q \in LiveSlots(R) \ {r} : Unref(R, r).t[q] = R.t[q]
<1> DEFINE n == Len(R.t)
           Q == Unref(R, r)
<1>1. /\ R.t \in Seq(Fns \cup Nat) /\ R.h \in Nat
      /\ n \in Nat /\ DOMAIN R.t = 1 .. n
  BY LenProperties DEF FreeListOK
<1>2. \A x \in Fns : x \notin Nat
  BY FunctionsAssumption
<1>3. r \in 1 .. n /\ R.t[r] \in Fns /\ r \notin FreeSlots(R)
  BY <1>1 DEF LiveSlots, FreeSlots
<1>4. Q.t = [R.t EXCEPT ![r] = R.h] /\ Q.h = r
  BY <1>1, <1>3 DEF Unref
<1>5. /\ Q.t \in Seq(Fns \cup Nat) /\ DOMAIN Q.t = 1 .. n
      /\ \A q \in 1 .. n : Q.t[q] = IF q = r THEN R.h ELSE R.t[q]
  BY <1>1, <1>3, <1>4, ExceptSeq
<1> HIDE DEF Q, n
<1>6. FreeSlots(Q) = FreeSlots(R) \cup {r} /\ LiveSlots(Q) = LiveSlots(R) \ {r}
  BY <1>1, <1>2, <1>3, <1>5 DEF FreeSlots, LiveSlots
<1>7. \A q \in FreeSlots(R) \cup LiveSlots(R) : q \in 1 .. n
  BY <1>1 DEF FreeSlots, LiveSlots
<1>8. FreeListOK(Q)
  <2>1. \A q \in FreeSlots(R) : q # r /\ Q.t[q] = R.t[q]
    BY <1>3, <1>5, <1>7
  <2>2. Q.t[r] = R.h /\ r # R.h
    BY <1>3, <1>5 DEF FreeListOK
  <2>3. \A q \in FreeSlots(R) : R.t[q] # 0 => R.t[q] # r /\ R.t[q] # R.h
    BY <1>3 DEF FreeListOK
  <2>4. \A q \in FreeSlots(Q) : Q.t[q] # 0 => Q.t[q] \in FreeSlots(Q) /\ Q.t[q] # Q.h
    BY <1>4, <1>6, <2>1, <2>2, <2>3 DEF FreeListOK
  <2>5. \A p, q \in FreeSlots(Q) : Q.t[p] = Q.t[q] /\ Q.t[p] # 0 => p = q
    BY <1>6, <2>1, <2>2, <2>3 DEF FreeListOK
  <2> QED
    BY <1>3, <1>4, <1>5, <1>6, <2>4, <2>5 DEF FreeListOK
<1>9. \A q \in LiveSlots(R) \ {r} : Q.t[q] = R.t[q]
  BY <1>5, <1>7
<1> QED
  BY <1>6, <1>8, <1>9 DEF Q

LEMMA UnrefNone == ASSUME NEW R PROVE Unref(R, NoRef) = R
  BY DEF Unref, NoRef

-----------------------------------------------------------------------------
(* What the actions do to the stack                                        *)

Rested(s, i, more) == [s EXCEPT ![i].rest = more]

\* Frames other than scripts, file choosers and breakpoint handlers, which the invariants count.
Ordinary(f) == f.kind \notin {"script", "picker", "hit"} /\ f.hit = NoHit
Turn == \/ Kept
        \/ \E f : Ordinary(f) /\ Grown(f)
        \/ Shrunk(1) /\ stack[Len(stack)].kind \notin {"picker", "hit"}
StackTurn == StackOK' /\ Turn

\* No close handler of a widget begins.
NoClosing == \A i \in 1 .. Len(stack') : stack'[i].kind = "close" =>
               i \in 1 .. Len(stack) /\ stack[i].kind = "close" /\ stack'[i].obj = stack[i].obj

LEMMA ShapesClose ==
    ASSUME StackOK, Kept \/ (\E f : f.kind # "close" /\ Grown(f)) \/ Shrunk(1) \/ Shrunk(2)
    PROVE  NoClosing
<1>1. Len(stack) \in Nat
  BY SeqOver DEF StackOK
<1>2. CASE Kept
  BY <1>1, <1>2 DEF Kept, Alike, NoClosing
<1>3. CASE \E f : f.kind # "close" /\ Grown(f)
  BY <1>1, <1>3 DEF Grown, Alike, NoClosing
<1>4. CASE Shrunk(1) \/ Shrunk(2)
  BY <1>1, <1>4 DEF Shrunk, Alike, NoClosing
<1> QED
  BY <1>2, <1>3, <1>4

LEMMA TopIs == ASSUME StackOK, stack # << >> PROVE Len(stack) \in Nat \ {0} /\ Top = stack[Len(stack)]
  BY SeqOver DEF StackOK, Top, Last

\* The four forms of an ordinary turn.
LEMMA TurnKept == ASSUME StackOK, stack' = stack PROVE StackTurn /\ NoClosing
  BY Same, ShapesClose DEF StackTurn, Turn

LEMMA TurnPush ==
    ASSUME StackOK, NEW k, NEW o, NEW fn, NEW rest, k \notin {"script", "picker", "hit"},
           Push(Frame(k, o, fn, rest, NoHit))
    PROVE  StackTurn /\ (k # "close" => NoClosing)
<1> DEFINE f == Frame(k, o, fn, rest, NoHit)
<1>1. IsFrame(f) /\ Ordinary(f) /\ f.kind = k
  BY FrameIsFrame DEF Ordinary
<1>2. stack' = Append(stack, f)
  BY DEF Push
<1> HIDE DEF f
<1>3. StackOK' /\ Grown(f)
  BY <1>1, <1>2, Pushing
<1> QED
  BY <1>1, <1>3, ShapesClose DEF StackTurn, Turn

LEMMA TurnPop ==
    ASSUME StackOK, stack # << >>, Top.kind \notin {"picker", "hit"}, Pop
    PROVE  StackTurn /\ NoClosing
  BY Popping, TopIs, ShapesClose DEF StackTurn, Turn, Pop

LEMMA TurnRest ==
    ASSUME StackOK, NEW i, NEW more, stack' = Rested(stack, i, more)
    PROVE  StackTurn /\ NoClosing
  BY RestLeft, ShapesClose DEF StackTurn, Turn, Rested

LEMMA TurnRestPush ==
    ASSUME StackOK, NEW i, NEW more, NEW k, NEW o, NEW fn, NEW rest, k \notin {"script", "picker", "hit"},
           stack' = Append(Rested(stack, i, more), Frame(k, o, fn, rest, NoHit))
    PROVE  StackTurn /\ (k # "close" => NoClosing)
<1> DEFINE f == Frame(k, o, fn, rest, NoHit)
<1>1. IsFrame(f) /\ Ordinary(f) /\ f.kind = k
  BY FrameIsFrame DEF Ordinary
<1>2. stack' = Append([stack EXCEPT ![i].rest = more], f)
  BY DEF Rested
<1> HIDE DEF f
<1>3. StackOK' /\ Grown(f)
  BY <1>1, <1>2, RestPushing
<1> QED
  BY <1>1, <1>3, ShapesClose DEF StackTurn, Turn

LEMMA TurnRestPop ==
    ASSUME StackOK, stack # << >>, Top.kind \notin {"picker", "hit"}, NEW i, NEW more,
           stack' = Rested(Front(stack), i, more)
    PROVE  StackTurn /\ NoClosing
  BY RestPopping, TopIs, ShapesClose DEF StackTurn, Turn, Rested

\* An ordinary turn keeps what the invariants say of the frames.
LEMMA TurnFrames ==
    ASSUME StackOK, StackTurn
    PROVE  /\ \A i \in 1 .. Len(stack') : \/ i \in 1 .. Len(stack) /\ Alike(stack'[i], stack[i])
                                          \/ i = Len(stack) + 1 /\ Ordinary(stack'[i])
           /\ \A i \in 1 .. Len(stack) : i \in 1 .. Len(stack') \/ (i = Len(stack) /\ stack[i].kind \notin {"picker", "hit"})
<1>1. Len(stack) \in Nat /\ Len(stack') \in Nat
  BY SeqOver DEF StackOK, StackTurn
<1>2. CASE Kept
  BY <1>1, <1>2 DEF Kept
<1>3. CASE \E f : Ordinary(f) /\ Grown(f)
  BY <1>1, <1>3 DEF Grown
<1>4. CASE Shrunk(1) /\ stack[Len(stack)].kind \notin {"picker", "hit"}
  BY <1>1, <1>4 DEF Shrunk
<1> QED
  BY <1>2, <1>3, <1>4 DEF StackTurn, Turn

\* Timers, hotkeys and threads take ordinary turns and leave engine and debugger alone.
LEMMA ObjectTurns == ASSUME StackOK, ObjectNext PROVE StackTurn /\ NoClosing /\ Scripting
<1>1. CASE PumpTimers
  <2>1. Scripting /\ \E rest : Push(Frame("pump", 0, Nil, rest, NoHit))
    BY <1>1, Zenon DEF PumpTimers
  <2> QED
    BY <2>1, TurnPush
<1>2. CASE PumpNext
  <2>1. stack # << >> /\ Top.kind = "pump" /\ Scripting
    BY <1>2 DEF PumpNext
  <2>2. CASE Top.rest = << >>
    BY <1>2, <2>1, <2>2, TurnPop DEF PumpNext
  <2>3. CASE Top.rest # << >>
    <3> DEFINE o == Head(Top.rest)
               more == Tail(stack[Len(stack)].rest)
    <3>1. \/ stack' = Append(Rested(stack, Len(stack), more), Frame("tick", o, Behind(RefIn(o, "tick")), << >>, NoHit))
          \/ stack' = Rested(stack, Len(stack), more)
      BY <1>2, <2>3 DEF PumpNext, Rested
    <3> HIDE DEF o, more
    <3> QED
      BY <2>1, <3>1, TurnRestPush, TurnRest
  <2> QED
    BY <2>2, <2>3
<1>3. CASE ThreadEnds
  BY <1>3, TurnPop DEF ThreadEnds, InLua
<1>4. CASE \E fn \in Fns \cup {Nil} : CreateTimer(fn)
  BY <1>4, TurnKept DEF CreateTimer
<1>5. CASE \E o \in 1 .. Len(objs), fn \in Fns \cup {Nil} : objs[o].kind \in {"timer", "gone"} /\ TimerOnTimer(o, fn)
  BY <1>5, TurnKept DEF TimerOnTimer
<1>6. CASE \E o \in Objects("timer") : DestroyTimer(o) \/ \E on, span \in BOOLEAN : TimerSet(o, on, span)
  BY <1>6, TurnKept DEF DestroyTimer, TimerSet
<1>7. CASE \E fn \in Fns : CreateHotkey(fn) \/ \E b \in BOOLEAN : CreateThread(fn, b)
  <2>1. PICK fn \in Fns : CreateHotkey(fn) \/ \E b \in BOOLEAN : CreateThread(fn, b)
    BY <1>7
  <2>2. CASE CreateHotkey(fn)
    BY <2>2, TurnKept DEF CreateHotkey
  <2>3. ASSUME NEW b \in BOOLEAN, CreateThread(fn, b)
        PROVE  StackTurn /\ NoClosing /\ Scripting
    BY <2>3, TurnKept, TurnPush DEF CreateThread
  <2> QED
    BY <2>1, <2>2, <2>3
<1>8. CASE \E o \in Objects("hotkey"), fn \in Fns : SetHotkeyAction(o, fn)
  BY <1>8, TurnKept DEF SetHotkeyAction
<1>9. CASE \E o \in Objects("hotkey") : HotkeyTrigger(o) \/ HotkeyDestroy(o) \/ \E b \in BOOLEAN : HotkeyEnable(o, b)
  BY <1>9, TurnKept, TurnPush DEF HotkeyTrigger, HotkeyDestroy, HotkeyEnable
<1>10. CASE \E o \in Objects("thread") : ThreadResume(o) \/ ThreadTerminate(o) \/ ThreadSuspend(o)
  BY <1>10, TurnKept, TurnPush DEF ThreadResume, ThreadTerminate, ThreadSuspend
<1>11. CASE \E o \in Objects("hotkey") \cup Objects("thread") : Collect(o)
  BY <1>11, TurnKept DEF Collect
<1> QED
  BY <1>1, <1>2, <1>3, <1>4, <1>5, <1>6, <1>7, <1>8, <1>9, <1>10, <1>11 DEF ObjectNext

\* So do widgets.
LEMMA WidgetTurns == ASSUME StackOK, WidgetNext PROVE StackTurn /\ (DestroyNext \/ NoClosing) /\ Scripting
<1>1. CASE EmitNext
  <2>1. stack # << >> /\ Top.kind = "emit" /\ Scripting
    BY <1>1 DEF EmitNext
  <2>2. CASE Top.rest = << >>
    BY <1>1, <2>1, <2>2, TurnPop DEF EmitNext
  <2>3. CASE Top.rest # << >>
    <3> DEFINE c == Head(Top.rest)
               more == Tail(stack[Len(stack)].rest)
    <3>1. \/ stack' = Append(Rested(stack, Len(stack), more), Frame("widget", Top.obj, Behind(RefIn(Top.obj, c.slot)), << >>, NoHit))
          \/ stack' = Rested(stack, Len(stack), more)
      BY <1>1, <2>3 DEF EmitNext, Rested
    <3> HIDE DEF c, more
    <3> QED
      BY <2>1, <3>1, TurnRestPush, TurnRest
  <2> QED
    BY <2>2, <2>3
<1>2. CASE DestroyNext
  <2>1. stack # << >> /\ Top.kind = "delete" /\ Scripting
    BY <1>2 DEF DestroyNext
  <2>2. CASE Top.rest = << >>
    BY <1>2, <2>1, <2>2, TurnPop DEF DestroyNext
  <2>3. CASE Top.rest # << >>
    <3> DEFINE o == Head(Top.rest)
               more(first) == first \o Tail(stack[Len(stack)].rest)
    <3>1. \/ stack' = Append(Rested(stack, Len(stack), more(<< >>)), Frame("close", o, Behind(RefIn(o, "close")), << >>, NoHit))
          \/ stack' = Rested(stack, Len(stack), more(<< >>))
          \/ stack' = Rested(stack, Len(stack), more(Kids(o)))
      BY <1>2, <2>3 DEF DestroyNext, Rested
    <3> HIDE DEF o, more
    <3> QED
      BY <1>2, <2>1, <3>1, TurnRestPush, TurnRest
  <2> QED
    BY <2>2, <2>3
<1>3. CASE CloseReturns
  <2>1. stack # << >> /\ Top.kind = "close" /\ Scripting
    BY <1>3 DEF CloseReturns, InLua
  <2> DEFINE more == Kids(Top.obj) \o Front(stack)[Len(stack) - 1].rest
  <2>2. stack' = Rested(Front(stack), Len(stack) - 1, more)
    BY <1>3 DEF CloseReturns, Rested
  <2> HIDE DEF more
  <2> QED
    BY <2>1, <2>2, TurnRestPop
<1>4. CASE \E kind \in WidgetKinds, parent \in {0} \cup Widgets, on \in BOOLEAN :
             (~on => kind = "timerwidget") /\ CreateWidget(kind, parent, on)
  BY <1>4, TurnKept DEF CreateWidget
<1>5. CASE \E fn \in Fns : AddMainMenuItem(fn)
  BY <1>5, TurnKept DEF AddMainMenuItem
<1>6. CASE \E o \in Widgets, s \in Slots \ {"call"}, fn \in Fns \cup {Nil} :
             (s = "tick" => objs[o].kind = "timerwidget") /\ SetEvent(o, s, fn)
  BY <1>6, TurnKept DEF SetEvent
<1>7. CASE \E o \in Objects("timerwidget") : WidgetTick(o) \/ \E b \in BOOLEAN : WidgetEnable(o, b)
  BY <1>7, TurnKept, TurnPush DEF WidgetTick, WidgetEnable
<1>8. CASE \E o \in Widgets \cup Objects("menu") : Emit(o)
  BY <1>8, TurnPush DEF Emit
<1>9. CASE \E o \in Widgets : CloseForm(o) \/ DeleteForm(o)
  BY <1>9, TurnKept, TurnPush DEF CloseForm, DeleteForm
<1> QED
  BY <1>1, <1>2, <1>3, <1>4, <1>5, <1>6, <1>7, <1>8, <1>9 DEF WidgetNext
-----------------------------------------------------------------------------
(* Handles                                                                 *)

Handle == [pid : Pids, live : BOOLEAN, remote : {"no", "served", "orphaned"}]
Engine == [proc : Nat, ceProc : Nat, owned : Nat, client : Nat, win : Nat, switching : BOOLEAN,
           sound : BOOLEAN, chosen : Pids \cup {Nil}, down : BOOLEAN, handles : Seq(Handle)]
EngineOK(e) == /\ e \in Engine
               /\ e.proc <= Len(e.handles) /\ e.ceProc <= Len(e.handles) /\ e.owned <= Len(e.handles)
               /\ e.client <= Len(e.handles) /\ e.win <= Len(e.handles)

\* Two engines that differ in their handles at most.
Besides(e, d) == /\ e.proc = d.proc /\ e.ceProc = d.ceProc /\ e.owned = d.owned /\ e.client = d.client
                 /\ e.win = d.win /\ e.switching = d.switching /\ e.sound = d.sound
                 /\ e.chosen = d.chosen /\ e.down = d.down

\* A freed handle keeps its process.
LEMMA Freeing ==
    ASSUME NEW e, EngineOK(e), NEW h \in Nat, h <= Len(e.handles), NEW d, d = FreeHandle(e, h)
    PROVE  /\ EngineOK(d) /\ Besides(d, e) /\ Len(d.handles) = Len(e.handles)
           /\ \A i \in 1 .. Len(e.handles) : /\ d.handles[i].pid = e.handles[i].pid
                                             /\ d.handles[i].remote = e.handles[i].remote
                                             /\ i # h => d.handles[i].live = e.handles[i].live
<1>1. e \in Engine /\ e.handles \in Seq(Handle) /\ Len(e.handles) \in Nat
  BY LenProperties DEF EngineOK, Engine
<1>2. CASE h = 0
  BY <1>2 DEF FreeHandle, Besides
<1>3. CASE h # 0
  <2> DEFINE n == Len(e.handles)
             g == [e.handles[h] EXCEPT !.live = FALSE]
             H == [e.handles EXCEPT ![h] = g]
  <2>1. h \in 1 .. n
    BY <1>1, <1>3
  <2>2. e.handles[h] \in Handle
    BY <1>1, <2>1, ElementOfSeq
  <2>3. g \in Handle /\ g.pid = e.handles[h].pid /\ g.remote = e.handles[h].remote
    BY <2>2 DEF Handle
  <2>4. d = [e EXCEPT !.handles = H]
    BY <1>3 DEF FreeHandle
  <2> HIDE DEF g
  <2>5. H \in Seq(Handle) /\ Len(H) = n /\ \A i \in 1 .. n : H[i] = IF i = h THEN g ELSE e.handles[i]
    BY <1>1, <2>1, <2>3, ExceptSeq
  <2> HIDE DEF H
  <2>6. d \in Engine /\ d.handles = H /\ Besides(d, e)
    BY <1>1, <2>4, <2>5 DEF Engine, Besides
  <2>7. EngineOK(d)
    BY <1>1, <2>5, <2>6 DEF EngineOK, Besides
  <2> QED
    BY <2>3, <2>5, <2>6, <2>7
<1> QED
  BY <1>2, <1>3

\* A new handle is the last one, and the others stay as they are.
LEMMA Opening ==
    ASSUME NEW e, EngineOK(e), NEW p \in Pids, NEW r \in {"no", "served"}, NEW d, d = NewHandle(e, p, r)
    PROVE  /\ EngineOK(d) /\ Besides(d, e) /\ Len(d.handles) = Len(e.handles) + 1
           /\ \A i \in 1 .. Len(e.handles) : d.handles[i] = e.handles[i]
           /\ d.handles[Len(e.handles) + 1] = [pid |-> p, live |-> TRUE, remote |-> r]
<1> DEFINE g == [pid |-> p, live |-> TRUE, remote |-> r]
           n == Len(e.handles)
           H == Append(e.handles, g)
<1>1. e \in Engine /\ e.handles \in Seq(Handle) /\ n \in Nat
  BY LenProperties DEF EngineOK, Engine
<1>2. g \in Handle
  BY DEF Handle
<1>3. d = [e EXCEPT !.handles = H]
  BY DEF NewHandle
<1> HIDE DEF g
<1>4. H \in Seq(Handle) /\ Len(H) = n + 1 /\ (\A i \in 1 .. n : H[i] = e.handles[i]) /\ H[n + 1] = g
  BY <1>1, <1>2, AppendProperties
<1> HIDE DEF H
<1>5. d \in Engine /\ d.handles = H /\ Besides(d, e)
  BY <1>1, <1>3, <1>4 DEF Engine, Besides
<1>6. EngineOK(d)
  <2>1. d.proc \in Nat /\ d.ceProc \in Nat /\ d.owned \in Nat /\ d.client \in Nat /\ d.win \in Nat
    BY <1>5 DEF Engine
  <2>2. d.proc <= n /\ d.ceProc <= n /\ d.owned <= n /\ d.client <= n /\ d.win <= n
    BY <1>5 DEF EngineOK, Besides
  <2> HIDE DEF n
  <2>3. d.proc <= n + 1 /\ d.ceProc <= n + 1 /\ d.owned <= n + 1 /\ d.client <= n + 1 /\ d.win <= n + 1
    BY <1>1, <2>1, <2>2
  <2> QED
    BY <1>4, <1>5, <2>3 DEF EngineOK
<1> QED
  BY <1>4, <1>5, <1>6 DEF g

\* The owned handle is dropped and another one taken.
Retaken(e, o, h, k) == [[[FreeHandle(e, e.owned) EXCEPT !.owned = o] EXCEPT !.proc = h] EXCEPT !.ceProc = k]
LEMMA Dropping ==
    ASSUME NEW e, EngineOK(e), NEW h \in Nat, h <= Len(e.handles), NEW o \in Nat, o <= Len(e.handles),
           NEW k \in Nat, k <= Len(e.handles), NEW d, d = Retaken(e, o, h, k)
    PROVE  /\ EngineOK(d) /\ d.proc = h /\ d.ceProc = k /\ d.owned = o /\ d.sound = e.sound /\ d.win = e.win
           /\ Len(d.handles) = Len(e.handles)
           /\ \A i \in 1 .. Len(e.handles) : /\ d.handles[i].pid = e.handles[i].pid
                                             /\ d.handles[i].remote = e.handles[i].remote
                                             /\ i # e.owned => d.handles[i].live = e.handles[i].live
<1> DEFINE c == FreeHandle(e, e.owned)
<1>0. e.owned \in Nat /\ e.owned <= Len(e.handles) /\ e.ceProc \in Nat
  BY DEF EngineOK, Engine
<1>1. /\ EngineOK(c) /\ Besides(c, e) /\ Len(c.handles) = Len(e.handles)
      /\ \A i \in 1 .. Len(e.handles) : /\ c.handles[i].pid = e.handles[i].pid
                                        /\ c.handles[i].remote = e.handles[i].remote
                                        /\ i # e.owned => c.handles[i].live = e.handles[i].live
  BY <1>0, Freeing
<1>2. c \in Engine
  BY <1>1 DEF EngineOK
<1>4. d = [[[c EXCEPT !.owned = o] EXCEPT !.proc = h] EXCEPT !.ceProc = k]
  BY DEF Retaken
<1> HIDE DEF c
<1> DEFINE a == [c EXCEPT !.owned = o]
           b == [a EXCEPT !.proc = h]
<1>6. /\ a \in Engine /\ a.owned = o /\ a.handles = c.handles
      /\ a.sound = c.sound /\ a.win = c.win /\ a.client = c.client
  BY <1>2 DEF Engine
<1>7. d = [b EXCEPT !.ceProc = k]
  BY <1>4
<1> HIDE DEF a
<1>8. /\ b \in Engine /\ b.owned = o /\ b.handles = c.handles /\ b.proc = h
      /\ b.sound = c.sound /\ b.win = c.win /\ b.client = c.client
  BY <1>6 DEF Engine
<1> HIDE DEF b
<1>3. /\ d \in Engine /\ d.proc = h /\ d.ceProc = k /\ d.owned = o /\ d.handles = c.handles
      /\ d.sound = c.sound /\ d.win = c.win /\ d.client = c.client
  BY <1>7, <1>8 DEF Engine
<1>5. EngineOK(d)
  <2>1. c.client <= Len(e.handles) /\ c.win <= Len(e.handles)
    BY <1>1 DEF EngineOK
  <2> QED
    BY <1>1, <1>3, <2>1 DEF EngineOK
<1> QED
  BY <1>1, <1>3, <1>5 DEF Besides

\* setOwnedCeserverClient orphans the handle that talks through the client before.
LEMMA Serving ==
    ASSUME NEW e, EngineOK(e), NEW h \in Nat, h <= Len(e.handles), NEW d, d = SetOwnedCeserverClient(e, h)
    PROVE  /\ EngineOK(d) /\ d.owned = e.owned /\ d.sound = e.sound /\ Len(d.handles) = Len(e.handles)
           /\ \A i \in 1 .. Len(e.handles) : /\ d.handles[i].pid = e.handles[i].pid
                                             /\ d.handles[i].live = e.handles[i].live
                                             /\ i # e.client => d.handles[i] = e.handles[i]
<1> DEFINE n == Len(e.handles)
           g(i) == IF i = e.client THEN [e.handles[i] EXCEPT !.remote = "orphaned"] ELSE e.handles[i]
           H == [i \in DOMAIN e.handles |-> g(i)]
           c == [e EXCEPT !.client = h]
<1>1. e \in Engine /\ e.handles \in Seq(Handle) /\ n \in Nat /\ DOMAIN e.handles = 1 .. n
  BY LenProperties DEF EngineOK, Engine
<1>2. ASSUME NEW i \in 1 .. n
      PROVE  /\ g(i) \in Handle /\ g(i).pid = e.handles[i].pid /\ g(i).live = e.handles[i].live
             /\ i # e.client => g(i) = e.handles[i]
  <2>1. e.handles[i] \in Handle
    BY <1>1, ElementOfSeq
  <2> QED
    BY <2>1 DEF Handle
<1>3. d = [c EXCEPT !.handles = H]
  BY <1>1 DEF SetOwnedCeserverClient, Engine
<1> HIDE DEF g
<1>4. H \in [1 .. n -> Handle] /\ \A i \in 1 .. n : H[i] = g(i)
  BY <1>1, <1>2
<1> HIDE DEF H
<1>5. H \in Seq(Handle) /\ Len(H) = n
  BY <1>1, <1>4, SeqDef, LenProperties
<1>6. /\ c \in Engine /\ c.client = h /\ c.owned = e.owned /\ c.sound = e.sound
      /\ c.proc = e.proc /\ c.ceProc = e.ceProc /\ c.win = e.win
  BY <1>1 DEF Engine
<1> HIDE DEF c
<1>7. /\ d \in Engine /\ d.handles = H /\ d.client = h /\ d.owned = e.owned /\ d.sound = e.sound
      /\ d.proc = e.proc /\ d.ceProc = e.ceProc /\ d.win = e.win
  BY <1>3, <1>5, <1>6 DEF Engine
<1>8. EngineOK(d)
  BY <1>1, <1>5, <1>7 DEF EngineOK
<1> QED
  BY <1>2, <1>4, <1>5, <1>7, <1>8
-----------------------------------------------------------------------------
(* Frames of the debugger                                                  *)

\* A handler runs above the pump that called it, and no other frame has a hit.
HitsPumped == \A i \in 1 .. Len(stack) : IF stack[i].kind = "hit" THEN i > 1 /\ stack[i - 1].kind = "dpump"
                                                                  ELSE stack[i].hit.n = 0
StackInv == StackOK /\ HitsPumped

\* No script begins and no file chooser opens.
Below == /\ \A i \in 1 .. Len(stack') : stack'[i].kind = "picker" => i \in 1 .. Len(stack) /\ stack[i].kind = "picker"
         /\ (1 \in 1 .. Len(stack') /\ stack'[1].kind = "script") => 1 \in 1 .. Len(stack) /\ stack[1].kind = "script"

LEMMA TurnBelow == ASSUME StackInv, StackTurn PROVE StackInv' /\ Below
<1>1. /\ \A i \in 1 .. Len(stack') : \/ i \in 1 .. Len(stack) /\ Alike(stack'[i], stack[i])
                                     \/ i = Len(stack) + 1 /\ Ordinary(stack'[i])
  BY TurnFrames DEF StackInv
<1>2. StackOK' /\ Len(stack) \in Nat /\ Len(stack') \in Nat
  BY SeqOver DEF StackInv, StackOK, StackTurn
<1>3. ASSUME NEW i \in 1 .. Len(stack')
      PROVE  IF stack'[i].kind = "hit" THEN i > 1 /\ stack'[i - 1].kind = "dpump" ELSE stack'[i].hit.n = 0
  <2>1. CASE i \in 1 .. Len(stack) /\ Alike(stack'[i], stack[i])
    <3>1. CASE stack'[i].kind = "hit"
      <4>1. stack[i].kind = "hit" /\ i > 1 /\ stack[i - 1].kind = "dpump"
        BY <2>1, <3>1 DEF StackInv, HitsPumped, Alike
      <4>2. i - 1 \in 1 .. Len(stack) /\ i - 1 \in 1 .. Len(stack') /\ i - 1 # Len(stack) + 1
        BY <1>2, <2>1, <4>1
      <4> QED
        BY <1>1, <3>1, <4>1, <4>2 DEF Alike
    <3>2. CASE stack'[i].kind # "hit"
      BY <2>1, <3>2 DEF StackInv, HitsPumped, Alike
    <3> QED
      BY <3>1, <3>2
  <2>2. CASE i = Len(stack) + 1 /\ Ordinary(stack'[i])
    BY <2>2 DEF Ordinary, NoHit
  <2> QED
    BY <1>1, <2>1, <2>2
<1>4. HitsPumped'
  BY <1>3 DEF HitsPumped
<1>5. Below
  BY <1>1, <1>2 DEF Below, Alike, Ordinary
<1> QED
  BY <1>2, <1>4, <1>5 DEF StackInv

\* A frame that is not ordinary is pushed, or one or two of the debugger's end.
LEMMA PushInv ==
    ASSUME StackInv, NEW k, NEW o, NEW fn, NEW rest, NEW hit, Push(Frame(k, o, fn, rest, hit)),
           IF k = "hit" THEN Len(stack) > 0 /\ stack[Len(stack)].kind = "dpump" ELSE hit = NoHit
    PROVE  /\ StackInv' /\ Grown(Frame(k, o, fn, rest, hit))
           /\ k \notin {"script", "picker"} => Below
           /\ k # "close" => NoClosing
<1> DEFINE f == Frame(k, o, fn, rest, hit)
<1>1. IsFrame(f) /\ f.kind = k /\ f.hit = hit
  BY FrameIsFrame
<1>2. stack' = Append(stack, f)
  BY DEF Push
<1> HIDE DEF f
<1>3. StackOK' /\ Grown(f)
  BY <1>1, <1>2, Pushing DEF StackInv
<1>4. Len(stack) \in Nat /\ Len(stack') = Len(stack) + 1 /\ stack'[Len(stack) + 1] = f
  BY <1>3, SeqOver DEF StackInv, StackOK, Grown
<1>5. \A i \in 1 .. Len(stack) : Alike(stack'[i], stack[i])
  BY <1>3 DEF Grown
<1>6. HitsPumped'
  <2>1. ASSUME NEW i \in 1 .. Len(stack')
        PROVE  IF stack'[i].kind = "hit" THEN i > 1 /\ stack'[i - 1].kind = "dpump" ELSE stack'[i].hit.n = 0
    <3>1. CASE i \in 1 .. Len(stack)
      BY <1>4, <1>5, <3>1 DEF StackInv, HitsPumped, Alike
    <3>2. CASE i = Len(stack) + 1
      BY <1>1, <1>4, <1>5, <3>2 DEF Alike, NoHit
    <3> QED
      BY <1>4, <3>1, <3>2
  <2> QED
    BY <2>1 DEF HitsPumped
<1>7. k \notin {"script", "picker"} => Below
  BY <1>1, <1>4, <1>5 DEF Below, Alike
<1>8. k # "close" => NoClosing
  BY <1>1, <1>3, ShapesClose DEF StackInv
<1> QED
  BY <1>3, <1>6, <1>7, <1>8 DEF StackInv, f

LEMMA ShrinkInv ==
    ASSUME StackInv, StackOK', NEW n \in 1 .. 2, Shrunk(n)
    PROVE  StackInv' /\ Below /\ NoClosing
<1>1. Len(stack) \in Nat /\ Len(stack') = Len(stack) - n /\ Len(stack) >= n
  BY SeqOver DEF StackInv, StackOK, Shrunk
<1>2. \A i \in 1 .. Len(stack') : i \in 1 .. Len(stack) /\ Alike(stack'[i], stack[i])
  BY <1>1 DEF Shrunk
<1>3. HitsPumped'
  BY <1>1, <1>2 DEF StackInv, HitsPumped, Alike
<1> QED
  BY <1>1, <1>2, <1>3 DEF StackInv, Below, NoClosing, Alike

LEMMA DebugStack == ASSUME StackInv, DebugNext PROVE StackInv' /\ Below /\ NoClosing
<1>1. CASE stack' = stack
  BY <1>1, TurnKept, TurnBelow DEF StackInv
<1>2. CASE DebugPumpEvents
  BY <1>2, TurnPush, TurnBelow DEF DebugPumpEvents, StackInv
<1>3. CASE DebugPumpNext
  <2>1. stack # << >> /\ Top.kind = "dpump" /\ Len(stack) > 0 /\ Top = stack[Len(stack)]
    BY <1>3, TopIs DEF DebugPumpNext, StackInv
  <2>2. Pop \/ stack' = stack \/ \E h : Push(Frame("hit", 0, Nil, << >>, h))
    BY <1>3 DEF DebugPumpNext
  <2> QED
    BY <1>1, <2>1, <2>2, PushInv, TurnPop, TurnBelow DEF StackInv
<1>4. CASE HandlerReturns
  BY <1>4, Popping, ShrinkInv DEF HandlerReturns, InLua, Pop, StackInv
<1>5. CASE HandlerFails
  <2>1. stack # << >> /\ Top.kind = "hit" /\ Len(stack) \in Nat \ {0} /\ Top = stack[Len(stack)]
    BY <1>5, TopIs DEF HandlerFails, InLua, StackInv
  <2>2. Len(stack) > 1
    BY <2>1 DEF StackInv, HitsPumped
  <2> QED
    BY <1>5, <2>2, PoppingTwo, ShrinkInv DEF HandlerFails, StackInv
<1>6. CASE \/ DebugSetBreakpoint \/ DebugContinue \/ DebugRegisters \/ TargetExits
           \/ \E b \in 1 .. Len(dbg.list) : DebugRemoveBreakpoint(b)
           \/ \E t \in Tids : TargetHits(t)
  BY <1>1, <1>6 DEF DebugSetBreakpoint, DebugContinue, DebugRegisters, TargetExits, DebugRemoveBreakpoint, TargetHits
<1> QED
  BY <1>2, <1>3, <1>4, <1>5, <1>6 DEF DebugNext
-----------------------------------------------------------------------------
(* What the bindings act on                                                *)

LEMMA Throughs == ASSUME NEW eff, Through(eff) PROVE done' = done \/ (done'.pid = ProcPid /\ done'.eff = eff)
  BY DEF Through

\* The last effect stays, or is one on the process of ce_proc.
OnCeProc == done' = done \/ (done'.pid = ProcPid /\ done'.eff # "debugged")

\* Bindings that use the target.
LEMMA TargetTurns ==
    ASSUME TargetNext
    PROVE  UNCHANGED <<family, eng, stack, dbg>> /\ ~undefined /\ OnCeProc
<1> DEFINE Quiet == UNCHANGED <<family, eng, stack, dbg>> /\ ~undefined /\ OnCeProc
<1>1. ASSUME NEW effs, "debugged" \notin effs, TargetCall(effs)
      PROVE  Quiet
  <2>1. PICK eff \in effs \cup {"none"} : Through(eff)
    BY <1>1 DEF TargetCall
  <2>2. eff # "debugged"
    BY <1>1
  <2> QED
    BY <1>1, <2>1, <2>2, Throughs DEF TargetCall, Calling, InLua, OnCeProc
<1>2. CASE ReadTarget \/ FinderAndTrace
  <2>1. \E eff : eff # "debugged" /\ Through(eff)
    BY <1>2 DEF ReadTarget, FinderAndTrace
  <2> QED
    BY <1>2, <2>1, Throughs DEF ReadTarget, FinderAndTrace, InLua, OnCeProc
<1>3. ASSUME NEW kind, NEW eff, eff # "debugged", CreateOf(kind, eff)
      PROVE  Quiet
  BY <1>3, Throughs DEF CreateOf, Calling, InLua, OnCeProc
<1>4. ASSUME NEW o, RemoveSimpleHook(o)
      PROVE  Quiet
  <2>1. Through("written")
    BY <1>4 DEF RemoveSimpleHook
  <2> QED
    BY <1>4, <2>1, Throughs DEF RemoveSimpleHook, Calling, InLua, OnCeProc
<1>5. ASSUME NEW kind, NEW eff, eff # "debugged", UseOf(kind, eff)
      PROVE  Quiet
  <2>1. TargetCall({eff}) /\ "debugged" \notin {eff}
    BY <1>5 DEF UseOf
  <2> QED
    BY <1>1, <2>1
<1> HIDE DEF Quiet
<1>6. CASE \/ WriteTarget \/ RegionFiles \/ Pause \/ Unpause \/ AllocateMemory \/ InjectLibrary
           \/ ExecuteCode \/ NopInstruction \/ AutoAssemble
  <2>1. \E effs : "debugged" \notin effs /\ TargetCall(effs)
    BY <1>6 DEF WriteTarget, RegionFiles, Pause, Unpause, AllocateMemory, InjectLibrary, ExecuteCode,
                NopInstruction, AutoAssemble
  <2> QED
    BY <1>1, <2>1 DEF Quiet
<1>7. CASE \/ CreateOf("scan", "none") \/ CreateOf("snapshot", "none") \/ CreateOf("hook", "patched")
           \/ UseOf("scan", "none") \/ UseOf("snapshot", "written")
           \/ \E o \in Objects("hook") : RemoveSimpleHook(o)
  <2>1. "none" # "debugged" /\ "patched" # "debugged" /\ "written" # "debugged"
    OBVIOUS
  <2> QED
    BY <1>3, <1>4, <1>5, <1>7, <2>1, Zenon DEF Quiet
<1> QED
  BY <1>2, <1>6, <1>7, Zenon DEF TargetNext, Quiet

\* Bindings and events of the debugger leave handles alone, and no step follows an undefined one.
LEMMA DebugTurns ==
    ASSUME DebugNext
    PROVE  UNCHANGED <<family, eng, reg, objs>> /\ ~undefined
  BY DEF DebugNext, DebugSetBreakpoint, DebugContinue, DebugRegisters, TargetExits, DebugPumpEvents, DebugPumpNext,
         HandlerReturns, HandlerFails, DebugRemoveBreakpoint, TargetHits, Debugging, InLua

-----------------------------------------------------------------------------
(* Breakpoint hits                                                         *)

LEMMA TailSeq ==
    ASSUME NEW s, IsSeq(s), s # << >>
    PROVE  /\ IsSeq(Tail(s)) /\ Len(Tail(s)) = Len(s) - 1 /\ Head(s) = s[1]
           /\ \A i \in 1 .. Len(s) - 1 : Tail(s)[i] = s[i + 1]
<1> DEFINE S == {s[i] : i \in DOMAIN s}
<1>1. s \in Seq(S)
  BY DEF IsSeq
<1> HIDE DEF S
<1>2. Head(s) = s[1] /\ Tail(s) \in Seq(S) /\ Len(Tail(s)) = Len(s) - 1 /\ \A i \in 1 .. Len(Tail(s)) : Tail(s)[i] = s[i + 1]
  BY <1>1, HeadTailProperties
<1> QED
  BY <1>2, SeqIsSeq

IsDebugger(d) == /\ d = [pid |-> d.pid, attached |-> d.attached, stop |-> d.stop, stops |-> d.stops,
                         queue |-> d.queue, bps |-> d.bps, list |-> d.list, regs |-> d.regs, failed |-> d.failed]
                 /\ IsSeq(d.queue)

\* The target stands only under a debugger, so a handler that returns lets it run.
StopInv == IsDebugger(dbg) /\ (dbg.stop # 0 => dbg.attached) /\ StopAccounted

\* Only the frames without a hit end.
HitsStay == \A i \in 1 .. Len(stack) : \/ i \in 1 .. Len(stack') /\ stack'[i].hit = stack[i].hit
                                       \/ stack[i].kind # "hit"

LEMMA TurnHits == ASSUME StackInv, StackTurn PROVE HitsStay
<1>1. \A i \in 1 .. Len(stack') : \/ i \in 1 .. Len(stack) /\ Alike(stack'[i], stack[i])
                                  \/ i = Len(stack) + 1 /\ Ordinary(stack'[i])
  BY TurnFrames DEF StackInv
<1>2. \A i \in 1 .. Len(stack) : i \in 1 .. Len(stack') \/ stack[i].kind # "hit"
  BY TurnFrames DEF StackInv
<1>3. Len(stack) \in Nat
  BY SeqOver DEF StackInv, StackOK
<1> QED
  BY <1>1, <1>2, <1>3 DEF HitsStay, Alike

\* A stop stays accounted for while its hit stays in the queue or at its handler, or was recorded as failed.
LEMMA StopStays ==
    ASSUME StackInv, StopInv, HitsStay, IsDebugger(dbg'), dbg'.stop = dbg.stop, dbg'.attached = dbg.attached,
           dbg'.queue = dbg.queue, dbg'.failed = dbg.failed
    PROVE  StopInv'
<1>1. ASSUME dbg'.stop > 0, dbg'.stop \notin {dbg'.queue[i].n : i \in 1 .. Len(dbg'.queue)}, dbg'.stop \notin dbg'.failed
      PROVE  \E i \in 1 .. Len(stack') : stack'[i].hit.n = dbg'.stop
  <2>1. PICK i \in 1 .. Len(stack) : stack[i].hit.n = dbg.stop
    BY <1>1 DEF StopInv, StopAccounted
  <2>2. stack[i].kind = "hit"
    BY <1>1, <2>1 DEF StackInv, HitsPumped
  <2> QED
    BY <2>1, <2>2 DEF HitsStay
<1> QED
  BY <1>1 DEF StopInv, StopAccounted

LEMMA StopSame ==
    ASSUME StackInv, StopInv, HitsStay, dbg' = dbg
    PROVE  StopInv'
  BY StopStays DEF StopInv

\* The target runs on, or stands at the stop of the attach.
LEMMA StopOver ==
    ASSUME IsDebugger(dbg'), dbg'.stop = 0 \/ (dbg'.stop = -1 /\ dbg'.attached)
    PROVE  StopInv'
  BY DEF StopInv, StopAccounted

LEMMA ResumedRuns ==
    ASSUME NEW d, IsDebugger(d), d.stop # 0 => d.attached, NEW h
    PROVE  IsDebugger(Resumed(d, h)) /\ Resumed(d, h).stop = 0
<1> DEFINE r == [d.regs EXCEPT ![h.tid] = h.n]
           a == [d EXCEPT !.regs = r]
           c == [a EXCEPT !.stop = 0]
<1>1. CASE d.stop = 0
  BY <1>1 DEF Resumed
<1>2. CASE d.stop # 0
  <2>1. Resumed(d, h) = c
    BY <1>2 DEF Resumed, Continued
  <2> HIDE DEF r
  <2>2. a = [pid |-> d.pid, attached |-> d.attached, stop |-> d.stop, stops |-> d.stops,
             queue |-> d.queue, bps |-> d.bps, list |-> d.list, regs |-> r, failed |-> d.failed]
    BY DEF IsDebugger
  <2> HIDE DEF a
  <2>3. c = [pid |-> d.pid, attached |-> d.attached, stop |-> 0, stops |-> d.stops,
             queue |-> d.queue, bps |-> d.bps, list |-> d.list, regs |-> r, failed |-> d.failed]
    BY <2>2
  <2> QED
    BY <2>1, <2>3 DEF IsDebugger
<1> QED
  BY <1>1, <1>2

LEMMA SessionKinds ==
    ASSUME StopInv, NEW d \in Sessions
    PROVE  IsDebugger(d) /\ (d = dbg \/ (d.attached /\ d.stop = -1))
<1>1. CASE d = dbg
  BY <1>1 DEF StopInv
<1>2. CASE d # dbg
  <2> DEFINE p == eng.handles[eng.proc].pid
  <2>1. d = [[[dbg EXCEPT !.pid = p] EXCEPT !.attached = TRUE] EXCEPT !.stop = -1]
    BY <1>2 DEF Sessions
  <2> HIDE DEF p
  <2>2. d = [pid |-> p, attached |-> TRUE, stop |-> -1, stops |-> dbg.stops,
             queue |-> dbg.queue, bps |-> dbg.bps, list |-> dbg.list, regs |-> dbg.regs, failed |-> dbg.failed]
    BY <2>1 DEF StopInv, IsDebugger
  <2> QED
    BY <2>2 DEF StopInv, IsDebugger
<1> QED
  BY <1>1, <1>2

\* Setting fields of a debugger.
LEMMA DebuggerSets ==
    ASSUME NEW d, IsDebugger(d)
    PROVE  /\ \A x : LET e == [d EXCEPT !.list = x] IN
                IsDebugger(e) /\ e.stop = d.stop /\ e.attached = d.attached /\ e.queue = d.queue /\ e.failed = d.failed
                  /\ e.list = x
           /\ \A x : LET e == [d EXCEPT !.bps = x] IN
                IsDebugger(e) /\ e.stop = d.stop /\ e.attached = d.attached /\ e.queue = d.queue /\ e.failed = d.failed
           /\ IsDebugger(Continued(d)) /\ Continued(d).stop = 0
<1>1. d = [pid |-> d.pid, attached |-> d.attached, stop |-> d.stop, stops |-> d.stops,
           queue |-> d.queue, bps |-> d.bps, list |-> d.list, regs |-> d.regs, failed |-> d.failed]
  BY DEF IsDebugger
<1>2. ASSUME NEW x
      PROVE  LET e == [d EXCEPT !.list = x] IN
                IsDebugger(e) /\ e.stop = d.stop /\ e.attached = d.attached /\ e.queue = d.queue /\ e.failed = d.failed
                  /\ e.list = x
  <2>1. [d EXCEPT !.list = x] =
          [pid |-> d.pid, attached |-> d.attached, stop |-> d.stop, stops |-> d.stops,
           queue |-> d.queue, bps |-> d.bps, list |-> x, regs |-> d.regs, failed |-> d.failed]
    BY <1>1
  <2> QED
    BY <2>1 DEF IsDebugger
<1>3. ASSUME NEW x
      PROVE  LET e == [d EXCEPT !.bps = x] IN
                IsDebugger(e) /\ e.stop = d.stop /\ e.attached = d.attached /\ e.queue = d.queue /\ e.failed = d.failed
  <2>1. [d EXCEPT !.bps = x] =
          [pid |-> d.pid, attached |-> d.attached, stop |-> d.stop, stops |-> d.stops,
           queue |-> d.queue, bps |-> x, list |-> d.list, regs |-> d.regs, failed |-> d.failed]
    BY <1>1
  <2> QED
    BY <2>1 DEF IsDebugger
<1>4. IsDebugger(Continued(d)) /\ Continued(d).stop = 0
  <2>1. Continued(d) =
          [pid |-> d.pid, attached |-> d.attached, stop |-> 0, stops |-> d.stops,
           queue |-> d.queue, bps |-> d.bps, list |-> d.list, regs |-> d.regs, failed |-> d.failed]
    BY <1>1 DEF Continued
  <2> QED
    BY <2>1 DEF IsDebugger
<1> QED
  BY <1>2, <1>3, <1>4

LEMMA StackSame == ASSUME stack' = stack PROVE HitsStay
  BY DEF HitsStay

LEMMA SetBreakpointStops == ASSUME StackInv, StopInv, DebugSetBreakpoint PROVE StopInv'
<1>1. PICK d \in Sessions, planted \in BOOLEAN :
        LET e == [d EXCEPT !.list = Append(@, planted)]
            f == [e EXCEPT !.bps = IF planted THEN @ \cup {Len(e.list)} ELSE @]
        IN  dbg' = IF d.attached THEN Continued(f) ELSE e
  BY DEF DebugSetBreakpoint
<1>2. IsDebugger(d) /\ (d = dbg \/ d.attached) /\ stack' = stack
  BY SessionKinds DEF DebugSetBreakpoint
<1> DEFINE x == Append(d.list, planted)
           e == [d EXCEPT !.list = x]
           y == IF planted THEN e.bps \cup {Len(e.list)} ELSE e.bps
           f == [e EXCEPT !.bps = y]
<1>3. dbg' = IF d.attached THEN Continued(f) ELSE e
  BY <1>1
<1> HIDE DEF x, y
<1>4. IsDebugger(e) /\ e.stop = d.stop /\ e.attached = d.attached /\ e.queue = d.queue /\ e.failed = d.failed
  BY <1>2, DebuggerSets
<1> HIDE DEF e
<1>5. IsDebugger(f)
  BY <1>4, DebuggerSets
<1> HIDE DEF f
<1>6. CASE d.attached
  BY <1>3, <1>5, <1>6, DebuggerSets, StopOver
<1>7. CASE ~d.attached
  BY <1>2, <1>3, <1>4, <1>7, StackSame, StopStays
<1> QED
  BY <1>6, <1>7

LEMMA RemoveBreakpointStops == ASSUME StackInv, StopInv, NEW b, DebugRemoveBreakpoint(b) PROVE StopInv'
<1> DEFINE x == IF dbg.attached /\ dbg.list[b] THEN dbg.bps \ {b} ELSE dbg.bps
           e == [dbg EXCEPT !.bps = x]
           y == [e.list EXCEPT ![b] = FALSE]
<1>1. dbg' = [e EXCEPT !.list = y] /\ stack' = stack
  BY DEF DebugRemoveBreakpoint
<1> HIDE DEF x
<1>2. IsDebugger(e) /\ e.stop = dbg.stop /\ e.attached = dbg.attached /\ e.queue = dbg.queue /\ e.failed = dbg.failed
  BY DebuggerSets DEF StopInv
<1> HIDE DEF e, y
<1>3. LET c == [e EXCEPT !.list = y] IN
      IsDebugger(c) /\ c.stop = e.stop /\ c.attached = e.attached /\ c.queue = e.queue /\ c.failed = e.failed
  BY <1>2, DebuggerSets
<1>4. /\ IsDebugger(dbg') /\ dbg'.stop = dbg.stop /\ dbg'.attached = dbg.attached
      /\ dbg'.queue = dbg.queue /\ dbg'.failed = dbg.failed
  BY <1>1, <1>2, <1>3
<1> QED
  BY <1>1, <1>4, StackSame, StopStays

LEMMA HitStops == ASSUME StackInv, StopInv, NEW t, TargetHits(t) PROVE StopInv'
<1> DEFINE n == dbg.stops + 1
           h == [tid |-> t, n |-> n]
           q == Append(dbg.queue, h)
           r == [dbg.regs EXCEPT ![t] = n]
<1>1. dbg' = [[[[dbg EXCEPT !.stop = n] EXCEPT !.stops = n] EXCEPT !.queue = q] EXCEPT !.regs = r]
  BY DEF TargetHits
<1>2. IsSeq(q) /\ Len(q) = Len(dbg.queue) + 1 /\ q[Len(dbg.queue) + 1] = h /\ Len(dbg.queue) \in Nat
  BY AppendSeq, SeqOver DEF StopInv, IsDebugger
<1>3. h.n = n
  OBVIOUS
<1> HIDE DEF n, h, q, r
<1>4. dbg' = [pid |-> dbg.pid, attached |-> dbg.attached, stop |-> n, stops |-> n,
              queue |-> q, bps |-> dbg.bps, list |-> dbg.list, regs |-> r, failed |-> dbg.failed]
  BY <1>1 DEF StopInv, IsDebugger
<1>7. dbg.attached
  BY DEF TargetHits
<1>5. dbg'.attached /\ IsDebugger(dbg')
  BY <1>2, <1>4, <1>7 DEF IsDebugger
<1>6. dbg'.stop \in {dbg'.queue[i].n : i \in 1 .. Len(dbg'.queue)}
  BY <1>2, <1>3, <1>4
<1> QED
  BY <1>5, <1>6 DEF StopInv, StopAccounted

LEMMA PumpStops == ASSUME StackInv, StopInv, DebugPumpNext PROVE StopInv'
<1>1. stack # << >> /\ Top.kind = "dpump" /\ Len(stack) \in Nat \ {0} /\ Top = stack[Len(stack)]
  BY TopIs DEF DebugPumpNext, StackInv
<1>2. CASE dbg.queue = << >>
  <2>1. StackTurn /\ dbg' = dbg
    BY <1>1, <1>2, TurnPop DEF DebugPumpNext, StackInv
  <2> QED
    BY <2>1, TurnHits, StopSame
<1>3. CASE dbg.queue # << >>
  <2> DEFINE h == Head(dbg.queue)
             q == Tail(dbg.queue)
             d == [dbg EXCEPT !.queue = q]
  <2>1. \/ Push(Frame("hit", 0, Nil, << >>, h)) /\ dbg' = d
        \/ stack' = stack /\ dbg' = Resumed(d, h)
    BY <1>3 DEF DebugPumpNext
  <2>2. /\ IsSeq(q) /\ Len(q) = Len(dbg.queue) - 1 /\ h = dbg.queue[1]
        /\ \A i \in 1 .. Len(dbg.queue) - 1 : q[i] = dbg.queue[i + 1]
        /\ Len(dbg.queue) \in Nat
    BY <1>3, TailSeq, SeqOver DEF StopInv, IsDebugger
  <2> HIDE DEF h, q
  <2>3. d = [pid |-> dbg.pid, attached |-> dbg.attached, stop |-> dbg.stop, stops |-> dbg.stops,
             queue |-> q, bps |-> dbg.bps, list |-> dbg.list, regs |-> dbg.regs, failed |-> dbg.failed]
    BY DEF StopInv, IsDebugger
  <2> HIDE DEF d
  <2>4. IsDebugger(d) /\ (d.stop # 0 => d.attached)
    BY <2>2, <2>3 DEF StopInv, IsDebugger
  <2>5. CASE Push(Frame("hit", 0, Nil, << >>, h)) /\ dbg' = d
    <3>1. Grown(Frame("hit", 0, Nil, << >>, h))
      BY <1>1, <2>5, PushInv
    <3>2. /\ Len(stack') = Len(stack) + 1 /\ stack'[Len(stack) + 1].hit = h
          /\ \A i \in 1 .. Len(stack) : stack'[i].hit = stack[i].hit
      BY <3>1, FrameIsFrame DEF Grown, Alike
    <3>3. ASSUME dbg'.stop > 0
          PROVE  \/ dbg'.stop \in {dbg'.queue[i].n : i \in 1 .. Len(dbg'.queue)}
                 \/ \E i \in 1 .. Len(stack') : stack'[i].hit.n = dbg'.stop
                 \/ dbg'.stop \in dbg'.failed
      <4>1. dbg'.stop = dbg.stop /\ dbg'.queue = q /\ dbg'.failed = dbg.failed
        BY <2>3, <2>5
      <4>2. CASE dbg.stop \in {dbg.queue[i].n : i \in 1 .. Len(dbg.queue)}
        <5>1. PICK i \in 1 .. Len(dbg.queue) : dbg.queue[i].n = dbg.stop
          BY <4>2
        <5>2. CASE i = 1
          BY <1>1, <2>2, <3>2, <4>1, <5>1, <5>2
        <5>3. CASE i # 1
          <6>1. i - 1 \in 1 .. Len(q) /\ q[i - 1] = dbg.queue[i]
            BY <2>2, <5>3
          <6> QED
            BY <4>1, <5>1, <6>1
        <5> QED
          BY <5>2, <5>3
      <4>3. CASE \E i \in 1 .. Len(stack) : stack[i].hit.n = dbg.stop
        BY <1>1, <3>2, <4>1, <4>3
      <4>4. CASE dbg.stop \in dbg.failed
        BY <4>1, <4>4
      <4> QED
        BY <3>3, <4>1, <4>2, <4>3, <4>4 DEF StopInv, StopAccounted
    <3> QED
      BY <2>4, <2>5, <3>3 DEF StopInv, StopAccounted
  <2>6. CASE stack' = stack /\ dbg' = Resumed(d, h)
    BY <2>4, <2>6, ResumedRuns, StopOver
  <2> QED
    BY <2>1, <2>5, <2>6
<1> QED
  BY <1>2, <1>3

LEMMA FailStops == ASSUME StackInv, StopInv, HandlerFails PROVE StopInv'
<1>1. stack # << >> /\ Top.kind = "hit" /\ Len(stack) \in Nat \ {0} /\ Top = stack[Len(stack)]
  BY TopIs DEF HandlerFails, InLua, StackInv
<1>2. Len(stack) > 1 /\ stack[Len(stack) - 1].kind = "dpump"
  BY <1>1 DEF StackInv, HitsPumped
<1>3. Shrunk(2)
  BY <1>2, PoppingTwo DEF HandlerFails, StackInv
<1> DEFINE x == dbg.failed \cup {Top.hit.n}
<1>4. dbg' = [dbg EXCEPT !.failed = x]
  BY DEF HandlerFails
<1>5. Top.hit.n \in x /\ \A y \in dbg.failed : y \in x
  OBVIOUS
<1> HIDE DEF x
<1>6. dbg' = [pid |-> dbg.pid, attached |-> dbg.attached, stop |-> dbg.stop, stops |-> dbg.stops,
              queue |-> dbg.queue, bps |-> dbg.bps, list |-> dbg.list, regs |-> dbg.regs, failed |-> x]
  BY <1>4 DEF StopInv, IsDebugger
<1>7. IsDebugger(dbg') /\ (dbg'.stop # 0 => dbg'.attached)
  BY <1>6 DEF StopInv, IsDebugger
<1>8. ASSUME dbg'.stop > 0, NEW i \in 1 .. Len(stack), stack[i].hit.n = dbg.stop
      PROVE  dbg'.stop \in dbg'.failed \/ \E j \in 1 .. Len(stack') : stack'[j].hit.n = dbg'.stop
  <2>1. stack[i].kind = "hit"
    BY <1>6, <1>8 DEF StackInv, HitsPumped
  <2>2. CASE i = Len(stack)
    BY <1>1, <1>5, <1>6, <1>8, <2>2
  <2>3. CASE i # Len(stack)
    <3>1. i \in 1 .. Len(stack) - 2
      BY <1>1, <1>2, <2>1, <2>3
    <3> QED
      BY <1>3, <1>6, <1>8, <3>1 DEF Shrunk, Alike
  <2> QED
    BY <2>2, <2>3
<1>9. StopAccounted'
  BY <1>5, <1>6, <1>8 DEF StopInv, StopAccounted
<1> QED
  BY <1>7, <1>9 DEF StopInv

LEMMA StopNext == ASSUME StackInv, StopInv, [Next]_vars PROVE StopInv'
<1>1. CASE ObjectNext \/ WidgetNext
  BY <1>1, ObjectTurns, WidgetTurns, TurnHits, StopSame DEF StackInv, Scripting
<1>2. CASE TargetNext \/ UNCHANGED vars
  BY <1>2, TargetTurns, StackSame, StopSame DEF vars
<1>3. CASE HostCallback \/ Leave
  <2>1. StackTurn /\ dbg' = dbg
    BY <1>3, TurnPush, TurnPop DEF HostCallback, Leave, InLua, StackInv
  <2> QED
    BY <2>1, TurnHits, StopSame
<1>4. CASE Execute \/ SelectFilePath
  <2>1. dbg' = dbg /\ \E k : k # "hit" /\ Push(Frame(k, 0, Nil, << >>, NoHit))
    BY <1>4 DEF Execute, SelectFilePath
  <2>2. PICK k : k # "hit" /\ Push(Frame(k, 0, Nil, << >>, NoHit))
    BY <2>1
  <2>3. Grown(Frame(k, 0, Nil, << >>, NoHit)) /\ Len(stack) \in Nat
    BY <2>2, PushInv, SeqOver DEF StackInv, StackOK
  <2>4. HitsStay
    BY <2>3 DEF Grown, HitsStay, Alike
  <2> QED
    BY <2>1, <2>4, StopSame
<1>5. CASE FilePicked
  <2>1. stack # << >> /\ stack' = Front(stack) /\ dbg' = dbg /\ Top.kind = "picker"
    BY <1>5 DEF FilePicked, Pop, Hosting
  <2>2. Shrunk(1) /\ Len(stack) \in Nat \ {0} /\ stack[Len(stack)].kind = "picker"
    BY <2>1, Popping, TopIs DEF StackInv
  <2>3. HitsStay
    BY <2>2 DEF Shrunk, HitsStay, Alike
  <2> QED
    BY <2>1, <2>3, StopSame
<1>6. CASE ShutDown
  <2>1. dbg' = [[[dbg EXCEPT !.attached = FALSE] EXCEPT !.stop = 0] EXCEPT !.queue = << >>]
    BY <1>6 DEF ShutDown
  <2>2. dbg' = [pid |-> dbg.pid, attached |-> FALSE, stop |-> 0, stops |-> dbg.stops,
                queue |-> << >>, bps |-> dbg.bps, list |-> dbg.list, regs |-> dbg.regs, failed |-> dbg.failed]
    BY <2>1 DEF StopInv, IsDebugger
  <2> QED
    BY <2>2, NoneSeq, StopOver DEF IsDebugger
<1>7. CASE WindowRepoints \/ WindowSeesExit \/ \E p \in Pids : WindowSwitches(p) \/ WindowReplaces(p) \/ OpenProcess(p) \/ ConnectToCeserver(p)
  <2>1. stack' = stack /\ dbg' = dbg
    BY <1>7 DEF WindowRepoints, WindowSeesExit, WindowSwitches, WindowReplaces, OpenProcess, ConnectToCeserver
  <2> QED
    BY <2>1, StackSame, StopSame
<1>8. CASE DebugSetBreakpoint
  BY <1>8, SetBreakpointStops
<1>9. CASE DebugContinue
  <2>1. stack' = stack /\ dbg' = IF dbg.attached THEN Continued(dbg) ELSE dbg
    BY <1>9 DEF DebugContinue
  <2> QED
    BY <2>1, DebuggerSets, StackSame, StopSame, StopOver DEF StopInv
<1>10. CASE DebugRegisters
  <2>1. stack' = stack /\ dbg' \in Sessions
    BY <1>10 DEF DebugRegisters
  <2> QED
    BY <2>1, SessionKinds, StackSame, StopSame, StopOver
<1>11. CASE TargetExits
  <2>1. dbg' = [[dbg EXCEPT !.attached = FALSE] EXCEPT !.bps = {}] /\ dbg.stop = 0
    BY <1>11 DEF TargetExits
  <2>2. dbg' = [pid |-> dbg.pid, attached |-> FALSE, stop |-> 0, stops |-> dbg.stops,
                queue |-> dbg.queue, bps |-> {}, list |-> dbg.list, regs |-> dbg.regs, failed |-> dbg.failed]
    BY <2>1 DEF StopInv, IsDebugger
  <2> QED
    BY <2>2, StopOver DEF StopInv, IsDebugger
<1>12. CASE DebugPumpEvents
  <2>1. StackTurn /\ dbg' = dbg
    BY <1>12, TurnPush DEF DebugPumpEvents, StackInv
  <2> QED
    BY <2>1, TurnHits, StopSame
<1>13. CASE DebugPumpNext
  BY <1>13, PumpStops
<1>14. CASE HandlerReturns
  <2>1. dbg' = Resumed(dbg, Top.hit)
    BY <1>14 DEF HandlerReturns
  <2> QED
    BY <2>1, ResumedRuns, StopOver DEF StopInv
<1>15. CASE HandlerFails
  BY <1>15, FailStops
<1>16. CASE \E b \in 1 .. Len(dbg.list) : DebugRemoveBreakpoint(b)
  BY <1>16, RemoveBreakpointStops
<1>17. CASE \E t \in Tids : TargetHits(t)
  BY <1>17, HitStops
<1>18. CASE HostNext
  BY <1>3, <1>4, <1>5, <1>6, <1>7, <1>18, Zenon DEF HostNext
<1>19. CASE DebugNext
  BY <1>8, <1>9, <1>10, <1>11, <1>12, <1>13, <1>14, <1>15, <1>16, <1>17, <1>19, Zenon DEF DebugNext
<1> QED
  BY <1>1, <1>2, <1>18, <1>19, Zenon DEF Next

LEMMA StopInit == ASSUME Init PROVE StopInv
<1>1. dbg = [pid |-> Nil, attached |-> FALSE, stop |-> 0, stops |-> 0, queue |-> << >>, bps |-> {},
             list |-> << >>, regs |-> [t \in Tids |-> 0], failed |-> {}]
  BY DEF Init
<1> QED
  BY <1>1, NoneSeq DEF StopInv, IsDebugger, StopAccounted

-----------------------------------------------------------------------------
(* Scripts and the target                                                  *)

\* While the start of a script was sound, no file chooser has been open above it.
ScriptInv == /\ EngineOK(eng)
             /\ eng.sound => \A i \in 1 .. Len(stack) : stack[i].kind # "picker"
             /\ ScriptsUseLive

LEMMA ScriptsEmpty == ASSUME StackOK, Len(stack) = 0 PROVE ScriptsUseLive
  BY SeqOver DEF StackOK, ScriptsUseLive

\* The last effect stays, or there is a new one: on the process of ce_proc, by an attach on the
\* engine's, or by the session there was on its own.
Acts == \/ done' = done /\ (done.eff = "debugged" => dbg'.pid = dbg.pid)
        \/ done'.eff # "debugged" /\ done'.pid \in {Nil, ProcPid, PidOf(eng, eng.proc)}
        \/ done'.eff = "debugged" /\ done'.pid = dbg'.pid

\* A step that leaves the engine's handles alone, and acts, if at all, on the processes of Acts.
LEMMA ScriptStep ==
    ASSUME StackInv, ScriptInv, StackInv', Below, eng' = eng, undefined => undefined', Acts
    PROVE  ScriptInv'
<1>1. /\ stack' # << >> => 1 \in 1 .. Len(stack')
      /\ 1 \in 1 .. Len(stack) => stack # << >>
      /\ Len(stack) \in Nat /\ Len(stack') \in Nat
  BY SeqOver DEF StackInv, StackOK
<1>2. eng.sound => \A i \in 1 .. Len(stack') : stack'[i].kind # "picker"
  BY DEF ScriptInv, Below
<1>3. ScriptsUseLive'
  <2>1. SUFFICES ASSUME stack' # << >>, stack'[1].kind = "script", eng.sound, ~undefined'
                 PROVE  /\ eng.ceProc = eng.proc /\ PidOf(eng, eng.ceProc) = eng.chosen
                        /\ eng.ceProc # 0 => Usable(eng, eng.ceProc)
                        /\ done'.pid \in IF done'.eff = "debugged" THEN {dbg'.pid} ELSE {Nil, eng.chosen}
    BY DEF ScriptsUseLive, PidOf, Usable
  <2>2. stack # << >> /\ stack[1].kind = "script"
    BY <1>1, <2>1 DEF Below
  <2>3. /\ eng.ceProc = eng.proc /\ PidOf(eng, eng.ceProc) = eng.chosen
        /\ eng.ceProc # 0 => Usable(eng, eng.ceProc)
        /\ done.pid \in IF done.eff = "debugged" THEN {dbg.pid} ELSE {Nil, eng.chosen}
    BY <2>1, <2>2 DEF ScriptInv, ScriptsUseLive
  <2>4. done'.pid \in IF done'.eff = "debugged" THEN {dbg'.pid} ELSE {Nil, eng.chosen}
    BY <2>3 DEF Acts, ProcPid
  <2> QED
    BY <2>3, <2>4
<1> QED
  BY <1>2, <1>3 DEF ScriptInv

\* A session that is chosen when there is one is that one; else it is one of the engine's process.
LEMMA SessionPids ==
    ASSUME IsDebugger(dbg), NEW d \in Sessions
    PROVE  IsDebugger(d) /\ (d.pid = dbg.pid \/ (dbg.pid = Nil /\ d.attached /\ d.pid = PidOf(eng, eng.proc)))
<1>1. CASE d = dbg
  BY <1>1
<1>2. CASE d # dbg
  <2> DEFINE p == eng.handles[eng.proc].pid
  <2>1. d = [[[dbg EXCEPT !.pid = p] EXCEPT !.attached = TRUE] EXCEPT !.stop = -1] /\ dbg.pid = Nil /\ eng.proc # 0
    BY <1>2 DEF Sessions
  <2>2. p = PidOf(eng, eng.proc)
    BY <2>1 DEF PidOf
  <2> HIDE DEF p
  <2>3. d = [pid |-> p, attached |-> TRUE, stop |-> -1, stops |-> dbg.stops,
             queue |-> dbg.queue, bps |-> dbg.bps, list |-> dbg.list, regs |-> dbg.regs, failed |-> dbg.failed]
    BY <2>1 DEF IsDebugger
  <2> QED
    BY <2>1, <2>2, <2>3 DEF IsDebugger
<1> QED
  BY <1>1, <1>2

\* What sets fields of a debugger keeps its process.
LEMMA PidKept ==
    ASSUME NEW d, IsDebugger(d)
    PROVE  Continued(d).pid = d.pid /\ \A h : Resumed(d, h).pid = d.pid
<1>1. d = [pid |-> d.pid, attached |-> d.attached, stop |-> d.stop, stops |-> d.stops,
           queue |-> d.queue, bps |-> d.bps, list |-> d.list, regs |-> d.regs, failed |-> d.failed]
  BY DEF IsDebugger
<1>2. Continued(d).pid = d.pid
  BY <1>1 DEF Continued
<1>3. ASSUME NEW h
      PROVE  Resumed(d, h).pid = d.pid
  <2> DEFINE r == [d.regs EXCEPT ![h.tid] = h.n]
  <2>1. Resumed(d, h) \in {d, Continued([d EXCEPT !.regs = r])}
    BY DEF Resumed
  <2> HIDE DEF r
  <2>2. Continued([d EXCEPT !.regs = r]).pid = d.pid
    BY <1>1 DEF Continued
  <2> QED
    BY <2>1, <2>2
<1> QED
  BY <1>2, <1>3

LEMMA ActsOnKnown ==
    ASSUME NEW d, ActsOn(d), dbg'.pid = d.pid,
           d.pid = dbg.pid \/ (dbg.pid = Nil /\ d.attached /\ d.pid = PidOf(eng, eng.proc))
    PROVE  Acts
<1>1. CASE d.attached /\ dbg.pid = Nil /\ d.pid = PidOf(eng, eng.proc)
  <2>1. done' = [pid |-> d.pid, eff |-> "attached"]
    BY <1>1 DEF ActsOn
  <2> QED
    BY <1>1, <2>1 DEF Acts
<1>2. CASE d.attached /\ d.pid = dbg.pid /\ dbg.pid # Nil
  <2>1. done' = [pid |-> d.pid, eff |-> "debugged"]
    BY <1>2 DEF ActsOn
  <2> QED
    BY <2>1 DEF Acts
<1>3. CASE ~d.attached
  BY <1>3 DEF ActsOn, Acts
<1>4. CASE d.attached /\ d.pid = Nil /\ dbg.pid = Nil
  <2>1. done' = [pid |-> Nil, eff |-> "attached"]
    BY <1>4 DEF ActsOn
  <2> QED
    BY <2>1 DEF Acts
<1> QED
  BY <1>1, <1>2, <1>3, <1>4

\* No step of the debugger moves an attached session to another process.
LEMMA DebugActs == ASSUME IsDebugger(dbg), DebugNext PROVE Acts
<1>1. ASSUME dbg'.pid = dbg.pid, ActsOn(dbg) \/ done' = done
      PROVE  Acts
  BY <1>1, ActsOnKnown DEF Acts
<1>2. CASE DebugSetBreakpoint
  <2>1. PICK d \in Sessions, planted \in BOOLEAN :
          LET e == [d EXCEPT !.list = Append(@, planted)]
              f == [e EXCEPT !.bps = IF planted THEN @ \cup {Len(e.list)} ELSE @]
          IN  dbg' = (IF d.attached THEN Continued(f) ELSE e) /\ ActsOn(d)
    BY <1>2 DEF DebugSetBreakpoint
  <2> DEFINE x == Append(d.list, planted)
             e == [d EXCEPT !.list = x]
             y == IF planted THEN e.bps \cup {Len(e.list)} ELSE e.bps
             f == [e EXCEPT !.bps = y]
  <2>2. dbg' = (IF d.attached THEN Continued(f) ELSE e) /\ ActsOn(d)
    BY <2>1
  <2> HIDE DEF x, y
  <2>3. IsDebugger(d) /\ (d.pid = dbg.pid \/ (dbg.pid = Nil /\ d.attached /\ d.pid = PidOf(eng, eng.proc)))
    BY SessionPids
  <2>4. e = [pid |-> d.pid, attached |-> d.attached, stop |-> d.stop, stops |-> d.stops,
             queue |-> d.queue, bps |-> d.bps, list |-> x, regs |-> d.regs, failed |-> d.failed]
    BY <2>3 DEF IsDebugger
  <2> HIDE DEF e
  <2>5. e.pid = d.pid /\ Continued(f).pid = d.pid
    BY <2>4 DEF Continued
  <2> HIDE DEF f
  <2>6. dbg'.pid = d.pid
    BY <2>2, <2>5
  <2> QED
    BY <2>2, <2>3, <2>6, ActsOnKnown
<1>3. ASSUME NEW b, DebugRemoveBreakpoint(b)
      PROVE  Acts
  <2> DEFINE x == IF dbg.attached /\ dbg.list[b] THEN dbg.bps \ {b} ELSE dbg.bps
             y == [dbg.list EXCEPT ![b] = FALSE]
             e == [dbg EXCEPT !.bps = x]
  <2>1. dbg' = [e EXCEPT !.list = y]
    BY <1>3 DEF DebugRemoveBreakpoint
  <2> HIDE DEF x, y
  <2>2. e = [pid |-> dbg.pid, attached |-> dbg.attached, stop |-> dbg.stop, stops |-> dbg.stops,
             queue |-> dbg.queue, bps |-> x, list |-> dbg.list, regs |-> dbg.regs, failed |-> dbg.failed]
    BY DEF IsDebugger
  <2> HIDE DEF e
  <2>3. dbg'.pid = dbg.pid
    BY <2>1, <2>2
  <2> QED
    BY <1>1, <1>3, <2>3 DEF DebugRemoveBreakpoint
<1>4. CASE DebugContinue
  BY <1>1, <1>4, PidKept DEF DebugContinue
<1>5. CASE DebugRegisters
  <2>1. dbg' \in Sessions /\ (ActsOn(dbg') \/ (dbg' = dbg /\ done' = done))
    BY <1>5 DEF DebugRegisters
  <2>2. dbg'.pid = dbg.pid \/ (dbg.pid = Nil /\ dbg'.attached /\ dbg'.pid = PidOf(eng, eng.proc))
    BY <2>1, SessionPids
  <2> DEFINE d == dbg'
  <2>3. dbg'.pid = d.pid /\ (d.pid = dbg.pid \/ (dbg.pid = Nil /\ d.attached /\ d.pid = PidOf(eng, eng.proc)))
        /\ (ActsOn(d) \/ (d = dbg /\ done' = done))
    BY <2>1, <2>2
  <2> HIDE DEF d
  <2>4. CASE ActsOn(d)
    BY <2>3, <2>4, ActsOnKnown
  <2>5. CASE d = dbg /\ done' = done
    BY <1>1, <2>3, <2>5
  <2> QED
    BY <2>3, <2>4, <2>5
<1>6. ASSUME NEW t, TargetHits(t)
      PROVE  Acts
  <2> DEFINE n == dbg.stops + 1
             q == Append(dbg.queue, [tid |-> t, n |-> n])
             g == [dbg.regs EXCEPT ![t] = n]
  <2>1. dbg' = [[[[dbg EXCEPT !.stop = n] EXCEPT !.stops = n] EXCEPT !.queue = q] EXCEPT !.regs = g] /\ done' = done
    BY <1>6 DEF TargetHits
  <2> HIDE DEF n, q, g
  <2>2. dbg' = [pid |-> dbg.pid, attached |-> dbg.attached, stop |-> n, stops |-> n,
                queue |-> q, bps |-> dbg.bps, list |-> dbg.list, regs |-> g, failed |-> dbg.failed]
    BY <2>1 DEF IsDebugger
  <2> QED
    BY <1>1, <2>1, <2>2
<1>7. CASE TargetExits
  <2>1. dbg' = [[dbg EXCEPT !.attached = FALSE] EXCEPT !.bps = {}] /\ done' = done
    BY <1>7 DEF TargetExits
  <2>2. dbg'.pid = dbg.pid
    BY <2>1 DEF IsDebugger
  <2> QED
    BY <1>1, <2>1, <2>2
<1>8. CASE DebugPumpEvents
  BY <1>1, <1>8 DEF DebugPumpEvents
<1>9. CASE DebugPumpNext
  <2>1. CASE dbg.queue = << >>
    BY <1>1, <1>9, <2>1 DEF DebugPumpNext
  <2>2. CASE dbg.queue # << >>
    <3> DEFINE h == Head(dbg.queue)
               q == Tail(dbg.queue)
               d == [dbg EXCEPT !.queue = q]
    <3>1. (dbg' = d /\ done' = done) \/ (dbg' = Resumed(d, h) /\ ActsOn(dbg))
      BY <1>9, <2>2 DEF DebugPumpNext
    <3>2. IsSeq(q)
      BY <2>2, TailSeq DEF IsDebugger
    <3> HIDE DEF h, q
    <3>3. d = [pid |-> dbg.pid, attached |-> dbg.attached, stop |-> dbg.stop, stops |-> dbg.stops,
               queue |-> q, bps |-> dbg.bps, list |-> dbg.list, regs |-> dbg.regs, failed |-> dbg.failed]
      BY DEF IsDebugger
    <3> HIDE DEF d
    <3>4. IsDebugger(d) /\ d.pid = dbg.pid
      BY <3>2, <3>3 DEF IsDebugger
    <3>5. Resumed(d, h).pid = dbg.pid
      BY <3>4, PidKept
    <3> QED
      BY <1>1, <3>1, <3>4, <3>5
  <2> QED
    BY <2>1, <2>2
<1>10. CASE HandlerReturns
  BY <1>1, <1>10, PidKept DEF HandlerReturns
<1>11. CASE HandlerFails
  <2> DEFINE x == dbg.failed \cup {Top.hit.n}
  <2>1. dbg' = [dbg EXCEPT !.failed = x] /\ done' = done
    BY <1>11 DEF HandlerFails
  <2> HIDE DEF x
  <2>2. dbg'.pid = dbg.pid
    BY <2>1 DEF IsDebugger
  <2> QED
    BY <1>1, <2>1, <2>2
<1> QED
  BY <1>2, <1>3, <1>4, <1>5, <1>6, <1>7, <1>8, <1>9, <1>10, <1>11, Zenon DEF DebugNext

LEMMA ScriptQuiet ==
    ASSUME StackInv, ScriptInv, StopInv, ObjectNext \/ WidgetNext \/ TargetNext \/ DebugNext \/ UNCHANGED vars
    PROVE  StackInv' /\ ScriptInv'
<1>1. CASE ObjectNext \/ WidgetNext
  <2>1. Acts
    BY <1>1, ObjectTurns, WidgetTurns DEF StackInv, Scripting, Acts
  <2> QED
    BY <1>1, <2>1, ObjectTurns, WidgetTurns, TurnBelow, ScriptStep DEF StackInv, Scripting
<1>2. CASE TargetNext
  <2>1. Acts
    BY <1>2, TargetTurns DEF OnCeProc, Acts
  <2> QED
    BY <1>2, <2>1, TargetTurns, TurnKept, TurnBelow, ScriptStep DEF StackInv
<1>3. CASE DebugNext
  <2>1. Acts
    BY <1>3, DebugActs DEF StopInv
  <2> QED
    BY <1>3, <2>1, DebugTurns, DebugStack, ScriptStep
<1>4. CASE UNCHANGED vars
  <2>1. Acts
    BY <1>4 DEF vars, Acts
  <2> QED
    BY <1>4, <2>1, TurnKept, TurnBelow, ScriptStep DEF StackInv, vars
<1> QED
  BY <1>1, <1>2, <1>3, <1>4

\* A new handle, alive, becomes the chosen one of the script that is running.
LEMMA ScriptChooses ==
    ASSUME StackInv, ScriptInv, stack' = stack, stack # << >>, EngineOK(eng'), eng'.sound = eng.sound,
           NEW p \in Pids, done' = NoEffect,
           eng'.ceProc = eng'.proc, eng'.proc \in Nat \ {0}, eng'.chosen = p,
           eng'.handles[eng'.proc].pid = p, eng'.handles[eng'.proc].live,
           eng'.handles[eng'.proc].remote # "orphaned"
    PROVE  StackInv' /\ ScriptInv'
<1>1. StackInv'
  BY TurnKept, TurnBelow DEF StackInv
<1>2. ScriptsUseLive'
  BY DEF ScriptsUseLive, PidOf, Usable, NoEffect
<1> QED
  BY <1>1, <1>2 DEF ScriptInv

LEMMA OpenProcessStep ==
    ASSUME StackInv, ScriptInv, NEW p \in Pids, OpenProcess(p)
    PROVE  StackInv' /\ ScriptInv'
<1> DEFINE e == NewHandle(eng, p, "no")
           n == Len(eng.handles)
           d == SetOwnedProcess(e, Len(e.handles))
<1>1. EngineOK(eng) /\ n \in Nat
  BY LenProperties DEF ScriptInv, EngineOK, Engine
<1>2. /\ EngineOK(e) /\ Besides(e, eng) /\ Len(e.handles) = n + 1
      /\ e.handles[n + 1] = [pid |-> p, live |-> TRUE, remote |-> "no"]
  BY <1>1, Opening
<1>3. e \in Engine /\ e.owned <= n
  BY <1>1, <1>2 DEF EngineOK, Besides
<1>4. eng' = [d EXCEPT !.chosen = p] /\ stack' = stack /\ done' = NoEffect /\ stack # << >>
  BY DEF OpenProcess, InLua
<1>5. d = Retaken(e, Len(e.handles), Len(e.handles), Len(e.handles))
  BY DEF SetOwnedProcess, Retaken
<1> HIDE DEF e, d, n
<1>7. /\ EngineOK(d) /\ d.proc = n + 1 /\ d.ceProc = n + 1 /\ d.sound = e.sound /\ Len(d.handles) = n + 1
      /\ \A i \in 1 .. n + 1 : /\ d.handles[i].pid = e.handles[i].pid /\ d.handles[i].remote = e.handles[i].remote
                               /\ i # e.owned => d.handles[i].live = e.handles[i].live
  <2> DEFINE h == Len(e.handles)
  <2>1. h \in Nat /\ h = n + 1 /\ h <= Len(e.handles) /\ Len(e.handles) = n + 1
    BY <1>1, <1>2
  <2>2. d = Retaken(e, h, h, h) /\ EngineOK(e)
    BY <1>2, <1>5
  <2> HIDE DEF h
  <2>3. /\ EngineOK(d) /\ d.proc = h /\ d.ceProc = h /\ d.owned = h /\ d.sound = e.sound /\ d.win = e.win
        /\ Len(d.handles) = Len(e.handles)
        /\ \A i \in 1 .. Len(e.handles) : /\ d.handles[i].pid = e.handles[i].pid
                                          /\ d.handles[i].remote = e.handles[i].remote
                                          /\ i # e.owned => d.handles[i].live = e.handles[i].live
    BY <2>1, <2>2, Dropping
  <2> QED
    BY <2>1, <2>3
<1>8. n + 1 \in 1 .. n + 1 /\ n + 1 # e.owned /\ n + 1 \in Nat \ {0}
  BY <1>1, <1>3 DEF Engine
<1>9. /\ EngineOK(eng') /\ eng'.proc = n + 1 /\ eng'.ceProc = n + 1 /\ eng'.chosen = p
      /\ eng'.sound = eng.sound /\ eng'.handles = d.handles
  <2>1. d \in Engine
    BY <1>7 DEF EngineOK
  <2>2. /\ eng' \in Engine /\ eng'.handles = d.handles /\ eng'.proc = d.proc /\ eng'.ceProc = d.ceProc
        /\ eng'.owned = d.owned /\ eng'.client = d.client /\ eng'.win = d.win /\ eng'.chosen = p
        /\ eng'.sound = d.sound
    BY <1>4, <2>1 DEF Engine
  <2> QED
    BY <1>2, <1>7, <2>2 DEF EngineOK, Besides
<1>10. /\ eng'.handles[eng'.proc].pid = p /\ eng'.handles[eng'.proc].live
       /\ eng'.handles[eng'.proc].remote # "orphaned"
  BY <1>2, <1>7, <1>8, <1>9
<1> QED
  BY <1>4, <1>8, <1>9, <1>10, ScriptChooses

LEMMA ConnectStep ==
    ASSUME StackInv, ScriptInv, NEW p \in Pids, ConnectToCeserver(p)
    PROVE  StackInv' /\ ScriptInv'
<1> DEFINE f == NewHandle(eng, p, "served")
           n == Len(eng.handles)
           e == SetOwnedCeserverClient(f, Len(f.handles))
           d == SetOwnedProcess(e, Len(f.handles))
<1>1. EngineOK(eng) /\ n \in Nat
  BY LenProperties DEF ScriptInv, EngineOK, Engine
<1>2. /\ EngineOK(f) /\ Besides(f, eng) /\ Len(f.handles) = n + 1
      /\ f.handles[n + 1] = [pid |-> p, live |-> TRUE, remote |-> "served"]
  BY <1>1, Opening
<1>4. eng' = [d EXCEPT !.chosen = p] /\ stack' = stack /\ done' = NoEffect /\ stack # << >>
  BY DEF ConnectToCeserver, InLua
<1>5. d = Retaken(e, Len(f.handles), Len(f.handles), Len(f.handles))
  BY DEF SetOwnedProcess, Retaken
<1>6. e = SetOwnedCeserverClient(f, Len(f.handles))
  OBVIOUS
<1> HIDE DEF f, e, d, n
<1>11. /\ EngineOK(e) /\ e.owned = f.owned /\ e.sound = f.sound /\ Len(e.handles) = n + 1
       /\ \A i \in 1 .. n + 1 : i # f.client => e.handles[i] = f.handles[i]
  BY <1>1, <1>2, <1>6, Serving
<1>3. e.owned \in Nat /\ e.owned <= n /\ f.client \in Nat /\ f.client <= n
  BY <1>1, <1>2, <1>11 DEF EngineOK, Besides, n, Engine
<1>7. /\ EngineOK(d) /\ d.proc = n + 1 /\ d.ceProc = n + 1 /\ d.sound = e.sound /\ Len(d.handles) = n + 1
      /\ \A i \in 1 .. n + 1 : /\ d.handles[i].pid = e.handles[i].pid /\ d.handles[i].remote = e.handles[i].remote
                               /\ i # e.owned => d.handles[i].live = e.handles[i].live
  <2> DEFINE h == Len(f.handles)
  <2>1. h \in Nat /\ h = n + 1 /\ h <= Len(e.handles) /\ Len(e.handles) = n + 1
    BY <1>1, <1>2, <1>11
  <2>2. d = Retaken(e, h, h, h) /\ EngineOK(e)
    BY <1>2, <1>5, <1>11
  <2> HIDE DEF h
  <2>3. /\ EngineOK(d) /\ d.proc = h /\ d.ceProc = h /\ d.owned = h /\ d.sound = e.sound /\ d.win = e.win
        /\ Len(d.handles) = Len(e.handles)
        /\ \A i \in 1 .. Len(e.handles) : /\ d.handles[i].pid = e.handles[i].pid
                                          /\ d.handles[i].remote = e.handles[i].remote
                                          /\ i # e.owned => d.handles[i].live = e.handles[i].live
    BY <2>1, <2>2, Dropping
  <2> QED
    BY <2>1, <2>3
<1>8. n + 1 \in 1 .. n + 1 /\ n + 1 # e.owned /\ n + 1 # f.client /\ n + 1 \in Nat \ {0}
  BY <1>1, <1>3
<1>9. /\ EngineOK(eng') /\ eng'.proc = n + 1 /\ eng'.ceProc = n + 1 /\ eng'.chosen = p
      /\ eng'.sound = eng.sound /\ eng'.handles = d.handles
  <2>1. d \in Engine
    BY <1>7 DEF EngineOK
  <2>2. /\ eng' \in Engine /\ eng'.handles = d.handles /\ eng'.proc = d.proc /\ eng'.ceProc = d.ceProc
        /\ eng'.owned = d.owned /\ eng'.client = d.client /\ eng'.win = d.win /\ eng'.chosen = p
        /\ eng'.sound = d.sound
    BY <1>4, <2>1 DEF Engine
  <2> QED
    BY <1>2, <1>7, <1>11, <2>2 DEF EngineOK, Besides
<1>10. /\ eng'.handles[eng'.proc].pid = p /\ eng'.handles[eng'.proc].live
       /\ eng'.handles[eng'.proc].remote # "orphaned"
  BY <1>2, <1>7, <1>8, <1>9, <1>11
<1> QED
  BY <1>4, <1>8, <1>9, <1>10, ScriptChooses

\* The host acts when no script runs, or under a file chooser: then no start was sound.
LEMMA HostScript ==
    ASSUME StackInv, ScriptInv, StackInv', Below, EngineOK(eng'), eng'.sound = eng.sound,
           stack # << >> => Top.kind = "picker"
    PROVE  ScriptInv'
<1>1. /\ stack' # << >> => 1 \in 1 .. Len(stack')
      /\ stack # << >> => Len(stack) \in 1 .. Len(stack) /\ stack[Len(stack)].kind = "picker"
      /\ Len(stack) \in Nat /\ (1 \in 1 .. Len(stack) => stack # << >>)
  BY SeqOver, TopIs DEF StackInv, StackOK
<1>2. eng'.sound => \A i \in 1 .. Len(stack') : stack'[i].kind # "picker"
  BY DEF ScriptInv, Below
<1>3. stack # << >> => ~eng.sound
  BY <1>1 DEF ScriptInv
<1>4. stack = << >> => ~(stack' # << >> /\ stack'[1].kind = "script")
  BY <1>1, EmptySeq DEF Below
<1> QED
  BY <1>2, <1>3, <1>4 DEF ScriptInv, ScriptsUseLive

\* What the host sets apart from the handles.
LEMMA HostSets ==
    ASSUME NEW e, EngineOK(e), NEW d, d.handles = e.handles, d \in Engine, d.ceProc = e.ceProc, d.client = e.client,
           d.proc \in {e.proc, 0}, d.owned \in {e.owned, 0}, d.win \in {e.win, 0, Len(e.handles)}
    PROVE  EngineOK(d)
<1>1. e \in Engine /\ Len(e.handles) \in Nat
  BY LenProperties DEF EngineOK, Engine
<1> QED
  BY <1>1 DEF EngineOK

LEMMA WindowOpens ==
    ASSUME StackInv, ScriptInv, NEW p \in Pids, WindowSwitches(p) \/ WindowReplaces(p)
    PROVE  StackInv' /\ ScriptInv'
<1> DEFINE f == FreeHandle(eng, eng.win)
           e == NewHandle(f, p, "no")
<1>1. EngineOK(eng) /\ eng.win \in Nat /\ eng.win <= Len(eng.handles)
  BY DEF ScriptInv, EngineOK, Engine
<1>2. EngineOK(f) /\ f.sound = eng.sound
  BY <1>1, Freeing DEF Besides
<1>3. /\ \/ eng' = [[e EXCEPT !.win = Len(e.handles)] EXCEPT !.switching = TRUE]
         \/ eng' = [e EXCEPT !.win = Len(e.handles)]
      /\ stack' = stack /\ (stack # << >> => Top.kind = "picker")
  BY DEF WindowSwitches, WindowReplaces, Idle, Hosting
<1> HIDE DEF f
<1>4. EngineOK(e) /\ Besides(e, f)
  BY <1>2, Opening
<1> HIDE DEF e
<1>5. EngineOK(e) /\ e.sound = eng.sound
  BY <1>2, <1>4 DEF Besides
<1>6. e \in Engine /\ Len(e.handles) \in Nat
  BY <1>5, LenProperties DEF EngineOK, Engine
<1>7. /\ eng' \in Engine /\ eng'.handles = e.handles /\ eng'.ceProc = e.ceProc /\ eng'.client = e.client
      /\ eng'.proc = e.proc /\ eng'.owned = e.owned /\ eng'.win = Len(e.handles) /\ eng'.sound = e.sound
  BY <1>3, <1>6 DEF Engine
<1>8. EngineOK(eng')
  BY <1>5, <1>7, HostSets
<1> QED
  BY <1>3, <1>5, <1>7, <1>8, TurnKept, TurnBelow, HostScript DEF StackInv

\* setProcess drops the owned handle.
LEMMA Repointing ==
    ASSUME NEW e, EngineOK(e), NEW h \in Nat, h <= Len(e.handles), NEW d, d = SetProcess(e, h)
    PROVE  EngineOK(d) /\ d.sound = e.sound /\ d.win = e.win /\ Len(d.handles) = Len(e.handles)
<1> DEFINE c == FreeHandle(e, e.owned)
           a == [c EXCEPT !.owned = 0]
<1>1. e.owned \in Nat /\ e.owned <= Len(e.handles)
  BY DEF EngineOK, Engine
<1>2. EngineOK(c) /\ Besides(c, e) /\ Len(c.handles) = Len(e.handles)
  BY <1>1, Freeing
<1>3. d = [a EXCEPT !.proc = h]
  BY DEF SetProcess
<1> HIDE DEF c
<1>4. c \in Engine /\ Len(c.handles) \in Nat
  BY <1>2, LenProperties DEF EngineOK, Engine
<1>5. /\ a \in Engine /\ a.owned = 0 /\ a.handles = c.handles /\ a.ceProc = c.ceProc /\ a.client = c.client
      /\ a.win = c.win /\ a.sound = c.sound
  BY <1>4 DEF Engine
<1> HIDE DEF a
<1>6. /\ d \in Engine /\ d.owned = 0 /\ d.handles = c.handles /\ d.ceProc = c.ceProc /\ d.client = c.client
      /\ d.win = c.win /\ d.sound = c.sound /\ d.proc = h
  BY <1>3, <1>5 DEF Engine
<1>7. EngineOK(d)
  BY <1>2, <1>4, <1>6 DEF EngineOK
<1> QED
  BY <1>2, <1>6, <1>7 DEF Besides

LEMMA WindowForgets ==
    ASSUME StackInv, ScriptInv, WindowRepoints \/ WindowSeesExit \/ ShutDown
    PROVE  StackInv' /\ ScriptInv'
<1>1. /\ EngineOK(eng) /\ eng.win \in Nat /\ eng.win <= Len(eng.handles)
      /\ eng.owned \in Nat /\ eng.owned <= Len(eng.handles) /\ Len(eng.handles) \in Nat
  BY LenProperties DEF ScriptInv, EngineOK, Engine
<1>2. stack' = stack /\ (stack # << >> => Top.kind = "picker")
  BY DEF WindowRepoints, WindowSeesExit, ShutDown, Idle, Hosting
<1>3. EngineOK(eng') /\ eng'.sound = eng.sound
  <2>1. CASE WindowRepoints
    <3> DEFINE e == SetProcess(eng, eng.win)
    <3>1. eng' = [e EXCEPT !.switching = FALSE]
      BY <2>1 DEF WindowRepoints
    <3>2. EngineOK(e) /\ e.sound = eng.sound
      BY <1>1, Repointing
    <3> HIDE DEF e
    <3>3. e \in Engine
      BY <3>2 DEF EngineOK
    <3>4. /\ eng' \in Engine /\ eng'.handles = e.handles /\ eng'.ceProc = e.ceProc /\ eng'.client = e.client
          /\ eng'.proc = e.proc /\ eng'.owned = e.owned /\ eng'.win = e.win /\ eng'.sound = e.sound
      BY <3>1, <3>3 DEF Engine
    <3> QED
      BY <3>2, <3>4, HostSets
  <2>2. CASE WindowSeesExit
    <3> DEFINE c == SetProcess(eng, 0)
               e == FreeHandle(c, eng.win)
    <3>1. eng' = [e EXCEPT !.win = 0] /\ 0 \in Nat /\ 0 <= Len(eng.handles)
      BY <1>1, <2>2 DEF WindowSeesExit
    <3>2. EngineOK(c) /\ c.sound = eng.sound /\ Len(c.handles) = Len(eng.handles)
      BY <1>1, <3>1, Repointing
    <3> HIDE DEF c
    <3>3. EngineOK(e) /\ e.sound = eng.sound
      BY <1>1, <3>2, Freeing DEF Besides
    <3> HIDE DEF e
    <3>4. e \in Engine
      BY <3>3 DEF EngineOK
    <3>5. /\ eng' \in Engine /\ eng'.handles = e.handles /\ eng'.ceProc = e.ceProc /\ eng'.client = e.client
          /\ eng'.proc = e.proc /\ eng'.owned = e.owned /\ eng'.win = 0 /\ eng'.sound = e.sound
      BY <3>1, <3>4 DEF Engine
    <3> QED
      BY <3>3, <3>5, HostSets
  <2>3. CASE ShutDown
    <3> DEFINE e == FreeHandle(eng, eng.owned)
    <3>1. eng' = [[e EXCEPT !.down = TRUE] EXCEPT !.owned = 0]
      BY <2>3 DEF ShutDown
    <3>2. EngineOK(e) /\ e.sound = eng.sound
      BY <1>1, Freeing DEF Besides
    <3> HIDE DEF e
    <3>3. e \in Engine
      BY <3>2 DEF EngineOK
    <3>4. /\ eng' \in Engine /\ eng'.handles = e.handles /\ eng'.ceProc = e.ceProc /\ eng'.client = e.client
          /\ eng'.proc = e.proc /\ eng'.owned = 0 /\ eng'.win = e.win /\ eng'.sound = e.sound
      BY <3>1, <3>3 DEF Engine
    <3> QED
      BY <3>2, <3>4, HostSets
  <2> QED
    BY <2>1, <2>2, <2>3
<1> QED
  BY <1>2, <1>3, TurnKept, TurnBelow, HostScript DEF StackInv

LEMMA ScriptStarts ==
    ASSUME StackInv, ScriptInv, Execute
    PROVE  StackInv' /\ ScriptInv'
<1> DEFINE s == (eng.proc # 0 => Usable(eng, eng.proc))
           c == PidOf(eng, eng.proc)
           f == Frame("script", 0, Nil, << >>, NoHit)
<1>1. /\ eng \in Engine /\ EngineOK(eng) /\ stack = << >> /\ Len(stack) = 0
      /\ eng.handles \in Seq(Handle) /\ Len(eng.handles) \in Nat
  BY EmptySeq, LenProperties DEF ScriptInv, EngineOK, Engine, Execute, Idle
<1>2. eng' = [[[eng EXCEPT !.ceProc = eng.proc] EXCEPT !.sound = s] EXCEPT !.chosen = c] /\ done' = NoEffect
  BY DEF Execute
<1>3. c \in Pids \cup {Nil} /\ s \in BOOLEAN
  <2>1. eng.proc # 0 => eng.handles[eng.proc] \in Handle
    BY <1>1, ElementOfSeq DEF EngineOK, Engine
  <2> QED
    BY <2>1 DEF PidOf, Handle
<1>4. StackInv' /\ Grown(f)
  BY PushInv DEF Execute
<1> HIDE DEF s, c, f
<1>5. /\ eng' \in Engine /\ eng'.handles = eng.handles /\ eng'.proc = eng.proc /\ eng'.ceProc = eng.proc
      /\ eng'.client = eng.client /\ eng'.owned = eng.owned /\ eng'.win = eng.win
      /\ eng'.sound = s /\ eng'.chosen = c
  BY <1>1, <1>2, <1>3 DEF Engine
<1>6. EngineOK(eng')
  BY <1>1, <1>5 DEF EngineOK
<1>7. \A i \in 1 .. Len(stack') : stack'[i].kind = "script"
  BY <1>1, <1>4, FrameIsFrame DEF Grown, f
<1>8. ScriptsUseLive'
  BY <1>2, <1>5 DEF ScriptsUseLive, NoEffect, PidOf, Usable, s, c
<1> QED
  BY <1>4, <1>6, <1>7, <1>8 DEF ScriptInv

LEMMA ChooserOpens ==
    ASSUME StackInv, ScriptInv, SelectFilePath
    PROVE  StackInv' /\ ScriptInv'
<1>1. eng' = [eng EXCEPT !.sound = FALSE]
  BY DEF SelectFilePath
<1>2. StackInv'
  BY PushInv DEF SelectFilePath
<1>3. eng \in Engine /\ EngineOK(eng)
  BY DEF ScriptInv, EngineOK
<1>4. /\ eng' \in Engine /\ eng'.handles = eng.handles /\ eng'.ceProc = eng.ceProc /\ eng'.client = eng.client
      /\ eng'.proc = eng.proc /\ eng'.owned = eng.owned /\ eng'.win = eng.win /\ ~eng'.sound
  BY <1>1, <1>3 DEF Engine
<1>5. EngineOK(eng')
  BY <1>3, <1>4, HostSets
<1> QED
  BY <1>2, <1>4, <1>5 DEF ScriptInv, ScriptsUseLive

LEMMA ScriptNext == ASSUME StackInv, ScriptInv, StopInv, [Next]_vars PROVE StackInv' /\ ScriptInv'
<1>1. CASE Execute
  BY <1>1, ScriptStarts
<1>2. CASE HostCallback \/ Leave
  <2>1. StackTurn
    BY <1>2, TurnPush, TurnPop DEF HostCallback, Leave, InLua, StackInv
  <2>2. eng' = eng /\ undefined' = undefined /\ Acts
    BY <1>2 DEF HostCallback, Leave, Acts
  <2> QED
    BY <2>1, <2>2, TurnBelow, ScriptStep
<1>3. CASE WindowRepoints \/ WindowSeesExit \/ ShutDown
  BY <1>3, WindowForgets
<1>4. CASE SelectFilePath
  BY <1>4, ChooserOpens
<1>5. CASE FilePicked
  <2>1. stack # << >> /\ stack' = Front(stack) /\ eng' = eng /\ undefined' = undefined /\ Acts
    BY <1>5 DEF FilePicked, Pop, Acts
  <2>2. StackInv' /\ Below
    BY <2>1, Popping, ShrinkInv DEF StackInv
  <2> QED
    BY <2>1, <2>2, ScriptStep
<1>6. CASE \E p \in Pids : WindowSwitches(p) \/ WindowReplaces(p) \/ OpenProcess(p) \/ ConnectToCeserver(p)
  BY <1>6, WindowOpens, OpenProcessStep, ConnectStep
<1>7. CASE ObjectNext \/ WidgetNext \/ TargetNext \/ DebugNext \/ UNCHANGED vars
  BY <1>7, ScriptQuiet
<1> QED
  BY <1>1, <1>2, <1>3, <1>4, <1>5, <1>6, <1>7, Zenon DEF Next, HostNext

LEMMA ScriptInit == ASSUME Init PROVE StackInv /\ ScriptInv
<1>1. stack = << >> /\ Len(stack) = 0 /\ IsSeq(stack)
  BY EmptySeq, SeqIsSeq DEF Init
<1>2. StackInv
  BY <1>1 DEF StackInv, StackOK, HitsPumped
<1>3. EngineOK(eng)
  <2>1. PICK p \in Pids, h \in {0, 1} :
          eng = [proc |-> h, ceProc |-> 0, owned |-> 0, client |-> 0, win |-> h, switching |-> FALSE,
                 sound |-> FALSE, chosen |-> Nil, down |-> FALSE,
                 handles |-> IF h = 0 THEN << >> ELSE <<[pid |-> p, live |-> TRUE, remote |-> "no"]>>]
    BY DEF Init
  <2>2. CASE h = 0
    BY <2>1, <2>2, EmptySeq DEF EngineOK, Engine
  <2>3. CASE h = 1
    <3> DEFINE g == [pid |-> p, live |-> TRUE, remote |-> "no"]
    <3>1. g \in Handle
      BY DEF Handle
    <3> HIDE DEF g
    <3>2. <<g>> \in Seq(Handle) /\ Len(<<g>>) = 1
      BY <3>1
    <3>3. eng = [proc |-> 1, ceProc |-> 0, owned |-> 0, client |-> 0, win |-> 1, switching |-> FALSE,
                 sound |-> FALSE, chosen |-> Nil, down |-> FALSE, handles |-> <<g>>]
      BY <2>1, <2>3 DEF g
    <3> QED
      BY <3>2, <3>3 DEF EngineOK, Engine
  <2> QED
    BY <2>2, <2>3
<1> QED
  BY <1>1, <1>2, <1>3 DEF ScriptInv, ScriptsUseLive

\* For any number of processes, handles and nested frames: a script that starts with a good handle
\* and opens no file chooser calls only live handles; its bindings act on the process it chose last,
\* and those of the debugger, once attached, on the process of the engine's one session (execute,
\* openProcess, setOwnedProcess, connectToCeserver, debugSession).
THEOREM ScriptsAreLive == Spec => []ScriptsUseLive
<1>1. Init => StackInv /\ ScriptInv /\ StopInv
  BY ScriptInit, StopInit
<1>2. StackInv /\ ScriptInv /\ StopInv /\ [Next]_vars => StackInv' /\ ScriptInv' /\ StopInv'
  BY ScriptNext, StopNext
<1>3. ScriptInv => ScriptsUseLive
  BY DEF ScriptInv
<1> QED
  BY <1>1, <1>2, <1>3, PTL DEF Spec

\* For any number of threads, hits and nested handlers: while the target stands at a hit, that hit is
\* queued, handled, or its handler raised an error (nextDebugHit, l_debug_pumpEvents).
THEOREM NoStopLost == Spec => []StopAccounted
<1>1. Init => StackInv /\ ScriptInv /\ StopInv
  BY ScriptInit, StopInit
<1>2. StackInv /\ ScriptInv /\ StopInv /\ [Next]_vars => StackInv' /\ ScriptInv' /\ StopInv'
  BY ScriptNext, StopNext
<1>3. StopInv => StopAccounted
  BY DEF StopInv
<1> QED
  BY <1>1, <1>2, <1>3, PTL DEF Spec
-----------------------------------------------------------------------------
(* Callbacks and references                                                *)

\* The callback in a slot of an object; objects without callbacks have none.
Callback(ob, s) == IF "cb" \in DOMAIN ob THEN ob.cb[s] ELSE NoCallback
At(O, o, s) == IF o \in 1 .. Len(O) THEN Callback(O[o], s) ELSE NoCallback

\* RefsOwned, of the callbacks of objects O and a registry R.
Owned(O, R) ==
    /\ \A o \in Nat, s \in Slots : At(O, o, s).ref # NoRef =>
         At(O, o, s).ref \in LiveSlots(R) /\ R.t[At(O, o, s).ref] = At(O, o, s).fn
    /\ \A o, p \in Nat, s, q \in Slots : At(O, o, s).ref # NoRef /\ At(O, o, s).ref = At(O, p, q).ref => o = p /\ s = q
    /\ \A r \in LiveSlots(R) : \E o \in Nat, s \in Slots : At(O, o, s).ref = r
Agree(O, R) == FreeListOK(R) /\ Owned(O, R)

\* Callbacks that mean the same: equal, or none.
SameCallback(c, d) == c = d \/ (c.ref = NoRef /\ d.ref = NoRef)
Elsewhere(O, Q, o, s) == \A p \in Nat, q \in Slots : (p # o \/ q # s) => SameCallback(At(Q, p, q), At(O, p, q))
Nowhere(O, Q) == \A p \in Nat, q \in Slots : SameCallback(At(Q, p, q), At(O, p, q))

LEMMA LiveAreNoNone == ASSUME NEW R, FreeListOK(R), NEW r \in LiveSlots(R) PROVE r # NoRef /\ r \in Nat
  BY LenProperties DEF FreeListOK, LiveSlots, NoRef

LEMMA NothingMoves == ASSUME NEW O, NEW Q, NEW R, Agree(O, R), Nowhere(O, Q) PROVE Agree(Q, R)
<1>1. \A o \in Nat, s \in Slots : At(Q, o, s) = At(O, o, s) \/ (At(Q, o, s).ref = NoRef /\ At(O, o, s).ref = NoRef)
  BY DEF Nowhere, SameCallback
<1>2. \A r \in LiveSlots(R) : r # NoRef
  BY LiveAreNoNone DEF Agree
<1>3. \A r \in LiveSlots(R) : \E o \in Nat, s \in Slots : At(Q, o, s).ref = r
  BY <1>1, <1>2 DEF Agree, Owned
<1>4. \A o, p \in Nat, s, q \in Slots : At(Q, o, s).ref # NoRef /\ At(Q, o, s).ref = At(Q, p, q).ref => o = p /\ s = q
  BY <1>1 DEF Agree, Owned
<1> QED
  BY <1>1, <1>3, <1>4 DEF Agree, Owned

\* A free slot takes a new reference.
LEMMA SlotTaken ==
    ASSUME NEW O, NEW Q, NEW R, Agree(O, R), NEW fn \in Fns, NEW o \in Nat, NEW s \in Slots,
           At(O, o, s).ref = NoRef, Elsewhere(O, Q, o, s), At(Q, o, s).ref = RefOf(R), At(Q, o, s).fn = fn
    PROVE  Agree(Q, Ref(R, fn))
<1> DEFINE T == Ref(R, fn)
           n == RefOf(R)
<1>1. /\ FreeListOK(T) /\ n \notin LiveSlots(R) /\ LiveSlots(T) = LiveSlots(R) \cup {n}
      /\ T.t[n] = fn /\ \A q \in LiveSlots(R) : T.t[q] = R.t[q]
      /\ n # NoRef
  BY RefTakes DEF Agree, NoRef
<1>2. \A p \in Nat, q \in Slots : (p # o \/ q # s) =>
        At(Q, p, q) = At(O, p, q) \/ (At(Q, p, q).ref = NoRef /\ At(O, p, q).ref = NoRef)
  BY DEF Elsewhere, SameCallback
<1>3. \A r \in LiveSlots(R) : r # NoRef
  BY LiveAreNoNone DEF Agree
<1> HIDE DEF T, n
<1>4. At(Q, o, s).ref = n /\ At(Q, o, s).fn = fn
  BY DEF n
<1>5. \A p \in Nat, q \in Slots : At(Q, p, q).ref # NoRef =>
        At(Q, p, q).ref \in LiveSlots(T) /\ T.t[At(Q, p, q).ref] = At(Q, p, q).fn
  BY <1>1, <1>2, <1>4 DEF Agree, Owned
<1>6. \A p \in Nat, q \in Slots : (p # o \/ q # s) => At(Q, p, q).ref # n
  BY <1>1, <1>2 DEF Agree, Owned
<1>7. \A p, k \in Nat, q, l \in Slots : At(Q, p, q).ref # NoRef /\ At(Q, p, q).ref = At(Q, k, l).ref => p = k /\ q = l
  <2>1. SUFFICES ASSUME NEW p \in Nat, NEW k \in Nat, NEW q \in Slots, NEW l \in Slots,
                        At(Q, p, q).ref # NoRef, At(Q, p, q).ref = At(Q, k, l).ref
                 PROVE  p = k /\ q = l
    OBVIOUS
  <2>2. CASE p = o /\ q = s
    BY <1>4, <1>6, <2>1, <2>2
  <2>3. CASE k = o /\ l = s
    BY <1>4, <1>6, <2>1, <2>3
  <2>4. CASE (p # o \/ q # s) /\ (k # o \/ l # s)
    BY <1>2, <2>1, <2>4 DEF Agree, Owned
  <2> QED
    BY <2>2, <2>3, <2>4
<1>8. \A r \in LiveSlots(T) : \E p \in Nat, q \in Slots : At(Q, p, q).ref = r
  <2>1. SUFFICES ASSUME NEW r \in LiveSlots(T)
                 PROVE  \E p \in Nat, q \in Slots : At(Q, p, q).ref = r
    OBVIOUS
  <2>2. CASE r = n
    BY <1>4, <2>2
  <2>3. CASE r # n
    <3>1. r \in LiveSlots(R) /\ r # NoRef
      BY <1>1, <1>3, <2>3
    <3>2. PICK p \in Nat, q \in Slots : At(O, p, q).ref = r
      BY <3>1 DEF Agree, Owned
    <3> QED
      BY <1>2, <3>1, <3>2
  <2> QED
    BY <2>2, <2>3
<1> QED
  BY <1>1, <1>5, <1>7, <1>8 DEF Agree, Owned, T

\* A slot gives its reference up, if it has one.
LEMMA SlotGiven ==
    ASSUME NEW O, NEW Q, NEW R, Agree(O, R), NEW o \in Nat, NEW s \in Slots,
           Elsewhere(O, Q, o, s), At(Q, o, s).ref = NoRef
    PROVE  Agree(Q, Unref(R, At(O, o, s).ref))
<1> DEFINE r == At(O, o, s).ref
           T == Unref(R, r)
<1>1. CASE r = NoRef
  <2>1. Nowhere(O, Q)
    BY <1>1 DEF Elsewhere, Nowhere, SameCallback
  <2> QED
    BY <1>1, <2>1, UnrefNone, NothingMoves
<1>2. CASE r # NoRef
  <2>1. r \in LiveSlots(R)
    BY <1>2 DEF Agree, Owned
  <2>2. FreeListOK(T) /\ LiveSlots(T) = LiveSlots(R) \ {r} /\ \A q \in LiveSlots(R) \ {r} : T.t[q] = R.t[q]
    BY <2>1, UnrefGives DEF Agree
  <2>3. \A p \in Nat, q \in Slots : (p # o \/ q # s) =>
          At(Q, p, q) = At(O, p, q) \/ (At(Q, p, q).ref = NoRef /\ At(O, p, q).ref = NoRef)
    BY DEF Elsewhere, SameCallback
  <2>4. \A p \in Nat, q \in Slots : At(O, p, q).ref = r => p = o /\ q = s
    BY <1>2 DEF Agree, Owned
  <2>5. \A q \in LiveSlots(R) : q # NoRef
    BY LiveAreNoNone DEF Agree
  <2>10. At(O, o, s).ref = r
    OBVIOUS
  <2> HIDE DEF T, r
  <2>6. \A p \in Nat, q \in Slots : At(Q, p, q).ref # NoRef =>
          At(Q, p, q).ref \in LiveSlots(T) /\ T.t[At(Q, p, q).ref] = At(Q, p, q).fn
    BY <2>2, <2>3, <2>4 DEF Agree, Owned
  <2>7. \A p, k \in Nat, q, l \in Slots : At(Q, p, q).ref # NoRef /\ At(Q, p, q).ref = At(Q, k, l).ref => p = k /\ q = l
    BY <2>3 DEF Agree, Owned
  <2>8. \A x \in LiveSlots(T) : \E p \in Nat, q \in Slots : At(Q, p, q).ref = x
    <3>1. SUFFICES ASSUME NEW x \in LiveSlots(T)
                   PROVE  \E p \in Nat, q \in Slots : At(Q, p, q).ref = x
      OBVIOUS
    <3>2. x \in LiveSlots(R) /\ x # r /\ x # NoRef
      BY <2>2, <2>5
    <3>3. PICK p \in Nat, q \in Slots : At(O, p, q).ref = x
      BY <3>2 DEF Agree, Owned
    <3> QED
      BY <2>3, <2>10, <3>2, <3>3
  <2>9. Agree(Q, T)
    BY <2>2, <2>6, <2>7, <2>8 DEF Agree, Owned
  <2> QED
    BY <2>9 DEF T, r
<1> QED
  BY <1>1, <1>2

\* A slot takes a new reference before it gives the old one up.
LEMMA SlotSwapped ==
    ASSUME NEW O, NEW Q, NEW R, Agree(O, R), NEW fn \in Fns, NEW o \in Nat, NEW s \in Slots,
           Elsewhere(O, Q, o, s), At(Q, o, s).ref = RefOf(R), At(Q, o, s).fn = fn
    PROVE  Agree(Q, Unref(Ref(R, fn), At(O, o, s).ref))
<1> DEFINE old == At(O, o, s).ref
           n == RefOf(R)
           S == Ref(R, fn)
           T == Unref(S, old)
<1>1. CASE old = NoRef
  BY <1>1, UnrefNone, SlotTaken
<1>2. CASE old # NoRef
  <2>1. /\ FreeListOK(S) /\ n \notin LiveSlots(R) /\ LiveSlots(S) = LiveSlots(R) \cup {n} /\ n # NoRef
        /\ S.t[n] = fn /\ \A q \in LiveSlots(R) : S.t[q] = R.t[q]
    BY RefTakes DEF Agree, NoRef
  <2>2. old \in LiveSlots(R) /\ old # n
    BY <1>2, <2>1 DEF Agree, Owned
  <2>3. FreeListOK(T) /\ LiveSlots(T) = LiveSlots(S) \ {old} /\ \A q \in LiveSlots(S) \ {old} : T.t[q] = S.t[q]
    BY <2>1, <2>2, UnrefGives
  <2>4. \A p \in Nat, q \in Slots : (p # o \/ q # s) =>
          At(Q, p, q) = At(O, p, q) \/ (At(Q, p, q).ref = NoRef /\ At(O, p, q).ref = NoRef)
    BY DEF Elsewhere, SameCallback
  <2>5. \A p \in Nat, q \in Slots : At(O, p, q).ref = old => p = o /\ q = s
    BY <1>2 DEF Agree, Owned
  <2>6. \A q \in LiveSlots(R) : q # NoRef
    BY LiveAreNoNone DEF Agree
  <2>7. At(O, o, s).ref = old /\ At(Q, o, s).ref = n /\ At(Q, o, s).fn = fn
    OBVIOUS
  <2> HIDE DEF T, S, n, old
  <2>8. n \in LiveSlots(T) /\ T.t[n] = fn
    BY <2>1, <2>2, <2>3
  <2>9. \A p \in Nat, q \in Slots : At(Q, p, q).ref # NoRef =>
          At(Q, p, q).ref \in LiveSlots(T) /\ T.t[At(Q, p, q).ref] = At(Q, p, q).fn
    <3>1. SUFFICES ASSUME NEW p \in Nat, NEW q \in Slots, At(Q, p, q).ref # NoRef
                   PROVE  At(Q, p, q).ref \in LiveSlots(T) /\ T.t[At(Q, p, q).ref] = At(Q, p, q).fn
      OBVIOUS
    <3>2. CASE p = o /\ q = s
      BY <2>7, <2>8, <3>2
    <3>3. CASE p # o \/ q # s
      <4>1. At(Q, p, q) = At(O, p, q) /\ At(O, p, q).ref # old
        BY <2>4, <2>5, <3>1, <3>3
      <4>2. At(O, p, q).ref \in LiveSlots(R) /\ R.t[At(O, p, q).ref] = At(O, p, q).fn
        BY <3>1, <4>1 DEF Agree, Owned
      <4> QED
        BY <2>1, <2>3, <4>1, <4>2
    <3> QED
      BY <3>2, <3>3
  <2>10. \A p \in Nat, q \in Slots : (p # o \/ q # s) => At(Q, p, q).ref # n
    BY <2>1, <2>4 DEF Agree, Owned
  <2>11. \A p, k \in Nat, q, l \in Slots : At(Q, p, q).ref # NoRef /\ At(Q, p, q).ref = At(Q, k, l).ref => p = k /\ q = l
    <3>1. SUFFICES ASSUME NEW p \in Nat, NEW k \in Nat, NEW q \in Slots, NEW l \in Slots,
                          At(Q, p, q).ref # NoRef, At(Q, p, q).ref = At(Q, k, l).ref
                   PROVE  p = k /\ q = l
      OBVIOUS
    <3>2. CASE p = o /\ q = s
      BY <2>7, <2>10, <3>1, <3>2
    <3>3. CASE k = o /\ l = s
      BY <2>7, <2>10, <3>1, <3>3
    <3>4. CASE (p # o \/ q # s) /\ (k # o \/ l # s)
      BY <2>4, <3>1, <3>4 DEF Agree, Owned
    <3> QED
      BY <3>2, <3>3, <3>4
  <2>12. \A x \in LiveSlots(T) : \E p \in Nat, q \in Slots : At(Q, p, q).ref = x
    <3>1. SUFFICES ASSUME NEW x \in LiveSlots(T)
                   PROVE  \E p \in Nat, q \in Slots : At(Q, p, q).ref = x
      OBVIOUS
    <3>2. CASE x = n
      BY <2>7, <3>2
    <3>3. CASE x # n
      <4>1. x \in LiveSlots(R) /\ x # old /\ x # NoRef
        BY <2>1, <2>3, <2>6, <3>3
      <4>2. PICK p \in Nat, q \in Slots : At(O, p, q).ref = x
        BY <4>1 DEF Agree, Owned
      <4> QED
        BY <2>4, <2>7, <4>1, <4>2
    <3> QED
      BY <3>2, <3>3
  <2>13. Agree(Q, T)
    BY <2>3, <2>9, <2>11, <2>12 DEF Agree, Owned
  <2> QED
    BY <2>13 DEF T, S, old
<1> QED
  BY <1>1, <1>2

\* A new reference that is given straight back leaves no trace.
LEMMA SlotPassed ==
    ASSUME NEW O, NEW R, Agree(O, R), NEW fn \in Fns
    PROVE  Agree(O, Unref(Ref(R, fn), RefOf(R)))
<1> DEFINE n == RefOf(R)
           S == Ref(R, fn)
           T == Unref(S, n)
<1>1. /\ FreeListOK(S) /\ n \notin LiveSlots(R) /\ LiveSlots(S) = LiveSlots(R) \cup {n}
      /\ \A q \in LiveSlots(R) : S.t[q] = R.t[q]
  BY RefTakes DEF Agree
<1>2. FreeListOK(T) /\ LiveSlots(T) = LiveSlots(S) \ {n} /\ \A q \in LiveSlots(S) \ {n} : T.t[q] = S.t[q]
  BY <1>1, UnrefGives
<1> HIDE DEF S, T, n
<1>3. LiveSlots(T) = LiveSlots(R) /\ \A q \in LiveSlots(R) : T.t[q] = R.t[q]
  BY <1>1, <1>2
<1>4. Agree(O, T)
  BY <1>2, <1>3 DEF Agree, Owned
<1> QED
  BY <1>4 DEF T, S, n
-----------------------------------------------------------------------------
(* Objects                                                                 *)

FullKinds == WidgetKinds \cup {"timer", "hotkey", "thread", "menu", "dying"}
PlainKinds == {"gone", "scan", "snapshot", "hook"}

\* The slots in which objects of a kind may have callbacks.
SlotsOf(kind) == CASE kind = "timer" -> {"tick"}
                   [] kind = "hotkey" -> {"call"}
                   [] kind = "thread" -> {"call"}
                   [] kind = "menu" -> {"click"}
                   [] kind = "dying" -> {"close"}
                   [] OTHER -> Slots \ {"call"}

HasFields(ob) == /\ ob = [kind |-> ob.kind, parent |-> ob.parent, cb |-> ob.cb, conn |-> ob.conn, on |-> ob.on,
                          span |-> ob.span, fin |-> ob.fin, susp |-> ob.susp, closing |-> ob.closing]
                 /\ ob.cb = [s \in Slots |-> ob.cb[s]]
IsFull(ob) == HasFields(ob) /\ ob.kind \in FullKinds /\ \A s \in Slots \ SlotsOf(ob.kind) : ob.cb[s].ref = NoRef
IsPlain(ob) == \E k \in PlainKinds : ob = [kind |-> k]
IsObject(ob) == IsFull(ob) \/ IsPlain(ob)
ObjectsOK(O) == IsSeq(O) /\ \A i \in DOMAIN O : IsObject(O[i])

LEMMA FullCallback == ASSUME NEW ob, HasFields(ob), NEW s PROVE Callback(ob, s) = ob.cb[s]
<1>1. DOMAIN ob = DOMAIN [kind |-> ob.kind, parent |-> ob.parent, cb |-> ob.cb, conn |-> ob.conn, on |-> ob.on,
                          span |-> ob.span, fin |-> ob.fin, susp |-> ob.susp, closing |-> ob.closing]
  BY DEF HasFields
<1>2. "cb" \in DOMAIN ob
  BY <1>1
<1> QED
  BY <1>2 DEF Callback

LEMMA PlainCallback == ASSUME NEW ob, IsPlain(ob), NEW s PROVE Callback(ob, s) = NoCallback /\ ob.kind \in PlainKinds
<1>1. PICK k \in PlainKinds : ob = [kind |-> k]
  BY DEF IsPlain
<1>2. "cb" \notin DOMAIN ob
  BY <1>1
<1> QED
  BY <1>1, <1>2 DEF Callback

LEMMA GoneIsPlain == IsObject(Gone) /\ Gone.kind = "gone" /\ \A s : Callback(Gone, s) = NoCallback
<1>1. IsPlain(Gone)
  BY DEF Gone, IsPlain, PlainKinds
<1> QED
  BY <1>1, PlainCallback DEF IsObject, Gone

\* An object of a kind that has callbacks is full.
LEMMA FullOfKind ==
    ASSUME NEW ob, IsObject(ob), ob.kind \in FullKinds
    PROVE  IsFull(ob)
<1>1. FullKinds \cap PlainKinds = {}
  BY DEF FullKinds, PlainKinds, WidgetKinds
<1> QED
  BY <1>1, PlainCallback DEF IsObject

LEMMA NewObject ==
    ASSUME NEW kind \in FullKinds, NEW parent
    PROVE  IsFull(Object(kind, parent)) /\ Object(kind, parent).kind = kind
           /\ \A s \in Slots : Object(kind, parent).cb[s] = NoCallback
  BY DEF Object, IsFull, HasFields, NoCallbacks, NoCallback

\* A slot of an object is set.
LEMMA WithSlot ==
    ASSUME NEW ob, HasFields(ob), NEW s \in Slots, NEW ref, NEW fn
    PROVE  /\ HasFields(With(ob, s, ref, fn)) /\ With(ob, s, ref, fn).kind = ob.kind
           /\ \A q \in Slots : With(ob, s, ref, fn).cb[q] = IF q = s THEN [ref |-> ref, fn |-> fn] ELSE ob.cb[q]
<1> DEFINE c == [ref |-> ref, fn |-> fn]
           d == [ob.cb EXCEPT ![s] = c]
           w == [ob EXCEPT !.cb = d]
<1>1. With(ob, s, ref, fn) = w
  BY DEF With
<1>2. d = [q \in Slots |-> IF q = s THEN c ELSE ob.cb[q]]
  BY DEF HasFields
<1> HIDE DEF c
<1>5. /\ DOMAIN d = Slots /\ d = [q \in Slots |-> d[q]] /\ \A q \in Slots : d[q] = IF q = s THEN c ELSE ob.cb[q]
  BY <1>2
<1> HIDE DEF d
<1>3. w = [kind |-> ob.kind, parent |-> ob.parent, cb |-> d, conn |-> ob.conn, on |-> ob.on,
           span |-> ob.span, fin |-> ob.fin, susp |-> ob.susp, closing |-> ob.closing]
  BY DEF HasFields
<1> HIDE DEF w
<1>4. HasFields(w) /\ w.kind = ob.kind /\ \A q \in Slots : w.cb[q] = IF q = s THEN c ELSE ob.cb[q]
  BY <1>3, <1>5 DEF HasFields
<1> QED
  BY <1>1, <1>4 DEF c

\* So it stays full, when the kind has the slot or the slot is emptied.
LEMMA WithFull ==
    ASSUME NEW ob, IsFull(ob), NEW s \in Slots, NEW ref, NEW fn, s \in SlotsOf(ob.kind) \/ ref = NoRef
    PROVE  IsFull(With(ob, s, ref, fn))
<1> DEFINE w == With(ob, s, ref, fn)
<1>1. /\ HasFields(w) /\ w.kind = ob.kind
      /\ \A q \in Slots : w.cb[q] = IF q = s THEN [ref |-> ref, fn |-> fn] ELSE ob.cb[q]
  BY WithSlot DEF IsFull
<1> HIDE DEF w
<1>2. \A q \in Slots \ SlotsOf(w.kind) : w.cb[q].ref = NoRef
  BY <1>1 DEF IsFull
<1>3. IsFull(w)
  BY <1>1, <1>2 DEF IsFull
<1> QED
  BY <1>3 DEF w

\* Other fields are set.
LEMMA FieldSet ==
    ASSUME NEW ob, HasFields(ob), NEW v
    PROVE  /\ LET d == [ob EXCEPT !.on = v] IN HasFields(d) /\ d.kind = ob.kind /\ d.cb = ob.cb
           /\ LET d == [ob EXCEPT !.span = v] IN HasFields(d) /\ d.kind = ob.kind /\ d.cb = ob.cb
           /\ LET d == [ob EXCEPT !.fin = v] IN HasFields(d) /\ d.kind = ob.kind /\ d.cb = ob.cb
           /\ LET d == [ob EXCEPT !.susp = v] IN HasFields(d) /\ d.kind = ob.kind /\ d.cb = ob.cb
           /\ LET d == [ob EXCEPT !.closing = v] IN HasFields(d) /\ d.kind = ob.kind /\ d.cb = ob.cb
           /\ LET d == [ob EXCEPT !.conn = v] IN HasFields(d) /\ d.kind = ob.kind /\ d.cb = ob.cb
<1>1. LET d == [ob EXCEPT !.on = v] IN HasFields(d) /\ d.kind = ob.kind /\ d.cb = ob.cb
  BY DEF HasFields
<1>2. LET d == [ob EXCEPT !.span = v] IN HasFields(d) /\ d.kind = ob.kind /\ d.cb = ob.cb
  BY DEF HasFields
<1>3. LET d == [ob EXCEPT !.fin = v] IN HasFields(d) /\ d.kind = ob.kind /\ d.cb = ob.cb
  BY DEF HasFields
<1>4. LET d == [ob EXCEPT !.susp = v] IN HasFields(d) /\ d.kind = ob.kind /\ d.cb = ob.cb
  BY DEF HasFields
<1>5. LET d == [ob EXCEPT !.closing = v] IN HasFields(d) /\ d.kind = ob.kind /\ d.cb = ob.cb
  BY DEF HasFields
<1>6. LET d == [ob EXCEPT !.conn = v] IN HasFields(d) /\ d.kind = ob.kind /\ d.cb = ob.cb
  BY DEF HasFields
<1> QED
  BY <1>1, <1>2, <1>3, <1>4, <1>5, <1>6

LEMMA PlainSet == ASSUME NEW ob, IsPlain(ob), NEW v PROVE [ob EXCEPT !.fin = v] = ob
<1>1. PICK k \in PlainKinds : ob = [kind |-> k]
  BY DEF IsPlain
<1> QED
  BY <1>1

\* An object is replaced, or a new one appended.
LEMMA Putting ==
    ASSUME NEW O, ObjectsOK(O), NEW o \in 1 .. Len(O), NEW e, IsObject(e), NEW Q, Q = Put(O, o, e)
    PROVE  /\ ObjectsOK(Q) /\ Len(Q) = Len(O) /\ o \in Nat /\ IsObject(O[o])
           /\ \A i \in 1 .. Len(O) : Q[i] = IF i = o THEN e ELSE O[i]
           /\ \A s : At(Q, o, s) = Callback(e, s) /\ At(O, o, s) = Callback(O[o], s)
           /\ \A p \in Nat : \A s : p # o => At(Q, p, s) = At(O, p, s)
<1>1. /\ IsSeq(O) /\ Len(O) \in Nat /\ DOMAIN O = 1 .. Len(O) /\ \A i \in 1 .. Len(O) : IsObject(O[i])
  BY SeqOver DEF ObjectsOK
<1>2. IsSeq(Q) /\ Len(Q) = Len(O) /\ \A i \in 1 .. Len(O) : Q[i] = IF i = o THEN e ELSE O[i]
  BY <1>1, PutSeq
<1>3. DOMAIN Q = 1 .. Len(O)
  BY <1>2, SeqOver
<1>4. ObjectsOK(Q)
  BY <1>1, <1>2, <1>3 DEF ObjectsOK
<1> QED
  BY <1>1, <1>2, <1>4 DEF At

Extended(Q, O, e) == Q = Append(O, e)
LEMMA Appending ==
    ASSUME NEW O, ObjectsOK(O), NEW e, IsObject(e), NEW Q, Extended(Q, O, e), NEW o, o = Len(O) + 1
    PROVE  /\ ObjectsOK(Q) /\ Len(Q) = o /\ o \in Nat
           /\ \A i \in 1 .. Len(O) : Q[i] = O[i]
           /\ \A s : At(Q, o, s) = Callback(e, s) /\ At(O, o, s) = NoCallback
           /\ \A p \in Nat : \A s : p # o => At(Q, p, s) = At(O, p, s)
<1>1. /\ IsSeq(O) /\ Len(O) \in Nat /\ DOMAIN O = 1 .. Len(O) /\ \A i \in 1 .. Len(O) : IsObject(O[i])
  BY SeqOver DEF ObjectsOK
<1>2. IsSeq(Q) /\ Len(Q) = o /\ Q[o] = e /\ \A i \in 1 .. Len(O) : Q[i] = O[i]
  BY <1>1, AppendSeq DEF Extended
<1>3. DOMAIN Q = 1 .. o
  BY <1>2, SeqOver
<1>4. ObjectsOK(Q)
  BY <1>1, <1>2, <1>3 DEF ObjectsOK
<1> QED
  BY <1>1, <1>2, <1>4 DEF At

\* The callbacks of a replaced or appended object, in one slot and in all.
LEMMA OneSlot ==
    ASSUME NEW O, NEW Q, NEW o \in Nat, \A p \in Nat : \A s : p # o => At(Q, p, s) = At(O, p, s)
    PROVE  /\ \A s : (\A q \in Slots : q # s => SameCallback(At(Q, o, q), At(O, o, q))) => Elsewhere(O, Q, o, s)
           /\ (\A q \in Slots : SameCallback(At(Q, o, q), At(O, o, q))) => Nowhere(O, Q)
<1>1. \A p \in Nat : \A q : p # o => SameCallback(At(Q, p, q), At(O, p, q))
  BY DEF SameCallback
<1> QED
  BY <1>1 DEF Elsewhere, Nowhere

\* Two objects whose callbacks mean the same, but for a slot.
AlikeBut(e, ob, s) == \A q \in Slots : q # s => SameCallback(Callback(e, q), Callback(ob, q))

LEMMA PutKeeps ==
    ASSUME NEW O, NEW R, ObjectsOK(O), Agree(O, R), NEW o \in 1 .. Len(O), NEW e, IsObject(e),
           \A s \in Slots : SameCallback(Callback(e, s), Callback(O[o], s)), NEW Q, Q = Put(O, o, e)
    PROVE  Agree(Q, R)
<1>1. /\ o \in Nat /\ \A s : At(Q, o, s) = Callback(e, s) /\ At(O, o, s) = Callback(O[o], s)
      /\ \A p \in Nat : \A s : p # o => At(Q, p, s) = At(O, p, s)
  BY Putting
<1>2. Nowhere(O, Q)
  BY <1>1, OneSlot
<1> QED
  BY <1>2, NothingMoves

LEMMA PutGives ==
    ASSUME NEW O, NEW R, ObjectsOK(O), Agree(O, R), NEW o \in 1 .. Len(O), NEW e, IsObject(e), NEW s \in Slots,
           AlikeBut(e, O[o], s), Callback(e, s).ref = NoRef, NEW Q, Q = Put(O, o, e)
    PROVE  Agree(Q, Unref(R, Callback(O[o], s).ref))
<1>1. /\ o \in Nat /\ \A q : At(Q, o, q) = Callback(e, q) /\ At(O, o, q) = Callback(O[o], q)
      /\ \A p \in Nat : \A q : p # o => At(Q, p, q) = At(O, p, q)
  BY Putting
<1>2. Elsewhere(O, Q, o, s)
  BY <1>1, OneSlot DEF AlikeBut
<1>3. At(Q, o, s).ref = NoRef /\ At(O, o, s) = Callback(O[o], s)
  BY <1>1
<1>4. Agree(Q, Unref(R, At(O, o, s).ref))
  BY <1>1, <1>2, <1>3, SlotGiven
<1> QED
  BY <1>3, <1>4

LEMMA PutSwaps ==
    ASSUME NEW O, NEW R, ObjectsOK(O), Agree(O, R), NEW o \in 1 .. Len(O), NEW e, IsObject(e), NEW s \in Slots,
           NEW fn \in Fns, AlikeBut(e, O[o], s), Callback(e, s).ref = RefOf(R), Callback(e, s).fn = fn,
           NEW Q, Q = Put(O, o, e)
    PROVE  Agree(Q, Unref(Ref(R, fn), Callback(O[o], s).ref))
<1>1. /\ o \in Nat /\ \A q : At(Q, o, q) = Callback(e, q) /\ At(O, o, q) = Callback(O[o], q)
      /\ \A p \in Nat : \A q : p # o => At(Q, p, q) = At(O, p, q)
  BY Putting
<1>2. Elsewhere(O, Q, o, s)
  BY <1>1, OneSlot DEF AlikeBut
<1>3. At(Q, o, s).ref = RefOf(R) /\ At(Q, o, s).fn = fn /\ At(O, o, s) = Callback(O[o], s)
  BY <1>1
<1>4. Agree(Q, Unref(Ref(R, fn), At(O, o, s).ref))
  BY <1>1, <1>2, <1>3, SlotSwapped
<1> QED
  BY <1>3, <1>4

\* The old reference is given up before the new one is taken.
LEMMA PutRetakes ==
    ASSUME NEW O, NEW R, ObjectsOK(O), Agree(O, R), NEW o \in 1 .. Len(O), NEW e, IsFull(e), NEW s \in Slots,
           NEW fn \in Fns, NEW T, T = Unref(R, Callback(O[o], s).ref),
           AlikeBut(e, O[o], s), Callback(e, s).ref = RefOf(T), Callback(e, s).fn = fn,
           NEW Q, Q = Put(O, o, e)
    PROVE  Agree(Q, Ref(T, fn))
<1> DEFINE w == With(e, s, NoRef, Nil)
           P == Put(O, o, w)
<1>1. HasFields(e) /\ IsFull(w) /\ HasFields(w)
  BY WithFull DEF IsFull
<1>2. \A q \in Slots : w.cb[q] = IF q = s THEN [ref |-> NoRef, fn |-> Nil] ELSE e.cb[q]
  BY <1>1, WithSlot
<1> HIDE DEF w
<1>3. Callback(w, s).ref = NoRef /\ \A q \in Slots : q # s => Callback(w, q) = Callback(e, q)
  BY <1>1, <1>2, FullCallback
<1>4. IsObject(w) /\ IsObject(e) /\ AlikeBut(w, O[o], s)
  BY <1>1, <1>3 DEF IsObject, AlikeBut
<1>5. P = Put(O, o, w)
  OBVIOUS
<1> HIDE DEF P
<1>6. Agree(P, T)
  BY <1>3, <1>4, <1>5, PutGives
<1>7. /\ o \in Nat /\ \A q : At(P, o, q) = Callback(w, q)
      /\ \A p \in Nat : \A q : p # o => At(P, p, q) = At(O, p, q)
  BY <1>4, <1>5, Putting
<1>8. /\ \A q : At(Q, o, q) = Callback(e, q)
      /\ \A p \in Nat : \A q : p # o => At(Q, p, q) = At(O, p, q)
  BY <1>4, Putting
<1>9. Elsewhere(P, Q, o, s)
  BY <1>3, <1>7, <1>8 DEF Elsewhere, SameCallback
<1>10. At(P, o, s).ref = NoRef /\ At(Q, o, s).ref = RefOf(T) /\ At(Q, o, s).fn = fn
  BY <1>3, <1>7, <1>8
<1> QED
  BY <1>6, <1>7, <1>9, <1>10, SlotTaken

LEMMA AppendKeeps ==
    ASSUME NEW O, NEW R, ObjectsOK(O), Agree(O, R), NEW e, IsObject(e),
           \A s \in Slots : Callback(e, s).ref = NoRef, NEW Q, Extended(Q, O, e)
    PROVE  Agree(Q, R)
<1>0. PICK o : o = Len(O) + 1
  OBVIOUS
<1>1. /\ o \in Nat /\ \A s : At(Q, o, s) = Callback(e, s) /\ At(O, o, s) = NoCallback
      /\ \A p \in Nat : \A s : p # o => At(Q, p, s) = At(O, p, s)
  BY <1>0, Appending
<1>2. Nowhere(O, Q)
  BY <1>1, OneSlot DEF SameCallback, NoCallback
<1> QED
  BY <1>2, NothingMoves

LEMMA AppendTakes ==
    ASSUME NEW O, NEW R, ObjectsOK(O), Agree(O, R), NEW e, IsObject(e), NEW s \in Slots, NEW fn \in Fns,
           \A q \in Slots : q # s => Callback(e, q).ref = NoRef, Callback(e, s).ref = RefOf(R),
           Callback(e, s).fn = fn, NEW Q, Extended(Q, O, e)
    PROVE  Agree(Q, Ref(R, fn))
<1>0. PICK o : o = Len(O) + 1
  OBVIOUS
<1>1. /\ o \in Nat /\ \A q : At(Q, o, q) = Callback(e, q) /\ At(O, o, q) = NoCallback
      /\ \A p \in Nat : \A q : p # o => At(Q, p, q) = At(O, p, q)
  BY <1>0, Appending
<1>4. \A q \in Slots : q # s => SameCallback(At(Q, o, q), At(O, o, q))
  BY <1>1 DEF SameCallback, NoCallback
<1>2. Elsewhere(O, Q, o, s)
  BY <1>1, <1>4, OneSlot
<1>3. At(O, o, s).ref = NoRef /\ At(Q, o, s).ref = RefOf(R) /\ At(Q, o, s).fn = fn
  BY <1>1 DEF NoCallback
<1> QED
  BY <1>1, <1>2, <1>3, SlotTaken

-----------------------------------------------------------------------------
(* The invariant of the callbacks                                          *)

\* A close handler runs for a widget that is dying, and for each at most once.
Closing ==
    /\ \A i \in 1 .. Len(stack) : stack[i].kind = "close" =>
         stack[i].obj \in 1 .. Len(objs) /\ objs[stack[i].obj].kind = "dying"
    /\ \A i, j \in 1 .. Len(stack) :
         stack[i].kind = "close" /\ stack[j].kind = "close" /\ stack[i].obj = stack[j].obj => i = j
CallbackInv == ObjectsOK(objs) /\ Agree(objs, reg)
RefInv == CallbackInv /\ Closing

\* Only the return of its close handler ends a dying widget.
DyingStay == \A o \in 1 .. Len(objs) : objs[o].kind = "dying" => o \in 1 .. Len(objs') /\ objs'[o].kind = "dying"
Moved == CallbackInv' /\ DyingStay

LEMMA ClosingStays == ASSUME StackOK, StackOK', Closing, NoClosing, DyingStay PROVE Closing'
<1>1. \A i \in 1 .. Len(stack') : stack'[i].kind = "close" =>
        stack'[i].obj \in 1 .. Len(objs') /\ objs'[stack'[i].obj].kind = "dying"
  BY DEF Closing, NoClosing, DyingStay
<1>2. \A i, j \in 1 .. Len(stack') :
        stack'[i].kind = "close" /\ stack'[j].kind = "close" /\ stack'[i].obj = stack'[j].obj => i = j
  BY DEF Closing, NoClosing
<1> QED
  BY <1>1, <1>2 DEF Closing

LEMMA SameObjects == ASSUME CallbackInv, objs' = objs, Agree(objs, reg') PROVE Moved
  BY DEF Moved, CallbackInv, DyingStay

LEMMA PutStays ==
    ASSUME NEW O, ObjectsOK(O), NEW o \in 1 .. Len(O), NEW e, IsObject(e), O[o].kind # "dying" \/ e.kind = "dying",
           NEW Q, Q = Put(O, o, e)
    PROVE  \A i \in 1 .. Len(O) : O[i].kind = "dying" => Q[i].kind = "dying"
<1>1. \A i \in 1 .. Len(O) : Q[i] = IF i = o THEN e ELSE O[i]
  BY PutSeq, SeqOver DEF ObjectsOK
<1> QED
  BY <1>1

LEMMA ReplacedObject ==
    ASSUME CallbackInv, NEW o \in 1 .. Len(objs), NEW e, IsObject(e), objs' = Put(objs, o, e),
           objs[o].kind # "dying" \/ e.kind = "dying", Agree(objs', reg')
    PROVE  Moved
<1>0. ObjectsOK(objs)
  BY DEF CallbackInv
<1>1. ObjectsOK(objs') /\ Len(objs') = Len(objs)
  BY <1>0, Putting
<1>2. \A i \in 1 .. Len(objs) : objs[i].kind = "dying" => objs'[i].kind = "dying"
  BY <1>0, PutStays
<1> QED
  BY <1>1, <1>2 DEF Moved, CallbackInv, DyingStay

LEMMA AddedObject ==
    ASSUME CallbackInv, NEW e, IsObject(e), Extended(objs', objs, e), Agree(objs', reg')
    PROVE  Moved
<1>0. PICK o : o = Len(objs) + 1
  OBVIOUS
<1>1. ObjectsOK(objs') /\ Len(objs') = o /\ o \in Nat /\ \A i \in 1 .. Len(objs) : objs'[i] = objs[i]
  BY <1>0, Appending DEF CallbackInv
<1>2. Len(objs) \in Nat
  BY SeqOver DEF CallbackInv, ObjectsOK
<1> QED
  BY <1>0, <1>1, <1>2 DEF Moved, CallbackInv, DyingStay

\* Fields other than the callbacks are set.
LEMMA MarkedObject ==
    ASSUME CallbackInv, NEW o \in 1 .. Len(objs), NEW e, IsFull(objs[o]), HasFields(e), e.kind = objs[o].kind,
           e.cb = objs[o].cb, objs' = Put(objs, o, e), reg' = reg
    PROVE  Moved
<1>1. IsFull(e)
  BY DEF IsFull
<1>2. \A s \in Slots : SameCallback(Callback(e, s), Callback(objs[o], s))
  BY FullCallback DEF IsFull, SameCallback
<1>3. Agree(objs', reg')
  BY <1>1, <1>2, PutKeeps DEF CallbackInv, IsObject
<1> QED
  BY <1>1, <1>3, ReplacedObject DEF IsObject

\* Where an object of a kind is.
LEMMA ObjectOf ==
    ASSUME CallbackInv, NEW kind \in FullKinds, NEW o \in Objects(kind)
    PROVE  o \in 1 .. Len(objs) /\ objs[o].kind = kind /\ IsFull(objs[o]) /\ HasFields(objs[o])
           /\ \A s \in Slots : Callback(objs[o], s) = objs[o].cb[s]
<1>1. o \in 1 .. Len(objs) /\ objs[o].kind = kind
  BY DEF Objects
<1>2. IsObject(objs[o])
  BY <1>1, SeqOver DEF CallbackInv, ObjectsOK
<1>3. IsFull(objs[o])
  BY <1>1, <1>2, FullOfKind
<1> QED
  BY <1>1, <1>3, FullCallback DEF IsFull

-----------------------------------------------------------------------------
(* What timers, hotkeys, threads and hooks do to the callbacks             *)

\* An object gives the reference in a slot up and keeps the rest, or is gone.
LEMMA GivenUp ==
    ASSUME CallbackInv, NEW o \in 1 .. Len(objs), IsFull(objs[o]), NEW s \in Slots, NEW e, IsObject(e),
           AlikeBut(e, objs[o], s), Callback(e, s).ref = NoRef, objs[o].kind # "dying",
           objs' = Put(objs, o, e), reg' = Unref(reg, RefIn(o, s))
    PROVE  Moved
<1>1. RefIn(o, s) = Callback(objs[o], s).ref
  BY FullCallback DEF RefIn, IsFull
<1>2. Agree(objs', reg')
  BY <1>1, PutGives DEF CallbackInv
<1> QED
  BY <1>2, ReplacedObject

LEMMA OnlySlot ==
    ASSUME NEW ob, IsFull(ob), NEW s \in Slots, SlotsOf(ob.kind) = {s}
    PROVE  AlikeBut(Gone, ob, s) /\ IsObject(Gone) /\ Callback(Gone, s).ref = NoRef
<1>1. \A q \in Slots : q # s => Callback(ob, q).ref = NoRef
  BY FullCallback DEF IsFull
<1>2. \A q : Callback(Gone, q) = NoCallback
  BY GoneIsPlain
<1> QED
  BY <1>1, <1>2, GoneIsPlain DEF AlikeBut, SameCallback, NoCallback

LEMMA RemoveHookMoves ==
    ASSUME CallbackInv, NEW o \in Objects("hook"), RemoveSimpleHook(o)
    PROVE  Moved
<1>1. reg' = reg /\ (objs' = objs \/ objs' = Put(objs, o, Gone))
  BY DEF RemoveSimpleHook, Put
<1>2. o \in 1 .. Len(objs) /\ objs[o].kind = "hook" /\ IsObject(objs[o])
  BY SeqOver DEF Objects, CallbackInv, ObjectsOK
<1>3. IsPlain(objs[o])
  BY <1>2 DEF IsObject, IsFull, FullKinds, WidgetKinds
<1>4. \A s \in Slots : SameCallback(Callback(Gone, s), Callback(objs[o], s))
  BY <1>3, PlainCallback, GoneIsPlain DEF SameCallback
<1>5. CASE objs' = objs
  BY <1>1, <1>5, SameObjects DEF CallbackInv
<1>6. CASE objs' = Put(objs, o, Gone)
  <2>1. Agree(objs', reg)
    BY <1>2, <1>4, <1>6, GoneIsPlain, PutKeeps DEF CallbackInv
  <2> QED
    BY <1>1, <1>2, <1>6, <2>1, GoneIsPlain, ReplacedObject
<1> QED
  BY <1>1, <1>5, <1>6

LEMMA CreatePlainMoves ==
    ASSUME CallbackInv, NEW kind \in PlainKinds, NEW eff, CreateOf(kind, eff)
    PROVE  Moved
<1> DEFINE e == [kind |-> kind]
<1>1. IsPlain(e)
  BY DEF IsPlain
<1>2. reg' = reg /\ Extended(objs', objs, e)
  BY DEF CreateOf, Extended
<1> HIDE DEF e
<1>3. \A s \in Slots : Callback(e, s).ref = NoRef
  BY <1>1, PlainCallback DEF NoCallback
<1>4. Agree(objs', reg')
  BY <1>1, <1>2, <1>3, AppendKeeps DEF CallbackInv, IsObject
<1> QED
  BY <1>1, <1>2, <1>4, AddedObject DEF IsObject

\* An object is created, with or without a callback.
LEMMA CreatedEmpty ==
    ASSUME CallbackInv, NEW kind \in FullKinds, NEW parent, NEW e, HasFields(e), e.kind = kind,
           e.cb = Object(kind, parent).cb, Extended(objs', objs, e), reg' = reg
    PROVE  Moved
<1>1. \A s \in Slots : e.cb[s] = NoCallback
  BY NewObject
<1>2. IsFull(e) /\ \A s \in Slots : Callback(e, s).ref = NoRef
  BY <1>1, FullCallback DEF IsFull, NoCallback
<1>3. Agree(objs', reg')
  BY <1>2, AppendKeeps DEF CallbackInv, IsObject
<1> QED
  BY <1>2, <1>3, AddedObject DEF IsObject

LEMMA CreatedWith ==
    ASSUME CallbackInv, NEW kind \in FullKinds, NEW parent, NEW s \in SlotsOf(kind), s \in Slots, NEW fn \in Fns,
           NEW e, HasFields(e), e.kind = kind, e.cb = With(Object(kind, parent), s, RefOf(reg), fn).cb,
           Extended(objs', objs, e), reg' = Ref(reg, fn)
    PROVE  Moved
<1>1. HasFields(Object(kind, parent)) /\ \A q \in Slots : Object(kind, parent).cb[q] = NoCallback
  BY NewObject DEF IsFull
<1>2. \A q \in Slots : e.cb[q] = IF q = s THEN [ref |-> RefOf(reg), fn |-> fn] ELSE NoCallback
  BY <1>1, WithSlot
<1>3. /\ IsFull(e) /\ \A q \in Slots : q # s => Callback(e, q).ref = NoRef
      /\ Callback(e, s).ref = RefOf(reg) /\ Callback(e, s).fn = fn
  BY <1>2, FullCallback DEF IsFull, NoCallback
<1>4. Agree(objs', reg')
  BY <1>3, AppendTakes DEF CallbackInv, IsObject
<1> QED
  BY <1>3, <1>4, AddedObject DEF IsObject

LEMMA NewWith ==
    ASSUME NEW kind \in FullKinds, NEW parent, NEW s \in Slots, NEW ref, NEW fn
    PROVE  HasFields(With(Object(kind, parent), s, ref, fn)) /\ With(Object(kind, parent), s, ref, fn).kind = kind
<1>1. PICK ob : ob = Object(kind, parent)
  OBVIOUS
<1> DEFINE w == With(ob, s, ref, fn)
<1>2. IsFull(ob)
  BY <1>1, NewObject
<1>3. ob.kind = kind
  BY <1>1, NewObject
<1>4. /\ HasFields(w) /\ w.kind = ob.kind
      /\ \A q \in Slots : w.cb[q] = IF q = s THEN [ref |-> ref, fn |-> fn] ELSE ob.cb[q]
  BY <1>2, WithSlot DEF IsFull
<1> QED
  BY <1>1, <1>3, <1>4

LEMMA CreateTimerMoves ==
    ASSUME CallbackInv, NEW fn \in Fns \cup {Nil}, CreateTimer(fn)
    PROVE  Moved
<1> DEFINE e == Object("timer", 0)
           w == With(Object("timer", 0), "tick", RefOf(reg), fn)
<1>0. "timer" \in FullKinds /\ "tick" \in SlotsOf("timer") /\ "tick" \in Slots
  BY DEF FullKinds, SlotsOf, Slots
<1>1. HasFields(e) /\ e.kind = "timer"
  BY <1>0, NewObject DEF IsFull
<1>2. HasFields(w) /\ w.kind = "timer"
  BY <1>0, NewWith
<1>3. \/ fn = Nil /\ reg' = reg /\ Extended(objs', objs, e)
      \/ fn # Nil /\ reg' = Ref(reg, fn) /\ Extended(objs', objs, w)
  BY DEF CreateTimer, Extended
<1>4. CASE fn = Nil
  BY <1>0, <1>1, <1>3, <1>4, CreatedEmpty
<1>5. CASE fn # Nil
  BY <1>0, <1>2, <1>3, <1>5, CreatedWith
<1> QED
  BY <1>4, <1>5

LEMMA CreateHotkeyMoves == ASSUME CallbackInv, NEW fn \in Fns, CreateHotkey(fn) PROVE Moved
<1> DEFINE w == With(Object("hotkey", 0), "call", RefOf(reg), fn)
<1>0. "hotkey" \in FullKinds /\ "call" \in SlotsOf("hotkey") /\ "call" \in Slots
  BY DEF FullKinds, SlotsOf, Slots
<1>1. HasFields(w) /\ w.kind = "hotkey"
  BY <1>0, NewWith
<1>2. reg' = Ref(reg, fn) /\ Extended(objs', objs, w)
  BY DEF CreateHotkey, Extended
<1> QED
  BY <1>0, <1>1, <1>2, CreatedWith

LEMMA CreateThreadMoves == ASSUME CallbackInv, NEW fn \in Fns, NEW b \in BOOLEAN, CreateThread(fn, b) PROVE Moved
<1> DEFINE w == With(Object("thread", 0), "call", RefOf(reg), fn)
           e == [w EXCEPT !.susp = b]
<1>0. "thread" \in FullKinds /\ "call" \in SlotsOf("thread") /\ "call" \in Slots
  BY DEF FullKinds, SlotsOf, Slots
<1>1. HasFields(w) /\ w.kind = "thread"
  BY <1>0, NewWith
<1>2. reg' = Ref(reg, fn) /\ Extended(objs', objs, e) /\ w.cb = w.cb
  BY DEF CreateThread, Extended
<1>3. w.cb = With(Object("thread", 0), "call", RefOf(reg), fn).cb
  OBVIOUS
<1> HIDE DEF w
<1>4. HasFields(e) /\ e.kind = "thread" /\ e.cb = w.cb
  BY <1>1, FieldSet
<1> HIDE DEF e
<1> QED
  BY <1>0, <1>2, <1>3, <1>4, CreatedWith

LEMMA SlotSeen ==
    ASSUME NEW ob, HasFields(ob), NEW s \in Slots, NEW ref, NEW fn, NEW w, HasFields(w),
           \A q \in Slots : w.cb[q] = IF q = s THEN [ref |-> ref, fn |-> fn] ELSE ob.cb[q]
    PROVE  AlikeBut(w, ob, s) /\ Callback(w, s).ref = ref /\ Callback(w, s).fn = fn
<1>1. \A q \in Slots : Callback(w, q) = w.cb[q] /\ Callback(ob, q) = ob.cb[q]
  BY FullCallback
<1> QED
  BY <1>1 DEF AlikeBut, SameCallback

\* What a slot of an object holds once it is set.
LEMMA SlotSet ==
    ASSUME NEW ob, IsFull(ob), NEW s \in Slots, NEW ref, NEW fn, s \in SlotsOf(ob.kind) \/ ref = NoRef,
           NEW w, w = With(ob, s, ref, fn)
    PROVE  /\ IsFull(w) /\ w.kind = ob.kind /\ AlikeBut(w, ob, s)
           /\ Callback(w, s).ref = ref /\ Callback(w, s).fn = fn
<1> DEFINE v == With(ob, s, ref, fn)
<1>1. IsFull(w)
  BY WithFull
<1>2. /\ HasFields(v) /\ v.kind = ob.kind
      /\ \A q \in Slots : v.cb[q] = IF q = s THEN [ref |-> ref, fn |-> fn] ELSE ob.cb[q]
  BY WithSlot DEF IsFull
<1>3. w = v
  OBVIOUS
<1> HIDE DEF v
<1>4. AlikeBut(v, ob, s) /\ Callback(v, s).ref = ref /\ Callback(v, s).fn = fn
  BY <1>2, SlotSeen DEF IsFull
<1> QED
  BY <1>1, <1>2, <1>3, <1>4

LEMMA TimerOnTimerMoves ==
    ASSUME CallbackInv, NEW o \in 1 .. Len(objs), NEW fn \in Fns \cup {Nil}, TimerOnTimer(o, fn)
    PROVE  Moved
<1>1. PICK r : r = IF fn = Nil THEN NoRef ELSE RefOf(reg)
  OBVIOUS
<1>2. PICK w : w = With(objs[o], "tick", r, fn)
  OBVIOUS
<1>3. "timer" \in FullKinds /\ SlotsOf("timer") = {"tick"} /\ "tick" \in Slots
  BY DEF FullKinds, SlotsOf, Slots
<1>4. CASE objs[o].kind = "timer"
  <2>1. /\ IsFull(objs[o]) /\ Callback(objs[o], "tick") = objs[o].cb["tick"]
    BY <1>3, <1>4, ObjectOf DEF Objects
  <2>2. "tick" \in SlotsOf(objs[o].kind)
    BY <1>3, <1>4
  <2>3. /\ IsFull(w) /\ w.kind = objs[o].kind /\ AlikeBut(w, objs[o], "tick")
        /\ Callback(w, "tick").ref = r /\ Callback(w, "tick").fn = fn
    BY <1>2, <1>3, <2>1, <2>2, SlotSet
  <2>4. objs' = Put(objs, o, w)
    BY <1>1, <1>2, <1>4 DEF TimerOnTimer, Put
  <2>5. reg' = Unref(IF fn = Nil THEN reg ELSE Ref(reg, fn), Callback(objs[o], "tick").ref)
    BY <1>4, <2>1 DEF TimerOnTimer, RefIn
  <2>6. Agree(objs', reg')
    <3>1. CASE fn = Nil
      BY <1>1, <1>3, <2>3, <2>4, <2>5, <3>1, PutGives DEF CallbackInv, IsObject
    <3>2. CASE fn # Nil
      BY <1>1, <1>3, <2>3, <2>4, <2>5, <3>2, PutSwaps DEF CallbackInv, IsObject
    <3> QED
      BY <3>1, <3>2
  <2> QED
    BY <1>4, <2>3, <2>4, <2>6, ReplacedObject DEF IsObject
<1>5. CASE objs[o].kind # "timer"
  <2>1. objs' = objs /\ reg' = Unref(IF fn = Nil THEN reg ELSE Ref(reg, fn), r)
    BY <1>1, <1>5 DEF TimerOnTimer
  <2>2. Agree(objs, reg')
    <3>1. CASE fn = Nil
      BY <1>1, <2>1, <3>1, UnrefNone DEF CallbackInv
    <3>2. CASE fn # Nil
      BY <1>1, <2>1, <3>2, SlotPassed DEF CallbackInv
    <3> QED
      BY <3>1, <3>2
  <2> QED
    BY <2>1, <2>2, SameObjects
<1> QED
  BY <1>4, <1>5

LEMMA TimerSetMoves ==
    ASSUME CallbackInv, NEW o \in Objects("timer"), NEW on, NEW span, TimerSet(o, on, span)
    PROVE  Moved
<1>1. PICK a : a = [objs[o] EXCEPT !.on = on]
  OBVIOUS
<1>2. PICK e : e = [a EXCEPT !.span = span]
  OBVIOUS
<1>3. o \in 1 .. Len(objs) /\ IsFull(objs[o]) /\ HasFields(objs[o])
  BY ObjectOf DEF FullKinds
<1>4. HasFields(a) /\ a.kind = objs[o].kind /\ a.cb = objs[o].cb
  BY <1>1, <1>3, FieldSet
<1>5. HasFields(e) /\ e.kind = a.kind /\ e.cb = a.cb
  BY <1>2, <1>4, FieldSet
<1>6. objs' = Put(objs, o, e) /\ reg' = reg
  <2>1. objs' = [objs EXCEPT ![o] = [[objs[o] EXCEPT !.on = on] EXCEPT !.span = span]] /\ reg' = reg
    BY DEF TimerSet
  <2> QED
    BY <1>1, <1>2, <2>1 DEF Put
<1> QED
  BY <1>3, <1>4, <1>5, <1>6, MarkedObject

LEMMA DestroyTimerMoves == ASSUME CallbackInv, NEW o \in Objects("timer"), DestroyTimer(o) PROVE Moved
<1>1. "timer" \in FullKinds /\ SlotsOf("timer") = {"tick"} /\ "tick" \in Slots
  BY DEF FullKinds, SlotsOf, Slots
<1>2. o \in 1 .. Len(objs) /\ objs[o].kind = "timer" /\ IsFull(objs[o])
  BY <1>1, ObjectOf
<1>3. objs' = Put(objs, o, Gone) /\ reg' = Unref(reg, RefIn(o, "tick"))
  BY DEF DestroyTimer, Put
<1>4. AlikeBut(Gone, objs[o], "tick") /\ IsObject(Gone) /\ Callback(Gone, "tick").ref = NoRef
  BY <1>1, <1>2, OnlySlot
<1> QED
  BY <1>1, <1>2, <1>3, <1>4, GivenUp

LEMMA CollectMoves ==
    ASSUME CallbackInv, NEW o \in Objects("hotkey") \cup Objects("thread"), Collect(o)
    PROVE  Moved
<1>1. /\ "hotkey" \in FullKinds /\ SlotsOf("hotkey") = {"call"} /\ "call" \in Slots
      /\ "thread" \in FullKinds /\ SlotsOf("thread") = {"call"}
  BY DEF FullKinds, SlotsOf, Slots
<1>2. o \in 1 .. Len(objs) /\ objs[o].kind \in {"hotkey", "thread"} /\ IsFull(objs[o])
  BY <1>1, ObjectOf
<1>3. objs' = Put(objs, o, Gone) /\ reg' = Unref(reg, RefIn(o, "call"))
  BY DEF Collect, Put
<1>5. SlotsOf(objs[o].kind) = {"call"}
  BY <1>1, <1>2
<1>4. AlikeBut(Gone, objs[o], "call") /\ IsObject(Gone) /\ Callback(Gone, "call").ref = NoRef
  BY <1>1, <1>2, <1>5, OnlySlot
<1> QED
  BY <1>1, <1>2, <1>3, <1>4, GivenUp

LEMMA SetHotkeyMoves ==
    ASSUME CallbackInv, NEW o \in Objects("hotkey"), NEW fn \in Fns, SetHotkeyAction(o, fn)
    PROVE  Moved
<1>1. "hotkey" \in FullKinds /\ SlotsOf("hotkey") = {"call"} /\ "call" \in Slots
  BY DEF FullKinds, SlotsOf, Slots
<1>2. o \in 1 .. Len(objs) /\ objs[o].kind = "hotkey" /\ IsFull(objs[o])
  BY <1>1, ObjectOf
<1>3. Callback(objs[o], "call") = objs[o].cb["call"]
  BY <1>1, ObjectOf
<1>4. PICK T : T = Unref(reg, RefIn(o, "call"))
  OBVIOUS
<1>5. T = Unref(reg, Callback(objs[o], "call").ref)
  BY <1>3, <1>4 DEF RefIn
<1>6. PICK w : w = With(objs[o], "call", RefOf(T), fn)
  OBVIOUS
<1>7. reg' = Ref(T, fn) /\ objs' = Put(objs, o, w)
  BY <1>4, <1>6 DEF SetHotkeyAction, Put
<1>8. "call" \in SlotsOf(objs[o].kind)
  BY <1>1, <1>2
<1>9. /\ IsFull(w) /\ w.kind = objs[o].kind /\ AlikeBut(w, objs[o], "call")
      /\ Callback(w, "call").ref = RefOf(T) /\ Callback(w, "call").fn = fn
  BY <1>1, <1>2, <1>6, <1>8, SlotSet
<1>10. Agree(objs', Ref(T, fn))
  BY <1>1, <1>2, <1>5, <1>7, <1>9, PutRetakes DEF CallbackInv
<1> QED
  BY <1>2, <1>7, <1>9, <1>10, ReplacedObject DEF IsObject

LEMMA HotkeyDestroyMoves == ASSUME CallbackInv, NEW o \in Objects("hotkey"), HotkeyDestroy(o) PROVE Moved
<1>1. "hotkey" \in FullKinds /\ SlotsOf("hotkey") = {"call"} /\ "call" \in Slots
  BY DEF FullKinds, SlotsOf, Slots
<1>2. o \in 1 .. Len(objs) /\ objs[o].kind = "hotkey" /\ IsFull(objs[o])
  BY <1>1, ObjectOf
<1>3. PICK w : w = With(objs[o], "call", NoRef, Nil)
  OBVIOUS
<1>4. PICK e : e = [w EXCEPT !.on = FALSE]
  OBVIOUS
<1>5. objs' = Put(objs, o, e) /\ reg' = Unref(reg, RefIn(o, "call"))
  BY <1>3, <1>4 DEF HotkeyDestroy, DestroyedHotkey, Put
<1>6. /\ IsFull(w) /\ w.kind = objs[o].kind /\ AlikeBut(w, objs[o], "call")
      /\ Callback(w, "call").ref = NoRef
  BY <1>1, <1>2, <1>3, SlotSet
<1>7. HasFields(e) /\ e.kind = w.kind /\ e.cb = w.cb
  BY <1>4, <1>6, FieldSet DEF IsFull
<1>8. IsFull(e) /\ \A q \in Slots : Callback(e, q) = Callback(w, q)
  BY <1>6, <1>7, FullCallback DEF IsFull
<1>9. AlikeBut(e, objs[o], "call") /\ Callback(e, "call").ref = NoRef
  BY <1>1, <1>6, <1>8 DEF AlikeBut
<1> QED
  BY <1>1, <1>2, <1>5, <1>8, <1>9, GivenUp DEF IsObject

LEMMA FlagMoves ==
    ASSUME CallbackInv, NEW kind \in FullKinds, NEW o \in Objects(kind), NEW v, reg' = reg,
           \/ objs' = [objs EXCEPT ![o].on = v]
           \/ objs' = [objs EXCEPT ![o].fin = v]
           \/ objs' = [objs EXCEPT ![o].susp = v]
           \/ objs' = [objs EXCEPT ![o].closing = v]
    PROVE  Moved
<1>1. o \in 1 .. Len(objs) /\ IsFull(objs[o]) /\ HasFields(objs[o])
  BY ObjectOf
<1>2. ASSUME NEW e, HasFields(e), e.kind = objs[o].kind, e.cb = objs[o].cb, objs' = Put(objs, o, e)
      PROVE  Moved
  BY <1>1, <1>2, MarkedObject
<1>3. CASE objs' = [objs EXCEPT ![o].on = v]
  <2>1. PICK e : e = [objs[o] EXCEPT !.on = v]
    OBVIOUS
  <2>2. HasFields(e) /\ e.kind = objs[o].kind /\ e.cb = objs[o].cb
    BY <1>1, <2>1, FieldSet
  <2>3. objs' = Put(objs, o, e)
    BY <1>3, <2>1 DEF Put
  <2> QED
    BY <1>2, <2>2, <2>3
<1>4. CASE objs' = [objs EXCEPT ![o].fin = v]
  <2>1. PICK e : e = [objs[o] EXCEPT !.fin = v]
    OBVIOUS
  <2>2. HasFields(e) /\ e.kind = objs[o].kind /\ e.cb = objs[o].cb
    BY <1>1, <2>1, FieldSet
  <2>3. objs' = Put(objs, o, e)
    BY <1>4, <2>1 DEF Put
  <2> QED
    BY <1>2, <2>2, <2>3
<1>5. CASE objs' = [objs EXCEPT ![o].susp = v]
  <2>1. PICK e : e = [objs[o] EXCEPT !.susp = v]
    OBVIOUS
  <2>2. HasFields(e) /\ e.kind = objs[o].kind /\ e.cb = objs[o].cb
    BY <1>1, <2>1, FieldSet
  <2>3. objs' = Put(objs, o, e)
    BY <1>5, <2>1 DEF Put
  <2> QED
    BY <1>2, <2>2, <2>3
<1>6. CASE objs' = [objs EXCEPT ![o].closing = v]
  <2>1. PICK e : e = [objs[o] EXCEPT !.closing = v]
    OBVIOUS
  <2>2. HasFields(e) /\ e.kind = objs[o].kind /\ e.cb = objs[o].cb
    BY <1>1, <2>1, FieldSet
  <2>3. objs' = Put(objs, o, e)
    BY <1>6, <2>1 DEF Put
  <2> QED
    BY <1>2, <2>2, <2>3
<1> QED
  BY <1>3, <1>4, <1>5, <1>6

\* A thread's object may be gone when its function returns.
LEMMA ThreadEndsMoves == ASSUME CallbackInv, ThreadEnds PROVE Moved
<1>1. PICK o : o = Top.obj
  OBVIOUS
<1>2. objs' = [objs EXCEPT ![o].fin = TRUE] /\ reg' = reg
  BY <1>1 DEF ThreadEnds
<1>3. IsSeq(objs) /\ DOMAIN objs = 1 .. Len(objs) /\ \A i \in 1 .. Len(objs) : IsObject(objs[i])
  BY SeqOver DEF CallbackInv, ObjectsOK
<1>4. CASE o \notin 1 .. Len(objs)
  <2>1. objs \in Seq({objs[j] : j \in DOMAIN objs})
    BY <1>3 DEF IsSeq
  <2>2. objs = [j \in DOMAIN objs |-> objs[j]]
    BY <2>1, LenProperties
  <2>3. objs' = objs
    BY <1>2, <1>3, <1>4, <2>2
  <2> QED
    BY <1>2, <2>3, SameObjects DEF CallbackInv
<1>5. CASE o \in 1 .. Len(objs) /\ IsFull(objs[o])
  <2>1. objs[o].kind \in FullKinds /\ o \in Objects(objs[o].kind)
    BY <1>5 DEF IsFull, Objects
  <2> QED
    BY <1>2, <2>1, FlagMoves
<1>6. CASE o \in 1 .. Len(objs) /\ IsPlain(objs[o])
  <2>1. PICK e : e = [objs[o] EXCEPT !.fin = TRUE]
    OBVIOUS
  <2>2. objs' = Put(objs, o, e)
    BY <1>2, <2>1 DEF Put
  <2>3. e = objs[o]
    BY <1>6, <2>1, PlainSet
  <2>4. IsObject(e) /\ \A s \in Slots : SameCallback(Callback(e, s), Callback(objs[o], s))
    BY <1>6, <2>3 DEF IsObject, SameCallback
  <2>5. Agree(objs', reg')
    BY <1>2, <1>6, <2>2, <2>4, PutKeeps DEF CallbackInv
  <2> QED
    BY <1>6, <2>2, <2>3, <2>4, <2>5, ReplacedObject
<1> QED
  BY <1>3, <1>4, <1>5, <1>6 DEF IsObject

LEMMA ObjectMoves == ASSUME CallbackInv, ObjectNext PROVE Moved
<1>0. "timer" \in FullKinds /\ "hotkey" \in FullKinds /\ "thread" \in FullKinds
  BY DEF FullKinds
<1>1. CASE PumpTimers \/ PumpNext
  <2>1. objs' = objs /\ reg' = reg
    BY <1>1 DEF PumpTimers, PumpNext
  <2> QED
    BY <2>1, SameObjects DEF CallbackInv
<1>2. CASE ThreadEnds
  BY <1>2, ThreadEndsMoves
<1>3. CASE \E fn \in Fns \cup {Nil} : CreateTimer(fn)
  BY <1>3, CreateTimerMoves
<1>4. CASE \E o \in 1 .. Len(objs), fn \in Fns \cup {Nil} : objs[o].kind \in {"timer", "gone"} /\ TimerOnTimer(o, fn)
  BY <1>4, TimerOnTimerMoves
<1>5. CASE \E o \in Objects("timer") : DestroyTimer(o) \/ \E on, span \in BOOLEAN : TimerSet(o, on, span)
  BY <1>5, DestroyTimerMoves, TimerSetMoves
<1>6. CASE \E fn \in Fns : CreateHotkey(fn) \/ \E b \in BOOLEAN : CreateThread(fn, b)
  BY <1>6, CreateHotkeyMoves, CreateThreadMoves
<1>7. CASE \E o \in Objects("hotkey"), fn \in Fns : SetHotkeyAction(o, fn)
  BY <1>7, SetHotkeyMoves
<1>8. CASE \E o \in Objects("hotkey") : HotkeyTrigger(o) \/ HotkeyDestroy(o) \/ \E b \in BOOLEAN : HotkeyEnable(o, b)
  <2>1. PICK o \in Objects("hotkey") : HotkeyTrigger(o) \/ HotkeyDestroy(o) \/ \E b \in BOOLEAN : HotkeyEnable(o, b)
    BY <1>8
  <2>2. CASE HotkeyTrigger(o)
    <3>1. objs' = objs /\ reg' = reg
      BY <2>2 DEF HotkeyTrigger
    <3> QED
      BY <3>1, SameObjects DEF CallbackInv
  <2>3. CASE HotkeyDestroy(o)
    BY <2>3, HotkeyDestroyMoves
  <2>4. CASE \E b \in BOOLEAN : HotkeyEnable(o, b)
    BY <1>0, <2>4, FlagMoves DEF HotkeyEnable
  <2> QED
    BY <2>1, <2>2, <2>3, <2>4
<1>9. CASE \E o \in Objects("thread") : ThreadResume(o) \/ ThreadTerminate(o) \/ ThreadSuspend(o)
  <2>1. PICK o \in Objects("thread") : ThreadResume(o) \/ ThreadTerminate(o) \/ ThreadSuspend(o)
    BY <1>9
  <2>2. reg' = reg /\ \E v : objs' = [objs EXCEPT ![o].susp = v] \/ objs' = [objs EXCEPT ![o].fin = v]
    BY <2>1 DEF ThreadResume, ThreadTerminate, ThreadSuspend
  <2> QED
    BY <1>0, <2>2, FlagMoves
<1>10. CASE \E o \in Objects("hotkey") \cup Objects("thread") : Collect(o)
  BY <1>10, CollectMoves
<1> QED
  BY <1>1, <1>2, <1>3, <1>4, <1>5, <1>6, <1>7, <1>8, <1>9, <1>10, Zenon DEF ObjectNext

-----------------------------------------------------------------------------
(* What widgets do to the callbacks                                        *)

LEMMA WidgetKindsFull ==
    /\ WidgetKinds \subseteq FullKinds /\ "dying" \notin WidgetKinds /\ "menu" \in FullKinds /\ "dying" \in FullKinds
    /\ \A kind \in WidgetKinds : SlotsOf(kind) = Slots \ {"call"}
    /\ SlotsOf("dying") = {"close"} /\ SlotsOf("menu") = {"click"} /\ Slots = ClearedSlots \cup {"call", "close"}
  BY DEF WidgetKinds, FullKinds, SlotsOf, Slots, ClearedSlots

LEMMA WidgetIs ==
    ASSUME CallbackInv, NEW o \in Widgets
    PROVE  o \in 1 .. Len(objs) /\ objs[o].kind \in WidgetKinds /\ objs[o].kind # "dying" /\ o \in Objects(objs[o].kind)
           /\ IsFull(objs[o]) /\ HasFields(objs[o]) /\ \A s \in Slots : Callback(objs[o], s) = objs[o].cb[s]
<1>1. o \in 1 .. Len(objs) /\ objs[o].kind \in WidgetKinds
  BY DEF Widgets, IsWidget
<1>2. objs[o].kind \in FullKinds /\ o \in Objects(objs[o].kind) /\ objs[o].kind # "dying"
  BY <1>1, WidgetKindsFull DEF Objects
<1> QED
  BY <1>1, <1>2, ObjectOf

LEMMA CreateWidgetMoves ==
    ASSUME CallbackInv, NEW kind \in WidgetKinds, NEW parent, NEW on, CreateWidget(kind, parent, on)
    PROVE  Moved
<1>1. PICK w : w = Object(kind, parent)
  OBVIOUS
<1>2. PICK e : e = [w EXCEPT !.on = on]
  OBVIOUS
<1>3. kind \in FullKinds
  BY WidgetKindsFull
<1>4. HasFields(w)
  BY <1>1, <1>3, NewObject DEF IsFull
<1>5. HasFields(e) /\ e.kind = w.kind /\ e.cb = w.cb
  BY <1>2, <1>4, FieldSet
<1>6. w.kind = kind
  BY <1>1, <1>3, NewObject
<1>7. reg' = reg /\ Extended(objs', objs, e)
  BY <1>1, <1>2 DEF CreateWidget, Extended
<1>8. HasFields(e) /\ e.kind = kind /\ e.cb = Object(kind, parent).cb
  BY <1>1, <1>5, <1>6
<1> QED
  BY <1>3, <1>7, <1>8, CreatedEmpty

LEMMA AddMainMenuItemMoves == ASSUME CallbackInv, NEW fn \in Fns, AddMainMenuItem(fn) PROVE Moved
<1>1. PICK w : w = With(Object("menu", 0), "click", RefOf(reg), fn)
  OBVIOUS
<1>2. PICK e : e = [w EXCEPT !.conn = <<[slot |-> "click", id |-> 0]>>]
  OBVIOUS
<1>3. "menu" \in FullKinds /\ "click" \in SlotsOf("menu") /\ "click" \in Slots
  BY WidgetKindsFull DEF Slots
<1>4. HasFields(w) /\ w.kind = "menu"
  BY <1>1, <1>3, NewWith
<1>5. HasFields(e) /\ e.kind = w.kind /\ e.cb = w.cb
  BY <1>2, <1>4, FieldSet
<1>6. reg' = Ref(reg, fn) /\ Extended(objs', objs, e)
  BY <1>1, <1>2 DEF AddMainMenuItem, Extended
<1>7. e.cb = With(Object("menu", 0), "click", RefOf(reg), fn).cb
  BY <1>1, <1>5
<1> QED
  BY <1>3, <1>4, <1>5, <1>6, <1>7, CreatedWith

\* clearCallback, then storeCallback.
LEMMA SetEventMoves ==
    ASSUME CallbackInv, NEW o \in Widgets, NEW s \in Slots \ {"call"}, NEW fn \in Fns \cup {Nil}, SetEvent(o, s, fn)
    PROVE  Moved
<1>1. PICK T : T = Unref(reg, RefIn(o, s))
  OBVIOUS
<1>2. PICK v : v = With(objs[o], s, NoRef, Nil)
  OBVIOUS
<1>3. PICK ob : ob = Unconnected(objs[o], s)
  OBVIOUS
<1>4. PICK w : w = With(ob, s, RefOf(T), fn)
  OBVIOUS
<1>5. PICK e : e = [w EXCEPT !.conn = Append(@, [slot |-> s, id |-> calls])]
  OBVIOUS
<1>6. \/ fn = Nil /\ reg' = T /\ objs' = Put(objs, o, ob)
      \/ fn # Nil /\ reg' = Ref(T, fn) /\ objs' = Put(objs, o, e)
      \/ fn # Nil /\ reg' = Unref(Ref(T, fn), RefOf(T)) /\ objs' = Put(objs, o, ob)
  BY <1>1, <1>3, <1>4, <1>5 DEF SetEvent, Put
<1>7. o \in 1 .. Len(objs) /\ objs[o].kind \in WidgetKinds /\ objs[o].kind # "dying" /\ IsFull(objs[o])
  BY WidgetIs
<1>8. s \in Slots /\ s \in SlotsOf(objs[o].kind)
  BY <1>7, WidgetKindsFull
<1>9. T = Unref(reg, Callback(objs[o], s).ref)
  BY <1>1, <1>7, FullCallback DEF RefIn, IsFull
<1>10. IsFull(v) /\ v.kind = objs[o].kind /\ AlikeBut(v, objs[o], s) /\ Callback(v, s).ref = NoRef
  BY <1>2, <1>7, <1>8, SlotSet
<1>11. PICK conn : ob = [v EXCEPT !.conn = conn]
  BY <1>2, <1>3 DEF Unconnected
<1>12. HasFields(ob) /\ ob.kind = v.kind /\ ob.cb = v.cb
  BY <1>10, <1>11, FieldSet DEF IsFull
<1>13. IsFull(ob) /\ \A q \in Slots : Callback(ob, q) = Callback(v, q)
  BY <1>10, <1>12, FullCallback DEF IsFull
<1>14. AlikeBut(ob, objs[o], s) /\ Callback(ob, s).ref = NoRef
  BY <1>8, <1>10, <1>13 DEF AlikeBut
<1>15. CASE fn \in Fns /\ reg' = Ref(T, fn) /\ objs' = Put(objs, o, e)
  <2>1. s \in SlotsOf(ob.kind) /\ ob.kind = objs[o].kind
    BY <1>8, <1>10, <1>12
  <2>2. /\ IsFull(w) /\ w.kind = ob.kind /\ AlikeBut(w, ob, s)
        /\ Callback(w, s).ref = RefOf(T) /\ Callback(w, s).fn = fn
    BY <1>4, <1>8, <1>13, <2>1, SlotSet
  <2>3. PICK more : e = [w EXCEPT !.conn = more]
    BY <1>5
  <2>4. HasFields(e) /\ e.kind = w.kind /\ e.cb = w.cb
    BY <2>2, <2>3, FieldSet DEF IsFull
  <2>5. IsFull(e) /\ \A q \in Slots : Callback(e, q) = Callback(w, q)
    BY <2>2, <2>4, FullCallback DEF IsFull
  <2>6. AlikeBut(e, objs[o], s)
    BY <1>14, <2>2, <2>5 DEF AlikeBut, SameCallback
  <2>7. Callback(e, s).ref = RefOf(T) /\ Callback(e, s).fn = fn
    BY <1>8, <2>2, <2>5
  <2>8. Agree(objs', Ref(T, fn))
    BY <1>7, <1>8, <1>9, <1>15, <2>5, <2>6, <2>7, PutRetakes DEF CallbackInv
  <2> QED
    BY <1>7, <1>15, <2>5, <2>8, ReplacedObject DEF IsObject
<1>16. CASE objs' = Put(objs, o, ob)
  <2>1. Agree(objs', T)
    BY <1>7, <1>8, <1>9, <1>13, <1>14, <1>16, PutGives DEF CallbackInv, IsObject
  <2>2. fn \in Fns => Agree(objs', Unref(Ref(T, fn), RefOf(T)))
    BY <2>1, SlotPassed
  <2>3. \/ reg' = T
        \/ fn \in Fns /\ reg' = Unref(Ref(T, fn), RefOf(T))
        \/ fn \in Fns /\ reg' = Ref(T, fn) /\ objs' = Put(objs, o, e)
    BY <1>6
  <2>4. CASE reg' = T \/ (fn \in Fns /\ reg' = Unref(Ref(T, fn), RefOf(T)))
    <3>1. Agree(objs', reg')
      BY <2>1, <2>2, <2>4
    <3> QED
      BY <1>7, <1>13, <1>16, <3>1, ReplacedObject DEF IsObject
  <2> QED
    BY <2>3, <2>4, <1>15
<1> QED
  BY <1>6, <1>15, <1>16

\* trackDestroyed: three slots give their references up, one after the other.
LEMMA ThreeSlots ==
    ASSUME NEW O, NEW R, ObjectsOK(O), Agree(O, R), NEW o \in 1 .. Len(O), IsFull(O[o]), NEW e, IsObject(e),
           \A s \in ClearedSlots : Callback(e, s).ref = NoRef,
           \A s \in Slots \ ClearedSlots : SameCallback(Callback(e, s), Callback(O[o], s)), NEW Q, Q = Put(O, o, e)
    PROVE  Agree(Q, Unref(Unref(Unref(R, O[o].cb["click"].ref), O[o].cb["change"].ref), O[o].cb["tick"].ref))
<1>0. "click" \in Slots /\ "change" \in Slots /\ "tick" \in Slots /\ ClearedSlots = {"click", "change", "tick"}
      /\ ClearedSlots \subseteq Slots
  BY DEF Slots, ClearedSlots
<1>1. ASSUME NEW P, NEW T, ObjectsOK(P), Agree(P, T), Len(P) = Len(O), IsFull(P[o]), NEW s \in Slots,
             \A p \in Nat : \A q : p # o => At(P, p, q) = At(O, p, q)
      PROVE  \E W : /\ ObjectsOK(W) /\ Agree(W, Unref(T, Callback(P[o], s).ref)) /\ Len(W) = Len(O) /\ IsFull(W[o])
                    /\ AlikeBut(W[o], P[o], s) /\ Callback(W[o], s).ref = NoRef
                    /\ \A p \in Nat : \A q : p # o => At(W, p, q) = At(O, p, q)
  <2>1. PICK w : w = With(P[o], s, NoRef, Nil)
    OBVIOUS
  <2>2. IsFull(w) /\ AlikeBut(w, P[o], s) /\ Callback(w, s).ref = NoRef
    BY <1>1, <2>1, SlotSet
  <2>3. PICK W : W = Put(P, o, w)
    OBVIOUS
  <2>4. o \in 1 .. Len(P)
    BY <1>1
  <2>5. Agree(W, Unref(T, Callback(P[o], s).ref))
    BY <1>1, <2>2, <2>3, <2>4, PutGives DEF IsObject
  <2>6. \A p \in Nat : \A q : p # o => At(W, p, q) = At(P, p, q)
    BY <1>1, <2>2, <2>3, <2>4, Putting DEF IsObject
  <2>7. \A p \in Nat : \A q : p # o => At(W, p, q) = At(O, p, q)
    BY <1>1, <2>6
  <2>8. ObjectsOK(W) /\ Len(W) = Len(P)
    BY <1>1, <2>2, <2>3, <2>4, Putting DEF IsObject
  <2>9. W[o] = w
    BY <1>1, <2>3, <2>4, PutSeq DEF ObjectsOK
  <2> QED
    BY <1>1, <2>2, <2>5, <2>7, <2>8, <2>9
<1>2. PICK A : /\ ObjectsOK(A) /\ Agree(A, Unref(R, Callback(O[o], "click").ref)) /\ Len(A) = Len(O) /\ IsFull(A[o])
               /\ AlikeBut(A[o], O[o], "click") /\ Callback(A[o], "click").ref = NoRef
               /\ \A p \in Nat : \A q : p # o => At(A, p, q) = At(O, p, q)
  BY <1>0, <1>1
<1>3. PICK T : T = Unref(R, Callback(O[o], "click").ref)
  OBVIOUS
<1>4. PICK B : /\ ObjectsOK(B) /\ Agree(B, Unref(T, Callback(A[o], "change").ref)) /\ Len(B) = Len(O) /\ IsFull(B[o])
               /\ AlikeBut(B[o], A[o], "change") /\ Callback(B[o], "change").ref = NoRef
               /\ \A p \in Nat : \A q : p # o => At(B, p, q) = At(O, p, q)
  BY <1>0, <1>1, <1>2, <1>3
<1>5. PICK U : U = Unref(T, Callback(A[o], "change").ref)
  OBVIOUS
<1>6. PICK C : /\ ObjectsOK(C) /\ Agree(C, Unref(U, Callback(B[o], "tick").ref)) /\ Len(C) = Len(O) /\ IsFull(C[o])
               /\ AlikeBut(C[o], B[o], "tick") /\ Callback(C[o], "tick").ref = NoRef
               /\ \A p \in Nat : \A q : p # o => At(C, p, q) = At(O, p, q)
  BY <1>0, <1>1, <1>4, <1>5
<1>7. o \in Nat
  OBVIOUS
<1>8. /\ \A q : At(Q, o, q) = Callback(e, q)
      /\ \A p \in Nat : \A q : p # o => At(Q, p, q) = At(O, p, q)
  BY Putting
<1>9. \A q : At(C, o, q) = Callback(C[o], q)
  BY <1>6 DEF At
<1>10. \A q \in Slots : SameCallback(Callback(e, q), Callback(C[o], q))
  <2>1. ASSUME NEW q \in ClearedSlots
        PROVE  Callback(C[o], q).ref = NoRef
    BY <1>0, <1>2, <1>4, <1>6 DEF AlikeBut, SameCallback
  <2>2. ASSUME NEW q \in Slots \ ClearedSlots
        PROVE  SameCallback(Callback(C[o], q), Callback(O[o], q))
    BY <1>0, <1>2, <1>4, <1>6 DEF AlikeBut, SameCallback
  <2> QED
    BY <2>1, <2>2 DEF SameCallback
<1>11. Nowhere(C, Q)
  BY <1>6, <1>8, <1>9, <1>10 DEF Nowhere, SameCallback
<1>12. Agree(Q, Unref(U, Callback(B[o], "tick").ref))
  BY <1>6, <1>11, NothingMoves
<1>13. Unref(T, Callback(A[o], "change").ref) = Unref(T, O[o].cb["change"].ref)
  <2>1. Callback(A[o], "change") = O[o].cb["change"] \/ (Callback(A[o], "change").ref = NoRef /\ O[o].cb["change"].ref = NoRef)
    BY <1>0, <1>2, FullCallback DEF IsFull, AlikeBut, SameCallback
  <2> QED
    BY <2>1
<1>14. Callback(B[o], "tick").ref = O[o].cb["tick"].ref
  <2>1. SameCallback(Callback(B[o], "tick"), Callback(A[o], "tick")) /\ SameCallback(Callback(A[o], "tick"), Callback(O[o], "tick"))
    BY <1>0, <1>2, <1>4 DEF AlikeBut
  <2>2. Callback(O[o], "tick") = O[o].cb["tick"]
    BY FullCallback DEF IsFull
  <2> QED
    BY <2>1, <2>2 DEF SameCallback
<1>15. T = Unref(R, O[o].cb["click"].ref)
  BY <1>3, FullCallback DEF IsFull
<1> QED
  BY <1>5, <1>12, <1>13, <1>14, <1>15

LEMMA DyingSeen ==
    ASSUME NEW ob, IsFull(ob), ob.kind \in WidgetKinds, NEW e, HasFields(e), e.kind = "dying",
           \A s \in Slots : e.cb[s] = IF s \in ClearedSlots THEN NoCallback ELSE ob.cb[s]
    PROVE  /\ IsFull(e) /\ \A s \in ClearedSlots : Callback(e, s).ref = NoRef
           /\ \A s \in Slots \ ClearedSlots : Callback(e, s) = Callback(ob, s)
<1>1. \A s \in Slots : Callback(e, s) = e.cb[s] /\ Callback(ob, s) = ob.cb[s]
  BY FullCallback DEF IsFull
<1>2. ob.cb["call"].ref = NoRef /\ "call" \in Slots
  BY WidgetKindsFull DEF IsFull, Slots
<1>3. \A s \in Slots \ {"close"} : e.cb[s].ref = NoRef
  BY <1>2, WidgetKindsFull DEF NoCallback
<1>4. IsFull(e)
  BY <1>3, WidgetKindsFull DEF IsFull
<1>5. ClearedSlots \subseteq Slots
  BY WidgetKindsFull
<1> QED
  BY <1>1, <1>4, <1>5 DEF NoCallback

LEMMA DyingIs ==
    ASSUME NEW ob, IsFull(ob), ob.kind \in WidgetKinds, NEW e, e = Dying(ob)
    PROVE  /\ IsFull(e) /\ e.kind = "dying" /\ \A s \in ClearedSlots : Callback(e, s).ref = NoRef
           /\ \A s \in Slots \ ClearedSlots : Callback(e, s) = Callback(ob, s)
<1> DEFINE c == [s \in Slots |-> IF s \in ClearedSlots THEN NoCallback ELSE ob.cb[s]]
           a == [ob EXCEPT !.kind = "dying"]
           b == [a EXCEPT !.conn = << >>]
           d == [b EXCEPT !.cb = c]
<1>1. e = d
  BY DEF Dying
<1>2. c = [s \in Slots |-> c[s]] /\ \A s \in Slots : c[s] = IF s \in ClearedSlots THEN NoCallback ELSE ob.cb[s]
  OBVIOUS
<1> HIDE DEF c
<1>3. a = [kind |-> "dying", parent |-> ob.parent, cb |-> ob.cb, conn |-> ob.conn, on |-> ob.on,
           span |-> ob.span, fin |-> ob.fin, susp |-> ob.susp, closing |-> ob.closing]
  BY DEF IsFull, HasFields
<1> HIDE DEF a
<1>4. b = [kind |-> "dying", parent |-> ob.parent, cb |-> ob.cb, conn |-> << >>, on |-> ob.on,
           span |-> ob.span, fin |-> ob.fin, susp |-> ob.susp, closing |-> ob.closing]
  BY <1>3
<1> HIDE DEF b
<1>5. d = [kind |-> "dying", parent |-> ob.parent, cb |-> c, conn |-> << >>, on |-> ob.on,
           span |-> ob.span, fin |-> ob.fin, susp |-> ob.susp, closing |-> ob.closing]
  BY <1>4
<1> HIDE DEF d
<1>6. HasFields(d) /\ d.kind = "dying" /\ d.cb = c
  BY <1>2, <1>5 DEF HasFields
<1>7. \A s \in Slots : d.cb[s] = IF s \in ClearedSlots THEN NoCallback ELSE ob.cb[s]
  BY <1>2, <1>6
<1>8. /\ IsFull(d) /\ \A s \in ClearedSlots : Callback(d, s).ref = NoRef
      /\ \A s \in Slots \ ClearedSlots : Callback(d, s) = Callback(ob, s)
  BY <1>6, <1>7, DyingSeen
<1> QED
  BY <1>1, <1>6, <1>8

\* A widget is destroyed: it is gone, or dying with its close handler entered.
LEMMA DestroyMoves ==
    ASSUME StackOK, RefInv, DestroyNext
    PROVE  CallbackInv' /\ Closing'
<1>1. PICK o : o = Head(Top.rest)
  OBVIOUS
<1>2. PICK more : more = Tail(stack[Len(stack)].rest)
  OBVIOUS
<1>3. CASE Top.rest = << >> \/ o \notin Widgets
  <2>1. objs' = objs /\ reg' = reg
    BY <1>1, <1>3 DEF DestroyNext
  <2>2. stack' = Rested(stack, Len(stack), << >> \o more) \/ Pop
    BY <1>1, <1>2, <1>3 DEF DestroyNext, Rested
  <2>3. stack # << >> /\ Top.kind = "delete"
    BY DEF DestroyNext
  <2>4. StackOK' /\ NoClosing
    BY <2>2, <2>3, TurnRest, TurnPop DEF StackTurn
  <2>5. Moved
    BY <2>1, SameObjects DEF RefInv, CallbackInv
  <2> QED
    BY <2>4, <2>5, ClosingStays DEF RefInv, Moved
<1>4. CASE Top.rest # << >> /\ o \in Widgets
  <2>1. /\ o \in 1 .. Len(objs) /\ objs[o].kind \in WidgetKinds /\ objs[o].kind # "dying" /\ IsFull(objs[o])
        /\ \A s \in Slots : Callback(objs[o], s) = objs[o].cb[s]
    BY <1>4, WidgetIs DEF RefInv
  <2>2. reg' = Unref(Unref(Unref(reg, objs[o].cb["click"].ref), objs[o].cb["change"].ref), objs[o].cb["tick"].ref)
    BY <1>1, <1>4 DEF DestroyNext, TrackDestroyed, RefIn
  <2>3. PICK e : e = IF RefIn(o, "close") # NoRef THEN Dying(objs[o]) ELSE Gone
    OBVIOUS
  <2>4. objs' = Put(objs, o, e)
    BY <1>1, <1>4, <2>3 DEF DestroyNext, Put
  <2>5. "close" \in Slots /\ ClearedSlots \subseteq Slots /\ Slots \ ClearedSlots = {"call", "close"}
    BY DEF Slots, ClearedSlots
  <2>6. /\ IsObject(e) /\ \A s \in ClearedSlots : Callback(e, s).ref = NoRef
        /\ \A s \in Slots \ ClearedSlots : SameCallback(Callback(e, s), Callback(objs[o], s))
    <3>1. CASE RefIn(o, "close") # NoRef
      BY <2>1, <2>3, <3>1, DyingIs DEF IsObject, SameCallback
    <3>2. CASE RefIn(o, "close") = NoRef
      <4>1. IsObject(e) /\ \A s : Callback(e, s) = NoCallback
        BY <2>3, <3>2, GoneIsPlain
      <4>2. Callback(objs[o], "close").ref = NoRef /\ Callback(objs[o], "call").ref = NoRef
        BY <2>1, <2>5, <3>2, WidgetKindsFull DEF RefIn, IsFull
      <4>3. NoCallback.ref = NoRef
        BY DEF NoCallback
      <4> QED
        BY <2>5, <4>1, <4>2, <4>3 DEF SameCallback
    <3> QED
      BY <3>1, <3>2
  <2>7. Agree(objs', reg')
    BY <2>1, <2>2, <2>4, <2>6, ThreeSlots DEF RefInv, CallbackInv
  <2>8. Moved
    BY <2>1, <2>4, <2>6, <2>7, ReplacedObject DEF RefInv
  <2>9. CASE RefIn(o, "close") = NoRef
    <3>1. stack' = Rested(stack, Len(stack), Kids(o) \o more)
      BY <1>1, <1>2, <1>4, <2>9 DEF DestroyNext, Rested
    <3>2. StackOK' /\ NoClosing
      BY <3>1, TurnRest DEF StackTurn
    <3> QED
      BY <2>8, <3>2, ClosingStays DEF RefInv, Moved
  <2>10. CASE RefIn(o, "close") # NoRef
    <3>1. PICK f : f = Frame("close", o, Behind(RefIn(o, "close")), << >>, NoHit)
      OBVIOUS
    <3>2. PICK rest : rest = << >> \o more
      OBVIOUS
    <3>3. stack' = Append([stack EXCEPT ![Len(stack)].rest = rest], f)
      BY <1>1, <1>2, <1>4, <2>10, <3>1, <3>2 DEF DestroyNext
    <3>4. IsFrame(f) /\ f.kind = "close" /\ f.obj = o
      BY <3>1, FrameIsFrame DEF Frame
    <3>5. StackOK' /\ Grown(f)
      BY <3>3, <3>4, RestPushing
    <3>6. Len(stack) \in Nat /\ Len(objs) \in Nat
      BY SeqOver DEF StackOK, RefInv, CallbackInv, ObjectsOK
    <3>7. o \in 1 .. Len(objs') /\ objs'[o].kind = "dying"
      <4>1. e.kind = "dying"
        BY <2>1, <2>3, <2>10, DyingIs
      <4>2. Len(objs') = Len(objs) /\ objs'[o] = e
        BY <2>1, <2>4, PutSeq DEF RefInv, CallbackInv, ObjectsOK
      <4> QED
        BY <2>1, <4>1, <4>2
    <3>8. \A i \in 1 .. Len(stack) : stack[i].kind = "close" => stack[i].obj # o
      BY <2>1 DEF RefInv, Closing
    <3>9. /\ Len(stack') = Len(stack) + 1 /\ stack'[Len(stack) + 1].kind = "close" /\ stack'[Len(stack) + 1].obj = o
          /\ \A i \in 1 .. Len(stack) : stack'[i].kind = stack[i].kind /\ stack'[i].obj = stack[i].obj
      BY <3>4, <3>5 DEF Grown, Alike
    <3>10. \A i \in 1 .. Len(stack') : stack'[i].kind = "close" =>
             stack'[i].obj \in 1 .. Len(objs') /\ objs'[stack'[i].obj].kind = "dying"
      BY <2>8, <3>6, <3>7, <3>9 DEF RefInv, Closing, Moved, DyingStay
    <3>11. \A i, j \in 1 .. Len(stack') :
             stack'[i].kind = "close" /\ stack'[j].kind = "close" /\ stack'[i].obj = stack'[j].obj => i = j
      BY <3>6, <3>8, <3>9 DEF RefInv, Closing
    <3> QED
      BY <2>8, <3>10, <3>11 DEF Moved, Closing
  <2> QED
    BY <2>9, <2>10
<1> QED
  BY <1>3, <1>4

\* The close handler of a dying widget returned: it has no other callback, and no other handler is its.
LEMMA CloseReturnsMoves ==
    ASSUME StackOK, RefInv, CloseReturns
    PROVE  CallbackInv' /\ Closing'
<1>1. PICK o : o = Top.obj
  OBVIOUS
<1>2. PICK more : more = Kids(o) \o Front(stack)[Len(stack) - 1].rest
  OBVIOUS
<1>3. reg' = Unref(reg, RefIn(o, "close")) /\ objs' = Put(objs, o, Gone) /\ stack # << >> /\ Top.kind = "close"
  BY <1>1 DEF CloseReturns, Put, InLua
<1>4. stack' = [Front(stack) EXCEPT ![Len(stack) - 1].rest = more]
  BY <1>1, <1>2 DEF CloseReturns
<1>5. Len(stack) \in Nat \ {0} /\ stack[Len(stack)].kind = "close" /\ stack[Len(stack)].obj = o
  BY <1>1, <1>3, TopIs
<1>6. o \in 1 .. Len(objs) /\ objs[o].kind = "dying"
  BY <1>5 DEF RefInv, Closing
<1>7. IsFull(objs[o]) /\ SlotsOf(objs[o].kind) = {"close"} /\ "close" \in Slots
  <2>1. o \in Objects("dying") /\ "dying" \in FullKinds
    BY <1>6, WidgetKindsFull DEF Objects
  <2> QED
    BY <1>6, <2>1, ObjectOf, WidgetKindsFull DEF RefInv, Slots
<1>8. AlikeBut(Gone, objs[o], "close") /\ IsObject(Gone) /\ Callback(Gone, "close").ref = NoRef
  BY <1>7, OnlySlot
<1>9. RefIn(o, "close") = Callback(objs[o], "close").ref
  BY <1>7, FullCallback DEF RefIn, IsFull
<1>10. Agree(objs', reg')
  BY <1>3, <1>6, <1>7, <1>8, <1>9, PutGives DEF RefInv, CallbackInv
<1>11. ObjectsOK(objs') /\ Len(objs') = Len(objs)
  BY <1>3, <1>6, <1>8, Putting DEF RefInv, CallbackInv
<1>12. \A i \in 1 .. Len(objs) : i # o => objs'[i] = objs[i]
  BY <1>3, PutSeq DEF RefInv, CallbackInv, ObjectsOK
<1>13. StackOK' /\ Shrunk(1)
  BY <1>3, <1>4, RestPopping
<1>14. /\ Len(stack') = Len(stack) - 1
       /\ \A i \in 1 .. Len(stack) - 1 : stack'[i].kind = stack[i].kind /\ stack'[i].obj = stack[i].obj
  BY <1>5, <1>13 DEF Shrunk, Alike
<1>15. \A i \in 1 .. Len(stack) - 1 : stack[i].kind = "close" => stack[i].obj # o
  BY <1>5 DEF RefInv, Closing
<1>16. \A i \in 1 .. Len(stack') : stack'[i].kind = "close" =>
         stack'[i].obj \in 1 .. Len(objs') /\ objs'[stack'[i].obj].kind = "dying"
  <2>1. SUFFICES ASSUME NEW i \in 1 .. Len(stack'), stack'[i].kind = "close"
                 PROVE  stack'[i].obj \in 1 .. Len(objs') /\ objs'[stack'[i].obj].kind = "dying"
    OBVIOUS
  <2>2. PICK p : p = stack[i].obj
    OBVIOUS
  <2>3. i \in 1 .. Len(stack) - 1 /\ i \in 1 .. Len(stack) /\ stack[i].kind = "close" /\ stack'[i].obj = p
    BY <1>5, <1>14, <2>1, <2>2
  <2>4. p \in 1 .. Len(objs) /\ objs[p].kind = "dying" /\ p # o
    BY <1>15, <2>2, <2>3 DEF RefInv, Closing
  <2>5. objs'[p] = objs[p]
    BY <1>12, <2>4
  <2> QED
    BY <1>11, <2>3, <2>4, <2>5
<1>17. \A i, j \in 1 .. Len(stack') :
         stack'[i].kind = "close" /\ stack'[j].kind = "close" /\ stack'[i].obj = stack'[j].obj => i = j
  BY <1>5, <1>14 DEF RefInv, Closing
<1> QED
  BY <1>10, <1>11, <1>16, <1>17 DEF CallbackInv, Closing

LEMMA WidgetMoves == ASSUME StackOK, RefInv, WidgetNext PROVE (CallbackInv' /\ Closing') \/ Moved
<1>0. CallbackInv
  BY DEF RefInv
<1>1. CASE EmitNext
  <2>1. objs' = objs /\ reg' = reg
    BY <1>1 DEF EmitNext
  <2> QED
    BY <1>0, <2>1, SameObjects DEF CallbackInv
<1>2. CASE DestroyNext
  BY <1>2, DestroyMoves
<1>3. CASE CloseReturns
  BY <1>3, CloseReturnsMoves
<1>4. CASE \E kind \in WidgetKinds, parent \in {0} \cup Widgets, on \in BOOLEAN :
             (~on => kind = "timerwidget") /\ CreateWidget(kind, parent, on)
  BY <1>0, <1>4, CreateWidgetMoves
<1>5. CASE \E fn \in Fns : AddMainMenuItem(fn)
  BY <1>0, <1>5, AddMainMenuItemMoves
<1>6. CASE \E o \in Widgets, s \in Slots \ {"call"}, fn \in Fns \cup {Nil} :
             (s = "tick" => objs[o].kind = "timerwidget") /\ SetEvent(o, s, fn)
  BY <1>0, <1>6, SetEventMoves
<1>7. CASE \E o \in Objects("timerwidget") : WidgetTick(o) \/ \E b \in BOOLEAN : WidgetEnable(o, b)
  <2>1. PICK o \in Objects("timerwidget") : WidgetTick(o) \/ \E b \in BOOLEAN : WidgetEnable(o, b)
    BY <1>7
  <2>2. CASE WidgetTick(o)
    <3>1. objs' = objs /\ reg' = reg
      BY <2>2 DEF WidgetTick
    <3> QED
      BY <1>0, <3>1, SameObjects DEF CallbackInv
  <2>3. CASE \E b \in BOOLEAN : WidgetEnable(o, b)
    <3>1. "timerwidget" \in FullKinds
      BY DEF FullKinds, WidgetKinds
    <3> QED
      BY <1>0, <2>3, <3>1, FlagMoves DEF WidgetEnable
  <2> QED
    BY <2>1, <2>2, <2>3
<1>8. CASE \E o \in Widgets \cup Objects("menu") : Emit(o)
  <2>1. objs' = objs /\ reg' = reg
    BY <1>8 DEF Emit
  <2> QED
    BY <1>0, <2>1, SameObjects DEF CallbackInv
<1>9. CASE \E o \in Widgets : CloseForm(o) \/ DeleteForm(o)
  <2>1. PICK o \in Widgets : CloseForm(o) \/ DeleteForm(o)
    BY <1>9
  <2>2. CASE CloseForm(o)
    <3>1. objs[o].kind \in FullKinds /\ o \in Objects(objs[o].kind)
      BY <1>0, WidgetIs, WidgetKindsFull
    <3>2. reg' = reg /\ \E v : objs' = [objs EXCEPT ![o].closing = v]
      BY <2>2 DEF CloseForm
    <3> QED
      BY <1>0, <3>1, <3>2, FlagMoves
  <2>3. CASE DeleteForm(o)
    <3>1. objs' = objs /\ reg' = reg
      BY <2>3 DEF DeleteForm
    <3> QED
      BY <1>0, <3>1, SameObjects DEF CallbackInv
  <2> QED
    BY <2>1, <2>2, <2>3
<1> QED
  BY <1>1, <1>2, <1>3, <1>4, <1>5, <1>6, <1>7, <1>8, <1>9, Zenon DEF WidgetNext

\* Before any callback, and after the end of the engine.
LEMMA NothingOwned ==
    ASSUME NEW O, O = << >>, NEW R, R = [t |-> << >>, h |-> 0]
    PROVE  ObjectsOK(O) /\ Agree(O, R)
<1>1. IsSeq(O) /\ Len(O) = 0 /\ DOMAIN O = {}
  BY NoneSeq, EmptySeq
<1>2. ObjectsOK(O)
  BY <1>1 DEF ObjectsOK
<1>3. \A o \in Nat, s \in Slots : At(O, o, s).ref = NoRef
  BY <1>1 DEF At, NoCallback
<1>4. R.t \in Seq(Fns \cup Nat) /\ R.h = 0 /\ LiveSlots(R) = {} /\ FreeSlots(R) = {}
  BY EmptySeq DEF LiveSlots, FreeSlots
<1> QED
  BY <1>2, <1>3, <1>4 DEF Agree, FreeListOK, Owned

LEMMA NoCallbacksAtFirst ==
    ASSUME objs = << >>, reg = [t |-> << >>, h |-> 0], stack = << >>
    PROVE  RefInv
<1>1. Len(stack) = 0
  BY EmptySeq
<1> QED
  BY <1>1, NothingOwned DEF RefInv, CallbackInv, Closing

LEMMA NoCallbacksYet ==
    ASSUME objs' = << >>, reg' = [t |-> << >>, h |-> 0], stack' = stack, stack = << >>
    PROVE  RefInv'
<1>1. Len(stack') = 0
  BY EmptySeq
<1> QED
  BY <1>1, NothingOwned DEF RefInv, CallbackInv, Closing

LEMMA DebugLeavesObjects == ASSUME DebugNext PROVE objs' = objs /\ reg' = reg
<1>1. \A t : TargetHits(t) => objs' = objs /\ reg' = reg
  BY DEF TargetHits
<1>2. \A b : DebugRemoveBreakpoint(b) => objs' = objs /\ reg' = reg
  BY DEF DebugRemoveBreakpoint, Debugging
<1>3. DebugSetBreakpoint \/ DebugContinue \/ DebugRegisters \/ DebugPumpEvents => objs' = objs /\ reg' = reg
  BY DEF DebugSetBreakpoint, DebugContinue, DebugRegisters, DebugPumpEvents, Debugging
<1>4. TargetExits \/ DebugPumpNext \/ HandlerReturns \/ HandlerFails => objs' = objs /\ reg' = reg
  BY DEF TargetExits, DebugPumpNext, HandlerReturns, HandlerFails
<1> QED
  BY <1>1, <1>2, <1>3, <1>4, Zenon DEF DebugNext

LEMMA TargetMoves == ASSUME CallbackInv, TargetNext PROVE Moved
<1>1. ASSUME NEW effs, TargetCall(effs)
      PROVE  objs' = objs /\ reg' = reg
  BY <1>1 DEF TargetCall
<1>2. CASE ReadTarget \/ FinderAndTrace
  <2>1. objs' = objs /\ reg' = reg
    BY <1>2 DEF ReadTarget, FinderAndTrace
  <2> QED
    BY <2>1, SameObjects DEF CallbackInv
<1>3. CASE CreateOf("scan", "none") \/ CreateOf("snapshot", "none") \/ CreateOf("hook", "patched")
  BY <1>3, CreatePlainMoves DEF PlainKinds
<1>4. CASE \E o \in Objects("hook") : RemoveSimpleHook(o)
  BY <1>4, RemoveHookMoves
<1>5. CASE \/ WriteTarget \/ RegionFiles \/ Pause \/ Unpause \/ AllocateMemory \/ InjectLibrary
           \/ ExecuteCode \/ NopInstruction \/ AutoAssemble \/ UseOf("scan", "none") \/ UseOf("snapshot", "written")
  <2>1. \E effs : TargetCall(effs)
    BY <1>5, Zenon DEF WriteTarget, RegionFiles, Pause, Unpause, AllocateMemory, InjectLibrary, ExecuteCode,
                       NopInstruction, AutoAssemble, UseOf
  <2>2. objs' = objs /\ reg' = reg
    BY <1>1, <2>1
  <2> QED
    BY <2>2, SameObjects DEF CallbackInv
<1> QED
  BY <1>2, <1>3, <1>4, <1>5, Zenon DEF TargetNext

\* The host's steps begin no close handler; only the end of the engine touches callbacks, and drops them all.
LEMMA HostMoves == ASSUME StackInv, RefInv, HostNext PROVE RefInv'
<1>0. StackOK /\ CallbackInv /\ Closing
  BY DEF StackInv, RefInv
<1>1. ASSUME objs' = objs, reg' = reg, StackOK', NoClosing
      PROVE  RefInv'
  <2>1. Moved
    BY <1>0, <1>1, SameObjects DEF CallbackInv
  <2> QED
    BY <1>0, <1>1, <2>1, ClosingStays DEF RefInv, Moved
<1>2. CASE Leave
  <2>1. stack # << >> /\ Top.kind \in {"script", "tick", "hotkey", "widget"} /\ Pop /\ objs' = objs /\ reg' = reg
    BY <1>2 DEF Leave, InLua
  <2> QED
    BY <1>0, <1>1, <2>1, TurnPop DEF StackTurn
<1>3. CASE Execute \/ HostCallback \/ SelectFilePath
  <2>1. objs' = objs /\ reg' = reg /\ \E k : k \notin {"close", "hit"} /\ Push(Frame(k, 0, Nil, << >>, NoHit))
    BY <1>3 DEF Execute, HostCallback, SelectFilePath
  <2>2. PICK k : k \notin {"close", "hit"} /\ Push(Frame(k, 0, Nil, << >>, NoHit))
    BY <2>1
  <2>3. PICK f : f = Frame(k, 0, Nil, << >>, NoHit)
    OBVIOUS
  <2>4. IsFrame(f) /\ f.kind # "close" /\ stack' = Append(stack, f)
    BY <2>2, <2>3, FrameIsFrame DEF Frame, Push
  <2>5. StackOK' /\ Grown(f)
    BY <1>0, <2>4, Pushing
  <2> QED
    BY <1>0, <1>1, <2>1, <2>4, <2>5, ShapesClose
<1>4. CASE FilePicked
  <2>1. stack # << >> /\ stack' = Front(stack) /\ objs' = objs /\ reg' = reg
    BY <1>4 DEF FilePicked, Pop
  <2> QED
    BY <1>0, <1>1, <2>1, Popping, ShapesClose
<1>5. CASE ShutDown
  <2>1. objs' = << >> /\ reg' = [t |-> << >>, h |-> 0] /\ stack' = stack /\ stack = << >>
    BY <1>5 DEF ShutDown, Idle
  <2> QED
    BY <1>0, <2>1, NoCallbacksYet
<1>6. CASE WindowRepoints \/ WindowSeesExit \/ \E p \in Pids : WindowSwitches(p) \/ WindowReplaces(p) \/ OpenProcess(p) \/ ConnectToCeserver(p)
  <2>1. stack' = stack /\ objs' = objs /\ reg' = reg
    BY <1>6 DEF WindowRepoints, WindowSeesExit, WindowSwitches, WindowReplaces, OpenProcess, ConnectToCeserver
  <2> QED
    BY <1>0, <1>1, <2>1, TurnKept DEF StackTurn
<1> QED
  BY <1>2, <1>3, <1>4, <1>5, <1>6, Zenon DEF HostNext

LEMMA RefNext == ASSUME StackInv, RefInv, [Next]_vars PROVE RefInv'
<1>0. StackOK /\ CallbackInv /\ Closing
  BY DEF StackInv, RefInv
<1>1. ASSUME Moved, StackOK', NoClosing
      PROVE  RefInv'
  BY <1>0, <1>1, ClosingStays DEF RefInv, Moved
<1>2. CASE HostNext
  BY <1>2, HostMoves
<1>3. CASE TargetNext
  <2>1. StackOK' /\ NoClosing
    BY <1>0, <1>3, TargetTurns, TurnKept DEF StackTurn
  <2> QED
    BY <1>0, <1>1, <1>3, <2>1, TargetMoves
<1>4. CASE ObjectNext
  <2>1. StackOK' /\ NoClosing
    BY <1>0, <1>4, ObjectTurns DEF StackTurn
  <2> QED
    BY <1>0, <1>1, <1>4, <2>1, ObjectMoves
<1>5. CASE WidgetNext
  <2>1. StackOK' /\ (DestroyNext \/ NoClosing)
    BY <1>0, <1>5, WidgetTurns DEF StackTurn
  <2>2. CASE DestroyNext
    BY <1>0, <2>2, DestroyMoves DEF RefInv
  <2>3. CASE NoClosing
    BY <1>0, <1>1, <1>5, <2>1, <2>3, WidgetMoves DEF RefInv
  <2> QED
    BY <2>1, <2>2, <2>3
<1>6. CASE DebugNext
  <2>1. objs' = objs /\ reg' = reg
    BY <1>6, DebugLeavesObjects
  <2>2. StackOK' /\ NoClosing
    BY <1>6, DebugStack DEF StackInv
  <2>3. Moved
    BY <1>0, <2>1, SameObjects DEF CallbackInv
  <2> QED
    BY <1>1, <2>2, <2>3
<1>7. CASE UNCHANGED vars
  <2>1. objs' = objs /\ reg' = reg /\ stack' = stack
    BY <1>7 DEF vars
  <2>2. Moved
    BY <1>0, <2>1, SameObjects DEF CallbackInv
  <2> QED
    BY <1>0, <1>1, <2>1, <2>2, TurnKept DEF StackTurn
<1> QED
  BY <1>2, <1>3, <1>4, <1>5, <1>6, <1>7, Zenon DEF Next

LEMMA RefInit == ASSUME Init PROVE RefInv
<1>1. objs = << >> /\ reg = [t |-> << >>, h |-> 0] /\ stack = << >>
  BY DEF Init
<1> QED
  BY <1>1, NoCallbacksAtFirst

\* The invariant is what RefsOwned says, over the objects there are.
LEMMA RefsAgree == ASSUME RefInv PROVE RefsOwned
<1>1. Len(objs) \in Nat /\ \A o \in 1 .. Len(objs) : o \in Nat
  BY SeqOver DEF RefInv, CallbackInv, ObjectsOK
<1>2. reg.t \in Seq(Fns \cup Nat) /\ DOMAIN reg.t = 1 .. Len(reg.t)
  BY LenProperties DEF RefInv, CallbackInv, Agree, FreeListOK
<1>3. \A o \in Nat, s \in Slots : At(objs, o, s).ref # NoRef =>
        At(objs, o, s).ref \in LiveSlots(reg) /\ reg.t[At(objs, o, s).ref] = At(objs, o, s).fn
  BY DEF RefInv, CallbackInv, Agree, Owned
<1>4. \A o, p \in Nat, s, q \in Slots :
        At(objs, o, s).ref # NoRef /\ At(objs, o, s).ref = At(objs, p, q).ref => o = p /\ s = q
  BY DEF RefInv, CallbackInv, Agree, Owned
<1>5. \A r \in LiveSlots(reg) : r # NoRef /\ \E o \in Nat, s \in Slots : At(objs, o, s).ref = r
  BY LiveAreNoNone DEF RefInv, CallbackInv, Agree, Owned
<1>6. \A h \in Holders : /\ h[1] \in 1 .. Len(objs) /\ h[2] \in Slots /\ h = <<h[1], h[2]>>
                         /\ At(objs, h[1], h[2]) = objs[h[1]].cb[h[2]] /\ RefIn(h[1], h[2]) # NoRef
                         /\ RefIn(h[1], h[2]) = At(objs, h[1], h[2]).ref
  BY DEF Holders, At, Callback, RefIn
<1>7. ASSUME NEW o \in Nat, NEW s \in Slots, At(objs, o, s).ref # NoRef
      PROVE  <<o, s>> \in Holders /\ RefIn(o, s) = At(objs, o, s).ref
  BY <1>7 DEF Holders, At, Callback, RefIn, NoCallback
<1>8. \A h \in Holders : LET c == objs[h[1]].cb[h[2]] IN c.ref \in 1 .. Len(reg.t) /\ reg.t[c.ref] = c.fn
  BY <1>1, <1>2, <1>3, <1>6 DEF LiveSlots
<1>9. \A g, h \in Holders : g # h => RefIn(g[1], g[2]) # RefIn(h[1], h[2])
  BY <1>1, <1>4, <1>6
<1>10. \A r \in 1 .. Len(reg.t) : reg.t[r] \in Fns => \E h \in Holders : RefIn(h[1], h[2]) = r
  <2>1. SUFFICES ASSUME NEW r \in 1 .. Len(reg.t), reg.t[r] \in Fns
                 PROVE  \E h \in Holders : RefIn(h[1], h[2]) = r
    OBVIOUS
  <2>2. PICK o \in Nat, s \in Slots : At(objs, o, s).ref = r /\ r # NoRef
    BY <1>2, <1>5, <2>1 DEF LiveSlots
  <2>3. <<o, s>> \in Holders /\ RefIn(o, s) = r
    BY <1>7, <2>2
  <2> QED
    BY <2>3
<1> QED
  BY <1>8, <1>9, <1>10 DEF RefsOwned

\* For any number of objects, functions and nested callbacks: every callback an object holds is behind
\* a reference of its own that leads to the function the script gave, and no function stays in the
\* registry without an owner (clearCallback, storeCallback, setTimerCallback, l_setHotkeyAction,
\* trackDestroyed and the destructors against luaL_ref's free list).
THEOREM CallbacksOwned == Spec => []RefsOwned
<1>1. Init => StackInv /\ ScriptInv /\ StopInv /\ RefInv
  BY ScriptInit, StopInit, RefInit
<1>2. StackInv /\ ScriptInv /\ StopInv /\ RefInv /\ [Next]_vars => StackInv' /\ ScriptInv' /\ StopInv' /\ RefInv'
  BY ScriptNext, StopNext, RefNext
<1>3. RefInv => RefsOwned
  BY RefsAgree
<1> QED
  BY <1>1, <1>2, <1>3, PTL DEF Spec
=============================================================================
