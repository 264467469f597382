------------------------ MODULE ArrowResultsProofs ------------------------
(***************************************************************************)
(* Proofs about ArrowResults, for every set of contexts and results and    *)
(* every depth of R's stack: IInv is inductive, and with it types, what    *)
(* EndOpenResults() reaches, and what a consumer is told of an end.        *)
(*                                                                         *)
(* Lemmas first: pushing and popping calls, what closing, untracking and   *)
(* tracking do to one context, and what keeps each part of IInv.           *)
(***************************************************************************)
EXTENDS ArrowResults, SequenceTheorems, TLAPS

\* IInv without UnderWay, which the last lemmas prove of every action together.
Core == TypeOK /\ StackOK /\ LocksHold /\ OwnersOK /\ TrackedIsLive /\ OpenOK /\ EndsEmpty /\ WholeForR

USE DEF ahead, ends

LEMMA PopProperties ==
  ASSUME NEW s \in Seq(Frame), s # <<>>
  PROVE  LET p == SubSeq(s, 1, Len(s) - 1)
         IN p \in Seq(Frame) /\ Len(p) = Len(s) - 1 /\ \A i \in 1..Len(p) : p[i] = s[i]
<1> DEFINE n == Len(s) - 1
<1>1. n \in Nat /\ Len(s) = n + 1
  BY EmptySeq
<1>2. \A i \in 1..n : s[i] \in Frame
  BY <1>1, ElementOfSeq
<1> HIDE DEF n
<1>3. /\ SubSeq(s, 1, n) \in Seq(Frame)
      /\ Len(SubSeq(s, 1, n)) = IF 1 <= n THEN n - 1 + 1 ELSE 0
      /\ \A i \in 1..(n - 1 + 1) : SubSeq(s, 1, n)[i] = s[1 + i - 1]
  BY <1>1, <1>2, SubSeqProperties
<1>4. Len(SubSeq(s, 1, n)) = n
  BY <1>1, <1>3
<1>5. \A i \in 1..n : SubSeq(s, 1, n)[i] = s[i]
  <2>1. TAKE i \in 1..n
  <2>2. i \in 1..(n - 1 + 1) /\ 1 + i - 1 = i
    BY <1>1
  <2>3. QED
    BY <1>3, <2>2
<1>6. QED
  BY <1>3, <1>4, <1>5 DEF n

\* R's stack after a call has returned, and after one was made.
LEMMA PopEffect ==
  ASSUME IInv, Pop, ~atR
  PROVE  /\ stack' \in Seq(Frame) /\ Len(stack) \in Nat /\ Len(stack') \in Nat
         /\ Len(stack) = Len(stack') + 1
         /\ \A i \in 1..Len(stack') : i \in 1..Len(stack) /\ stack'[i] = stack[i] /\ i # Len(stack)
         /\ Top = stack[Len(stack)] /\ Top \in Frame /\ Len(stack) \in 1..Len(stack)
<1>1. stack \in Seq(Frame) /\ stack # <<>>
  BY DEF IInv, TypeOK, TypeOfThread, StackOK
<1>2. Len(stack) \in Nat \ {0}
  BY <1>1, EmptySeq
<1>3. stack' \in Seq(Frame) /\ Len(stack') = Len(stack) - 1 /\ \A i \in 1..Len(stack') : stack'[i] = stack[i]
  BY <1>1, PopProperties DEF Pop
<1>4. Top \in Frame
  BY <1>1, <1>2, ElementOfSeq DEF Top
<1>5. QED
  BY <1>2, <1>3, <1>4 DEF Top

LEMMA PushEffect ==
  ASSUME stack \in Seq(Frame), NEW f \in Frame, Push(f)
  PROVE  /\ stack' \in Seq(Frame) /\ stack' # <<>> /\ Len(stack) \in Nat
         /\ Len(stack') = Len(stack) + 1 /\ stack'[Len(stack')] = f
         /\ \A i \in 1..Len(stack) : stack'[i] = stack[i]
<1>1. Len(stack) \in Nat
  OBVIOUS
<1>2. /\ Append(stack, f) \in Seq(Frame) /\ Append(stack, f) # <<>>
      /\ Len(Append(stack, f)) = Len(stack) + 1 /\ Append(stack, f)[Len(stack) + 1] = f
      /\ \A i \in 1..Len(stack) : Append(stack, f)[i] = stack[i]
  BY AppendProperties
<1>3. QED
  BY <1>1, <1>2 DEF Push

LEMMA Fields ==
  ASSUME NEW r \in Res
  PROVE  /\ QueryResultOf(r).kind = "query_result" /\ QueryResultOf(r).res = r /\ QueryResultOf(r) \in OpenResult
         /\ SourceOf(r).kind = "source" /\ SourceOf(r).res = r /\ SourceOf(r) \in OpenResult
         /\ QueryResultOf(r) # SourceOf(r)
  BY DEF QueryResultOf, SourceOf, OpenResult

LEMMA ClosingEffect ==
  ASSUME TypeOK, NEW rs, active' = ActiveAfterClosing(rs)
  PROVE  /\ active' \in [Ctx -> Res \cup {NoRes}]
         /\ \A c \in Ctx : active'[c] = IF active[c] \in rs THEN NoRes ELSE active[c]
  BY DEF TypeOK, TypeOfEngine, ActiveAfterClosing

LEMMA UntrackingEffect ==
  ASSUME TypeOK, NEW rs, tracked' = TrackedWithout(rs)
  PROVE  /\ tracked' \in [Ctx -> SUBSET OpenResult]
         /\ \A c \in Ctx : tracked'[c] = {o \in tracked[c] : o.res \notin rs}
  BY DEF TypeOK, TypeOfObjects, TrackedWithout

LEMMA TrackingEffect ==
  ASSUME TypeOK, NEW r \in Res, tracked' = TrackedAsSource(r)
  PROVE  /\ tracked' \in [Ctx -> SUBSET OpenResult]
         /\ \A c \in Ctx : \A o : o \in tracked'[c] <=>
              \/ o \in tracked[c] /\ o.res # r
              \/ o = SourceOf(r) /\ c = Home[r] /\ r \in streamed /\ ~invalidated[r]
<1>1. \A c \in Ctx : TrackedWithout({r})[c] = {o \in tracked[c] : o.res # r}
  BY DEF TrackedWithout
<1>2. \A c \in Ctx : tracked'[c] = {o \in tracked[c] : o.res # r}
                         \cup {o \in {SourceOf(r)} : (r \in streamed /\ ~invalidated[r]) /\ Home[r] = c}
  BY <1>1 DEF TrackedAsSource
<1>3. SourceOf(r) \in OpenResult
  BY Fields
<1>4. \A c \in Ctx : tracked'[c] \subseteq OpenResult
  BY <1>2, <1>3 DEF TypeOK, TypeOfObjects
<1>5. tracked' \in [Ctx -> SUBSET OpenResult]
  BY <1>4 DEF TrackedAsSource
<1>6. QED
  BY <1>2, <1>5

\* What CanClose() is for: closing leaves the open results of the contexts that are locked alone.
LEMMA LockedKeepsOpen ==
  ASSUME IInv, NEW rs \in SUBSET Res, \A r \in rs : CanClose(r), active' = ActiveAfterClosing(rs)
  PROVE  \A c \in Ctx : c \in LockedByR \cup LockedByPool => active'[c] = active[c]
<1>1. SUFFICES ASSUME NEW c \in Ctx, c \in LockedByR \cup LockedByPool, active[c] \in rs PROVE FALSE
  BY ClosingEffect DEF IInv
<1>2. active[c] \in Res /\ active[c] # NoRes
  BY <1>1, ConstantsAssumption
<1>3. Home[active[c]] = c
  BY <1>2 DEF IInv, OpenOK
<1>4. QED
  BY <1>1, <1>3 DEF CanClose, IsOpen, LockFree

LEMMA BeingReadFacts ==
  ASSUME IInv, NEW r \in Res, r \in BeingRead
  PROVE  /\ active[Home[r]] = r /\ Home[r] \in LockedByR
         /\ holder[r] = "wrapper" \/ (holder[r] = "reader" /\ r \notin PoolStreams)
<1>1. PICK i \in 1..Len(stack) : stack[i].res = r
  BY DEF BeingRead
<1>2. stack[i] \in Frame
  BY <1>1, ElementOfSeq DEF IInv, TypeOK, TypeOfThread
<1>3. stack[i].kind = "read" \/ stack[i].kind = "statement"
  BY <1>2 DEF Frame
<1>4. QED
  BY <1>1, <1>3, ConstantsAssumption DEF IInv, LocksHold, LockedByR

\* Registered() objects keep their context alive, so TrackedIsLive is about who is reachable.
LEMMA LiveKept ==
  ASSUME TypeOK', 
         \A c \in Ctx : \A o \in Reachable(c)' : Home[o.res] = c /\ Registered(o)'
  PROVE  TrackedIsLive'
<1>1. SUFFICES ASSUME NEW c \in Ctx, NEW o \in Reachable(c)' PROVE ContextAlive(c)'
  BY DEF TrackedIsLive
<1>2. o \in OpenResult
  BY DEF TypeOK, TypeOfThread, TypeOfObjects, Reachable
<1>3. o.res \in Res
  BY <1>2 DEF OpenResult
<1>4. QED
  BY <1>1, <1>3 DEF ContextAlive, Registered

\* Whoever holds a lock keeps what it found, if the stack stands still, locked contexts keep their open result,
\* results being read their holder, and pool threads neither start nor end a fetch.
LEMMA LocksKept ==
  ASSUME IInv, UNCHANGED stack,
         \A c \in Ctx : c \in LockedByR \cup LockedByPool => active'[c] = active[c],
         \A r \in Res : r \in BeingRead => holder'[r] = holder[r],
         \A r \in Res : pool'[r] = "fetching" <=> pool[r] = "fetching"
  PROVE  LocksHold'
<1>1. \A i \in 1..Len(stack) : stack[i] \in Frame
  BY ElementOfSeq DEF IInv, TypeOK, TypeOfThread
<1>2. LockedByR' = LockedByR /\ LockedByPool' = LockedByPool
  BY DEF LockedByR, LockedByPool
<1>3. ASSUME NEW i \in 1..Len(stack) PROVE active'[stack[i].ctx] = active[stack[i].ctx]
  BY <1>1 DEF LockedByR, Frame
<1>4. ASSUME NEW i \in 1..Len(stack), stack[i].res \in Res PROVE holder'[stack[i].res] = holder[stack[i].res]
  BY <1>4 DEF BeingRead
<1>5. ASSUME NEW r \in Res, pool[r] = "fetching" PROVE active'[Home[r]] = active[Home[r]]
  BY <1>5, ConstantsAssumption DEF LockedByPool
<1>6. QED
  BY <1>2, <1>3, <1>4, <1>5 DEF IInv, LocksHold

\* The same for a call that returns: the other locks are on other contexts.
LEMMA LocksPopped ==
  ASSUME IInv, Pop, ~atR, UNCHANGED pool,
         \A c \in Ctx : c # Top.ctx => active'[c] = active[c],
         \A r \in Res : Home[r] # Top.ctx => holder'[r] = holder[r]
  PROVE  LocksHold'
<1> USE DEF IInv, Core
<1>1. \A i \in 1..Len(stack') :
        i \in 1..Len(stack) /\ stack'[i] = stack[i] /\ stack[i].ctx \in Ctx /\ stack[i].ctx # Top.ctx
  <2>1. \A i \in 1..Len(stack) : stack[i] \in Frame
    BY ElementOfSeq DEF TypeOK, TypeOfThread
  <2>2. \A i \in 1..Len(stack) : stack[i].ctx \in Ctx
    BY <2>1 DEF Frame
  <2>3. QED
    BY <2>2, PopEffect DEF StackOK
<1>2. LockedByR' \subseteq LockedByR /\ LockedByPool' = LockedByPool /\ Top.ctx \in LockedByR
  BY <1>1, PopEffect DEF LockedByR, LockedByPool
<1>3. ASSUME NEW r \in Res, pool[r] = "fetching" PROVE active'[Home[r]] = active[Home[r]]
  BY <1>2, <1>3, ConstantsAssumption DEF LocksHold, LockedByPool
<1>4. QED
  BY <1>1, <1>2, <1>3 DEF LocksHold

\* And for a call that is made: its context was free, and what it finds there is as its kind asks.
LEMMA LocksPushed ==
  ASSUME IInv, NEW f \in Frame, Push(f), LockFree(f.ctx), UNCHANGED <<active, pool>>,
         \A r \in Res : r \in BeingRead => holder'[r] = holder[r],
         f.kind = "statement" => f.res = NoRes /\ active[f.ctx] = NoRes,
         f.kind = "read" =>
           /\ f.res \in Res /\ f.ctx = Home[f.res] /\ active[f.ctx] = f.res
           /\ holder'[f.res] = "wrapper" \/ (holder'[f.res] = "reader" /\ f.res \notin PoolStreams)
  PROVE  LocksHold'
<1> USE DEF IInv, Core
<1>1. \A i \in 1..Len(stack') : (i \in 1..Len(stack) /\ stack'[i] = stack[i]) \/ stack'[i] = f
  BY PushEffect DEF TypeOK, TypeOfThread
<1>2. LockedByR' \subseteq LockedByR \cup {f.ctx} /\ LockedByPool' = LockedByPool
  BY <1>1 DEF LockedByR, LockedByPool
<1>3. ASSUME NEW i \in 1..Len(stack), stack[i].res \in Res PROVE holder'[stack[i].res] = holder[stack[i].res]
  BY <1>3 DEF BeingRead
<1>4. QED
  BY <1>1, <1>2, <1>3 DEF LocksHold, LockFree

\* R's stack keeps to distinct contexts.
LEMMA StackPopped ==
  ASSUME IInv, Pop, ~atR, atR' = TRUE, UNCHANGED <<ending, todo, ends>>
  PROVE  StackOK' /\ TypeOfThread'
  BY PopEffect DEF IInv, TypeOK, TypeOfThread, StackOK

LEMMA StackPushed ==
  ASSUME IInv, NEW f \in Frame, Push(f), LockFree(f.ctx), atR' = FALSE, ending' = NoCtx, todo = {},
         UNCHANGED <<todo, ends>>
  PROVE  StackOK' /\ TypeOfThread'
<1> USE DEF IInv, Core
<1>1. /\ stack' \in Seq(Frame) /\ stack' # <<>>
      /\ \A i \in 1..Len(stack') :
           (i \in 1..Len(stack) /\ stack'[i] = stack[i]) \/ (i = Len(stack') /\ stack'[i] = f)
  BY PushEffect DEF TypeOK, TypeOfThread
<1>2. \A i \in 1..Len(stack) : stack[i].ctx # f.ctx
  BY DEF LockFree, LockedByR
<1>3. QED
  BY <1>1, <1>2 DEF StackOK, TypeOK, TypeOfThread

\* A result that is closed without its consumer being told has no consumer any more.
LEMMA EndsKept ==
  ASSUME IInv, UNCHANGED <<left, told, streamed, finished, failed>>,
         \A r \in Res : invalidated[r] => invalidated'[r],
         \A r \in Res : IsOpen(r) /\ ~IsOpen(r)' =>
           invalidated'[r] \/ holder'[r] \in {"parked_result", "parked_wrapper", "gone"},
         \A r \in Res : holder'[r] \in {"query_result", "wrapper", "reader"} =>
           holder[r] \in {"query_result", "wrapper", "reader"}
  PROVE  EndsEmpty' /\ WholeForR'
  BY DEF IInv, EndsEmpty, WholeForR

-----------------------------------------------------------------------------
(***************************************************************************)
(* Each action keeps IInv.                                                 *)
(***************************************************************************)

\* Control passes between R code, the engine and EndOpenResults(), and nothing else changes.
LEMMA ThreadOnly ==
  ASSUME IInv, UNCHANGED <<todo, ends, engine, objects, streamed, reading, ahead>>,
         todo = {} \/ UNCHANGED ending, TypeOfThread', StackOK', LocksHold'
  PROVE  Core'
<1> USE DEF IInv, Core
<1>1. TypeOK'
  BY DEF TypeOK, TypeOfEngine, TypeOfObjects, TypeOfReading, engine, objects, reading
<1>3. \A c \in Ctx : Reachable(c)' = Reachable(c)
  BY DEF Reachable, objects
<1>4. OwnersOK'
  BY <1>3 DEF OwnersOK, objects, reading
<1>5. TrackedIsLive'
  <2>1. \A c \in Ctx : \A o \in Reachable(c)' : Home[o.res] = c /\ Registered(o)'
    BY <1>3 DEF TrackedIsLive, Registered, objects
  <2>2. QED
    BY <1>1, <2>1, LiveKept
<1>6. OpenOK'
  BY <1>3 DEF OpenOK, TypeOK, TypeOfEngine, Tracker, engine, objects, reading
<1>7. EndsEmpty' /\ WholeForR'
  BY EndsKept DEF IsOpen, engine, objects, reading
<1>8. QED
  BY <1>1, <1>4, <1>5, <1>6, <1>7

LEMMA ControlSteps ==
  ASSUME IInv, HandlerRefuses \/ EngineRefuses \/ Callback \/ CallbackReturns
  PROVE  Core'
<1>1. UNCHANGED <<stack, todo, ends, engine, objects, streamed, reading, ahead>> /\ (todo = {} \/ UNCHANGED ending)
  BY DEF HandlerRefuses, EngineRefuses, Callback, CallbackReturns
<1>2. TypeOfThread'
  BY DEF IInv, TypeOK, TypeOfThread, HandlerRefuses, EngineRefuses, Callback, CallbackReturns
<1>3. StackOK'
  BY DEF IInv, StackOK, RCode, HandlerRefuses, EngineRefuses, Callback, CallbackReturns
<1>4. LocksHold'
  BY <1>1, LocksKept DEF engine, objects
<1>5. QED
  BY <1>1, <1>2, <1>3, <1>4, ThreadOnly

\* Destroying results: closed, untracked and gone, on whichever thread.
LEMMA DestroyedKept ==
  ASSUME IInv, TypeOK', NEW rs \in SUBSET Res,
         \A r \in rs : CanClose(r) /\ r \notin BeingRead /\ holder[r] # "none" /\ pool[r] # "fetching",
         active' = ActiveAfterClosing(rs),
         \A r \in Res : holder'[r] = IF r \in rs THEN "gone" ELSE holder[r],
         \A r \in Res : pool'[r] = IF r \in rs THEN "idle" ELSE pool[r],
         \A c \in Ctx : Reachable(c)' = {o \in Reachable(c) : o.res \notin rs},
         alive' \subseteq alive, \A r \in Res \ rs : r \in alive => r \in alive',
         UNCHANGED <<stack, ends, streamed, reading>>
  PROVE  LocksHold' /\ OwnersOK' /\ TrackedIsLive' /\ OpenOK' /\ EndsEmpty' /\ WholeForR'
<1>1. \A c \in Ctx : active'[c] = IF active[c] \in rs THEN NoRes ELSE active[c]
  BY ClosingEffect DEF IInv
<1>2. LocksHold'
  <2>1. \A c \in Ctx : c \in LockedByR \cup LockedByPool => active'[c] = active[c]
    BY LockedKeepsOpen
  <2>2. QED
    BY <2>1, LocksKept
<1>3. OwnersOK'
  BY DEF IInv, OwnersOK, PoolReads, reading
<1>4. TrackedIsLive'
  <2>1. ASSUME NEW c \in Ctx, NEW o \in Reachable(c)' PROVE Home[o.res] = c /\ Registered(o)'
    <3>1. o \in Reachable(c) /\ o.res \notin rs
      BY <2>1
    <3>2. o.res \in Res
      BY <3>1 DEF IInv, TypeOK, TypeOfThread, TypeOfObjects, Reachable, OpenResult
    <3>3. Home[o.res] = c /\ Registered(o)
      BY <3>1 DEF IInv, TrackedIsLive
    <3>4. QED
      BY <3>1, <3>2, <3>3 DEF Registered
  <2>2. QED
    BY <2>1, LiveKept
<1>5. OpenOK'
  <2>1. ASSUME NEW c \in Ctx, active'[c] # NoRes
        PROVE  active'[c] = active[c] /\ active[c] \in Res \ rs
    BY <1>1, <2>1 DEF IInv, TypeOK, TypeOfEngine
  <2>2. ASSUME NEW q \in Res \ rs
        PROVE  holder'[q] = holder[q] /\ pool'[q] = pool[q] /\ Tracker(q)' = Tracker(q) /\ Tracker(q).res = q
    <3>1. holder'[q] = holder[q] /\ pool'[q] = pool[q]
      BY <2>2
    <3>2. QED
      BY <3>1, Fields DEF Tracker
  <2>3. ASSUME NEW c \in Ctx, NEW q \in Res \ rs, Tracker(q) \in Reachable(c) PROVE Tracker(q)' \in Reachable(c)'
    BY <2>2, <2>3
  <2>4. QED
    BY <2>1, <2>2, <2>3 DEF IInv, OpenOK, reading
<1>6. EndsEmpty' /\ WholeForR'
  <2>1. \A r \in Res : IsOpen(r) /\ ~IsOpen(r)' => holder'[r] = "gone"
    BY <1>1, ConstantsAssumption DEF IsOpen
  <2>2. QED
    BY <2>1, EndsKept DEF reading
<1>7. QED
  BY <1>2, <1>3, <1>4, <1>5, <1>6

\* Parked results are read by nobody and wait for Drain() only.
LEMMA DrainedEffect ==
  ASSUME IInv, Drained
  PROVE  /\ \A r \in Parked : CanClose(r) /\ r \notin BeingRead /\ holder[r] # "none" /\ pool[r] = "idle"
         /\ Parked \in SUBSET Res /\ active' = ActiveAfterClosing(Parked)
         /\ active' \in [Ctx -> Res \cup {NoRes}] /\ holder' \in [Res -> Holders]
         /\ \A r \in Res : holder'[r] = IF r \in Parked THEN "gone" ELSE holder[r]
<1>1. \A r \in Parked : r \in Res /\ r \notin BeingRead /\ holder[r] # "none" /\ pool[r] = "idle"
  BY BeingReadFacts DEF Parked, IInv, OwnersOK
<1>2. holder' \in [Res -> Holders] /\ \A r \in Res : holder'[r] = IF r \in Parked THEN "gone" ELSE holder[r]
  BY DEF Drained, IInv, TypeOK, TypeOfObjects, Holders
<1>3. QED
  BY <1>1, <1>2, ClosingEffect DEF Drained, IInv, Parked

LEMMA BeginStatementKeeps ==
  ASSUME IInv, NEW c \in Ctx, BeginStatement(c)
  PROVE  Core'
<1> USE DEF IInv, Core
<1>1. atR /\ ending = NoCtx /\ ending' = c /\ todo = {} /\ UNCHANGED <<stack, atR, ends, connected, alive, streamed, reading, ahead>>
  BY DEF BeginStatement, RCode, StackOK
<1>2. StackOK'
  BY <1>1, ConstantsAssumption DEF StackOK
<1>3. CASE CallbackActive
  <2>1. /\ UNCHANGED <<holder, active>> /\ todo' = tracked[c]
        /\ tracked' = [tracked EXCEPT ![c] = {}]
    BY <1>3 DEF BeginStatement
  <2>2. TypeOK'
    <3>1. tracked' \in [Ctx -> SUBSET OpenResult] /\ todo' \subseteq OpenResult
      BY <2>1 DEF TypeOK, TypeOfObjects
    <3>2. QED
      BY <1>1, <2>1, <3>1 DEF TypeOK, TypeOfThread, TypeOfEngine, TypeOfObjects, TypeOfReading, reading
  <2>3. \A d \in Ctx : Reachable(d)' = Reachable(d)
    BY <1>1, <2>1, ConstantsAssumption DEF Reachable, TypeOK, TypeOfObjects
  <2>4. LocksHold'
    BY <1>1, <2>1, LocksKept
  <2>5. OwnersOK'
    BY <1>1, <2>1, <2>3 DEF OwnersOK, reading
  <2>6. TrackedIsLive'
    <3>1. \A d \in Ctx : \A o \in Reachable(d)' : Home[o.res] = d /\ Registered(o)'
      BY <1>1, <2>1, <2>3 DEF TrackedIsLive, Registered
    <3>2. QED
      BY <2>2, <3>1, LiveKept
  <2>7. OpenOK'
    BY <1>1, <2>1, <2>3 DEF OpenOK, Tracker, reading
  <2>8. EndsEmpty' /\ WholeForR'
    BY <1>1, <2>1, EndsKept DEF IsOpen, reading
  <2>9. QED
    BY <1>2, <2>2, <2>4, <2>5, <2>6, <2>7, <2>8
<1>4. CASE ~CallbackActive
  <2>1. Drained /\ todo' = TrackedWithout(Parked)[c] /\ tracked' = [TrackedWithout(Parked) EXCEPT ![c] = {}]
    BY <1>4 DEF BeginStatement
  <2>2. /\ TrackedWithout(Parked) \in [Ctx -> SUBSET OpenResult]
        /\ \A d \in Ctx : TrackedWithout(Parked)[d] = {o \in tracked[d] : o.res \notin Parked}
    BY DEF TypeOK, TypeOfObjects, TrackedWithout
  <2>3. TypeOK'
    <3>1. tracked' \in [Ctx -> SUBSET OpenResult] /\ todo' \subseteq OpenResult
      BY <2>1, <2>2
    <3>2. QED
      BY <1>1, <2>1, <3>1, DrainedEffect DEF TypeOK, TypeOfThread, TypeOfEngine, TypeOfObjects, TypeOfReading, reading
  <2>4. \A d \in Ctx : Reachable(d)' = {o \in Reachable(d) : o.res \notin Parked}
    BY <1>1, <2>1, <2>2, ConstantsAssumption DEF Reachable
  <2>5. \A r \in Res : pool'[r] = IF r \in Parked THEN "idle" ELSE pool[r]
    BY <1>1, <2>1, DrainedEffect
  <2>6. LocksHold' /\ OwnersOK' /\ TrackedIsLive' /\ OpenOK' /\ EndsEmpty' /\ WholeForR'
    BY <1>1, <2>1, <2>3, <2>4, <2>5, DrainedEffect, DestroyedKept
  <2>7. QED
    BY <1>2, <2>3, <2>6
<1>5. QED
  BY <1>3, <1>4

LEMMA DrainKeeps ==
  ASSUME IInv, Drain
  PROVE  Core'
<1> USE DEF IInv, Core
<1>1. /\ Drained /\ tracked' = TrackedWithout(Parked) /\ ending = NoCtx
      /\ UNCHANGED <<rThread, connected, alive, streamed, reading, ahead>>
  BY DEF Drain, RCode
<1>2. StackOK'
  BY <1>1 DEF StackOK, rThread
<1>3. TypeOK'
  BY <1>1, DrainedEffect, UntrackingEffect
  DEF TypeOK, TypeOfThread, TypeOfEngine, TypeOfObjects, TypeOfReading, reading, rThread
<1>4. \A c \in Ctx : Reachable(c)' = {o \in Reachable(c) : o.res \notin Parked}
  BY <1>1, UntrackingEffect, ConstantsAssumption DEF Reachable, rThread
<1>5. \A r \in Res : pool'[r] = IF r \in Parked THEN "idle" ELSE pool[r]
  BY <1>1, DrainedEffect
<1>6. QED
  BY <1>1, <1>2, <1>3, <1>4, <1>5, DrainedEffect, DestroyedKept DEF rThread

\* What EndOpenResults() has in hand is alive, of the context it ends, and marked at most as that result.
LEMMA EndingObject ==
  ASSUME IInv, NEW o \in todo, ending # NoCtx
  PROVE  /\ ending \in Ctx /\ o \in OpenResult /\ o.res \in Res /\ o.kind \in {"query_result", "source"}
         /\ o \in Reachable(ending) /\ Home[o.res] = ending /\ Registered(o)
         /\ IsOpen(o.res) => Ends(o)
<1> USE DEF IInv
<1>1. /\ ending \in Ctx /\ o \in OpenResult /\ o.res \in Res /\ o.kind \in {"query_result", "source"}
      /\ o \in Reachable(ending) /\ Home[o.res] = ending /\ Registered(o)
  BY DEF TypeOK, TypeOfThread, OpenResult, Reachable, TrackedIsLive
<1>2. QED
  BY <1>1 DEF Registered, Ends

\* An object that is out of its loop's reach is not the one to end for an open result.
LEMMA LoopKept ==
  ASSUME IInv, TypeOK', NEW o \in OpenResult, todo' = todo \ {o} \/ UNCHANGED todo,
         UNCHANGED <<stack, atR, ending, connected, objects, streamed, left, finished, failed, told, ahead>>,
         \A c \in Ctx : active'[c] = active[c] \/ (active[c] = o.res /\ active'[c] = NoRes),
         \A c \in Ctx : c \in LockedByR \cup LockedByPool => active'[c] = active[c],
         \A q \in Res : invalidated[q] => invalidated'[q],
         \A q \in Res : holder[q] = "none" => ~invalidated'[q],
         \A q \in Res : IsOpen(q) /\ ~IsOpen(q)' => invalidated'[q],
         \A c \in Ctx : active'[c] # NoRes =>
           /\ active'[c] = o.res => UNCHANGED todo
           /\ invalidated'[active'[c]] => \E p \in marked' : p.res = active'[c]
  PROVE  Core'
<1> USE DEF IInv, Core
<1>1. /\ \A c \in Ctx : Reachable(c)' \subseteq Reachable(c)
      /\ \A c \in Ctx : \A p \in Reachable(c) : p # o \/ todo' = todo => p \in Reachable(c)'
  BY DEF Reachable, objects
<1>2. StackOK'
  BY DEF StackOK
<1>3. LocksHold'
  BY LocksKept DEF objects
<1>4. OwnersOK'
  BY <1>1 DEF OwnersOK, objects
<1>5. TrackedIsLive'
  <2>1. \A c \in Ctx : \A p \in Reachable(c)' : Home[p.res] = c /\ Registered(p)'
    BY <1>1 DEF TrackedIsLive, Registered, objects
  <2>2. QED
    BY <2>1, LiveKept
<1>6. OpenOK'
  <2>1. ASSUME NEW c \in Ctx, active'[c] # NoRes PROVE active'[c] = active[c] /\ active[c] \in Res
    BY <2>1 DEF TypeOK, TypeOfEngine
  <2>2. \A q \in Res : Tracker(q)' = Tracker(q) /\ Tracker(q).res = q
    BY Fields DEF Tracker, objects
  <2>3. ASSUME NEW c \in Ctx, active'[c] # NoRes, Tracker(active[c]) \in Reachable(c)
        PROVE  Tracker(active[c]) \in Reachable(c)'
    BY <1>1, <2>1, <2>2, <2>3
  <2>4. QED
    BY <2>1, <2>2, <2>3 DEF OpenOK, objects
<1>7. EndsEmpty' /\ WholeForR'
  BY EndsKept DEF objects
<1>8. QED
  BY <1>2, <1>3, <1>4, <1>5, <1>6, <1>7

LEMMA EndAskKeeps ==
  ASSUME IInv, NEW o \in todo, EndAsk(o)
  PROVE  Core'
<1> USE DEF IInv
<1>1. /\ ending # NoCtx /\ marked' = marked
      /\ (Ends(o) /\ found' = {o} /\ UNCHANGED todo) \/ (~Ends(o) /\ todo' = todo \ {o} /\ UNCHANGED found)
      /\ found = {} /\ marked = {}
      /\ UNCHANGED <<stack, atR, ending, engine, objects, streamed, reading, ahead>>
  BY DEF EndAsk
<1>2. /\ o \in OpenResult /\ o.res \in Res /\ Home[o.res] = ending /\ ending \in Ctx
      /\ IsOpen(o.res) => Ends(o)
  BY <1>1, EndingObject
<1>3. TypeOK'
  BY <1>1 DEF TypeOK, TypeOfThread, TypeOfEngine, TypeOfObjects, TypeOfReading, engine, objects, reading
<1>4. ASSUME NEW c \in Ctx, active'[c] # NoRes
      PROVE  /\ active'[c] = o.res => UNCHANGED todo
             /\ invalidated'[active'[c]] => \E p \in marked' : p.res = active'[c]
  <2>1. active[c] = active'[c] /\ invalidated' = invalidated
    BY <1>1 DEF engine, reading
  <2>2. Home[active[c]] = c /\ (invalidated[active[c]] => \E p \in marked : p.res = active[c])
    BY <1>4, <2>1 DEF OpenOK
  <2>3. active[c] = o.res => IsOpen(o.res)
    BY <2>2 DEF IsOpen
  <2>4. QED
    BY <1>1, <1>2, <2>1, <2>2, <2>3
<1>5. \A q \in Res : holder[q] = "none" => ~invalidated'[q]
  BY <1>1 DEF OwnersOK, reading
<1>6. \A q \in Res : IsOpen(q)' <=> IsOpen(q)
  BY <1>1 DEF IsOpen, engine
<1>7. QED
  BY <1>1, <1>2, <1>3, <1>4, <1>5, <1>6, LoopKept DEF engine, reading

LEMMA EndMarkKeeps ==
  ASSUME IInv, NEW o \in todo, EndMark(o)
  PROVE  Core'
<1> USE DEF IInv
<1>1. /\ o \in found /\ found' = {} /\ marked' = {o} /\ marked = {} /\ ending # NoCtx
      /\ invalidated' = [invalidated EXCEPT ![o.res] = TRUE]
      /\ UNCHANGED <<stack, atR, ending, todo, engine, objects, streamed, left, lost, finished, failed, told, ahead>>
  BY DEF EndMark, UnderWay, StackOK
<1>2. o \in OpenResult /\ o.res \in Res /\ Registered(o)
  BY <1>1, EndingObject
<1>3. /\ invalidated' \in [Res -> BOOLEAN]
      /\ invalidated'[o.res] /\ \A q \in Res : q # o.res => invalidated'[q] = invalidated[q]
  BY <1>1, <1>2 DEF TypeOK, TypeOfReading
<1>4. TypeOK'
  BY <1>1, <1>3 DEF TypeOK, TypeOfThread, TypeOfEngine, TypeOfObjects, TypeOfReading, engine, objects
<1>5. ASSUME NEW c \in Ctx, active'[c] # NoRes, invalidated'[active'[c]] PROVE \E p \in marked' : p.res = active'[c]
  <2>1. active'[c] = active[c] /\ active[c] \in Res
    BY <1>1, <1>5 DEF TypeOK, TypeOfEngine, engine
  <2>2. ~invalidated[active[c]]
    BY <1>1, <1>5, <2>1 DEF OpenOK
  <2>3. active[c] = o.res
    BY <1>3, <1>5, <2>1, <2>2
  <2>4. QED
    BY <1>1, <2>1, <2>3
<1>6. \A q \in Res : holder[q] = "none" => ~invalidated'[q]
  BY <1>2, <1>3 DEF OwnersOK, Registered
<1>7. \A q \in Res : IsOpen(q)' <=> IsOpen(q)
  BY <1>1 DEF IsOpen, engine
<1>8. QED
  BY <1>1, <1>2, <1>3, <1>4, <1>5, <1>6, <1>7, LoopKept DEF engine

LEMMA EndCloseKeeps ==
  ASSUME IInv, NEW o \in todo, EndClose(o)
  PROVE  Core'
<1> USE DEF IInv
<1>1. /\ o \in marked /\ CanClose(o.res) /\ ending # NoCtx
      /\ marked' = marked \ {o} /\ todo' = todo \ {o} /\ active' = ActiveAfterClosing({o.res})
      /\ UNCHANGED <<stack, atR, ending, found, connected, objects, streamed, reading, ahead>>
  BY DEF EndClose, StackOK
<1>2. o \in OpenResult /\ o.res \in Res /\ invalidated[o.res] /\ found = {}
  BY <1>1, EndingObject DEF UnderWay
<1>3. /\ active' \in [Ctx -> Res \cup {NoRes}]
      /\ \A c \in Ctx : active'[c] = IF active[c] = o.res THEN NoRes ELSE active[c]
  BY <1>1, ClosingEffect
<1>4. TypeOK'
  BY <1>1, <1>2, <1>3 DEF TypeOK, TypeOfThread, TypeOfEngine, TypeOfObjects, TypeOfReading, objects, reading
<1>5. ASSUME NEW c \in Ctx, active'[c] # NoRes
      PROVE  /\ active'[c] # o.res
             /\ invalidated'[active'[c]] => \E p \in marked' : p.res = active'[c]
  <2>1. active'[c] = active[c] /\ active[c] # o.res
    BY <1>2, <1>3, <1>5, ConstantsAssumption
  <2>2. invalidated[active[c]] => \E p \in marked : p.res = active[c]
    BY <1>5, <2>1 DEF OpenOK
  <2>3. QED
    BY <1>1, <2>1, <2>2 DEF reading
<1>6. \A q \in Res : holder[q] = "none" => ~invalidated'[q]
  BY <1>1 DEF OwnersOK, reading
<1>7. \A q \in Res : IsOpen(q) /\ ~IsOpen(q)' => invalidated'[q]
  BY <1>1, <1>2, <1>3, ConstantsAssumption DEF IsOpen, reading
<1>8. \A c \in Ctx : c \in LockedByR \cup LockedByPool => active'[c] = active[c]
  BY <1>1, <1>2, LockedKeepsOpen
<1>9. QED
  BY <1>1, <1>2, <1>3, <1>4, <1>5, <1>6, <1>7, <1>8, LoopKept DEF reading

LEMMA EnterEngineKeeps ==
  ASSUME IInv, EnterEngine
  PROVE  Core'
<1> USE DEF IInv, Core
<1>1. /\ ending \in Ctx /\ todo = {} /\ LockFree(ending) /\ active[ending] = NoRes /\ Push(StatementFrame(ending))
      /\ atR' = FALSE /\ ending' = NoCtx /\ UNCHANGED <<todo, ends, engine, objects, streamed, reading, ahead>>
  BY DEF EnterEngine, TypeOK, TypeOfThread
<1>2. /\ StatementFrame(ending) \in Frame /\ StatementFrame(ending).ctx = ending
      /\ StatementFrame(ending).kind = "statement" /\ StatementFrame(ending).res = NoRes
  BY <1>1 DEF StatementFrame, Frame
<1>3. TypeOfThread' /\ StackOK'
  BY <1>1, <1>2, StackPushed
<1>4. LocksHold'
  BY <1>1, <1>2, LocksPushed DEF engine, objects
<1>5. QED
  BY <1>1, <1>3, <1>4, ThreadOnly

LEMMA StatementReturnsKeeps ==
  ASSUME IInv, StatementReturns
  PROVE  Core'
<1> USE DEF IInv, Core
<1>1. /\ ~atR /\ Pop /\ atR' = TRUE
      /\ UNCHANGED <<ending, todo, ends, engine, objects, streamed, reading, ahead>>
  BY DEF StatementReturns
<1>2. TypeOfThread' /\ StackOK'
  BY <1>1, StackPopped
<1>3. LocksHold'
  BY <1>1, LocksPopped DEF engine, objects
<1>4. QED
  BY <1>1, <1>2, <1>3, ThreadOnly

LEMMA DisconnectKeeps ==
  ASSUME IInv, NEW c \in Ctx, Disconnect(c)
  PROVE  Core'
<1> USE DEF IInv, Core
<1>1. connected' = connected \ {c} /\ UNCHANGED <<rThread, active, objects, streamed, reading, ahead>>
  BY DEF Disconnect
<1>2. TypeOK'
  BY <1>1 DEF TypeOK, TypeOfThread, TypeOfEngine, TypeOfObjects, TypeOfReading, rThread, objects, reading
<1>3. StackOK'
  BY <1>1 DEF StackOK, rThread
<1>4. LocksHold'
  BY <1>1, LocksKept DEF rThread, objects
<1>5. \A d \in Ctx : Reachable(d)' = Reachable(d)
  BY <1>1 DEF Reachable, rThread, objects
<1>6. OwnersOK'
  BY <1>1, <1>5 DEF OwnersOK, objects, reading
<1>7. TrackedIsLive'
  <2>1. \A d \in Ctx : \A o \in Reachable(d)' : Home[o.res] = d /\ Registered(o)'
    BY <1>1, <1>5 DEF TrackedIsLive, Registered, objects
  <2>2. QED
    BY <1>2, <2>1, LiveKept
<1>8. OpenOK'
  BY <1>1, <1>5 DEF OpenOK, Tracker, rThread, objects, reading
<1>9. EndsEmpty' /\ WholeForR'
  BY <1>1, EndsKept DEF IsOpen, objects, reading
<1>10. QED
  BY <1>2, <1>3, <1>4, <1>6, <1>7, <1>8, <1>9

\* One result destroyed on R's thread.
LEMMA DestroyKeeps ==
  ASSUME IInv, NEW r \in Res, Destroy(r), RCode, r \notin BeingRead, holder[r] # "none", pool[r] = "idle",
         alive' \subseteq alive, \A q \in Res \ {r} : q \in alive => q \in alive',
         UNCHANGED <<rThread, connected, streamed, reading, ahead>>
  PROVE  Core'
<1> USE DEF IInv, Core
<1>1. /\ CanClose(r) /\ active' = ActiveAfterClosing({r}) /\ tracked' = TrackedWithout({r})
      /\ holder' = [holder EXCEPT ![r] = "gone"] /\ ending = NoCtx
  BY DEF Destroy, RCode
<1>2. holder' \in [Res -> Holders] /\ \A q \in Res : holder'[q] = IF q = r THEN "gone" ELSE holder[q]
  BY <1>1 DEF TypeOK, TypeOfObjects, Holders
<1>3. StackOK'
  BY DEF StackOK, rThread
<1>4. TypeOK'
  BY <1>1, <1>2, ClosingEffect, UntrackingEffect
  DEF TypeOK, TypeOfThread, TypeOfEngine, TypeOfObjects, TypeOfReading, reading, rThread
<1>5. \A c \in Ctx : Reachable(c)' = {o \in Reachable(c) : o.res \notin {r}}
  <2>1. \A c \in Ctx : tracked'[c] = {o \in tracked[c] : o.res \notin {r}}
    BY <1>1, UntrackingEffect
  <2>2. \A c \in Ctx : Reachable(c)' = tracked'[c] /\ Reachable(c) = tracked[c]
    BY <1>1, ConstantsAssumption DEF Reachable, rThread
  <2>3. QED
    BY <2>1, <2>2
<1>6. QED
  BY <1>1, <1>2, <1>3, <1>4, <1>5, DestroyedKept DEF rThread

LEMMA ReleaseArrowResultKeeps ==
  ASSUME IInv, NEW r \in Res, ReleaseArrowResult(r)
  PROVE  Core'
<1>1. pool[r] = "idle"
  BY DEF ReleaseArrowResult, IInv, OwnersOK
<1>2. QED
  BY <1>1, DestroyKeeps DEF ReleaseArrowResult

LEMMA PoolCloseKeeps ==
  ASSUME IInv, NEW r \in Res, PoolClose(r)
  PROVE  Core'
<1> USE DEF IInv, Core
<1>1. /\ pool[r] = "closing" /\ CanClose(r) /\ active' = ActiveAfterClosing({r})
      /\ pool' = [pool EXCEPT ![r] = "idle"] /\ holder' = [holder EXCEPT ![r] = "gone"]
      /\ UNCHANGED <<rThread, connected, tracked, alive, streamed, reading, have>>
  BY DEF PoolClose
<1>2. holder[r] = "reader" /\ r \in PoolStreams /\ r \notin BeingRead /\ pool[r] # "fetching"
  BY <1>1, BeingReadFacts DEF OwnersOK
<1>3. /\ holder' \in [Res -> Holders] /\ \A q \in Res : holder'[q] = IF q = r THEN "gone" ELSE holder[q]
      /\ pool' \in [Res -> PoolSteps] /\ \A q \in Res : pool'[q] = IF q = r THEN "idle" ELSE pool[q]
  BY <1>1 DEF TypeOK, TypeOfObjects, Holders, PoolSteps
<1>4. StackOK'
  BY <1>1 DEF StackOK, rThread
<1>5. TypeOK'
  BY <1>1, <1>3, ClosingEffect
  DEF TypeOK, TypeOfThread, TypeOfEngine, TypeOfObjects, TypeOfReading, reading, rThread
<1>6. \A c \in Ctx : Reachable(c)' = {o \in Reachable(c) : o.res \notin {r}}
  <2>1. TAKE c \in Ctx
  <2>2. Reachable(c)' = Reachable(c)
    BY <1>1 DEF Reachable, rThread
  <2>3. \A o \in Reachable(c) : o.res # r
    BY <1>1 DEF OwnersOK
  <2> DEFINE R == Reachable(c)
  <2>4. R = {o \in R : o.res \notin {r}}
    <3> HIDE DEF R
    <3>1. \A o \in R : o.res # r
      BY <2>3 DEF R
    <3>2. QED
      BY <3>1
  <2>5. QED
    BY <2>2, <2>4
<1>7. QED
  BY <1>1, <1>2, <1>3, <1>4, <1>5, <1>6, DestroyedKept DEF rThread

\* A reader or a result is parked: another owner, out of every consumer's reach.
LEMMA ParkKeeps ==
  ASSUME IInv, NEW r \in Res, r \notin BeingRead,
         \/ /\ holder[r] = "query_result" /\ holder' = [holder EXCEPT ![r] = "parked_result"]
            /\ ending = NoCtx /\ tracked' = [tracked EXCEPT ![Home[r]] = @ \ {QueryResultOf(r)}]
         \/ /\ holder[r] \in {"wrapper", "reader"} /\ holder' = [holder EXCEPT ![r] = "parked_wrapper"]
            /\ UNCHANGED tracked,
         pool[r] \in {"idle", "parking"}, \A q \in Res : pool'[q] = IF q = r THEN "idle" ELSE pool[q],
         pool' \in [Res -> PoolSteps],
         alive' \subseteq alive, \A q \in Res \ {r} : q \in alive => q \in alive',
         UNCHANGED <<rThread, engine, streamed, reading, have>>
  PROVE  Core'
<1> USE DEF IInv, Core
<1>1. /\ holder' \in [Res -> Holders]
      /\ \A q \in Res : q # r => holder'[q] = holder[q]
      /\ holder'[r] = IF holder[r] = "query_result" THEN "parked_result" ELSE "parked_wrapper"
  BY DEF TypeOK, TypeOfObjects, Holders
<1>2. tracked' \in [Ctx -> SUBSET OpenResult]
  BY DEF TypeOK, TypeOfObjects
<1>3. /\ \A c \in Ctx : Reachable(c)' \subseteq Reachable(c)
      /\ \A c \in Ctx : \A o \in Reachable(c) : o # QueryResultOf(r) \/ holder[r] # "query_result" => o \in Reachable(c)'
      /\ \A c \in Ctx : \A o \in Reachable(c)' : o.res = r => o.kind # "query_result"
  <2>1. CASE UNCHANGED tracked /\ holder[r] \in {"wrapper", "reader"}
    <3>1. \A c \in Ctx : Reachable(c)' = Reachable(c)
      BY <2>1 DEF Reachable, rThread
    <3>2. \A c \in Ctx : \A o \in Reachable(c) : o.res = r => o.kind # "query_result"
      BY <2>1 DEF TrackedIsLive, Registered
    <3>3. \A c \in Ctx : \A o \in Reachable(c)' : o.res = r => o.kind # "query_result"
      BY <3>1, <3>2
    <3>4. QED
      BY <3>1, <3>3
  <2>2. CASE holder[r] = "query_result" /\ ending = NoCtx /\ tracked' = [tracked EXCEPT ![Home[r]] = @ \ {QueryResultOf(r)}]
    <3>1. \A c \in Ctx : Reachable(c) = tracked[c] /\ Reachable(c)' = tracked'[c]
      BY <2>2, ConstantsAssumption DEF Reachable, rThread
    <3>2. \A c \in Ctx : tracked'[c] = IF c = Home[r] THEN tracked[c] \ {QueryResultOf(r)} ELSE tracked[c]
      BY <2>2 DEF TypeOK, TypeOfObjects
    <3>3. \A c \in Ctx : \A o \in tracked[c] : o.res = r /\ o.kind = "query_result" => c = Home[r] /\ o = QueryResultOf(r)
      BY <3>1 DEF TrackedIsLive, TypeOK, TypeOfObjects, OpenResult, QueryResultOf
    <3>4. ASSUME NEW c \in Ctx
          PROVE  /\ tracked'[c] \subseteq tracked[c]
                 /\ \A o \in tracked[c] : o # QueryResultOf(r) => o \in tracked'[c]
                 /\ \A o \in tracked'[c] : o.res = r => o.kind # "query_result"
      <4>1. CASE c = Home[r]
        <5>1. tracked'[c] = tracked[c] \ {QueryResultOf(r)}
          BY <3>2, <4>1
        <5>2. \A o \in tracked[c] : o.res = r /\ o.kind = "query_result" => o = QueryResultOf(r)
          BY <3>3
        <5>3. QED
          BY <5>1, <5>2
      <4>2. CASE c # Home[r]
        <5>1. tracked'[c] = tracked[c]
          BY <3>2, <4>2
        <5>2. QED
          BY <3>3, <4>2, <5>1
      <4>3. QED
        BY <4>1, <4>2
    <3>5. QED
      BY <2>2, <3>1, <3>4
  <2>3. QED
    BY <2>1, <2>2
<1>4. StackOK'
  BY DEF StackOK, rThread
<1>5. TypeOK'
  BY <1>1, <1>2 DEF TypeOK, TypeOfThread, TypeOfEngine, TypeOfObjects, TypeOfReading, reading, rThread, engine
<1>6. LocksHold'
  BY <1>1, LocksKept DEF rThread, engine
<1>7. OwnersOK'
  BY <1>1, <1>3 DEF OwnersOK, PoolReads, reading
<1>8. TrackedIsLive'
  <2>1. ASSUME NEW c \in Ctx, NEW o \in Reachable(c)' PROVE Home[o.res] = c /\ Registered(o)'
    <3>1. o \in Reachable(c) /\ (o.res = r => o.kind # "query_result")
      BY <1>3, <2>1
    <3>2. o.res \in Res /\ Home[o.res] = c /\ Registered(o)
      BY <3>1 DEF TrackedIsLive, TypeOK, TypeOfThread, TypeOfObjects, Reachable, OpenResult
    <3>3. QED
      BY <1>1, <3>1, <3>2 DEF Registered
  <2>2. QED
    BY <1>5, <2>1, LiveKept
<1>9. OpenOK'
  <2>1. \A q \in Res : q # r => Tracker(q)' = Tracker(q) /\ Tracker(q) # QueryResultOf(r)
    BY <1>1, Fields DEF Tracker
  <2>2. holder[r] # "query_result" => Tracker(r)' = Tracker(r)
    BY <1>1 DEF Tracker
  <2>3. QED
    BY <1>1, <1>3, <2>1, <2>2 DEF OpenOK, rThread, engine, reading, TypeOK, TypeOfEngine
<1>10. EndsEmpty' /\ WholeForR'
  BY <1>1, EndsKept DEF IsOpen, engine, reading
<1>11. QED
  BY <1>4, <1>5, <1>6, <1>7, <1>8, <1>9, <1>10

LEMMA PoolParkKeeps ==
  ASSUME IInv, NEW r \in Res, PoolPark(r)
  PROVE  Core'
<1>1. holder[r] = "reader" /\ r \notin BeingRead
  BY BeingReadFacts DEF PoolPark, IInv, OwnersOK
<1>2. pool' \in [Res -> PoolSteps] /\ \A q \in Res : pool'[q] = IF q = r THEN "idle" ELSE pool[q]
  BY DEF PoolPark, IInv, TypeOK, TypeOfObjects, PoolSteps
<1>3. QED
  BY <1>1, <1>2, ParkKeeps DEF PoolPark

LEMMA ReleaseReaderKeeps ==
  ASSUME IInv, NEW r \in Res, ReleaseReader(r)
  PROVE  Core'
<1>1. /\ RCode /\ holder[r] = "reader" /\ r \notin BeingRead
      /\ UNCHANGED <<rThread, connected, alive, streamed, reading, ahead>>
  BY DEF ReleaseReader
<1>2. pool[r] = "idle"
  BY DEF ReleaseReader, IInv, OwnersOK
<1>3. CASE CallbackActive
  BY <1>1, <1>2, <1>3, ParkKeeps DEF ReleaseReader, engine, IInv, TypeOK, TypeOfObjects
<1>4. CASE ~CallbackActive
  BY <1>1, <1>2, <1>4, DestroyKeeps DEF ReleaseReader
<1>5. QED
  BY <1>3, <1>4

LEMMA FinalizeResultKeeps ==
  ASSUME IInv, NEW r \in Res, FinalizeResult(r)
  PROVE  Core'
<1>1. /\ RCode /\ ending = NoCtx /\ r \notin BeingRead /\ alive' = alive \ {r}
      /\ UNCHANGED <<rThread, connected, streamed, reading, ahead>>
  BY DEF FinalizeResult, RCode
<1>2. pool' \in [Res -> PoolSteps] /\ alive' \subseteq alive /\ \A q \in Res \ {r} : q \in alive => q \in alive'
  BY <1>1 DEF IInv, TypeOK, TypeOfObjects
<1>3. CASE holder[r] \notin {"query_result", "wrapper"} /\ UNCHANGED <<holder, tracked, active>>
  <2> USE DEF IInv, Core
  <2>1. TypeOK'
    BY <1>1, <1>3 DEF TypeOK, TypeOfThread, TypeOfEngine, TypeOfObjects, TypeOfReading, reading, rThread
  <2>2. StackOK'
    BY <1>1 DEF StackOK, rThread
  <2>3. LocksHold'
    BY <1>1, <1>3, LocksKept DEF rThread
  <2>4. \A c \in Ctx : Reachable(c)' = Reachable(c)
    BY <1>1, <1>3 DEF Reachable, rThread
  <2>5. OwnersOK'
    BY <1>1, <1>3, <2>4 DEF OwnersOK, reading
  <2>6. TrackedIsLive'
    <3>1. \A c \in Ctx : \A o \in Reachable(c)' : Home[o.res] = c /\ Registered(o)'
      BY <1>1, <1>3, <2>4 DEF TrackedIsLive, Registered
    <3>2. QED
      BY <2>1, <3>1, LiveKept
  <2>7. OpenOK'
    BY <1>1, <1>3, <2>4 DEF OpenOK, Tracker, rThread, reading
  <2>8. EndsEmpty' /\ WholeForR'
    BY <1>1, <1>3, EndsKept DEF IsOpen, reading
  <2>9. QED
    BY <2>1, <2>2, <2>3, <2>5, <2>6, <2>7, <2>8
<1>4. CASE Destroy(r) /\ holder[r] \in {"query_result", "wrapper"}
  <2>1. pool[r] = "idle"
    BY <1>4 DEF IInv, OwnersOK
  <2>2. QED
    BY <1>1, <1>2, <1>4, <2>1, DestroyKeeps
<1>5. CASE UNCHANGED active /\
        \/ /\ holder[r] = "query_result" /\ holder' = [holder EXCEPT ![r] = "parked_result"]
           /\ tracked' = [tracked EXCEPT ![Home[r]] = @ \ {QueryResultOf(r)}]
        \/ /\ holder[r] = "wrapper" /\ holder' = [holder EXCEPT ![r] = "parked_wrapper"]
           /\ UNCHANGED tracked
  <2>1. pool[r] = "idle"
    BY <1>5 DEF IInv, OwnersOK
  <2>2. \A q \in Res : pool'[q] = IF q = r THEN "idle" ELSE pool[q]
    BY <1>1, <2>1
  <2>3. UNCHANGED engine
    BY <1>1, <1>5 DEF engine
  <2>4. CASE holder[r] = "query_result"
    BY <1>1, <1>2, <1>5, <2>1, <2>2, <2>3, <2>4, ParkKeeps
  <2>5. CASE holder[r] = "wrapper"
    BY <1>1, <1>2, <1>5, <2>1, <2>2, <2>3, <2>5, ParkKeeps
  <2>6. QED
    BY <1>5, <2>4, <2>5
<1>6. QED
  BY <1>3, <1>4, <1>5 DEF FinalizeResult

\* What a batch that is handed out, or lost, does to its result's rows and answer.
LEMMA RowsLeave ==
  ASSUME TypeOK, NEW r \in Res, NEW n \in 0..left[r], NEW answer \in Answers, Hands(r, n) \/ Loses(r, n, answer)
  PROVE  /\ left' \in [Res -> Nat] /\ lost' \in [Res -> Nat] /\ told' \in [Res -> Answers]
         /\ left'[r] = left[r] - n /\ \A q \in Res : q # r => left'[q] = left[q] /\ told'[q] = told[q]
         /\ Hands(r, n) => told'[r] = IF n = 0 THEN "end" ELSE "rows"
         /\ Loses(r, n, answer) => told'[r] = answer
<1>1. left[r] \in Nat /\ n \in Nat /\ left[r] - n \in Nat /\ lost[r] + n \in Nat
  BY DEF TypeOK, TypeOfReading
<1>2. left' = [left EXCEPT ![r] = @ - n]
  BY DEF Hands, Loses
<1>3. left' \in [Res -> Nat] /\ left'[r] = left[r] - n /\ \A q \in Res : q # r => left'[q] = left[q]
  BY <1>1, <1>2 DEF TypeOK, TypeOfReading
<1>4. CASE Hands(r, n)
  <2>1. lost' = lost /\ told' = [told EXCEPT ![r] = IF n = 0 THEN "end" ELSE "rows"]
    BY <1>4 DEF Hands
  <2>2. /\ told' \in [Res -> Answers] /\ told'[r] = IF n = 0 THEN "end" ELSE "rows"
        /\ \A q \in Res : q # r => told'[q] = told[q]
    BY <2>1 DEF TypeOK, TypeOfReading, Answers
  <2>3. Loses(r, n, answer) => told'[r] = answer
    BY DEF Loses, TypeOK, TypeOfReading
  <2>4. QED
    BY <1>3, <2>1, <2>2, <2>3 DEF TypeOK, TypeOfReading
<1>5. CASE Loses(r, n, answer)
  <2>1. lost' = [lost EXCEPT ![r] = @ + n] /\ told' = [told EXCEPT ![r] = answer]
    BY <1>5 DEF Loses
  <2>2. /\ told' \in [Res -> Answers] /\ told'[r] = answer /\ \A q \in Res : q # r => told'[q] = told[q]
        /\ lost' \in [Res -> Nat]
    BY <1>1, <2>1 DEF TypeOK, TypeOfReading
  <2>3. Hands(r, n) => told'[r] = IF n = 0 THEN "end" ELSE "rows"
    BY DEF Hands, TypeOK, TypeOfReading
  <2>4. QED
    BY <1>3, <2>2, <2>3
<1>6. QED
  BY <1>4, <1>5

\* A read that may have seen the end, and one that has: the query is over with it.
LEMMA EndSeen ==
  ASSUME TypeOK, NEW r \in Res, NEW over \in BOOLEAN, SeesEnd(r, over)
  PROVE  /\ finished' \in [Res -> BOOLEAN] /\ finished'[r] = over /\ failed' = failed
         /\ \A q \in Res : q # r => finished'[q] = finished[q]
         /\ active' \in [Ctx -> Res \cup {NoRes}]
         /\ \A c \in Ctx : active'[c] = IF over /\ active[c] = r THEN NoRes ELSE active[c]
<1>1. finished' = [finished EXCEPT ![r] = over] /\ failed' = failed
      /\ active' = IF over THEN ActiveAfterClosing({r}) ELSE active
  BY DEF SeesEnd
<1>2. finished' \in [Res -> BOOLEAN] /\ finished'[r] = over /\ \A q \in Res : q # r => finished'[q] = finished[q]
  BY <1>1 DEF TypeOK, TypeOfReading
<1>3. CASE over
  BY <1>1, <1>2, <1>3, ClosingEffect
<1>4. CASE ~over
  BY <1>1, <1>2, <1>4 DEF TypeOK, TypeOfEngine
<1>5. QED
  BY <1>3, <1>4

LEMMA FailureSeen ==
  ASSUME TypeOK, NEW r \in Res, NEW n \in 0..left[r], Fails(r, n)
  PROVE  /\ left' \in [Res -> Nat] /\ lost' \in [Res -> Nat] /\ told' \in [Res -> Answers]
         /\ finished' \in [Res -> BOOLEAN] /\ failed' \in [Res -> BOOLEAN]
         /\ left'[r] = left[r] - n /\ told'[r] = "error" /\ finished'[r] /\ failed'[r]
         /\ \A q \in Res : q # r => left'[q] = left[q] /\ told'[q] = told[q] /\ finished'[q] = finished[q] /\ failed'[q] = failed[q]
         /\ active' \in [Ctx -> Res \cup {NoRes}]
         /\ \A c \in Ctx : active'[c] = IF active[c] = r THEN NoRes ELSE active[c]
<1>1. /\ Loses(r, n, "error") /\ failed' = [failed EXCEPT ![r] = TRUE] /\ finished' = [finished EXCEPT ![r] = TRUE]
      /\ active' = ActiveAfterClosing({r}) /\ "error" \in Answers
  BY DEF Fails, Answers
<1>2. /\ finished' \in [Res -> BOOLEAN] /\ failed' \in [Res -> BOOLEAN] /\ finished'[r] /\ failed'[r]
      /\ \A q \in Res : q # r => finished'[q] = finished[q] /\ failed'[q] = failed[q]
  BY <1>1 DEF TypeOK, TypeOfReading
<1>3. QED
  <2>1. /\ left' \in [Res -> Nat] /\ lost' \in [Res -> Nat] /\ told' \in [Res -> Answers]
        /\ left'[r] = left[r] - n /\ told'[r] = "error"
        /\ \A q \in Res : q # r => left'[q] = left[q] /\ told'[q] = told[q]
    BY <1>1, RowsLeave
  <2>2. /\ active' \in [Ctx -> Res \cup {NoRes}]
        /\ \A c \in Ctx : active'[c] = IF active[c] = r THEN NoRes ELSE active[c]
    BY <1>1, ClosingEffect
  <2>3. QED
    BY <1>2, <2>1, <2>2

\* A read of a result that has rows: a batch, one that is lost, or the query's error.
ReadsOn(r, k) == HasRows(r) /\ (Batch(r, k) \/ BatchLost(r, k) \/ ReadFails(r, k))

\* What a read of r answers is true of the rows left, and every other result and its context stand still.
LEMMA ReadEffect ==
  ASSUME IInv, NEW r \in Res, NEW k \in Batches,
         \/ ReadsOn(r, k)
         \/ ~HasRows(r) /\ AnswerWithoutRows(r) /\ holder[r] \in {"query_result", "wrapper", "reader"}
  PROVE  /\ active' \in [Ctx -> Res \cup {NoRes}]
         /\ left' \in [Res -> Nat] /\ lost' \in [Res -> Nat] /\ told' \in [Res -> Answers]
         /\ finished' \in [Res -> BOOLEAN] /\ failed' \in [Res -> BOOLEAN]
         /\ \A q \in Res : q # r => left'[q] = left[q] /\ told'[q] = told[q] /\ finished'[q] = finished[q] /\ failed'[q] = failed[q]
         /\ \A c \in Ctx : active'[c] = active[c] \/ (active[c] = r /\ active'[c] = NoRes)
         /\ told'[r] = "end" \/ finished'[r] \/ failed'[r] => \A c \in Ctx : active'[c] # r
         /\ told'[r] = "end" => left'[r] = 0
         /\ finished'[r] /\ ~invalidated[r] /\ ~failed'[r] => left'[r] = 0
         /\ IsOpen(r) /\ ~IsOpen(r)' /\ ~failed'[r] => left'[r] = 0
         /\ left[r] = 0 => left'[r] = 0
         /\ failed[r] => failed'[r]
<1> USE DEF IInv
<1> DEFINE taken == RowsTaken(r, k)
<1>1. /\ left[r] \in Nat /\ k \in Nat \ {0} /\ taken \in 0..left[r]
      /\ (taken < k => taken = left[r]) /\ (taken = 0 => taken < k)
      /\ r # NoRes /\ Home[r] \in Ctx
      /\ \A n \in 0..taken : n \in 0..left[r] /\ (n < k => n \in Nat)
  BY ConstantsAssumption DEF Batches, TypeOK, TypeOfReading, RowsTaken
<1> HIDE DEF taken
<1>2. ASSUME HasRows(r), NEW n \in 0..left[r], NEW over \in BOOLEAN, NEW answer \in Answers, answer # "end",
             Hands(r, n) \/ Loses(r, n, answer), SeesEnd(r, over), over => n = left[r], Hands(r, n) /\ n = 0 => over
      PROVE  /\ active' \in [Ctx -> Res \cup {NoRes}]
             /\ left' \in [Res -> Nat] /\ lost' \in [Res -> Nat] /\ told' \in [Res -> Answers]
             /\ finished' \in [Res -> BOOLEAN] /\ failed' = failed /\ ~failed[r] /\ failed' \in [Res -> BOOLEAN]
             /\ \A q \in Res : q # r => left'[q] = left[q] /\ told'[q] = told[q] /\ finished'[q] = finished[q]
             /\ \A c \in Ctx : active'[c] = active[c] \/ (active[c] = r /\ active'[c] = NoRes)
             /\ told'[r] = "end" \/ finished'[r] => \A c \in Ctx : active'[c] # r
             /\ told'[r] = "end" => left'[r] = 0
             /\ finished'[r] => left'[r] = 0
             /\ IsOpen(r) /\ ~IsOpen(r)' => left'[r] = 0
             /\ left[r] = 0 => left'[r] = 0
  <2>1. /\ left' \in [Res -> Nat] /\ lost' \in [Res -> Nat] /\ told' \in [Res -> Answers] /\ left'[r] = left[r] - n
        /\ \A q \in Res : q # r => left'[q] = left[q] /\ told'[q] = told[q]
        /\ told'[r] = "end" => over
    BY <1>2, RowsLeave
  <2>2. /\ finished' \in [Res -> BOOLEAN] /\ finished'[r] = over /\ failed' = failed
        /\ \A q \in Res : q # r => finished'[q] = finished[q]
        /\ active' \in [Ctx -> Res \cup {NoRes}]
        /\ \A c \in Ctx : active'[c] = IF over /\ active[c] = r THEN NoRes ELSE active[c]
    BY <1>2, EndSeen
  <2>3. n \in Nat /\ (over => left'[r] = 0) /\ (left[r] = 0 => left'[r] = 0)
    BY <1>1, <1>2, <2>1
  <2>4. over => \A c \in Ctx : active'[c] # r
    BY <1>1, <2>2
  <2>5. IsOpen(r) /\ ~IsOpen(r)' => over
    BY <1>1, <2>2 DEF IsOpen
  <2>6. ~failed[r] /\ failed \in [Res -> BOOLEAN]
    BY <1>2 DEF HasRows, Decided, TypeOK, TypeOfReading
  <2>7. QED
    BY <2>1, <2>2, <2>3, <2>4, <2>5, <2>6
<1>3. CASE HasRows(r) /\ Batch(r, k)
  <2>1. Hands(r, taken) /\ SeesEnd(r, taken < k) /\ (taken < k) \in BOOLEAN
    BY <1>3 DEF Batch, taken
  <2>2. "rows" \in Answers
    BY DEF Answers
  <2> HIDE DEF IInv
  <2>3. QED
    BY <1>1, <1>2, <1>3, <2>1, <2>2
<1>4. CASE HasRows(r) /\ BatchLost(r, k)
  <2>1. PICK n \in 0..taken : Loses(r, n, "dropped") /\ SeesEnd(r, 0 < n /\ n < k /\ n = left[r])
    BY <1>4 DEF BatchLost, taken
  <2>2. n \in 0..left[r] /\ "dropped" \in Answers /\ (0 < n /\ n < k /\ n = left[r]) \in BOOLEAN
    BY <1>1 DEF Answers
  <2>3. ~Hands(r, n) \/ n # 0
    BY <2>1 DEF Hands, Loses, TypeOK, TypeOfReading
  <2> HIDE DEF IInv
  <2>4. QED
    BY <1>2, <1>4, <2>1, <2>2, <2>3
<1>5. CASE HasRows(r) /\ ReadFails(r, k)
  <2>1. PICK n \in 0..taken : Fails(r, n)
    BY <1>5 DEF ReadFails, taken
  <2>2. n \in 0..left[r]
    BY <1>1
  <2>3. /\ left' \in [Res -> Nat] /\ lost' \in [Res -> Nat] /\ told' \in [Res -> Answers]
        /\ finished' \in [Res -> BOOLEAN] /\ failed' \in [Res -> BOOLEAN]
        /\ left'[r] = left[r] - n /\ told'[r] = "error" /\ failed'[r]
        /\ \A q \in Res : q # r => left'[q] = left[q] /\ told'[q] = told[q] /\ finished'[q] = finished[q] /\ failed'[q] = failed[q]
        /\ active' \in [Ctx -> Res \cup {NoRes}]
        /\ \A c \in Ctx : active'[c] = IF active[c] = r THEN NoRes ELSE active[c]
    BY <2>1, <2>2, FailureSeen
  <2>4. \A c \in Ctx : active'[c] # r
    BY <1>1, <2>3
  <2>5. left[r] = 0 => left'[r] = 0
    <3>1. left[r] \in Nat /\ n \in Nat /\ n <= left[r] /\ left'[r] = left[r] - n
      BY <1>1, <2>2, <2>3
    <3>2. QED
      BY <3>1
  <2>6. QED
    BY <2>3, <2>4, <2>5
<1>6. CASE ~HasRows(r) /\ AnswerWithoutRows(r) /\ holder[r] \in {"query_result", "wrapper", "reader"}
  <2> DEFINE answer == AnswerAtOnce(r)
  <2>1. /\ ~HasRows(r) /\ told' = [told EXCEPT ![r] = answer]
        /\ finished' = [finished EXCEPT ![r] = @ \/ answer = "end"]
        /\ UNCHANGED <<left, lost, failed, active>>
    BY <1>6 DEF AnswerWithoutRows
  <2>2. /\ answer \in {"invalidated", "error", "end"}
        /\ answer = "end" => ~invalidated[r] /\ ~failed[r]
    BY DEF AnswerAtOnce
  <2>3. answer = "end" => left[r] = 0 /\ ~IsOpen(r)
    <3>1. IsOpen(r) => ~finished[r]
      BY <1>1 DEF OpenOK, IsOpen
    <3>2. QED
      BY <1>6, <2>1, <2>2, <3>1 DEF HasRows, Decided, EndsEmpty
  <2> HIDE DEF answer
  <2>4. IsOpen(r) => ~finished[r] /\ ~failed[r]
    BY <1>1 DEF OpenOK, IsOpen
  <2>5. ~IsOpen(r) => \A c \in Ctx : active[c] # r
    BY <1>1 DEF OpenOK, IsOpen
  <2>6. /\ told' \in [Res -> Answers] /\ finished' \in [Res -> BOOLEAN]
        /\ told'[r] = answer /\ (finished'[r] <=> finished[r] \/ answer = "end")
        /\ \A q \in Res : q # r => told'[q] = told[q] /\ finished'[q] = finished[q]
    BY <2>1, <2>2 DEF TypeOK, TypeOfReading, Answers
  <2>7. QED
    BY <2>1, <2>2, <2>3, <2>4, <2>5, <2>6 DEF TypeOK, TypeOfEngine, TypeOfReading, EndsEmpty, IsOpen
<1>7. QED
  BY <1>3, <1>4, <1>5, <1>6 DEF ReadsOn

LEMMA ReadEndsKept ==
  ASSUME IInv, NEW r \in Res, NEW k \in Batches,
         \/ ReadsOn(r, k)
         \/ ~HasRows(r) /\ AnswerWithoutRows(r) /\ holder[r] \in {"query_result", "wrapper", "reader"},
         UNCHANGED <<streamed, invalidated>>,
         \A q \in Res : holder'[q] \in {"query_result", "wrapper", "reader"} =>
           holder[q] \in {"query_result", "wrapper", "reader"}
  PROVE  EndsEmpty' /\ WholeForR'
<1>1. \A q \in Res : q # r => (IsOpen(q)' <=> IsOpen(q))
  BY ReadEffect, ConstantsAssumption DEF IsOpen
<1>2. \A q \in Res : q # r =>
        left'[q] = left[q] /\ told'[q] = told[q] /\ finished'[q] = finished[q] /\ failed'[q] = failed[q]
  BY ReadEffect
<1>3. /\ told'[r] = "end" => left'[r] = 0
      /\ finished'[r] /\ ~invalidated[r] /\ ~failed'[r] => left'[r] = 0
      /\ IsOpen(r) /\ ~IsOpen(r)' /\ ~failed'[r] => left'[r] = 0
      /\ left[r] = 0 => left'[r] = 0
      /\ failed[r] => failed'[r]
  BY ReadEffect
<1>4. QED
  BY <1>1, <1>2, <1>3 DEF IInv, EndsEmpty, WholeForR

\* r goes from one consumer to another, or is read: its source takes the place of its query result.
LEMMA TakenKept ==
  ASSUME IInv, TypeOK', NEW r \in Res, holder[r] \in {"query_result", "wrapper", "reader"},
         holder'[r] \in {"wrapper", "reader", "gone"}, holder'[r] = "wrapper" => r \in alive,
         \A q \in Res : q # r => holder'[q] = holder[q] /\ pool'[q] = pool[q],
         pool'[r] # "closing", pool'[r] # "idle" => holder'[r] = "reader" /\ r \in PoolStreams,
         pool'[r] \in PoolReads => r \in streamed,
         \A q \in Res : q # r =>
           left'[q] = left[q] /\ told'[q] = told[q] /\ finished'[q] = finished[q] /\ failed'[q] = failed[q],
         UNCHANGED <<alive, streamed, invalidated, marked>>,
         \A c \in Ctx : \A o \in OpenResult : o.res # r => (o \in Reachable(c)' <=> o \in Reachable(c)),
         \A c \in Ctx : \A o \in OpenResult : o \in Reachable(c)' /\ o.res = r =>
           o.kind = "source" /\ c = Home[r] /\ holder'[r] # "gone",
         \A c \in Ctx : active'[c] = active[c] \/ active'[c] = NoRes,
         active'[Home[r]] = r =>
           SourceOf(r) \in Reachable(Home[r])' /\ holder'[r] # "gone" /\ ~failed'[r] /\ ~finished'[r]
  PROVE  OwnersOK' /\ TrackedIsLive' /\ OpenOK'
<1> USE DEF IInv, Core
<1>1. ASSUME NEW c \in Ctx
      PROVE  Reachable(c) \subseteq OpenResult /\ Reachable(c)' \subseteq OpenResult
  BY DEF TypeOK, TypeOfThread, TypeOfObjects, Reachable
<1>2. OwnersOK'
  <2>1. ASSUME NEW q \in Res, pool'[q] = "closing", NEW c \in Ctx, NEW o \in Reachable(c)' PROVE o.res # q
    BY <1>1, <2>1 DEF OwnersOK
  <2>2. QED
    BY <2>1 DEF OwnersOK
<1>3. TrackedIsLive'
  <2>1. ASSUME NEW c \in Ctx, NEW o \in Reachable(c)' PROVE Home[o.res] = c /\ Registered(o)'
    <3>1. o \in OpenResult /\ o.res \in Res
      BY <1>1 DEF OpenResult
    <3>2. CASE o.res = r
      BY <3>1, <3>2 DEF Registered
    <3>3. CASE o.res # r
      <4>1. o \in Reachable(c)
        BY <3>1, <3>3
      <4>2. QED
        BY <3>1, <3>3, <4>1 DEF TrackedIsLive, Registered
    <3>4. QED
      BY <3>2, <3>3
  <2>2. QED
    BY <2>1, LiveKept
<1>4. OpenOK'
  <2>1. ASSUME NEW q \in Res, q # r
        PROVE  /\ Tracker(q)' = Tracker(q)
               /\ \A c \in Ctx : Tracker(q) \in Reachable(c)' <=> Tracker(q) \in Reachable(c)
    <3>1. Tracker(q)' = Tracker(q)
      BY <2>1 DEF Tracker
    <3>2. Tracker(q) \in OpenResult /\ Tracker(q).res # r
      BY <2>1, Fields DEF Tracker
    <3>3. QED
      BY <3>1, <3>2
  <2>2. holder'[r] \in {"wrapper", "reader"} => Tracker(r)' = SourceOf(r)
    BY DEF Tracker
  <2>3. ASSUME NEW c \in Ctx, active'[c] # NoRes PROVE active'[c] = active[c] /\ active[c] \in Res
    BY <2>3 DEF TypeOK, TypeOfEngine
  <2>4. ASSUME NEW c \in Ctx, active'[c] = r PROVE Home[r] = c
    BY <2>3, <2>4, ConstantsAssumption DEF OpenOK
  <2>5. QED
    BY <2>1, <2>2, <2>3, <2>4 DEF OpenOK
<1>5. QED
  BY <1>2, <1>3, <1>4

\* A tracked source of an open result stays tracked, and one that is made is.
LEMMA SourceTracked ==
  ASSUME IInv, NEW r \in Res, active[Home[r]] = r, ending = NoCtx, pool[r] # "closing",
         \/ UNCHANGED tracked /\ holder[r] \in {"wrapper", "reader"}
         \/ tracked' = TrackedAsSource(r)
  PROVE  SourceOf(r) \in tracked'[Home[r]]
<1> USE DEF IInv, Core
<1>1. Home[r] \in Ctx /\ r # NoRes /\ ending # Home[r]
  BY ConstantsAssumption
<1>2. /\ r \in streamed /\ ~invalidated[r]
      /\ holder[r] \in {"wrapper", "reader"} => SourceOf(r) \in tracked[Home[r]]
  BY <1>1 DEF OpenOK, Tracker, Reachable, StackOK, TypeOK, TypeOfThread
<1>3. QED
  BY <1>1, <1>2, TrackingEffect

\* What WrapperAfterRead(r), and taking the source in any other way, leaves behind.
LEMMA TakenEffect ==
  ASSUME IInv, NEW r \in Res, holder[r] \in {"query_result", "wrapper", "reader"}, ending = NoCtx, ending' = NoCtx,
         \/ UNCHANGED tracked /\ holder[r] \in {"wrapper", "reader"}
            /\ holder'[r] # "gone"
         \/ tracked' = TrackedAsSource(r) /\ holder'[r] # "gone"
         \/ tracked' = TrackedWithout({r})
  PROVE  /\ tracked' \in [Ctx -> SUBSET OpenResult]
         /\ \A c \in Ctx : Reachable(c) = tracked[c] /\ Reachable(c)' = tracked'[c]
         /\ \A c \in Ctx : \A o \in OpenResult : o.res # r => (o \in Reachable(c)' <=> o \in Reachable(c))
         /\ \A c \in Ctx : \A o \in OpenResult : o \in Reachable(c)' /\ o.res = r =>
              o.kind = "source" /\ c = Home[r] /\ holder'[r] # "gone"
<1> USE DEF IInv, Core
<1>1. \A c \in Ctx : Reachable(c) = tracked[c] /\ Reachable(c)' = tracked'[c]
  BY ConstantsAssumption DEF Reachable
<1>2. \A c \in Ctx : \A o \in tracked[c] :
        o.res = r => c = Home[r] /\ (holder[r] \in {"wrapper", "reader"} => o.kind = "source")
  BY <1>1 DEF TrackedIsLive, Registered, TypeOK, TypeOfObjects, OpenResult
<1>3. CASE UNCHANGED tracked /\ holder[r] \in {"wrapper", "reader"}  /\ holder'[r] # "gone"
  BY <1>1, <1>2, <1>3 DEF TypeOK, TypeOfObjects
<1>4. CASE tracked' = TrackedAsSource(r) /\ holder'[r] # "gone"
  BY <1>1, <1>4, TrackingEffect, Fields
<1>5. CASE tracked' = TrackedWithout({r})
  <2>1. tracked' \in [Ctx -> SUBSET OpenResult] /\ \A c \in Ctx : tracked'[c] = {o \in tracked[c] : o.res \notin {r}}
    BY <1>5, UntrackingEffect
  <2>2. \A c \in Ctx : \A o : o \in tracked'[c] <=> o \in tracked[c] /\ o.res # r
    BY <2>1
  <2>3. QED
    BY <1>1, <2>1, <2>2
<1>6. QED
  BY <1>3, <1>4, <1>5

LEMMA HandOverKeeps ==
  ASSUME IInv, NEW r \in Res, HandOver(r)
  PROVE  Core'
<1> USE DEF IInv, Core
<1>1. /\ ending = NoCtx /\ r \notin BeingRead /\ holder[r] \in {"query_result", "wrapper"}
      /\ holder' = [holder EXCEPT ![r] = "reader"]
      /\ tracked' = IF holder[r] = "query_result" THEN TrackedAsSource(r) ELSE tracked
      /\ UNCHANGED <<rThread, engine, alive, streamed, reading, ahead>>
  BY DEF HandOver, RCode
<1>2. /\ holder' \in [Res -> Holders] /\ holder'[r] = "reader" /\ \A q \in Res : q # r => holder'[q] = holder[q]
      /\ pool[r] = "idle" /\ ending' = NoCtx
  BY <1>1 DEF TypeOK, TypeOfObjects, Holders, OwnersOK, rThread
<1>3. \/ UNCHANGED tracked /\ holder[r] \in {"wrapper", "reader"} /\ holder'[r] # "gone"
      \/ tracked' = TrackedAsSource(r) /\ holder'[r] # "gone"
  BY <1>1, <1>2
<1>4. TypeOK'
  BY <1>1, <1>2, <1>3, TakenEffect
  DEF TypeOK, TypeOfThread, TypeOfEngine, TypeOfObjects, TypeOfReading, rThread, engine, reading
<1>5. StackOK'
  BY <1>1 DEF StackOK, rThread
<1>6. LocksHold'
  BY <1>1, <1>2, LocksKept DEF rThread, engine
<1>7. EndsEmpty' /\ WholeForR'
  BY <1>1, <1>2, EndsKept DEF IsOpen, engine, reading
<1>8. OwnersOK' /\ TrackedIsLive' /\ OpenOK'
  <2>1. active'[Home[r]] = r =>
          SourceOf(r) \in Reachable(Home[r])' /\ holder'[r] # "gone" /\ ~failed'[r] /\ ~finished'[r]
    <3>1. active[Home[r]] = r => SourceOf(r) \in tracked'[Home[r]]
      BY <1>1, <1>2, <1>3, SourceTracked
    <3>2. Home[r] \in Ctx /\ r # NoRes
      BY ConstantsAssumption
    <3>3. QED
      <4>1. Reachable(Home[r])' = tracked'[Home[r]]
        BY <1>1, <1>2, <1>3, <3>2, TakenEffect
      <4>2. active[Home[r]] = r => ~failed'[r] /\ ~finished'[r]
        BY <1>1, <3>2 DEF OpenOK, reading
      <4>3. QED
        BY <1>1, <1>2, <1>3, <3>1, <4>1, <4>2 DEF engine
  <2>2. /\ \A c \in Ctx : \A o \in OpenResult : o.res # r => (o \in Reachable(c)' <=> o \in Reachable(c))
        /\ \A c \in Ctx : \A o \in OpenResult : o \in Reachable(c)' /\ o.res = r =>
              o.kind = "source" /\ c = Home[r] /\ holder'[r] # "gone"
    BY <1>1, <1>2, <1>3, TakenEffect
  <2>3. QED
    BY <1>1, <1>2, <1>4, <2>1, <2>2, TakenKept DEF PoolReads, rThread, engine, reading
<1>9. QED
  BY <1>4, <1>5, <1>6, <1>7, <1>8

LEMMA BeginReadKeeps ==
  ASSUME IInv, NEW r \in Res, BeginRead(r)
  PROVE  Core'
<1> USE DEF IInv, Core
<1>1. /\ ending = NoCtx /\ todo = {} /\ Readable(r) /\ r \notin BeingRead
      /\ r \in streamed /\ HasRows(r) /\ LockFree(Home[r]) /\ Push(ReadFrame(r)) /\ atR' = FALSE
      /\ IF holder[r] = "query_result"
         THEN holder' = [holder EXCEPT ![r] = "wrapper"] /\ tracked' = TrackedAsSource(r)
         ELSE UNCHANGED <<holder, tracked>>
      /\ UNCHANGED <<ending, todo, ends, engine, alive, streamed, reading, ahead>>
  BY DEF BeginRead, RCode, StackOK
<1>2. /\ ReadFrame(r) \in Frame /\ ReadFrame(r).ctx = Home[r]
      /\ ReadFrame(r).kind = "read" /\ ReadFrame(r).res = r
  BY ConstantsAssumption DEF ReadFrame, Frame
<1>3. /\ holder' \in [Res -> Holders] /\ \A q \in Res : q # r => holder'[q] = holder[q]
      /\ \/ holder'[r] = "wrapper" /\ r \in alive /\ holder[r] \in {"query_result", "wrapper"}
         \/ holder'[r] = "reader" /\ holder[r] = "reader" /\ r \notin PoolStreams
      /\ pool[r] = "idle" /\ active[Home[r]] = r
  BY <1>1 DEF TypeOK, TypeOfObjects, Holders, OwnersOK, Readable, HasRows, IsOpen
<1>4. \/ UNCHANGED tracked /\ holder[r] \in {"wrapper", "reader"} /\ holder'[r] # "gone"
      \/ tracked' = TrackedAsSource(r) /\ holder'[r] # "gone"
  BY <1>1, <1>3
<1>5. TypeOfThread' /\ StackOK'
  BY <1>1, <1>2, StackPushed
<1>6. TypeOK'
  BY <1>1, <1>3, <1>4, <1>5, TakenEffect DEF TypeOK, TypeOfEngine, TypeOfObjects, TypeOfReading, engine, reading
<1>7. LocksHold'
  BY <1>1, <1>2, <1>3, LocksPushed DEF engine
<1>8. EndsEmpty' /\ WholeForR'
  BY <1>1, <1>3, EndsKept DEF IsOpen, engine, reading
<1>9. OwnersOK' /\ TrackedIsLive' /\ OpenOK'
  <2>1. SourceOf(r) \in Reachable(Home[r])' /\ ~failed'[r] /\ ~finished'[r]
    <3>1. SourceOf(r) \in tracked'[Home[r]]
      BY <1>1, <1>3, <1>4, SourceTracked
    <3>2. Home[r] \in Ctx /\ r # NoRes
      BY ConstantsAssumption
    <3>3. QED
      <4>1. Reachable(Home[r])' = tracked'[Home[r]]
        BY <1>1, <1>3, <1>4, <3>2, TakenEffect
      <4>2. active[Home[r]] = r => ~failed'[r] /\ ~finished'[r]
        BY <1>1, <3>2 DEF OpenOK, reading
      <4>3. QED
        BY <1>1, <1>3, <1>4, <3>1, <4>1, <4>2 DEF engine
  <2>2. /\ \A c \in Ctx : \A o \in OpenResult : o.res # r => (o \in Reachable(c)' <=> o \in Reachable(c))
        /\ \A c \in Ctx : \A o \in OpenResult : o \in Reachable(c)' /\ o.res = r =>
              o.kind = "source" /\ c = Home[r] /\ holder'[r] # "gone"
    BY <1>1, <1>3, <1>4, TakenEffect
  <2>3. QED
    BY <1>1, <1>3, <1>6, <2>1, <2>2, TakenKept DEF engine, reading
<1>10. QED
  BY <1>5, <1>6, <1>7, <1>8, <1>9

\* What rapi_fetch_arrow_array() does to the owner of what it read.
LEMMA WrapperEffect ==
  ASSUME IInv, NEW r \in Res, Readable(r), WrapperAfterRead(r), ending = NoCtx, ending' = NoCtx,
         told'[r] = "end" => active'[Home[r]] # r,
         active'[Home[r]] = r => active[Home[r]] = r /\ ~failed'[r] /\ ~finished'[r]
  PROVE  /\ holder' \in [Res -> Holders] /\ \A q \in Res : q # r => holder'[q] = holder[q]
         /\ holder[r] \in {"query_result", "wrapper", "reader"} /\ holder'[r] \in {"wrapper", "reader", "gone"}
         /\ holder'[r] = "wrapper" => r \in alive
         /\ pool[r] = "idle"
         /\ tracked' \in [Ctx -> SUBSET OpenResult]
         /\ \A c \in Ctx : \A o \in OpenResult : o.res # r => (o \in Reachable(c)' <=> o \in Reachable(c))
         /\ \A c \in Ctx : \A o \in OpenResult : o \in Reachable(c)' /\ o.res = r =>
              o.kind = "source" /\ c = Home[r] /\ holder'[r] # "gone"
         /\ active'[Home[r]] = r =>
              SourceOf(r) \in Reachable(Home[r])' /\ holder'[r] # "gone" /\ ~failed'[r] /\ ~finished'[r]
<1> USE DEF IInv, Core
<1>1. /\ holder' \in [Res -> Holders] /\ \A q \in Res : q # r => holder'[q] = holder[q]
      /\ \/ holder'[r] = "wrapper" /\ r \in alive /\ holder[r] \in {"query_result", "wrapper"} /\ told'[r] # "end"
         \/ holder'[r] = "reader" /\ holder[r] = "reader" /\ r \notin PoolStreams
         \/ holder'[r] = "gone" /\ holder[r] \in {"query_result", "wrapper"} /\ told'[r] = "end"
  BY DEF WrapperAfterRead, Readable, TypeOK, TypeOfObjects, Holders
<1>2. pool[r] = "idle"
  BY <1>1 DEF OwnersOK
<1>3. \/ UNCHANGED tracked /\ holder[r] \in {"wrapper", "reader"} /\ holder'[r] # "gone"
      \/ tracked' = TrackedAsSource(r) /\ holder'[r] # "gone"
      \/ tracked' = TrackedWithout({r}) /\ told'[r] = "end"
  BY <1>1 DEF WrapperAfterRead
<1>4. active'[Home[r]] = r => SourceOf(r) \in tracked'[Home[r]] /\ holder'[r] # "gone"
  BY <1>1, <1>2, <1>3, SourceTracked
<1>5. Home[r] \in Ctx
  BY ConstantsAssumption
<1>6. /\ tracked' \in [Ctx -> SUBSET OpenResult]
      /\ \A c \in Ctx : Reachable(c) = tracked[c] /\ Reachable(c)' = tracked'[c]
      /\ \A c \in Ctx : \A o \in OpenResult : o.res # r => (o \in Reachable(c)' <=> o \in Reachable(c))
      /\ \A c \in Ctx : \A o \in OpenResult : o \in Reachable(c)' /\ o.res = r =>
              o.kind = "source" /\ c = Home[r] /\ holder'[r] # "gone"
  BY <1>1, <1>3, TakenEffect
<1>7. QED
  BY <1>1, <1>2, <1>4, <1>5, <1>6

LEMMA ReadAtOnceKeeps ==
  ASSUME IInv, NEW r \in Res, NEW k \in Batches, ReadAtOnce(r, k)
  PROVE  Core'
<1> USE DEF IInv, Core
<1>1. /\ ending = NoCtx /\ ending' = NoCtx /\ Readable(r) /\ r \notin BeingRead /\ WrapperAfterRead(r)
      /\ \/ ~HasRows(r) /\ AnswerWithoutRows(r)
         \/ r \notin streamed /\ ReadsOn(r, k)
      /\ UNCHANGED <<rThread, connected, alive, streamed, invalidated, ahead>>
  BY DEF ReadAtOnce, ReadsOn, RCode, rThread
<1>2. \/ ReadsOn(r, k)
      \/ ~HasRows(r) /\ AnswerWithoutRows(r) /\ holder[r] \in {"query_result", "wrapper", "reader"}
  BY <1>1 DEF Readable
<1>3. /\ \A c \in Ctx : active'[c] = active[c] \/ (active[c] = r /\ active'[c] = NoRes)
      /\ told'[r] = "end" \/ finished'[r] \/ failed'[r] => \A c \in Ctx : active'[c] # r
      /\ \A q \in Res : q # r =>
           left'[q] = left[q] /\ told'[q] = told[q] /\ finished'[q] = finished[q] /\ failed'[q] = failed[q]
      /\ active' \in [Ctx -> Res \cup {NoRes}]
  BY <1>2, ReadEffect
<1>4. TypeOfReading'
  BY <1>1, <1>2, ReadEffect DEF TypeOK, TypeOfReading
<1>5. Home[r] \in Ctx /\ r # NoRes
  BY ConstantsAssumption
<1>6. /\ told'[r] = "end" => active'[Home[r]] # r
      /\ active'[Home[r]] = r => active[Home[r]] = r /\ ~failed'[r] /\ ~finished'[r]
  BY <1>3, <1>5
<1>7. TypeOK'
  BY <1>1, <1>3, <1>4, <1>6, WrapperEffect DEF TypeOK, TypeOfThread, TypeOfEngine, TypeOfObjects, rThread
<1>8. StackOK'
  BY <1>1 DEF StackOK, rThread
<1>9. LocksHold'
  <2>1. \A c \in Ctx : active'[c] = active[c]
    <3>1. CASE AnswerWithoutRows(r)
      BY <3>1 DEF AnswerWithoutRows
    <3>2. CASE r \notin streamed
      BY <1>3, <1>5, <3>2 DEF OpenOK
    <3>3. QED
      BY <1>1, <3>1, <3>2
  <2>2. QED
    BY <1>1, <1>6, <2>1, WrapperEffect, LocksKept DEF rThread
<1>10. EndsEmpty' /\ WholeForR'
  BY <1>1, <1>2, <1>6, WrapperEffect, ReadEndsKept
<1>11. OwnersOK' /\ TrackedIsLive' /\ OpenOK'
  BY <1>1, <1>3, <1>6, <1>7, WrapperEffect, TakenKept DEF PoolReads, rThread
<1>12. QED
  BY <1>7, <1>8, <1>9, <1>10, <1>11

LEMMA EndReadKeeps ==
  ASSUME IInv, NEW r \in Res, NEW k \in Batches, EndRead(r, k)
  PROVE  Core'
<1> USE DEF IInv, Core
<1>1. /\ ~atR /\ Top = ReadFrame(r) /\ Pop /\ atR' = TRUE /\ WrapperAfterRead(r)
      /\ Batch(r, k) \/ BatchLost(r, k) \/ ReadFails(r, k)
      /\ UNCHANGED <<ending, todo, ends, connected, alive, streamed, invalidated, ahead>>
  BY DEF EndRead
<1>2. ending = NoCtx /\ ending' = NoCtx
  BY <1>1 DEF StackOK
<1>3. Home[r] \in Ctx /\ r # NoRes /\ Top.ctx = Home[r]
  BY <1>1, ConstantsAssumption DEF ReadFrame
<1>4. /\ active[Home[r]] = r
      /\ holder[r] = "wrapper" \/ (holder[r] = "reader" /\ r \notin PoolStreams)
  BY <1>1, PopEffect DEF LocksHold, ReadFrame
<1>5. Readable(r) /\ HasRows(r)
  BY <1>2, <1>3, <1>4 DEF Readable, HasRows, Decided, IsOpen, OpenOK, OwnersOK, StackOK, TypeOK, TypeOfThread
<1>6. ReadsOn(r, k)
  BY <1>1, <1>5 DEF ReadsOn
<1>7. /\ \A c \in Ctx : active'[c] = active[c] \/ (active[c] = r /\ active'[c] = NoRes)
      /\ told'[r] = "end" \/ finished'[r] \/ failed'[r] => \A c \in Ctx : active'[c] # r
      /\ \A q \in Res : q # r =>
           left'[q] = left[q] /\ told'[q] = told[q] /\ finished'[q] = finished[q] /\ failed'[q] = failed[q]
      /\ active' \in [Ctx -> Res \cup {NoRes}]
  BY <1>6, ReadEffect
<1>8. TypeOfReading'
  BY <1>1, <1>6, ReadEffect DEF TypeOK, TypeOfReading
<1>9. /\ told'[r] = "end" => active'[Home[r]] # r
      /\ active'[Home[r]] = r => active[Home[r]] = r /\ ~failed'[r] /\ ~finished'[r]
  BY <1>3, <1>4, <1>7
<1>10. TypeOfThread' /\ StackOK'
  BY <1>1, StackPopped
<1>11. TypeOK'
  BY <1>1, <1>2, <1>5, <1>7, <1>8, <1>9, <1>10, WrapperEffect DEF TypeOK, TypeOfEngine, TypeOfObjects
<1>12. LocksHold'
  <2>1. \A c \in Ctx : c # Home[r] => active'[c] = active[c]
    BY <1>3, <1>7 DEF OpenOK
  <2>2. \A q \in Res : q # r => holder'[q] = holder[q]
    BY <1>2, <1>5, <1>1, <1>9, WrapperEffect
  <2>3. QED
    BY <1>1, <1>3, <2>1, <2>2, LocksPopped
<1>13. EndsEmpty' /\ WholeForR'
  BY <1>1, <1>2, <1>5, <1>6, <1>9, WrapperEffect, ReadEndsKept
<1>14. OwnersOK' /\ TrackedIsLive' /\ OpenOK'
  BY <1>1, <1>2, <1>5, <1>7, <1>9, <1>11, WrapperEffect, TakenKept DEF PoolReads
<1>15. QED
  BY <1>10, <1>11, <1>12, <1>13, <1>14

\* A pool thread takes or gives back the lock of its reader's context, or ends its query under it.
LEMMA LocksPool ==
  ASSUME IInv, NEW r \in Res, UNCHANGED <<stack, holder>>,
         \A q \in Res : q # r => (pool'[q] = "fetching" <=> pool[q] = "fetching"),
         pool'[r] = "fetching" => active[Home[r]] = r /\ LockFree(Home[r]) /\ UNCHANGED active,
         pool[r] = "fetching" \/ LockFree(Home[r]) \/ UNCHANGED active,
         \A c \in Ctx : active'[c] = active[c] \/ (c = Home[r] /\ active[c] = r)
  PROVE  LocksHold'
<1> USE DEF IInv
<1>1. LockedByR' = LockedByR
  BY DEF LockedByR
<1>2. LockedByPool' \subseteq LockedByPool \cup {q \in {Home[r]} : pool'[r] = "fetching"}
  BY DEF LockedByPool
<1>3. LockedByR' \cap LockedByPool' = {}
  BY <1>1, <1>2 DEF LocksHold, LockFree
<1>4. \A i \in 1..Len(stack) : stack[i].ctx \in Ctx
  <2>1. \A i \in 1..Len(stack) : stack[i] \in Frame
    BY ElementOfSeq DEF TypeOK, TypeOfThread
  <2>2. QED
    BY <2>1 DEF Frame
<1>5. ASSUME NEW i \in 1..Len(stack) PROVE active'[stack[i].ctx] = active[stack[i].ctx]
  <2>1. stack[i].ctx \in LockedByR
    BY DEF LockedByR
  <2>2. pool[r] = "fetching" => Home[r] \in LockedByPool
    BY DEF LockedByPool
  <2>3. QED
    BY <1>4, <2>1, <2>2 DEF LocksHold, LockFree
<1>6. ASSUME NEW q \in Res, pool'[q] = "fetching" PROVE active'[Home[q]] = q
  <2>1. Home[q] \in Ctx /\ Home[r] \in Ctx
    BY ConstantsAssumption
  <2>2. CASE q = r
    BY <1>6, <2>2 DEF LocksHold
  <2>3. CASE q # r
    <3>1. active[Home[q]] = q
      BY <1>6, <2>3 DEF LocksHold
    <3>2. QED
      BY <2>1, <2>3, <3>1
  <2>4. QED
    BY <2>2, <2>3
<1>7. QED
  BY <1>3, <1>5, <1>6 DEF LocksHold

\* A pool thread's steps change nothing of R's thread, and of the owners nothing but what its reader is doing.
LEMMA PoolStepKeeps ==
  ASSUME IInv, NEW r \in Res, holder[r] = "reader", r \in PoolStreams, pool[r] # "closing",
         pool'[r] # "closing", pool'[r] \in PoolReads => r \in streamed, have' \in [Res -> Nat],
         pool' \in [Res -> PoolSteps], \A q \in Res : q # r => pool'[q] = pool[q],
         UNCHANGED <<rThread, connected, objects, streamed, invalidated>>,
         TypeOfReading', active' \in [Ctx -> Res \cup {NoRes}], 
         \A q \in Res : q # r =>
           left'[q] = left[q] /\ told'[q] = told[q] /\ finished'[q] = finished[q] /\ failed'[q] = failed[q],
         \A c \in Ctx : active'[c] = active[c] \/ (active[c] = r /\ active'[c] = NoRes),
         finished'[r] \/ failed'[r] => \A c \in Ctx : active'[c] # r
  PROVE  TypeOK' /\ StackOK' /\ OwnersOK' /\ TrackedIsLive' /\ OpenOK'
<1> USE DEF IInv, Core
<1>1. TypeOK'
  BY DEF TypeOK, TypeOfThread, TypeOfEngine, TypeOfObjects, rThread, objects
<1>2. StackOK'
  BY DEF StackOK, rThread
<1>3. \A c \in Ctx : Reachable(c)' = Reachable(c)
  BY DEF Reachable, rThread, objects
<1>4. /\ \A c \in Ctx : \A o \in OpenResult : o.res # r => (o \in Reachable(c)' <=> o \in Reachable(c))
      /\ \A c \in Ctx : \A o \in OpenResult : o \in Reachable(c)' /\ o.res = r =>
           o.kind = "source" /\ c = Home[r] /\ holder'[r] # "gone"
  BY <1>3 DEF TrackedIsLive, Registered, OpenResult, objects
<1>5. active'[Home[r]] = r =>
        SourceOf(r) \in Reachable(Home[r])' /\ holder'[r] # "gone" /\ ~failed'[r] /\ ~finished'[r]
  <2>1. Home[r] \in Ctx /\ r # NoRes
    BY ConstantsAssumption
  <2>2. active[Home[r]] = r => SourceOf(r) \in Reachable(Home[r])
    BY <2>1 DEF OpenOK, Tracker
  <2>3. QED
    BY <1>3, <2>1, <2>2 DEF objects
<1>6. OwnersOK' /\ TrackedIsLive' /\ OpenOK'
  BY <1>1, <1>4, <1>5, TakenKept DEF rThread, objects
<1>7. QED
  BY <1>1, <1>2, <1>6

LEMMA PoolReadAtOnceKeeps ==
  ASSUME IInv, NEW r \in Res, NEW k \in Batches, PoolReadAtOnce(r, k)
  PROVE  Core'
<1> USE DEF IInv, Core
<1>1. /\ holder[r] = "reader" /\ r \in PoolStreams /\ pool[r] = "idle"
      /\ UNCHANGED <<rThread, connected, objects, streamed, invalidated, ahead>>
  BY DEF PoolReadAtOnce
<1>2. \/ ReadsOn(r, k) /\ r \notin streamed
      \/ ~HasRows(r) /\ AnswerWithoutRows(r)
  BY DEF PoolReadAtOnce, ReadsOn, HasRows
<1>3. r # NoRes /\ Home[r] \in Ctx
  BY ConstantsAssumption
<1>4. /\ \A c \in Ctx : active'[c] = active[c] \/ (active[c] = r /\ active'[c] = NoRes)
      /\ finished'[r] \/ failed'[r] => \A c \in Ctx : active'[c] # r
      /\ \A q \in Res : q # r =>
           left'[q] = left[q] /\ told'[q] = told[q] /\ finished'[q] = finished[q] /\ failed'[q] = failed[q]
      /\ active' \in [Ctx -> Res \cup {NoRes}]
  BY <1>1, <1>2, ReadEffect
<1>5. TypeOfReading'
  BY <1>1, <1>2, ReadEffect DEF TypeOK, TypeOfReading
<1>6. TypeOK' /\ StackOK' /\ OwnersOK' /\ TrackedIsLive' /\ OpenOK'
  BY <1>1, <1>4, <1>5, PoolStepKeeps DEF TypeOK, TypeOfObjects, PoolReads
<1>7. \A c \in Ctx : active'[c] = active[c]
  <2>1. CASE AnswerWithoutRows(r)
    BY <2>1 DEF AnswerWithoutRows
  <2>2. CASE r \notin streamed
    BY <1>3, <1>4, <2>2 DEF OpenOK
  <2>3. QED
    BY <1>2, <2>1, <2>2
<1>8. LocksHold'
  BY <1>1, <1>7, LocksKept DEF rThread, objects
<1>9. EndsEmpty' /\ WholeForR'
  BY <1>1, <1>2, ReadEndsKept DEF objects
<1>10. QED
  BY <1>6, <1>8, <1>9

\* A read that goes on: the pool thread starts it, polls, fetches or appends, or starts to release its reader.
LEMMA PoolGoesOn ==
  ASSUME IInv, NEW r \in Res, NEW step \in PoolSteps, holder[r] = "reader", r \in PoolStreams,
         pool[r] # "closing", step # "closing", step \in PoolReads => r \in streamed,
         step = "fetching" => IsOpen(r) /\ LockFree(Home[r]),
         pool' = [pool EXCEPT ![r] = step], have' \in [Res -> Nat],
         UNCHANGED <<rThread, engine, objects, streamed, reading>>
  PROVE  Core'
<1> USE DEF IInv, Core
<1>1. pool' \in [Res -> PoolSteps] /\ pool'[r] = step /\ \A q \in Res : q # r => pool'[q] = pool[q]
  BY DEF TypeOK, TypeOfObjects
<1>2. finished[r] \/ failed[r] => \A c \in Ctx : active[c] # r
  BY ConstantsAssumption DEF OpenOK
<1>3. TypeOfReading' /\ active' \in [Ctx -> Res \cup {NoRes}]
  BY DEF TypeOK, TypeOfReading, TypeOfEngine, engine, reading
<1>4. TypeOK' /\ StackOK' /\ OwnersOK' /\ TrackedIsLive' /\ OpenOK'
  BY <1>1, <1>2, <1>3, PoolStepKeeps DEF engine, reading
<1>5. LocksHold'
  BY <1>1, LocksPool DEF rThread, objects, engine, IsOpen
<1>6. EndsEmpty' /\ WholeForR'
  BY EndsKept DEF IsOpen, objects, engine, reading
<1>7. QED
  BY <1>4, <1>5, <1>6

LEMMA PoolOnKeeps ==
  ASSUME IInv, NEW r \in Res, PoolBeginRead(r) \/ PoolPoll(r) \/ PoolFetch(r) \/ PoolAppend(r) \/ PoolRelease(r)
  PROVE  Core'
<1>1. have \in [Res -> Nat] /\ holder[r] = "reader" /\ r \in PoolStreams /\ (pool[r] \in PoolReads => r \in streamed)
  BY DEF IInv, TypeOK, TypeOfObjects, OwnersOK, PoolBeginRead, PoolPoll, Polls, PoolFetch, PoolAppend, PoolRelease
<1>2. CASE PoolBeginRead(r)
  BY <1>1, <1>2, PoolGoesOn DEF PoolBeginRead, PoolSteps, PoolReads
<1>3. CASE PoolPoll(r)
  BY <1>1, <1>3, PoolGoesOn DEF PoolPoll, Polls, PoolSteps, PoolReads
<1>4. CASE PoolFetch(r)
  BY <1>1, <1>4, PoolGoesOn DEF PoolFetch, PoolSteps, PoolReads
<1>5. CASE PoolAppend(r)
  <2>1. have' \in [Res -> Nat]
    BY <1>1, <1>5 DEF PoolAppend
  <2>2. QED
    BY <1>1, <1>5, <2>1, PoolGoesOn DEF PoolAppend, PoolSteps, PoolReads
<1>6. CASE PoolRelease(r)
  <2>1. PICK step \in {"parking", "untracking"} : pool' = [pool EXCEPT ![r] = step]
    BY <1>6 DEF PoolRelease
  <2>2. QED
    BY <1>1, <1>6, <2>1, PoolGoesOn DEF PoolRelease, PoolSteps, PoolReads
<1>7. QED
  BY <1>2, <1>3, <1>4, <1>5, <1>6

\* A read that ends, with whatever answer: it ends the query only under the lock, and only a result that is marked,
\* or has failed, ends before its rows do.
LEMMA PoolReadOver ==
  ASSUME IInv, NEW r \in Res, pool[r] \in PoolReads, PoolReadEnds(r), TypeOfReading',
         active' \in [Ctx -> Res \cup {NoRes}],
         \A q \in Res : q # r =>
           left'[q] = left[q] /\ told'[q] = told[q] /\ finished'[q] = finished[q] /\ failed'[q] = failed[q],
         \A c \in Ctx : active'[c] = active[c] \/ (active[c] = r /\ active'[c] = NoRes),
         pool[r] = "fetching" \/ LockFree(Home[r]) \/ UNCHANGED active,
         finished'[r] \/ failed'[r] => \A c \in Ctx : active'[c] # r,
         left[r] = 0 => left'[r] = 0, failed[r] => failed'[r],
         \/ failed'[r]
         \/ ~finished'[r] /\ told'[r] # "end" /\ UNCHANGED active
         \/ ~invalidated[r] => left'[r] = 0
  PROVE  Core'
<1> USE DEF IInv, Core
<1>1. /\ holder[r] = "reader" /\ r \in PoolStreams /\ pool[r] # "closing" /\ r # NoRes /\ Home[r] \in Ctx
      /\ UNCHANGED <<rThread, connected, objects, streamed, invalidated>>
  BY ConstantsAssumption DEF PoolReadEnds, OwnersOK, PoolReads
<1>2. pool' \in [Res -> PoolSteps] /\ pool'[r] = "idle" /\ \A q \in Res : q # r => pool'[q] = pool[q]
  BY DEF PoolReadEnds, TypeOK, TypeOfObjects, PoolSteps
<1>3. have' \in [Res -> Nat]
  BY DEF PoolReadEnds, TypeOK, TypeOfObjects
<1>4. TypeOK' /\ StackOK' /\ OwnersOK' /\ TrackedIsLive' /\ OpenOK'
  BY <1>1, <1>2, <1>3, PoolStepKeeps DEF PoolReads
<1>5. LocksHold'
  <2>1. \A c \in Ctx : active'[c] = active[c] \/ (c = Home[r] /\ active[c] = r)
    BY <1>1 DEF OpenOK
  <2>2. QED
    BY <1>1, <1>2, <2>1, LocksPool DEF rThread, objects
<1>6. EndsEmpty'
  <2>1. \A q \in Res : q # r => (IsOpen(q)' <=> IsOpen(q))
    BY ConstantsAssumption DEF IsOpen
  <2>2. CASE failed'[r]
    BY <1>1, <2>1, <2>2 DEF EndsEmpty, objects
  <2>3. CASE ~finished'[r] /\ told'[r] # "end" /\ UNCHANGED active
    BY <1>1, <2>1, <2>3 DEF EndsEmpty, IsOpen, objects
  <2>4. CASE ~invalidated[r] => left'[r] = 0
    BY <1>1, <2>1, <2>4 DEF EndsEmpty, objects
  <2>5. QED
    BY <2>2, <2>3, <2>4
<1>7. WholeForR'
  BY <1>1 DEF WholeForR
<1>8. QED
  BY <1>4, <1>5, <1>6, <1>7

LEMMA PoolOverKeeps ==
  ASSUME IInv, NEW r \in Res, PoolBatch(r) \/ PoolSeesEnd(r) \/ PoolBatchLost(r) \/ PoolFails(r)
  PROVE  Core'
<1> USE DEF IInv
<1>1. /\ PoolReadEnds(r) /\ UNCHANGED invalidated /\ pool[r] \in PoolReads
  BY DEF PoolBatch, PoolSeesEnd, PoolBatchLost, PoolFails, PoolReadEnds, Polls, PoolReads
<1>2. /\ r # NoRes /\ Home[r] \in Ctx /\ holder[r] = "reader" /\ r \in streamed /\ have[r] \in 0..left[r]
      /\ left[r] \in Nat /\ have[r] \in Nat /\ (left[r] = 0 => left[r] - have[r] = 0)
  BY <1>1, ConstantsAssumption DEF OwnersOK, UnderWay, PoolReads, TypeOK, TypeOfObjects, TypeOfReading
<1>3. "rows" \in Answers /\ "dropped" \in Answers
  BY DEF Answers
<1>4. CASE PoolFails(r)
  <2>1. Fails(r, have[r]) /\ (pool[r] = "fetching" \/ LockFree(Home[r]))
    BY <1>4 DEF PoolFails
  <2>2. /\ left' \in [Res -> Nat] /\ lost' \in [Res -> Nat] /\ told' \in [Res -> Answers]
        /\ finished' \in [Res -> BOOLEAN] /\ failed' \in [Res -> BOOLEAN]
        /\ left'[r] = left[r] - have[r] /\ failed'[r]
        /\ \A q \in Res : q # r => left'[q] = left[q] /\ told'[q] = told[q] /\ finished'[q] = finished[q] /\ failed'[q] = failed[q]
        /\ active' \in [Ctx -> Res \cup {NoRes}]
        /\ \A c \in Ctx : active'[c] = IF active[c] = r THEN NoRes ELSE active[c]
    BY <1>2, <2>1, FailureSeen
  <2>3. TypeOfReading'
    BY <1>1, <2>2 DEF TypeOK, TypeOfReading
  <2>4. \A c \in Ctx : active'[c] # r
    BY <1>2, <2>2
  <2>5. QED
    BY <1>1, <1>2, <2>1, <2>2, <2>3, <2>4, PoolReadOver
<1>5. ASSUME NEW over \in BOOLEAN, NEW answer \in Answers, Hands(r, have[r]) \/ Loses(r, have[r], answer),
             SeesEnd(r, over)
      PROVE  /\ TypeOfReading' /\ active' \in [Ctx -> Res \cup {NoRes}] /\ finished'[r] = over /\ failed' = failed
             /\ \A q \in Res : q # r =>
                  left'[q] = left[q] /\ told'[q] = told[q] /\ finished'[q] = finished[q] /\ failed'[q] = failed[q]
             /\ \A c \in Ctx : active'[c] = IF over /\ active[c] = r THEN NoRes ELSE active[c]
             /\ left'[r] = left[r] - have[r]
             /\ Loses(r, have[r], answer) => told'[r] = answer
             /\ Hands(r, have[r]) => told'[r] = IF have[r] = 0 THEN "end" ELSE "rows"
  <2>1. /\ left' \in [Res -> Nat] /\ lost' \in [Res -> Nat] /\ told' \in [Res -> Answers]
        /\ left'[r] = left[r] - have[r] /\ \A q \in Res : q # r => left'[q] = left[q] /\ told'[q] = told[q]
        /\ Hands(r, have[r]) => told'[r] = IF have[r] = 0 THEN "end" ELSE "rows"
        /\ Loses(r, have[r], answer) => told'[r] = answer
    BY <1>2, <1>5, RowsLeave
  <2>2. /\ finished' \in [Res -> BOOLEAN] /\ finished'[r] = over /\ failed' = failed
        /\ \A q \in Res : q # r => finished'[q] = finished[q]
        /\ active' \in [Ctx -> Res \cup {NoRes}]
        /\ \A c \in Ctx : active'[c] = IF over /\ active[c] = r THEN NoRes ELSE active[c]
    BY <1>5, EndSeen
  <2>3. TypeOfReading'
    BY <1>1, <2>1, <2>2 DEF TypeOK, TypeOfReading
  <2>4. QED
    BY <2>1, <2>2, <2>3
<1>6. CASE PoolSeesEnd(r)
  <2>1. /\ Hands(r, have[r]) \/ Loses(r, have[r], "dropped")
        /\ SeesEnd(r, TRUE)
        /\ (pool[r] = "fetching" /\ have[r] = left[r]) \/ ~IsOpen(r)
    BY <1>6 DEF PoolSeesEnd
  <2>2. /\ TypeOfReading' /\ active' \in [Ctx -> Res \cup {NoRes}] /\ finished'[r] /\ failed' = failed
        /\ \A q \in Res : q # r =>
             left'[q] = left[q] /\ told'[q] = told[q] /\ finished'[q] = finished[q] /\ failed'[q] = failed[q]
        /\ \A c \in Ctx : active'[c] = IF active[c] = r THEN NoRes ELSE active[c]
        /\ left'[r] = left[r] - have[r]
    BY <1>3, <1>5, <2>1
  <2>3. \A c \in Ctx : active'[c] # r
    BY <1>2, <2>2
  <2>4. ~IsOpen(r) => UNCHANGED active
    <3>1. ASSUME ~IsOpen(r) PROVE \A c \in Ctx : active'[c] = active[c]
      BY <1>2, <2>2, <3>1 DEF IsOpen, OpenOK
    <3>2. QED
      BY <2>2, <3>1 DEF TypeOK, TypeOfEngine
  <2>5. ~invalidated[r] /\ ~failed'[r] => left'[r] = 0
    BY <1>2, <2>1, <2>2 DEF EndsEmpty
  <2>6. QED
    BY <1>1, <1>2, <2>1, <2>2, <2>3, <2>4, <2>5, PoolReadOver
<1>7. CASE PoolBatch(r) \/ PoolBatchLost(r)
  <2>1. /\ (Hands(r, have[r]) /\ have[r] > 0) \/ Loses(r, have[r], "dropped")
        /\ SeesEnd(r, FALSE)
    BY <1>7 DEF PoolBatch, PoolBatchLost
  <2>2. /\ TypeOfReading' /\ active' \in [Ctx -> Res \cup {NoRes}] /\ ~finished'[r] /\ failed' = failed
        /\ \A q \in Res : q # r =>
             left'[q] = left[q] /\ told'[q] = told[q] /\ finished'[q] = finished[q] /\ failed'[q] = failed[q]
        /\ left'[r] = left[r] - have[r]
        /\ told'[r] # "end"
    <3>1. CASE Loses(r, have[r], "dropped")
      BY <1>3, <1>5, <2>1, <3>1
    <3>2. CASE Hands(r, have[r]) /\ have[r] > 0
      <4>1. have[r] # 0
        BY <1>2, <3>2
      <4>2. QED
        BY <1>3, <1>5, <2>1, <3>2, <4>1
    <3>3. QED
      BY <2>1, <3>1, <3>2
  <2>3. UNCHANGED active
    BY <2>1 DEF SeesEnd
  <2>4. failed'[r] => \A c \in Ctx : active'[c] # r
    BY <1>2, <2>2, <2>3 DEF OpenOK
  <2>5. QED
    BY <1>1, <1>2, <2>2, <2>3, <2>4, PoolReadOver
<1>8. QED
  BY <1>4, <1>6, <1>7

LEMMA PoolUntrackKeeps ==
  ASSUME IInv, NEW r \in Res, PoolUntrack(r)
  PROVE  Core'
<1> USE DEF IInv, Core
<1>1. /\ pool[r] = "untracking" /\ ending = NoCtx /\ holder[r] = "reader" /\ r \in PoolStreams
      /\ pool' = [pool EXCEPT ![r] = "closing"] /\ tracked' = TrackedWithout({r})
      /\ UNCHANGED <<rThread, engine, holder, alive, streamed, reading, have>>
  BY DEF PoolUntrack, OwnersOK
<1>2. pool' \in [Res -> PoolSteps] /\ pool'[r] = "closing" /\ \A q \in Res : q # r => pool'[q] = pool[q]
  BY <1>1 DEF TypeOK, TypeOfObjects, PoolSteps
<1>3. /\ tracked' \in [Ctx -> SUBSET OpenResult]
      /\ \A c \in Ctx : \A o : o \in Reachable(c)' <=> o \in Reachable(c) /\ o.res # r
  <2>1. tracked' \in [Ctx -> SUBSET OpenResult] /\ \A c \in Ctx : tracked'[c] = {o \in tracked[c] : o.res \notin {r}}
    BY <1>1, UntrackingEffect
  <2>2. \A c \in Ctx : Reachable(c)' = tracked'[c] /\ Reachable(c) = tracked[c]
    BY <1>1, ConstantsAssumption DEF Reachable, rThread
  <2>3. QED
    BY <2>1, <2>2
<1>4. TypeOK'
  BY <1>1, <1>2, <1>3 DEF TypeOK, TypeOfThread, TypeOfEngine, TypeOfObjects, TypeOfReading, rThread, engine, reading
<1>5. StackOK'
  BY <1>1 DEF StackOK, rThread
<1>6. LocksHold'
  BY <1>1, <1>2, LocksPool DEF rThread, engine
<1>7. OwnersOK'
  BY <1>1, <1>2, <1>3 DEF OwnersOK, PoolReads, reading
<1>8. TrackedIsLive'
  <2>1. \A c \in Ctx : \A o \in Reachable(c)' : Home[o.res] = c /\ Registered(o)'
    BY <1>1, <1>3 DEF TrackedIsLive, Registered
  <2>2. QED
    BY <1>4, <2>1, LiveKept
<1>9. OpenOK'
  <2>1. \A q \in Res : Tracker(q)' = Tracker(q) /\ Tracker(q).res = q
    BY <1>1, Fields DEF Tracker
  <2>2. \A q \in Res : q # r => \A c \in Ctx : Tracker(q) \in Reachable(c) => Tracker(q) \in Reachable(c)'
    BY <1>3, <2>1
  <2>3. QED
    BY <1>1, <1>2, <2>1, <2>2 DEF OpenOK, TypeOK, TypeOfEngine, rThread, engine, reading
<1>10. EndsEmpty' /\ WholeForR'
  BY <1>1, EndsKept DEF IsOpen, engine, reading
<1>11. QED
  BY <1>4, <1>5, <1>6, <1>7, <1>8, <1>9, <1>10

LEMMA ReadTableKeeps ==
  ASSUME IInv, NEW r \in Res, ReadTable(r)
  PROVE  Core'
<1> USE DEF IInv, Core
<1>1. /\ r \in alive /\ holder[r] = "query_result" /\ r \notin streamed
      /\ \/ left' = [left EXCEPT ![r] = 0] /\ told' = [told EXCEPT ![r] = "end"] /\ UNCHANGED lost
         \/ \E n \in 0..left[r] : Loses(r, n, "dropped")
      /\ UNCHANGED <<rThread, engine, objects, streamed, invalidated, finished, failed, ahead>>
  BY DEF ReadTable
<1>2. /\ left' \in [Res -> Nat] /\ lost' \in [Res -> Nat] /\ told' \in [Res -> Answers]
      /\ told'[r] = "end" => left'[r] = 0
      /\ left[r] = 0 => left'[r] = 0
      /\ \A q \in Res : q # r => left'[q] = left[q] /\ told'[q] = told[q]
  <2>1. CASE left' = [left EXCEPT ![r] = 0] /\ told' = [told EXCEPT ![r] = "end"] /\ UNCHANGED lost
    BY <2>1 DEF TypeOK, TypeOfReading, Answers
  <2>2. ASSUME NEW n \in 0..left[r], Loses(r, n, "dropped")
        PROVE  /\ left' \in [Res -> Nat] /\ lost' \in [Res -> Nat] /\ told' \in [Res -> Answers]
               /\ told'[r] = "dropped" /\ (left[r] = 0 => left'[r] = 0)
               /\ \A q \in Res : q # r => left'[q] = left[q] /\ told'[q] = told[q]
    <3>1. "dropped" \in Answers /\ left[r] \in Nat
      BY DEF Answers, TypeOK, TypeOfReading
    <3>2. QED
      BY <2>2, <3>1, RowsLeave
  <2>3. QED
    BY <1>1, <2>1, <2>2
<1>3. TypeOK'
  BY <1>1, <1>2 DEF TypeOK, TypeOfThread, TypeOfEngine, TypeOfObjects, TypeOfReading, rThread, engine, objects
<1>4. StackOK'
  BY <1>1 DEF StackOK, rThread
<1>5. LocksHold'
  BY <1>1, LocksKept DEF rThread, engine, objects
<1>6. \A c \in Ctx : Reachable(c)' = Reachable(c)
  BY <1>1 DEF Reachable, rThread, objects
<1>7. OwnersOK'
  BY <1>1, <1>2, <1>6 DEF OwnersOK, objects
<1>8. TrackedIsLive'
  <2>1. \A c \in Ctx : \A o \in Reachable(c)' : Home[o.res] = c /\ Registered(o)'
    BY <1>1, <1>6 DEF TrackedIsLive, Registered, objects
  <2>2. QED
    BY <1>3, <2>1, LiveKept
<1>9. OpenOK'
  BY <1>1, <1>6 DEF OpenOK, Tracker, rThread, engine, objects
<1>10. EndsEmpty' /\ WholeForR'
  BY <1>1, <1>2 DEF EndsEmpty, WholeForR, IsOpen, engine, objects
<1>11. QED
  BY <1>3, <1>4, <1>5, <1>7, <1>8, <1>9, <1>10

LEMMA ResultReturnsKeeps ==
  ASSUME IInv, NEW r \in Res, NEW n \in 0..MaxRows, NEW stream \in BOOLEAN, ResultReturns(r, n, stream)
  PROVE  Core'
<1> USE DEF IInv, Core
<1>1. /\ ~atR /\ Top.kind = "statement" /\ Home[r] = Top.ctx /\ holder[r] = "none" /\ Pop /\ atR' = TRUE
      /\ holder' = [holder EXCEPT ![r] = "query_result"] /\ alive' = alive \cup {r}
      /\ left' = [left EXCEPT ![r] = n]
      /\ UNCHANGED <<ending, todo, ends, connected, lost, invalidated, finished, failed, told, ahead>>
  BY DEF ResultReturns
<1>2. /\ ending = NoCtx /\ ending' = NoCtx /\ Home[r] \in Ctx /\ r # NoRes /\ n \in Nat
      /\ ~invalidated[r] /\ ~finished[r] /\ ~failed[r] /\ told[r] = "nothing" /\ r \notin streamed /\ pool[r] = "idle"
  BY <1>1, ConstantsAssumption DEF StackOK, OwnersOK
<1>3. active[Home[r]] = NoRes
  BY <1>1, PopEffect DEF LocksHold
<1>4. /\ stream => /\ streamed' = streamed \cup {r}
                   /\ active' = [active EXCEPT ![Home[r]] = r]
                   /\ tracked' = [tracked EXCEPT ![Home[r]] = @ \cup {QueryResultOf(r)}]
      /\ ~stream => UNCHANGED <<streamed, active, tracked>>
  BY DEF ResultReturns
<1>5. /\ holder' \in [Res -> Holders] /\ left' \in [Res -> Nat]
      /\ holder'[r] = "query_result" /\ left'[r] = n
      /\ \A q \in Res : q # r => holder'[q] = holder[q] /\ left'[q] = left[q]
  BY <1>1, <1>2 DEF TypeOK, TypeOfObjects, TypeOfReading, Holders
<1>6. /\ active' \in [Ctx -> Res \cup {NoRes}] /\ tracked' \in [Ctx -> SUBSET OpenResult]
      /\ \A c \in Ctx : c # Home[r] => active'[c] = active[c]
      /\ active'[Home[r]] = IF stream THEN r ELSE NoRes
  BY <1>2, <1>3, <1>4, Fields DEF TypeOK, TypeOfEngine, TypeOfObjects
<1>7. /\ \A c \in Ctx : Reachable(c) \subseteq Reachable(c)'
      /\ \A c \in Ctx : \A o \in Reachable(c)' : o \in Reachable(c) \/ (c = Home[r] /\ o = QueryResultOf(r))
      /\ stream => QueryResultOf(r) \in Reachable(Home[r])'
  <2>1. \A c \in Ctx : Reachable(c)' = tracked'[c] /\ Reachable(c) = tracked[c]
    BY <1>2, ConstantsAssumption DEF Reachable
  <2>2. CASE stream
    <3>1. \A c \in Ctx : tracked'[c] = IF c = Home[r] THEN tracked[c] \cup {QueryResultOf(r)} ELSE tracked[c]
      BY <1>2, <1>4, <2>2 DEF TypeOK, TypeOfObjects
    <3>2. \A c \in Ctx : \A o : o \in Reachable(c)' <=> o \in Reachable(c) \/ (c = Home[r] /\ o = QueryResultOf(r))
      <4>1. TAKE c \in Ctx
      <4>2. Reachable(c)' = tracked'[c] /\ Reachable(c) = tracked[c]
        BY <2>1
      <4> HIDE DEF IInv
      <4>3. CASE c = Home[r]
        BY <3>1, <4>2, <4>3
      <4>4. CASE c # Home[r]
        BY <3>1, <4>2, <4>4
      <4>5. QED
        BY <4>3, <4>4
    <3>3. QED
      BY <1>2, <2>2, <3>2
  <2>3. CASE ~stream
    BY <1>4, <2>1, <2>3
  <2>4. QED
    BY <2>2, <2>3
<1>8. TypeOfThread' /\ StackOK'
  BY <1>1, StackPopped
<1>9. TypeOK'
  BY <1>1, <1>4, <1>5, <1>6, <1>8 DEF TypeOK, TypeOfEngine, TypeOfObjects, TypeOfReading
<1>10. LocksHold'
  BY <1>1, <1>5, <1>6, LocksPopped
<1>11. OwnersOK'
  <2>1. \A q \in Res : pool'[q] = "closing" => q # r
    BY <1>1, <1>2
  <2>2. \A q \in Res : q # r => (q \in streamed' <=> q \in streamed) /\ (q \in alive' <=> q \in alive)
    BY <1>1, <1>4
  <2>3. ASSUME NEW q \in Res, pool'[q] = "closing", NEW c \in Ctx, NEW o \in Reachable(c)' PROVE o.res # q
    BY <1>1, <1>7, <2>1, <2>3, Fields DEF OwnersOK
  <2>4. QED
    BY <1>1, <1>2, <1>5, <2>2, <2>3 DEF OwnersOK
<1>12. TrackedIsLive'
  <2>1. ASSUME NEW c \in Ctx, NEW o \in Reachable(c)' PROVE Home[o.res] = c /\ Registered(o)'
    <3>1. CASE o = QueryResultOf(r) /\ c = Home[r]
      BY <1>1, <1>5, <3>1, Fields DEF Registered
    <3>2. CASE o \in Reachable(c)
      <4>1. o \in OpenResult /\ o.res \in Res
        BY <3>2 DEF TypeOK, TypeOfThread, TypeOfObjects, Reachable, OpenResult
      <4>2. Home[o.res] = c /\ Registered(o)
        BY <3>2 DEF TrackedIsLive
      <4>3. o.res # r
        BY <1>1, <4>2 DEF Registered
      <4>4. QED
        BY <1>1, <1>5, <4>1, <4>2, <4>3 DEF Registered
    <3>3. QED
      BY <1>7, <2>1, <3>1, <3>2
  <2>2. QED
    BY <1>9, <2>1, LiveKept
<1>13. OpenOK'
  <2>1. ASSUME NEW c \in Ctx, active'[c] # NoRes, active'[c] # r
        PROVE  active'[c] = active[c] /\ active[c] \in Res /\ active[c] # r
    BY <1>6, <2>1 DEF TypeOK, TypeOfEngine
  <2>2. ASSUME NEW c \in Ctx, active'[c] = r PROVE c = Home[r] /\ stream
    BY <1>2, <1>6, <2>2 DEF OpenOK
  <2>3. Tracker(r)' = QueryResultOf(r) /\ \A q \in Res : q # r => Tracker(q)' = Tracker(q)
    BY <1>5 DEF Tracker
  <2>4. streamed \subseteq streamed' /\ (stream => r \in streamed')
    BY <1>4
  <2>5. QED
    BY <1>1, <1>2, <1>5, <1>7, <2>1, <2>2, <2>3, <2>4 DEF OpenOK
<1>14. EndsEmpty' /\ WholeForR'
  <2>1. \A q \in Res : q # r => (IsOpen(q)' <=> IsOpen(q)) /\ (q \in streamed' <=> q \in streamed)
    <3>1. ASSUME NEW q \in Res, q # r, Home[q] = Home[r] PROVE ~IsOpen(q)' /\ ~IsOpen(q)
      BY <1>3, <1>6, <3>1, ConstantsAssumption DEF IsOpen
    <3>2. QED
      BY <1>4, <1>6, <3>1, ConstantsAssumption DEF IsOpen
  <2>2. r \in streamed' => IsOpen(r)'
    BY <1>2, <1>4, <1>6 DEF IsOpen
  <2>3. QED
    BY <1>1, <1>2, <1>5, <2>1, <2>2 DEF EndsEmpty, WholeForR
<1>15. QED
  BY <1>8, <1>9, <1>10, <1>11, <1>12, <1>13, <1>14


-----------------------------------------------------------------------------
LEMMA InitKeeps == Init => IInv
<1> SUFFICES ASSUME Init PROVE IInv
  OBVIOUS
<1>1. /\ stack = <<>> /\ atR = TRUE /\ ending = NoCtx /\ todo = {} /\ found = {} /\ marked = {}
      /\ connected = Ctx /\ alive = {} /\ streamed = {}
      /\ active = [c \in Ctx |-> NoRes] /\ tracked = [c \in Ctx |-> {}] /\ holder = [r \in Res |-> "none"]
      /\ pool = [r \in Res |-> "idle"] /\ told = [r \in Res |-> "nothing"]
      /\ left = [r \in Res |-> 0] /\ lost = [r \in Res |-> 0] /\ have = [r \in Res |-> 0]
      /\ invalidated = [r \in Res |-> FALSE] /\ finished = [r \in Res |-> FALSE] /\ failed = [r \in Res |-> FALSE]
  BY DEF Init
<1>2. stack \in Seq(Frame) /\ Len(stack) = 0
  BY <1>1, EmptySeq
<1>3. TypeOK
  <2>1. TypeOfThread
    BY <1>1, <1>2 DEF TypeOfThread
  <2>2. TypeOfEngine
    BY <1>1 DEF TypeOfEngine
  <2>3. TypeOfObjects
    BY <1>1 DEF TypeOfObjects, Holders, PoolSteps
  <2>4. TypeOfReading
    BY <1>1 DEF TypeOfReading, Answers
  <2>5. QED
    BY <2>1, <2>2, <2>3, <2>4 DEF TypeOK
<1>4. StackOK
  BY <1>1, <1>2 DEF StackOK
<1>5. LocksHold
  <2>1. LockedByR = {}
    BY <1>2 DEF LockedByR
  <2>2. QED
    BY <1>1, <1>2, <2>1 DEF LocksHold
<1>6. \A c \in Ctx : Reachable(c) = {}
  BY <1>1 DEF Reachable
<1>7. OwnersOK /\ TrackedIsLive
  BY <1>1, <1>6 DEF OwnersOK, TrackedIsLive, PoolReads
<1>8. OpenOK /\ EndsEmpty /\ WholeForR /\ UnderWay
  BY <1>1 DEF OpenOK, EndsEmpty, WholeForR, UnderWay, PoolReads
<1>9. QED
  BY <1>3, <1>4, <1>5, <1>7, <1>8 DEF IInv

-----------------------------------------------------------------------------
(***************************************************************************)
(* What is under way.                                                      *)
(***************************************************************************)

\* R code runs while EndOpenResults() has nothing in hand, and takes no rows from a batch of a pool thread.
LEMMA UnderWayOnR ==
  ASSUME IInv, TypeOK', found = {}, marked = {}, UNCHANGED <<ends, ahead>>,
         \A r \in Res : pool[r] \in PoolReads => left'[r] = left[r]
  PROVE  UnderWay'
<1>1. ASSUME NEW r \in Res PROVE have[r] <= left'[r]
  <2>1. left'[r] \in Nat /\ have[r] <= left[r] /\ (pool[r] \notin PoolReads => have[r] = 0)
    BY DEF IInv, UnderWay, TypeOK, TypeOfReading
  <2>2. QED
    BY <2>1
<1>2. QED
  BY <1>1 DEF IInv, UnderWay

\* Whoever has an idle result at hand has no batch of it under way.
LEMMA UnderWayRead ==
  ASSUME IInv, TypeOK', found = {}, marked = {}, UNCHANGED <<ends, ahead>>, NEW r \in Res, pool[r] = "idle",
         \A q \in Res : q # r => left'[q] = left[q]
  PROVE  UnderWay'
<1>1. \A q \in Res : pool[q] \in PoolReads => left'[q] = left[q]
  BY DEF PoolReads
<1>2. QED
  BY <1>1, UnderWayOnR

\* A pool thread's step leaves what EndOpenResults() has in hand as it is.
LEMMA UnderWayOnPool ==
  ASSUME IInv, NEW r \in Res, r \in PoolStreams,
         UNCHANGED <<ends, invalidated>>,
         \A q \in Res : q # r =>
           holder'[q] = holder[q] /\ (IsOpen(q)' <=> IsOpen(q)) /\ left'[q] = left[q] /\ pool'[q] = pool[q] /\ have'[q] = have[q],
         have'[r] <= left'[r], pool'[r] \notin PoolReads => have'[r] = 0
  PROVE  UnderWay'
<1> USE DEF IInv
<1>1. ASSUME NEW o \in found PROVE o.res \in PoolStreams \/ Ends(o)'
  <2>1. o.res \in Res
    BY DEF TypeOK, TypeOfThread, OpenResult
  <2>2. CASE o.res = r
    BY <2>2
  <2>3. CASE o.res # r
    BY <2>1, <2>3 DEF UnderWay, Ends
  <2>4. QED
    BY <2>2, <2>3
<1>2. QED
  BY <1>1 DEF UnderWay

\* Opening and closing queries of other results.
LEMMA OthersOpen ==
  ASSUME TypeOK, NEW r \in Res, \A c \in Ctx : active'[c] = active[c] \/ (active[c] = r /\ active'[c] = NoRes)
  PROVE  \A q \in Res : q # r => (IsOpen(q)' <=> IsOpen(q))
  BY ConstantsAssumption DEF IsOpen

LEMMA UnderWayPoolSteps ==
  ASSUME IInv, Core', NEW r \in Res, PoolBeginRead(r) \/ PoolRelease(r) \/ PoolStep(r)
  PROVE  UnderWay'
<1> USE DEF IInv
<1>1. /\ holder[r] = "reader" /\ r \in PoolStreams /\ left[r] \in Nat /\ have[r] \in Nat /\ have[r] <= left[r]
      /\ pool[r] \notin PoolReads => have[r] = 0
      /\ pool \in [Res -> PoolSteps] /\ have \in [Res -> Nat] /\ r # NoRes
  <2>1. pool[r] = "idle" => PoolBeginRead(r) \/ PoolRelease(r)
    BY DEF PoolStep, PoolPoll, PoolFetch, PoolAppend, PoolBatch, PoolSeesEnd, PoolBatchLost, PoolFails, PoolPark,
           PoolUntrack, PoolClose, Polls
  <2>2. QED
    BY <2>1, ConstantsAssumption DEF OwnersOK, UnderWay, TypeOK, TypeOfObjects, TypeOfReading, PoolBeginRead, PoolRelease
<1>2. CASE PoolBeginRead(r) \/ PoolRelease(r) \/ PoolPoll(r) \/ PoolFetch(r) \/ PoolAppend(r)
  <2>1. /\ UNCHANGED <<rThread, engine, objects, reading>>
        /\ pool' = [pool EXCEPT ![r] = pool'[r]] /\ (pool'[r] \notin PoolReads => pool[r] \notin PoolReads)
        /\ have' = have \/ (have' = [have EXCEPT ![r] = @ + 1] /\ have[r] < left[r] /\ pool'[r] \in PoolReads)
    BY <1>1, <1>2 DEF PoolBeginRead, PoolRelease, PoolPoll, PoolFetch, PoolAppend, PoolReads
  <2>2. /\ \A q \in Res : q # r => pool'[q] = pool[q] /\ have'[q] = have[q]
        /\ have'[r] <= left'[r] /\ (pool'[r] \notin PoolReads => have'[r] = 0)
    BY <1>1, <2>1 DEF reading
  <2>3. QED
    <3>1. UNCHANGED <<ends, invalidated, holder, active, left>>
      BY <2>1 DEF rThread, engine, objects, reading
    <3>2. QED
      BY <1>1, <2>2, <3>1, UnderWayOnPool DEF IsOpen
<1>3. CASE PoolPark(r) \/ PoolUntrack(r) \/ PoolClose(r)
  <2>1. /\ UNCHANGED <<rThread, reading, have>> /\ pool' = [pool EXCEPT ![r] = pool'[r]] /\ pool[r] \notin PoolReads
        /\ pool'[r] \notin PoolReads
        /\ holder' = holder \/ holder' = [holder EXCEPT ![r] = "gone"] \/ holder' = [holder EXCEPT ![r] = "parked_wrapper"]
        /\ active' = active \/ active' = ActiveAfterClosing({r})
    BY <1>1, <1>3 DEF PoolPark, PoolUntrack, PoolClose, PoolReads, engine
  <2>2. \A c \in Ctx : active'[c] = active[c] \/ (active[c] = r /\ active'[c] = NoRes)
    BY <2>1, ClosingEffect
  <2>3. \A q \in Res : q # r => pool'[q] = pool[q] /\ holder'[q] = holder[q]
    BY <1>1, <2>1 DEF TypeOK, TypeOfObjects
  <2>4. QED
    BY <1>1, <2>1, <2>2, <2>3, OthersOpen, UnderWayOnPool DEF rThread, reading
<1>4. CASE PoolBatch(r) \/ PoolSeesEnd(r) \/ PoolBatchLost(r) \/ PoolFails(r)
  <2>1. /\ PoolReadEnds(r) /\ left' = [left EXCEPT ![r] = @ - have[r]]
        /\ active' = active \/ active' = ActiveAfterClosing({r})
    BY <1>4 DEF PoolBatch, PoolSeesEnd, PoolBatchLost, PoolFails, Fails, Hands, Loses, SeesEnd
  <2>2. \A c \in Ctx : active'[c] = active[c] \/ (active[c] = r /\ active'[c] = NoRes)
    BY <2>1, ClosingEffect
  <2>3. /\ \A q \in Res : q # r => pool'[q] = pool[q] /\ have'[q] = have[q] /\ left'[q] = left[q]
        /\ have'[r] = 0 /\ left'[r] \in Nat
    BY <1>1, <2>1 DEF PoolReadEnds, TypeOK, TypeOfReading, Core
  <2>4. QED
    BY <1>1, <2>1, <2>2, <2>3, OthersOpen, UnderWayOnPool DEF PoolReadEnds, rThread, objects
<1>5. QED
  BY <1>2, <1>3, <1>4 DEF PoolStep

\* The loop's turn: a result is found to be ended, is marked, and closed.
LEMMA UnderWayEnding ==
  ASSUME IInv, Core', NEW o \in todo, EndAsk(o) \/ EndMark(o) \/ EndClose(o)
  PROVE  UnderWay'
<1> USE DEF IInv
<1>1. UNCHANGED <<pool, have, left>>
  BY DEF EndAsk, EndMark, EndClose, reading
<1>2. CASE EndAsk(o)
  <2>1. marked' = {} /\ (found' = {} \/ (found' = {o} /\ Ends(o)))
    BY <1>2 DEF EndAsk
  <2>2. Ends(o)' <=> Ends(o)
    BY <1>2 DEF EndAsk, Ends, IsOpen, objects, engine
  <2>3. QED
    BY <1>1, <2>1, <2>2 DEF UnderWay
<1>3. CASE EndMark(o)
  <2>1. o.res \in Res /\ found' = {} /\ marked' = {o} /\ invalidated' = [invalidated EXCEPT ![o.res] = TRUE]
    BY <1>3 DEF EndMark, TypeOK, TypeOfThread, OpenResult
  <2>2. invalidated'[o.res]
    BY <2>1 DEF TypeOK, TypeOfReading
  <2>3. QED
    BY <1>1, <2>1, <2>2 DEF UnderWay
<1>4. CASE EndClose(o)
  <2>1. found' = {} /\ marked' \subseteq marked /\ invalidated' = invalidated
    BY <1>4 DEF EndClose, UnderWay, reading
  <2>2. QED
    BY <1>1, <2>1 DEF UnderWay
<1>5. QED
  BY <1>2, <1>3, <1>4

\* Nothing is in hand while R code runs or the engine does, and once the loop is over.
LEMMA NothingInHand ==
  ASSUME IInv, ending = NoCtx \/ ~atR \/ todo = {}
  PROVE  todo = {} /\ found = {} /\ marked = {}
  BY DEF IInv, StackOK, TypeOK, TypeOfThread

LEMMA StutterKeeps ==
  ASSUME IInv, UNCHANGED vars
  PROVE  IInv'
<1>1. UNCHANGED <<stack, atR, ending, todo, found, marked, active, connected, tracked, holder, alive, left, lost,
                  invalidated, finished, failed, told, streamed, pool, have>>
  BY DEF vars, rThread, engine, objects, reading
<1>2. TypeOK' /\ StackOK'
  BY <1>1 DEF IInv, TypeOK, TypeOfThread, TypeOfEngine, TypeOfObjects, TypeOfReading, StackOK
<1>3. LockedByR' = LockedByR /\ LockedByPool' = LockedByPool /\ \A c \in Ctx : Reachable(c)' = Reachable(c)
  BY <1>1 DEF LockedByR, LockedByPool, Reachable
<1>4. LocksHold' /\ OwnersOK'
  BY <1>1, <1>3 DEF IInv, LocksHold, OwnersOK
<1>5. TrackedIsLive'
  BY <1>1, <1>3 DEF IInv, TrackedIsLive, Registered, ContextAlive
<1>6. OpenOK' /\ EndsEmpty' /\ WholeForR'
  BY <1>1, <1>3 DEF IInv, OpenOK, Tracker, EndsEmpty, IsOpen, WholeForR
<1>7. UnderWay'
  BY <1>1 DEF IInv, UnderWay, Ends, IsOpen
<1>8. QED
  BY <1>2, <1>4, <1>5, <1>6, <1>7 DEF IInv

\* One step per action of Next, first for Core and then for what is under way.
LEMMA NextKeepsCore ==
  ASSUME IInv, Next
  PROVE  Core'
<1>1. ASSUME NEW c \in Ctx, BeginStatement(c) \/ Disconnect(c) PROVE Core'
  BY <1>1, BeginStatementKeeps, DisconnectKeeps
<1>2. CASE EndingStep
  <2>1. ASSUME NEW o \in todo, EndAsk(o) \/ EndMark(o) \/ EndClose(o) PROVE Core'
    BY <2>1, EndAskKeeps, EndMarkKeeps, EndCloseKeeps
  <2>2. QED
    BY <1>2, <2>1, ControlSteps, EnterEngineKeeps DEF EndingStep
<1>3. CASE EngineReturns
  <2>1. ASSUME NEW r \in Res, NEW n \in 0..MaxRows, NEW stream \in BOOLEAN, ResultReturns(r, n, stream) PROVE Core'
    BY <2>1, ResultReturnsKeeps
  <2>2. ASSUME NEW r \in Res, NEW k \in Batches, EndRead(r, k) PROVE Core'
    BY <2>2, EndReadKeeps
  <2>3. QED
    BY <1>3, <2>1, <2>2, StatementReturnsKeeps DEF EngineReturns
<1>4. CASE Callback \/ CallbackReturns \/ Drain
  BY <1>4, ControlSteps, DrainKeeps
<1>5. ASSUME NEW r \in Res, NEW k \in Batches, ReadAtOnce(r, k) \/ PoolReadAtOnce(r, k) PROVE Core'
  BY <1>5, ReadAtOnceKeeps, PoolReadAtOnceKeeps
<1>6. ASSUME NEW r \in Res,
             \/ BeginRead(r) \/ ReadTable(r) \/ HandOver(r)
             \/ FinalizeResult(r) \/ ReleaseReader(r) \/ ReleaseArrowResult(r)
      PROVE  Core'
  BY <1>6, BeginReadKeeps, ReadTableKeeps, HandOverKeeps, FinalizeResultKeeps, ReleaseReaderKeeps,
     ReleaseArrowResultKeeps
<1>7. ASSUME NEW r \in Res, PoolBeginRead(r) \/ PoolRelease(r) \/ PoolStep(r) PROVE Core'
  BY <1>7, PoolOnKeeps, PoolOverKeeps, PoolParkKeeps, PoolUntrackKeeps, PoolCloseKeeps DEF PoolStep
<1>8. QED
  BY <1>1, <1>2, <1>3, <1>4, <1>5, <1>6, <1>7 DEF Next

LEMMA NextKeeps ==
  ASSUME IInv, [Next]_vars
  PROVE  IInv'
<1>1. SUFFICES ASSUME Next PROVE IInv'
  BY StutterKeeps
<1>2. Core'
  BY <1>1, NextKeepsCore
<1>3. SUFFICES UnderWay'
  BY <1>2 DEF IInv, Core
<1>4. TypeOK'
  BY <1>2 DEF Core
<1>5. ASSUME ending = NoCtx \/ ~atR \/ todo = {}, UNCHANGED <<ends, left, ahead>> PROVE UnderWay'
  BY <1>4, <1>5, NothingInHand, UnderWayOnR
<1>6. ASSUME NEW c \in Ctx, BeginStatement(c) \/ Disconnect(c) PROVE UnderWay'
  BY <1>5, <1>6 DEF BeginStatement, Disconnect, RCode, rThread, reading
<1>7. CASE EndingStep
  <2>1. ASSUME NEW o \in todo, EndAsk(o) \/ EndMark(o) \/ EndClose(o) PROVE UnderWay'
    BY <1>2, <2>1, UnderWayEnding
  <2>2. HandlerRefuses \/ EngineRefuses \/ EnterEngine => UnderWay'
    BY <1>5 DEF HandlerRefuses, EngineRefuses, EnterEngine, reading
  <2>3. QED
    BY <1>7, <2>1, <2>2 DEF EndingStep
<1>8. CASE EngineReturns
  <2>1. ASSUME NEW r \in Res, NEW n \in 0..MaxRows, NEW stream \in BOOLEAN, ResultReturns(r, n, stream) PROVE UnderWay'
    <3>1. /\ ~atR /\ holder[r] = "none" /\ left' = [left EXCEPT ![r] = n] /\ UNCHANGED <<ends, ahead>>
      BY <2>1 DEF ResultReturns
    <3>2. pool[r] = "idle" /\ \A q \in Res : q # r => left'[q] = left[q]
      BY <3>1 DEF IInv, OwnersOK, TypeOK, TypeOfReading
    <3>3. QED
      BY <1>4, <3>1, <3>2, NothingInHand, UnderWayRead
  <2>2. ASSUME NEW r \in Res, NEW k \in Batches, EndRead(r, k) PROVE UnderWay'
    <3>1. ~atR /\ Pop /\ Top = ReadFrame(r) /\ UNCHANGED <<ends, ahead>>
      BY <2>2 DEF EndRead
    <3>2. r \in BeingRead
      BY <3>1, PopEffect DEF BeingRead, ReadFrame
    <3>3. pool[r] = "idle"
      BY <3>2, BeingReadFacts DEF IInv, OwnersOK
    <3>4. \A q \in Res : q # r => left'[q] = left[q]
      BY <2>2 DEF EndRead, Batch, BatchLost, ReadFails, Fails, Hands, Loses, IInv, TypeOK, TypeOfReading
    <3>5. QED
      BY <1>4, <3>1, <3>3, <3>4, NothingInHand, UnderWayRead
  <2>3. StatementReturns => UnderWay'
    BY <1>5 DEF StatementReturns, reading
  <2>4. QED
    BY <1>8, <2>1, <2>2, <2>3 DEF EngineReturns
<1>9. CASE Callback \/ CallbackReturns \/ Drain
  BY <1>5, <1>9 DEF Callback, CallbackReturns, Drain, RCode, rThread, reading
<1>10. ASSUME NEW r \in Res, NEW k \in Batches, ReadAtOnce(r, k) PROVE UnderWay'
  <2>1. ending = NoCtx /\ pool[r] = "idle" /\ UNCHANGED <<ends, ahead>>
    BY <1>10 DEF ReadAtOnce, RCode, Readable, rThread, IInv, OwnersOK
  <2>2. \A q \in Res : q # r => left'[q] = left[q]
    BY <1>10 DEF ReadAtOnce, AnswerWithoutRows, Batch, BatchLost, Hands, Loses, IInv, TypeOK, TypeOfReading
  <2>3. QED
    BY <1>4, <2>1, <2>2, NothingInHand, UnderWayRead
<1>11. ASSUME NEW r \in Res, NEW k \in Batches, PoolReadAtOnce(r, k) PROVE UnderWay'
  <2>1. /\ pool[r] = "idle" /\ r \in PoolStreams /\ holder[r] = "reader"
        /\ UNCHANGED <<ends, ahead, objects, streamed, invalidated>>
    BY <1>11 DEF PoolReadAtOnce, rThread
  <2>2. \/ ReadsOn(r, k)
        \/ ~HasRows(r) /\ AnswerWithoutRows(r)
    BY <1>11 DEF PoolReadAtOnce, ReadsOn, HasRows
  <2>3. /\ \A c \in Ctx : active'[c] = active[c] \/ (active[c] = r /\ active'[c] = NoRes)
        /\ \A q \in Res : q # r => left'[q] = left[q]
    BY <2>1, <2>2, ReadEffect
  <2>4. have'[r] = 0 /\ left'[r] \in Nat
    BY <1>4, <2>1 DEF IInv, UnderWay, PoolReads, TypeOK, TypeOfReading
  <2>5. QED
    BY <2>1, <2>3, <2>4, OthersOpen, UnderWayOnPool DEF IInv, objects
<1>12. ASSUME NEW r \in Res, ReadTable(r) PROVE UnderWay'
  <2>1. ending = NoCtx /\ pool[r] = "idle" /\ UNCHANGED <<ends, ahead>>
    BY <1>12 DEF ReadTable, RCode, rThread, IInv, OwnersOK
  <2>2. \A q \in Res : q # r => left'[q] = left[q]
    BY <1>12 DEF ReadTable, Loses, IInv, TypeOK, TypeOfReading
  <2>3. QED
    BY <1>4, <2>1, <2>2, NothingInHand, UnderWayRead
<1>13. ASSUME NEW r \in Res,
              BeginRead(r) \/ HandOver(r) \/ FinalizeResult(r) \/ ReleaseReader(r) \/ ReleaseArrowResult(r)
       PROVE  UnderWay'
  BY <1>5, <1>13 DEF BeginRead, HandOver, FinalizeResult, ReleaseReader, ReleaseArrowResult, RCode, rThread, reading
<1>14. ASSUME NEW r \in Res, PoolBeginRead(r) \/ PoolRelease(r) \/ PoolStep(r) PROVE UnderWay'
  BY <1>2, <1>14, UnderWayPoolSteps
<1>15. QED
  BY <1>1, <1>6, <1>7, <1>8, <1>9, <1>10, <1>11, <1>12, <1>13, <1>14 DEF Next

-----------------------------------------------------------------------------
\* The inductive invariant holds in every behaviour of the Arrow route.
THEOREM Invariance == Spec => []IInv
<1>1. Init => IInv
  BY InitKeeps
<1>2. IInv /\ [Next]_vars => IInv'
  BY NextKeeps
<1>3. QED
  BY <1>1, <1>2, PTL DEF Spec

\* Every variable keeps its type.
THEOREM TypeCorrect == Spec => []TypeOK
<1>1. IInv => TypeOK
  BY DEF IInv
<1>2. QED
  BY <1>1, Invariance, PTL

\* EndOpenResults() calls through no dangling pointer: whatever it can still reach is alive, registers itself under
\* its own context, and that context is alive.
THEOREM TrackedLive == Spec => []TrackedIsLive
<1>1. IInv => TrackedIsLive
  BY DEF IInv
<1>2. QED
  BY <1>1, Invariance, PTL

\* A result that holds its connection's query open is known to the glue.
THEOREM OpenKnown == Spec => []OpenIsKnown
<1>1. ASSUME IInv PROVE OpenIsKnown
  <2>1. ASSUME NEW c \in Ctx, active[c] # NoRes PROVE Home[active[c]] = c /\ Known(active[c])
    <3>1. active[c] \in Res /\ Home[active[c]] = c
      BY <1>1, <2>1 DEF IInv, TypeOK, TypeOfEngine, OpenOK
    <3>2. Tracker(active[c]).res = active[c]
      BY <3>1, Fields DEF Tracker
    <3>3. QED
      BY <1>1, <2>1, <3>1, <3>2 DEF IInv, OpenOK, Known
  <2>2. QED
    BY <2>1 DEF OpenIsKnown
<1>2. QED
  BY <1>1, Invariance, PTL

\* While EndOpenResults() ends a context's results, no read of that context is below it.
GuardHolds ==
  ending # NoCtx => \A i \in 1..Len(stack) : stack[i].kind = "read" => stack[i].ctx # ending

\* Only EnterEngine and BeginStatement touch both the stack and `ending`, and the stack changes while R ends nothing.
LEMMA GuardKeeps ==
  ASSUME IInv, GuardHolds, [Next]_vars, Reentrant = FALSE
  PROVE  GuardHolds'
<1>1. ASSUME NEW c \in Ctx, BeginStatement(c) PROVE GuardHolds'
  <2>1. UNCHANGED stack /\ ending' = c /\ \A i \in 1..Len(stack) : stack[i].kind = "read" => stack[i].ctx # c
    BY <1>1 DEF BeginStatement
  <2>2. QED
    BY <2>1 DEF GuardHolds
<1>2. CASE ending' = NoCtx
  BY <1>2 DEF GuardHolds
<1>3. CASE UNCHANGED <<stack, ending>>
  BY <1>3 DEF GuardHolds
<1>4. ending = NoCtx \/ atR
  BY DEF IInv, StackOK
<1>5. ASSUME NEW c \in Ctx, Disconnect(c) PROVE UNCHANGED <<stack, ending>>
  BY <1>5 DEF Disconnect, rThread
<1>6. CASE EndingStep
  <2>1. ASSUME NEW o \in todo, EndAsk(o) \/ EndMark(o) \/ EndClose(o) PROVE UNCHANGED <<stack, ending>>
    BY <2>1 DEF EndAsk, EndMark, EndClose
  <2>2. HandlerRefuses \/ EngineRefuses \/ EnterEngine => ending' = NoCtx
    BY DEF HandlerRefuses, EngineRefuses, EnterEngine
  <2>3. QED
    BY <1>2, <1>3, <1>6, <2>1, <2>2 DEF EndingStep
<1>7. CASE EngineReturns
  <2>1. StatementReturns => ~atR /\ UNCHANGED ending
    BY DEF StatementReturns
  <2>2. ASSUME NEW r \in Res, NEW n \in 0..MaxRows, NEW stream \in BOOLEAN, ResultReturns(r, n, stream)
        PROVE  ~atR /\ UNCHANGED ending
    BY <2>2 DEF ResultReturns
  <2>3. ASSUME NEW r \in Res, NEW k \in Batches, EndRead(r, k) PROVE ~atR /\ UNCHANGED ending
    BY <2>3 DEF EndRead
  <2>4. QED
    BY <1>2, <1>4, <1>7, <2>1, <2>2, <2>3 DEF EngineReturns
<1>8. CASE Callback \/ CallbackReturns \/ Drain
  BY <1>3, <1>8 DEF Callback, CallbackReturns, Drain, rThread
<1>9. ASSUME NEW r \in Res, NEW k \in Batches, ReadAtOnce(r, k) \/ PoolReadAtOnce(r, k)
      PROVE  UNCHANGED <<stack, ending>>
  BY <1>9 DEF ReadAtOnce, PoolReadAtOnce, rThread
<1>10. ASSUME NEW r \in Res, BeginRead(r) PROVE ending' = NoCtx
  BY <1>10 DEF BeginRead, RCode
<1>11. ASSUME NEW r \in Res, ReadTable(r) \/ HandOver(r) \/ FinalizeResult(r) \/ ReleaseReader(r) \/ ReleaseArrowResult(r)
       PROVE  UNCHANGED <<stack, ending>>
  BY <1>11 DEF ReadTable, HandOver, FinalizeResult, ReleaseReader, ReleaseArrowResult, rThread
<1>12. ASSUME NEW r \in Res, PoolBeginRead(r) \/ PoolRelease(r) \/ PoolStep(r) PROVE UNCHANGED <<stack, ending>>
  BY <1>12 DEF PoolBeginRead, PoolRelease, PoolStep, PoolPoll, PoolFetch, PoolAppend, PoolBatch, PoolSeesEnd,
               PoolBatchLost, PoolFails, PoolReadEnds, PoolPark, PoolUntrack, PoolClose, rThread
<1>13. CASE UNCHANGED vars
  BY <1>3, <1>13 DEF vars, rThread
<1>14. QED
  BY <1>1, <1>2, <1>3, <1>5, <1>6, <1>7, <1>8, <1>9, <1>10, <1>11, <1>12, <1>13 DEF Next

\* R's thread never waits for a lock of its own stack, as long as no callback of a read uses the connection being
\* read: a call of that context below it is then a statement, which left nothing open to close.
THEOREM NoSelfWaiting ==
  ASSUME Reentrant = FALSE
  PROVE  Spec => []NoSelfWait
<1>1. Init => GuardHolds
  BY DEF Init, GuardHolds
<1>2. IInv /\ GuardHolds /\ [Next]_vars => GuardHolds'
  BY GuardKeeps
<1>3. ASSUME IInv, GuardHolds PROVE NoSelfWait
  <2>1. SUFFICES ASSUME ending \in LockedByR
                 PROVE  (\A o \in todo : ~IsOpen(o.res)) /\ HandlerBusy
    BY DEF NoSelfWait
  <2>2. PICK i \in 1..Len(stack) : stack[i].ctx = ending
    BY <2>1 DEF LockedByR
  <2>3. Len(stack) \in Nat /\ stack[i] \in Frame
    BY <1>3, ElementOfSeq, LenProperties DEF IInv, TypeOK, TypeOfThread
  <2>4. ending \in Ctx /\ ending # NoCtx /\ stack[i].kind \in {"statement", "read"}
    BY <2>2, <2>3, ConstantsAssumption DEF Frame
  <2>5. stack[i].kind = "statement"
    BY <1>3, <2>2, <2>4 DEF GuardHolds
  <2>6. active[ending] = NoRes
    BY <1>3, <2>2, <2>5 DEF IInv, LocksHold
  <2>7. ASSUME NEW o \in todo PROVE ~IsOpen(o.res)
    <3>1. o.res \in Res
      BY <1>3 DEF IInv, TypeOK, TypeOfThread, OpenResult
    <3>2. Home[o.res] = ending
      BY <1>3, <2>4 DEF IInv, TrackedIsLive, Reachable
    <3>3. QED
      BY <2>6, <3>1, <3>2, ConstantsAssumption DEF IsOpen
  <2>8. QED
    BY <2>5, <2>7 DEF HandlerBusy
<1>4. QED
  BY <1>1, <1>2, <1>3, Invariance, PTL DEF Spec

=============================================================================
