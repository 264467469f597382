---------------------------- MODULE AltrepProofs ----------------------------
(***************************************************************************)
(* Proofs about Altrep, for any number of connections, frames and columns  *)
(* and calls nested as deep as one likes.  Types, the interrupt handler    *)
(* and what becomes of a SIGINT are proved whatever R code does in a       *)
(* callback; that no call waits for a lock of its own stack, for R code    *)
(* that keeps off the connections whose locks its stack holds and off      *)
(* relations over an unread frame of the same connection (the run          *)
(* altrep_selfwait drops the latter).                                      *)
(***************************************************************************)
EXTENDS Altrep, SequenceTheorems, FiniteSetTheorems, TLAPS

USE HomeAssumption, ColsAssumption, NoneAssumption, BoundsAssumption

\* A call of the code: a read is of a frame, on its home connection, and has no bind; a relation scans a
\* frame and does not run; only a read waits for a callback or fills a column.
WellFormed ==
  {call \in Call :
     /\ call.op = "read" =>
          /\ call.frame \in Frame /\ call.conn = Home[call.frame]
          /\ call.pc \in {"callback", "run", "fill", "waiting"}
          /\ call.pc = "fill" => call.col # 0
     /\ call.op # "read" => call.pc \notin {"callback", "fill"}
     /\ call.op = "relation" => call.pc \in {"bind", "failed", "waiting"}}

DataType ==
  /\ mat \in [Frame -> 0 .. MaxRuns] /\ rows \in [Frame -> 0 .. MaxRuns]
  /\ err \in [Frame -> BOOLEAN] /\ runs \in [Frame -> 0 .. MaxRuns]
  /\ vec \in [Frame -> [Cols -> 0 .. MaxRuns]]
  /\ whole \in [Frame -> SUBSET Cols] /\ conv \in [Frame -> SUBSET Cols]
  /\ marks \in [Frame -> Nat]
  /\ deep \in [Conn -> Nat]
  \* What is held is what the row count was taken from.
  /\ \A f \in Frame : mat[f] \in {0, rows[f]}

\* SIGINT reaches a handler that has a connection to interrupt.
SlotType ==
  /\ slot \in [at : Nat, ctx : Conn \cup {NoConn}, flag : BOOLEAN]
  /\ slot.ctx = NoConn => ~slot.flag
  /\ answer \in {"nothing", "ok", "error", "interrupt"}

HInv == stack \in Seq(WellFormed) /\ DataType /\ SlotType /\ HandlerScoped

LEMMA HInvType == HInv => TypeOK
<1>1. WellFormed \subseteq Call
  BY DEF WellFormed
<1>. QED
  BY <1>1, SeqMonotonic DEF HInv, DataType, SlotType, TypeOK

-----------------------------------------------------------------------------
(***************************************************************************)
(* What a step does to the stack.                                          *)
(***************************************************************************)

LEMMA StackFacts ==
  ASSUME stack \in Seq(WellFormed)
  PROVE  /\ DOMAIN stack = 1 .. Len(stack) /\ Len(stack) \in Nat
         /\ stack # <<>> => Len(stack) # 0 /\ Top \in WellFormed
         /\ \A i \in 1 .. Len(stack) : stack[i] \in WellFormed
<1>1. DOMAIN stack = 1 .. Len(stack) /\ Len(stack) \in Nat /\ (stack # <<>> => Len(stack) # 0)
  BY LenProperties, EmptySeq
<1>2. \A i \in 1 .. Len(stack) : stack[i] \in WellFormed
  BY ElementOfSeq
<1>. QED
  BY <1>1, <1>2 DEF Top

LEMMA OpPc ==
  /\ Op # "R" \/ Pc # "R" => stack # <<>>
  /\ stack # <<>> => Op = Top.op /\ Pc = Top.pc
  BY DEF Op, Pc

\* The innermost call goes on as e.
Stepped(e) == stack # <<>> /\ stack' = [stack EXCEPT ![Len(stack)] = e]

LEMMA StepStack ==
  ASSUME stack \in Seq(WellFormed), NEW e \in WellFormed, Stepped(e)
  PROVE  /\ stack' \in Seq(WellFormed) /\ Len(stack') = Len(stack)
         /\ stack'[Len(stack)] = e
         /\ \A i \in 1 .. Len(stack) : i # Len(stack) => stack'[i] = stack[i]
<1>1. Len(stack) \in 1 .. Len(stack)
  BY StackFacts DEF Stepped
<1>. QED
  BY <1>1, ExceptSeq DEF Stepped

LEMMA PushStack ==
  ASSUME stack \in Seq(WellFormed), NEW e \in WellFormed, Push(e)
  PROVE  /\ stack' \in Seq(WellFormed) /\ Len(stack') = Len(stack) + 1
         /\ stack'[Len(stack) + 1] = e
         /\ \A i \in 1 .. Len(stack) : stack'[i] = stack[i]
  BY AppendProperties DEF Push

LEMMA FailedIsWellFormed ==
  \A call \in WellFormed : call.pc = "bind" => [call EXCEPT !.pc = "failed"] \in WellFormed
  BY DEF WellFormed, Call

\* A return takes the innermost call away, and the bind below it may fail.
LEMMA ReturnStack ==
  ASSUME stack \in Seq(WellFormed), stack # <<>>, NEW a, Return(a)
  PROVE  /\ stack' \in Seq(WellFormed) /\ Len(stack') = Len(stack) - 1
         /\ \A i \in 1 .. Len(stack) - 1 :
              \/ stack'[i] = stack[i]
              \/ stack[i].pc = "bind" /\ stack'[i] = [stack[i] EXCEPT !.pc = "failed"]
<1>. DEFINE n == Len(stack) - 1
<1>1. n \in Nat /\ \A i \in 1 .. Len(stack) : stack[i] \in WellFormed
  BY StackFacts
<1>2. /\ Below \in Seq(WellFormed) /\ Len(Below) = n
      /\ \A i \in 1 .. n : Below[i] = stack[i]
  <2>1. \A i \in 1 .. n : stack[i] \in WellFormed
    BY <1>1
  <2>. HIDE DEF n
  <2>2. /\ SubSeq(stack, 1, n) \in Seq(WellFormed) 
        /\ Len(SubSeq(stack, 1, n)) = IF 1 <= n THEN n - 1 + 1 ELSE 0
        /\ \A i \in 1 .. n - 1 + 1 : SubSeq(stack, 1, n)[i] = stack[1 + i - 1]
    BY <1>1, <2>1, SubSeqProperties
  <2>3. Below = SubSeq(stack, 1, n)
    BY DEF Below, n
  <2>. QED
    BY <1>1, <2>2, <2>3
<1>3. CASE a # "ok" /\ n > 0 /\ stack[n].pc = "bind"
  <2>1. stack' = [Below EXCEPT ![n].pc = "failed"]
    BY <1>3 DEF Return
  <2>2. n \in 1 .. Len(Below) /\ [Below[n] EXCEPT !.pc = "failed"] \in WellFormed
    BY <1>1, <1>2, <1>3, FailedIsWellFormed
  <2>3. stack' = [Below EXCEPT ![n] = [Below[n] EXCEPT !.pc = "failed"]]
    BY <2>1
  <2>. HIDE DEF n
  <2>. QED
    BY <1>2, <1>3, <2>2, <2>3, ExceptSeq DEF n
<1>4. CASE ~(a # "ok" /\ n > 0 /\ stack[n].pc = "bind")
  BY <1>2, <1>4 DEF Return
<1>. QED
  BY <1>3, <1>4

-----------------------------------------------------------------------------
(***************************************************************************)
(* What a step does to the handler.                                        *)
(***************************************************************************)

\* Who may hold the handler, and for which connection.
OwnerOK(call, ctx) ==
  /\ call.op = "statement" \/ (call.op = "read" /\ call.pc \in {"run", "waiting"})
  /\ ctx = IF call.pc = "convert" THEN NoConn ELSE call.conn

LEMMA ScopedFacts ==
  ASSUME HInv
  PROVE  /\ slot.at \in 0 .. Len(stack)
         /\ slot.at # 0 => OwnerOK(stack[slot.at], slot.ctx)
         /\ slot.at = 0 => slot = Free
         /\ \A i \in 1 .. Len(stack) :
              /\ stack[i].op = "statement" => slot.at = i
              /\ stack[i].pc = "run" => slot.at \in 1 .. i
  BY StackFacts DEF HInv, SlotType, HandlerScoped, IsActive, OwnerOK

LEMMA ScopedAgain ==
  ASSUME stack' \in Seq(WellFormed),
         slot'.at \in 0 .. Len(stack'),
         slot'.at # 0 => OwnerOK(stack'[slot'.at], slot'.ctx),
         slot'.at = 0 => slot' = Free,
         \A i \in 1 .. Len(stack') :
           /\ stack'[i].op = "statement" => slot'.at = i
           /\ stack'[i].pc = "run" => slot'.at \in 1 .. i
  PROVE  HandlerScoped'
<1>1. DOMAIN stack' = 1 .. Len(stack') /\ Len(stack') \in Nat
  BY LenProperties
<1>. QED
  BY <1>1 DEF HandlerScoped, IsActive, OwnerOK, Free

LEMMA FailedStaysOwner ==
  ASSUME NEW call \in WellFormed, call.pc = "bind", NEW failed, failed = [call EXCEPT !.pc = "failed"]
  PROVE  /\ failed.op = call.op /\ failed.pc # "run"
         /\ \A c : OwnerOK(call, c) => OwnerOK(failed, c)
  BY DEF WellFormed, Call, OwnerOK

\* The handler leaves with the call that constructed it.
LEMMA ReturnScoped ==
  ASSUME HInv, stack # <<>>, NEW a \in {"ok", "error", "interrupt"}, Return(a)
  PROVE  HandlerScoped' /\ SlotType'
<1>. DEFINE n == Len(stack) - 1
<1>1. n \in Nat /\ \A i \in 1 .. Len(stack) : stack[i] \in WellFormed
  BY StackFacts DEF HInv
<1>2. /\ stack' \in Seq(WellFormed) /\ Len(stack') = n
      /\ \A i \in 1 .. n :
           \/ stack'[i] = stack[i]
           \/ stack[i].pc = "bind" /\ stack'[i] = [stack[i] EXCEPT !.pc = "failed"]
  BY ReturnStack DEF HInv
<1>3. \A i \in 1 .. n :
        /\ stack'[i].op = stack[i].op
        /\ stack'[i].pc = "run" => stack[i].pc = "run"
        /\ OwnerOK(stack[i], slot.ctx) => OwnerOK(stack'[i], slot.ctx)
  <2>. SUFFICES ASSUME NEW i \in 1 .. n
                PROVE  /\ stack'[i].op = stack[i].op
                       /\ stack'[i].pc = "run" => stack[i].pc = "run"
                       /\ OwnerOK(stack[i], slot.ctx) => OwnerOK(stack'[i], slot.ctx)
    OBVIOUS
  <2>1. stack[i] \in WellFormed
    BY <1>1
  <2>2. CASE stack'[i] = stack[i]
    BY <2>2
  <2>3. CASE stack[i].pc = "bind" /\ stack'[i] = [stack[i] EXCEPT !.pc = "failed"]
    BY <2>1, <2>3, FailedStaysOwner
  <2>. QED
    BY <1>2, <2>2, <2>3
<1>4. slot' = (IF slot.at = n + 1 THEN Free ELSE slot) /\ answer' = a
  BY <1>1 DEF Return, Released
<1>5. SlotType'
  BY <1>4 DEF HInv, SlotType, Free
<1>6. CASE slot.at = n + 1
  <2>1. slot' = Free /\ slot'.at = 0
    BY <1>4, <1>6 DEF Free
  <2>2. \A i \in 1 .. n : stack'[i].op # "statement" /\ stack'[i].pc # "run"
    BY <1>1, <1>3, <1>6, ScopedFacts
  <2>. QED
    BY <1>1, <1>2, <1>5, <2>1, <2>2, ScopedAgain
<1>7. CASE slot.at # n + 1
  <2>1. slot' = slot /\ slot.at \in 0 .. n
    BY <1>1, <1>4, <1>7, ScopedFacts
  <2>2. slot.at # 0 => OwnerOK(stack'[slot.at], slot.ctx)
    <3>1. slot.at # 0 => slot.at \in 1 .. n /\ OwnerOK(stack[slot.at], slot.ctx)
      BY <1>1, <2>1, ScopedFacts
    <3>. QED
      BY <1>3, <3>1
  <2>3. \A i \in 1 .. n : /\ stack'[i].op = "statement" => slot.at = i
                          /\ stack'[i].pc = "run" => slot.at \in 1 .. i
    BY <1>1, <1>3, ScopedFacts
  <2>. QED
    BY <1>2, <1>5, <2>1, <2>2, <2>3, ScopedFacts, ScopedAgain
<1>. QED
  BY <1>6, <1>7

\* A call that neither runs nor is a statement leaves the handler to who has it.
LEMMA PushScoped ==
  ASSUME HInv, NEW e \in WellFormed, e.op # "statement", e.pc # "run", Push(e), slot' = slot
  PROVE  HandlerScoped'
<1>1. Len(stack) \in Nat
  BY StackFacts DEF HInv
<1>2. /\ stack' \in Seq(WellFormed) /\ Len(stack') = Len(stack) + 1
      /\ stack'[Len(stack) + 1] = e
      /\ \A i \in 1 .. Len(stack) : stack'[i] = stack[i]
  BY PushStack DEF HInv
<1>3. \A i \in 1 .. Len(stack') : i \in 1 .. Len(stack) \/ i = Len(stack) + 1
  BY <1>1, <1>2
<1>. QED
  BY <1>1, <1>2, <1>3, ScopedFacts, ScopedAgain

\* The innermost call goes on.  It leaves the handler to who has it, ...
LEMMA StepScoped ==
  ASSUME HInv, NEW e \in WellFormed, Stepped(e), slot' = slot, e.op = Top.op,
         slot.at = Len(stack) => OwnerOK(e, slot.ctx),
         e.pc = "run" => slot.at # 0
  PROVE  HandlerScoped'
<1>. DEFINE n == Len(stack)
<1>1. n \in Nat \ {0}
  BY StackFacts DEF HInv, Stepped
<1>2. /\ stack' \in Seq(WellFormed) /\ Len(stack') = n
      /\ stack'[n] = e /\ e.op = stack[n].op
      /\ \A i \in 1 .. n : i # n => stack'[i] = stack[i]
  BY StepStack DEF HInv, Top
<1>3. /\ slot.at \in 0 .. n /\ (slot.at # 0 => OwnerOK(stack[slot.at], slot.ctx)) /\ (slot.at = 0 => slot = Free)
      /\ \A i \in 1 .. n : /\ stack[i].op = "statement" => slot.at = i
                           /\ stack[i].pc = "run" => slot.at \in 1 .. i
  BY ScopedFacts
<1>. HIDE DEF n
<1>4. slot.at # 0 => OwnerOK(stack'[slot.at], slot.ctx)
  BY <1>1, <1>2, <1>3 DEF n
<1>5. ASSUME NEW i \in 1 .. n
      PROVE  /\ stack'[i].op = "statement" => slot.at = i
             /\ stack'[i].pc = "run" => slot.at \in 1 .. i
  <2>1. /\ stack[i].op = "statement" => slot.at = i
        /\ stack[i].pc = "run" => slot.at \in 1 .. i
    BY ONLY <1>3, i \in 1 .. n
  <2>2. CASE i = n
    <3>1. stack'[i].op = stack[i].op /\ stack'[i] = e
      BY <1>2, <2>2
    <3>. QED
      BY <1>1, <1>3, <2>1, <2>2, <3>1
  <2>3. CASE i # n
    <3>1. stack'[i] = stack[i]
      BY <1>2, <2>3
    <3>. QED
      BY <2>1, <3>1
  <2>. QED
    BY <2>2, <2>3
<1>. QED
  BY <1>2, <1>3, <1>4, <1>5, ScopedAgain

\* ... or holds it from now on, ...
LEMMA StepClaims ==
  ASSUME HInv, NEW e \in WellFormed, Stepped(e),
         slot.at \in {0, Len(stack)}, slot'.at = Len(stack), OwnerOK(e, slot'.ctx)
  PROVE  HandlerScoped'
<1>. DEFINE n == Len(stack)
<1>1. n \in Nat \ {0}
  BY StackFacts DEF HInv, Stepped
<1>2. /\ stack' \in Seq(WellFormed) /\ Len(stack') = n
      /\ stack'[n] = e
      /\ \A i \in 1 .. n : i # n => stack'[i] = stack[i]
  BY StepStack DEF HInv
<1>3. \A i \in 1 .. n : i # n => stack[i].op # "statement" /\ stack[i].pc # "run"
  BY <1>1, ScopedFacts
<1>4. \A i \in 1 .. n : /\ stack'[i].op = "statement" => n = i
                        /\ stack'[i].pc = "run" => n \in 1 .. i
  BY <1>1, <1>2, <1>3
<1>. QED
  BY <1>1, <1>2, <1>4, ScopedAgain

\* ... or disposes of it.
LEMMA StepFrees ==
  ASSUME HInv, NEW e \in WellFormed, Stepped(e),
         slot.at = Len(stack), slot' = Free, e.op = "read", e.pc # "run"
  PROVE  HandlerScoped'
<1>. DEFINE n == Len(stack)
<1>1. n \in Nat \ {0} /\ slot'.at = 0
  BY StackFacts DEF HInv, Stepped, Free
<1>2. /\ stack' \in Seq(WellFormed) /\ Len(stack') = n
      /\ stack'[n] = e
      /\ \A i \in 1 .. n : i # n => stack'[i] = stack[i]
  BY StepStack DEF HInv
<1>3. \A i \in 1 .. n : i # n => stack[i].op # "statement" /\ stack[i].pc # "run"
  BY <1>1, ScopedFacts
<1>4. \A i \in 1 .. n : stack'[i].op # "statement" /\ stack'[i].pc # "run"
  BY <1>2, <1>3
<1>. QED
  BY <1>1, <1>2, <1>4, ScopedAgain

-----------------------------------------------------------------------------
(***************************************************************************)
(* Every step preserves types and the handler's scope, whatever the        *)
(* Habits.                                                                 *)
(***************************************************************************)

LEMMA Initially == Init => HInv
<1>. SUFFICES ASSUME Init PROVE HInv
  OBVIOUS
<1>1. stack = <<>> /\ slot = Free /\ <<>> \in Seq(WellFormed) /\ Len(<<>>) = 0 /\ DOMAIN stack = {}
  BY EmptySeq DEF Init
<1>2. HandlerScoped
  BY <1>1 DEF HandlerScoped, IsActive, Free
<1>3. DataType /\ SlotType
  BY DEF Init, DataType, SlotType, Free
<1>. QED
  BY <1>1, <1>2, <1>3 DEF HInv

LEMMA DataStays == DataType /\ UNCHANGED <<frameVars, deep>> => DataType'
  BY DEF DataType, frameVars

LEMMA StepIsStepped ==
  ASSUME stack # <<>>, NEW p, Step(p)
  PROVE  Stepped([Top EXCEPT !.pc = p])
  BY DEF Step, Stepped, Top

LEMMA NewReadType ==
  ASSUME NEW f \in Frame, NEW k \in Cols \cup {0}, NEW p \in {"callback", "fill"}, p = "fill" => k # 0
  PROVE  /\ NewCall("read", Home[f], f, k, p) \in WellFormed
         /\ NewCall("read", Home[f], f, k, p).op = "read"
         /\ NewCall("read", Home[f], f, k, p).pc = p
  BY DEF NewCall, WellFormed, Call

\* An innermost call that returns leaves a scoped handler.
LEMMA ReturnKeeps ==
  ASSUME HInv, stack # <<>>, NEW a \in {"ok", "error", "interrupt"}, Return(a), DataType'
  PROVE  HInv'
  BY ReturnStack, ReturnScoped DEF HInv

\* A bind that fails still has its statement's handler.
LEMMA BindFailing ==
  ASSUME HInv, Pc = "bind", Step("failed"), slot' = slot
  PROVE  stack' \in Seq(WellFormed) /\ HandlerScoped'
<1>1. stack # <<>> /\ Top \in WellFormed /\ Top.pc = "bind"
  BY OpPc, StackFacts DEF HInv
<1>. DEFINE e == [Top EXCEPT !.pc = "failed"]
<1>2. Stepped(e) /\ e \in WellFormed
  BY <1>1, StepIsStepped, FailedIsWellFormed
<1>3. e.op = Top.op /\ e.pc # "run" /\ \A c : OwnerOK(Top, c) => OwnerOK(e, c)
  BY <1>1, FailedStaysOwner
<1>4. slot.at = Len(stack) => OwnerOK(Top, slot.ctx)
  BY <1>1, StackFacts, ScopedFacts DEF HInv, Top
<1>. HIDE DEF e
<1>. QED
  BY <1>2, <1>3, <1>4, StepStack, StepScoped DEF HInv

LEMMA EnterKeeps ==
  ASSUME HInv, NEW f \in Frame, NEW k \in Cols \cup {0}, k = 0 => rows[f] = 0, Enter(f, k)
  PROVE  HInv'
<1>1. CASE /\ answer' = "error"
           /\ IF Pc = "bind" THEN Step("failed") ELSE UNCHANGED stack
           /\ UNCHANGED <<frameVars, deep, slot>>
  <2>1. DataType' /\ SlotType'
    BY <1>1, DataStays DEF HInv, SlotType
  <2>2. CASE Pc = "bind"
    BY <1>1, <2>1, <2>2, BindFailing DEF HInv
  <2>3. CASE Pc # "bind"
    BY <1>1, <2>1, <2>3 DEF HInv, HandlerScoped, IsActive
  <2>. QED
    BY <2>2, <2>3
<1>2. CASE /\ Push(NewCall("read", Home[f], f, k, "callback"))
           /\ UNCHANGED <<frameVars, deep, slot, answer>>
  <2>1. DataType' /\ SlotType'
    BY <1>2, DataStays DEF HInv, SlotType
  <2>. QED
    BY <1>2, <2>1, NewReadType, PushStack, PushScoped DEF HInv
<1>3. CASE /\ mat[f] # 0
           /\ Push(NewCall("read", Home[f], f, k, "fill"))
           /\ vec' = [vec EXCEPT ![f][k] = mat[f]]
           /\ whole' = [whole EXCEPT ![f] = @ \ {k}]
           /\ UNCHANGED <<mat, rows, err, runs, conv, marks, deep, slot, answer>>
  <2>1. k \in Cols /\ k # 0
    BY <1>3 DEF HInv, DataType, Cols
  <2>2. DataType' /\ SlotType'
    BY <1>3, <2>1 DEF HInv, DataType, SlotType
  <2>. QED
    BY <1>3, <2>1, <2>2, NewReadType, PushStack, PushScoped DEF HInv
<1>. QED
  BY <1>1, <1>2, <1>3 DEF Enter

LEMMA ReadColumnStep == \A f \in Frame, k \in Cols : HInv /\ ReadColumn(f, k) => HInv'
  BY EnterKeeps DEF ReadColumn, Cols

LEMMA ReadLengthStep == \A f \in Frame : HInv /\ ReadLength(f) => HInv'
  BY EnterKeeps DEF ReadLength

LEMMA BindTouchesStep == HInv /\ BindTouches => HInv'
<1>. SUFFICES ASSUME HInv, BindTouches PROVE HInv'
  OBVIOUS
<1>1. Top \in WellFormed /\ Top.frame # NoFrame
  BY OpPc, StackFacts DEF HInv, BindTouches
<1>2. Top.frame \in Frame
  BY <1>1 DEF WellFormed, Call
<1>3. PICK k \in Untouched(Top.frame) : Enter(Top.frame, k)
  BY DEF BindTouches
<1>4. k \in Cols \cup {0} /\ k # 0
  BY DEF Untouched, Cols
<1>. QED
  BY <1>2, <1>3, <1>4, EnterKeeps

LEMMA TopRead ==
  ASSUME HInv, stack # <<>>, Top.op = "read"
  PROVE  /\ Top \in WellFormed /\ Top.frame \in Frame /\ Top.conn = Home[Top.frame] /\ Home[Top.frame] \in Conn
         /\ Top.col \in Cols \cup {0}
  BY StackFacts DEF HInv, WellFormed, Call

LEMMA CallbackIsRead == \A call \in WellFormed : call.pc \in {"callback", "fill"} => call.op = "read"
  BY DEF WellFormed

\* Who holds the handler is not in a callback or in a conversion of a column.
LEMMA NotOwner ==
  ASSUME HInv, stack # <<>>, Top.pc \in {"callback", "fill"}
  PROVE  slot.at # Len(stack)
<1>1. Top \in WellFormed /\ Len(stack) \in Nat \ {0} /\ Top = stack[Len(stack)]
  BY StackFacts DEF HInv, Top
<1>2. ~OwnerOK(Top, slot.ctx)
  BY <1>1, CallbackIsRead DEF OwnerOK
<1>. QED
  BY <1>1, <1>2, ScopedFacts

LEMMA RunQueryStep == HInv /\ RunQuery => HInv'
<1>. SUFFICES ASSUME HInv, RunQuery PROVE HInv'
  OBVIOUS
<1>. DEFINE f == Top.frame
            c == Home[f]
<1>1. /\ stack # <<>> /\ Top.pc = "callback" /\ Top.op = "read" /\ Top \in WellFormed
      /\ f \in Frame /\ c \in Conn /\ Top.conn = c
      /\ Len(stack) \in Nat \ {0} /\ slot.at # Len(stack)
  <2>1. stack # <<>> /\ Top.pc = "callback"
    BY OpPc DEF RunQuery
  <2>. QED
    BY <2>1, StackFacts, CallbackIsRead, TopRead, NotOwner DEF HInv
<1>2. CASE Refused(c)
  BY <1>1, <1>2, DataStays, ReturnKeeps DEF RunQuery, HInv
<1>3. CASE ~Refused(c)
  <2>1. ASSUME NEW e \in WellFormed, Stepped(e), e.op = "read", e.pc \in {"run", "waiting"}, e.conn = c
        PROVE  stack' \in Seq(WellFormed) /\ SlotType' /\ HandlerScoped'
    <3>1. stack' \in Seq(WellFormed)
      BY <2>1, StepStack DEF HInv
    <3>2. CASE IsActive
      <4>1. slot' = slot /\ answer' = answer /\ slot.at # 0
        BY <1>3, <3>2 DEF RunQuery, IsActive
      <4>. QED
        BY <1>1, <2>1, <3>1, <4>1, StepScoped DEF HInv, SlotType
    <3>3. CASE ~IsActive
      <4>1. slot' = Claim(Len(stack), c) /\ answer' = answer /\ slot.at = 0
        BY <1>3, <3>3 DEF RunQuery, IsActive
      <4>2. slot'.at = Len(stack) /\ slot'.ctx = c /\ SlotType'
        BY <1>1, <4>1 DEF Claim, HInv, SlotType
      <4>3. OwnerOK(e, slot'.ctx)
        BY <2>1, <4>2 DEF OwnerOK
      <4>. QED
        BY <2>1, <3>1, <4>1, <4>2, <4>3, StepClaims
    <3>. QED
      BY <3>2, <3>3
  <2>2. CASE Locked(c)
    <3>. DEFINE e == [Top EXCEPT !.pc = "waiting"]
    <3>1. Stepped(e)
      BY <1>1, <1>3, <2>2, StepIsStepped DEF RunQuery
    <3>2. e \in WellFormed /\ e.op = "read" /\ e.pc = "waiting" /\ e.conn = c
      BY <1>1 DEF WellFormed, Call
    <3>3. DataType'
      BY <1>3, <2>2 DEF RunQuery, HInv, DataType
    <3>. QED
      BY <2>1, <3>1, <3>2, <3>3 DEF HInv
  <2>3. CASE ~Locked(c)
    <3>. DEFINE e == [Top EXCEPT !.pc = "run", !.old = deep[c]]
    <3>1. Stepped(e)
      BY <1>1, <1>3, <2>3 DEF RunQuery, Stepped, Top
    <3>2. e \in WellFormed /\ e.op = "read" /\ e.pc = "run" /\ e.conn = c
      BY <1>1 DEF WellFormed, Call, HInv, DataType
    <3>3. DataType'
      <4>1. /\ runs[f] < MaxRuns /\ runs' = [runs EXCEPT ![f] = @ + 1]
            /\ deep' = [deep EXCEPT ![c] = @ + 1]
            /\ UNCHANGED <<mat, rows, err, vec, whole, conv, marks>>
        BY <1>3, <2>3 DEF RunQuery
      <4>. QED
        BY <1>1, <4>1 DEF HInv, DataType
    <3>. QED
      BY <2>1, <3>1, <3>2, <3>3 DEF HInv
  <2>. QED
    BY <2>2, <2>3
<1>. QED
  BY <1>2, <1>3

LEMMA CallbackFailsStep == HInv /\ CallbackFails => HInv'
  BY OpPc, DataStays, ReturnKeeps DEF CallbackFails, HInv

LEMMA QueryFailsStep == HInv /\ QueryFails => HInv'
<1>. SUFFICES ASSUME HInv, QueryFails PROVE HInv'
  OBVIOUS
<1>1. stack # <<>> /\ Top.op = "read" /\ Top \in WellFormed /\ Top.frame \in Frame
  BY OpPc, TopRead DEF QueryFails, StoresError
<1>2. Top.old \in Nat
  BY <1>1 DEF WellFormed, Call
<1>3. DataType'
  BY <1>1, <1>2 DEF QueryFails, StoresError, RestoreDepth, HInv, DataType
<1>. QED
  BY <1>1, <1>3, ReturnKeeps DEF QueryFails, StoresError

LEMMA QueryDoneStep == HInv /\ QueryDone => HInv'
<1>. SUFFICES ASSUME HInv, QueryDone PROVE HInv'
  OBVIOUS
<1>. DEFINE f == Top.frame
            k == Top.col
            e == [Top EXCEPT !.pc = "fill"]
<1>1. /\ stack # <<>> /\ Top.op = "read" /\ Top.pc = "run"
      /\ Top \in WellFormed /\ f \in Frame /\ k \in Cols \cup {0}
  BY OpPc, TopRead DEF QueryDone
<1>2. Top.old \in Nat
  BY <1>1 DEF WellFormed, Call
<1>3. DataType'
  <2>1. runs[f] \in 0 .. MaxRuns
    BY <1>1 DEF HInv, DataType
  <2>2. /\ mat' \in [Frame -> 0 .. MaxRuns] /\ rows' \in [Frame -> 0 .. MaxRuns]
        /\ \A x \in Frame : mat'[x] \in {0, rows'[x]}
    BY <1>1, <2>1 DEF QueryDone, HInv, DataType
  <2>3. deep' \in [Conn -> Nat]
    BY <1>2 DEF QueryDone, RestoreDepth, HInv, DataType
  <2>4. vec' \in [Frame -> [Cols -> 0 .. MaxRuns]] /\ whole' \in [Frame -> SUBSET Cols]
    <3>1. CASE UNCHANGED <<vec, whole>>
      BY <3>1 DEF HInv, DataType
    <3>2. CASE vec' = [vec EXCEPT ![f][k] = runs[f]] /\ whole' = [whole EXCEPT ![f] = @ \ {k}] /\ k # 0
      BY <1>1, <2>1, <3>2 DEF HInv, DataType
    <3>. QED
      BY <3>1, <3>2 DEF QueryDone
  <2>. QED
    BY <2>2, <2>3, <2>4 DEF QueryDone, HInv, DataType
<1>4. CASE \E a \in {"ok", "error", "interrupt"} : Return(a)
  BY <1>1, <1>3, <1>4, ReturnKeeps
<1>5. CASE /\ k # 0 /\ Step("fill") /\ answer' = answer
           /\ slot' = IF slot.at = Len(stack) THEN Free ELSE slot
  <2>1. Stepped(e)
    BY <1>1, <1>5, StepIsStepped
  <2>2. e \in WellFormed /\ e.op = "read" /\ e.pc = "fill"
    BY <1>1, <1>5 DEF WellFormed, Call
  <2>3. SlotType'
    BY <1>5 DEF HInv, SlotType, Free
  <2>. HIDE DEF e
  <2>4. CASE slot.at = Len(stack)
    BY <1>3, <1>5, <2>1, <2>2, <2>3, <2>4, StepFrees, StepStack DEF HInv
  <2>5. CASE slot.at # Len(stack)
    BY <1>1, <1>3, <1>5, <2>1, <2>2, <2>3, <2>5, StepScoped, StepStack DEF HInv
  <2>. QED
    BY <2>4, <2>5
<1>6. \/ \E a \in {"ok", "error", "interrupt"} : Return(a)
      \/ /\ k # 0 /\ Step("fill") /\ answer' = answer
         /\ slot' = IF slot.at = Len(stack) THEN Free ELSE slot
  BY DEF QueryDone
<1>. QED
  BY <1>4, <1>5, <1>6

LEMMA FillFailsStep == HInv /\ FillFails => HInv'
<1>. SUFFICES ASSUME HInv, FillFails PROVE HInv'
  OBVIOUS
<1>1. stack # <<>> /\ Top.pc = "fill" /\ Top \in WellFormed
  BY OpPc, StackFacts DEF FillFails, HInv
<1>2. Top.frame \in Frame /\ Top.col \in Cols
  BY <1>1 DEF WellFormed, Call
<1>3. vec' = [vec EXCEPT ![Top.frame][Top.col] = 0] /\ UNCHANGED <<mat, rows, err, runs, whole, conv, marks, deep>>
  BY DEF FillFails, Dropped
<1>4. DataType'
  BY <1>2, <1>3 DEF HInv, DataType
<1>. QED
  BY <1>1, <1>4, ReturnKeeps DEF FillFails

LEMMA FillDoneStep == HInv /\ FillDone => HInv'
<1>. SUFFICES ASSUME HInv, FillDone PROVE HInv'
  OBVIOUS
<1>1. stack # <<>> /\ Top.pc = "fill" /\ Top \in WellFormed
  BY OpPc, StackFacts DEF FillDone, HInv
<1>2. Top.frame \in Frame /\ Top.col \in Cols
  BY <1>1 DEF WellFormed, Call
<1>3. DataType'
  <2>1. /\ whole' \in [Frame -> SUBSET Cols] /\ conv' \in [Frame -> SUBSET Cols]
        /\ marks' \in [Frame -> Nat]
    BY <1>2 DEF FillDone, HInv, DataType
  <2>2. mat' \in [Frame -> 0 .. MaxRuns] /\ \A f \in Frame : mat'[f] \in {0, rows[f]}
    BY <1>2 DEF FillDone, HInv, DataType
  <2>. QED
    BY <2>1, <2>2 DEF FillDone, HInv, DataType
<1>. QED
  BY <1>1, <1>3, ReturnKeeps DEF FillDone

LEMMA ExecuteStep == \A c \in Conn, f \in Frame \cup {NoFrame} : HInv /\ Execute(c, f) => HInv'
<1>. SUFFICES ASSUME HInv, NEW c \in Conn, NEW f \in Frame \cup {NoFrame}, Execute(c, f) PROVE HInv'
  OBVIOUS
<1>1. DataType'
  BY DataStays DEF Execute, HInv
<1>2. CASE IsActive
  BY <1>1, <1>2 DEF Execute, HInv, SlotType, HandlerScoped, IsActive
<1>3. CASE ~IsActive
  <2>. DEFINE n == Len(stack)
              e == NewCall("statement", c, f, 0, IF Locked(c) THEN "waiting" ELSE "bind")
  <2>1. /\ Push(e) /\ slot' = Claim(n + 1, c) /\ answer' = answer
        /\ n \in Nat /\ slot.at = 0
    BY <1>3, StackFacts DEF Execute, IsActive, HInv
  <2>2. e \in WellFormed /\ e.op = "statement" /\ e.conn = c /\ e.pc # "run" /\ e.pc # "convert"
    BY DEF NewCall, WellFormed, Call
  <2>. HIDE DEF e
  <2>3. /\ stack' \in Seq(WellFormed) /\ Len(stack') = n + 1
        /\ stack'[n + 1] = e
        /\ \A i \in 1 .. n : stack'[i] = stack[i]
    BY <2>1, <2>2, PushStack DEF HInv
  <2>4. slot'.at = n + 1 /\ OwnerOK(e, slot'.ctx) /\ SlotType'
    BY <2>1, <2>2 DEF Claim, OwnerOK, HInv, SlotType
  <2>5. \A i \in 1 .. n : stack[i].op # "statement" /\ stack[i].pc # "run"
    BY <2>1, ScopedFacts
  <2>6. \A i \in 1 .. n + 1 : i \in 1 .. n \/ i = n + 1
    BY <2>1
  <2>7. \A i \in 1 .. n + 1 :
          /\ stack'[i].op = "statement" => n + 1 = i
          /\ stack'[i].pc = "run" => n + 1 \in 1 .. i
    BY <2>2, <2>3, <2>5, <2>6
  <2>8. HandlerScoped'
    BY <2>1, <2>3, <2>4, <2>7, ScopedAgain
  <2>. QED
    BY <1>1, <2>3, <2>4, <2>8 DEF HInv
<1>. QED
  BY <1>2, <1>3

LEMMA RelFromDfStep == \A c \in Conn, f \in Frame : HInv /\ RelFromDf(c, f) => HInv'
<1>. SUFFICES ASSUME HInv, NEW c \in Conn, NEW f \in Frame, RelFromDf(c, f) PROVE HInv'
  OBVIOUS
<1>. DEFINE e == NewCall("relation", c, f, 0, IF Locked(c) THEN "waiting" ELSE "bind")
<1>1. e \in WellFormed /\ e.op = "relation" /\ e.pc # "run"
  BY DEF NewCall, WellFormed, Call
<1>2. Push(e) /\ UNCHANGED <<frameVars, deep, slot, answer>>
  BY DEF RelFromDf
<1>. HIDE DEF e
<1>3. DataType' /\ SlotType'
  BY <1>2, DataStays DEF HInv, SlotType
<1>. QED
  BY <1>1, <1>2, <1>3, PushStack, PushScoped DEF HInv

\* A statement moves on with its handler.
LEMMA StatementMoves ==
  ASSUME HInv, NEW e \in WellFormed, Stepped(e), Top.op = "statement", e.op = "statement", e.conn = Top.conn,
         e.pc # "convert", Top.pc # "convert", UNCHANGED <<frameVars, deep, slot, answer>>
  PROVE  HInv'
<1>1. stack # <<>> /\ Len(stack) \in Nat \ {0} /\ Top = stack[Len(stack)]
  BY StackFacts DEF HInv, Stepped, Top
<1>2. slot.at = Len(stack) /\ OwnerOK(Top, slot.ctx)
  BY <1>1, ScopedFacts
<1>3. OwnerOK(e, slot.ctx)
  BY <1>2 DEF OwnerOK
<1>4. DataType' /\ SlotType'
  BY DataStays DEF HInv, SlotType
<1>5. stack' \in Seq(WellFormed)
  BY StepStack DEF HInv
<1>6. HandlerScoped'
  BY <1>1, <1>2, <1>3, StepScoped
<1>. QED
  BY <1>4, <1>5, <1>6 DEF HInv

LEMMA BindDoneStep == HInv /\ BindDone => HInv'
<1>. SUFFICES ASSUME HInv, BindDone PROVE HInv'
  OBVIOUS
<1>1. stack # <<>> /\ Top.pc = "bind" /\ Top \in WellFormed
  BY OpPc, StackFacts DEF BindDone, HInv
<1>2. DataType'
  BY DataStays DEF BindDone, HInv
<1>3. CASE Top.op = "relation"
  BY <1>1, <1>2, <1>3, ReturnKeeps DEF BindDone
<1>4. CASE Top.op # "relation"
  <2>. DEFINE e == [Top EXCEPT !.pc = "run", !.scans = IF Top.frame = NoFrame THEN {} ELSE {Top.frame}]
  <2>1. Stepped(e) /\ UNCHANGED <<frameVars, deep, slot, answer>>
    BY <1>1, <1>4 DEF BindDone, Stepped, Top
  <2>2. Top.op = "statement" /\ e \in WellFormed /\ e.op = "statement" /\ e.conn = Top.conn /\ e.pc = "run"
    BY <1>1, <1>4 DEF WellFormed, Call
  <2>. QED
    BY <1>1, <2>1, <2>2, StatementMoves
<1>. QED
  BY <1>3, <1>4

LEMMA BindFailsStep == HInv /\ BindFails => HInv'
<1>. SUFFICES ASSUME HInv, BindFails PROVE HInv'
  OBVIOUS
<1>1. DataType' /\ SlotType'
  BY DataStays DEF BindFails, HInv, SlotType
<1>. QED
  BY <1>1, BindFailing DEF BindFails, HInv

LEMMA StatementFailsStep == HInv /\ StatementFails => HInv'
<1>. SUFFICES ASSUME HInv, StatementFails PROVE HInv'
  OBVIOUS
<1>. DEFINE e == [Top EXCEPT !.pc = "failed"]
<1>1. stack # <<>> /\ Top.op = "statement" /\ Top.pc = "run" /\ Top \in WellFormed
  BY OpPc, StackFacts DEF StatementFails, HInv
<1>2. Stepped(e) /\ UNCHANGED <<frameVars, deep, slot, answer>>
  BY <1>1, StepIsStepped DEF StatementFails
<1>3. e \in WellFormed /\ e.op = "statement" /\ e.conn = Top.conn /\ e.pc = "failed"
  BY <1>1 DEF WellFormed, Call
<1>. QED
  BY <1>1, <1>2, <1>3, StatementMoves

LEMMA StatementDoneStep == \A ok \in BOOLEAN : HInv /\ StatementDone(ok) => HInv'
<1>. SUFFICES ASSUME HInv, NEW ok \in BOOLEAN, StatementDone(ok) PROVE HInv'
  OBVIOUS
<1>1. /\ stack # <<>> /\ Top.op = "statement" /\ Top.pc \in {"run", "failed"} /\ Top \in WellFormed
      /\ Top = stack[Len(stack)] /\ Len(stack) \in Nat \ {0}
  BY OpPc, StackFacts DEF StatementDone, HInv, Top
<1>2. slot.at = Len(stack) /\ DataType'
  BY <1>1, ScopedFacts, DataStays DEF StatementDone, HInv
<1>3. CASE Return("interrupt") \/ Return("error")
  BY <1>1, <1>2, <1>3, ReturnKeeps
<1>4. CASE ok /\ ~slot.flag /\ Step("convert") /\ slot' = [slot EXCEPT !.ctx = NoConn] /\ UNCHANGED answer
  <2>. DEFINE e == [Top EXCEPT !.pc = "convert"]
  <2>1. Stepped(e)
    BY <1>1, <1>4, StepIsStepped
  <2>2. e \in WellFormed /\ e.op = "statement" /\ e.pc = "convert"
    BY <1>1 DEF WellFormed, Call
  <2>3. slot'.at = Len(stack) /\ slot'.ctx = NoConn /\ SlotType'
    BY <1>2, <1>4 DEF HInv, SlotType
  <2>4. OwnerOK(e, slot'.ctx)
    BY <2>2, <2>3 DEF OwnerOK
  <2>. HIDE DEF e
  <2>. QED
    BY <1>2, <2>1, <2>2, <2>3, <2>4, StepStack, StepClaims DEF HInv
<1>. QED
  BY <1>3, <1>4 DEF StatementDone, Reports

LEMMA ConvertDoneStep == HInv /\ ConvertDone => HInv'
  BY OpPc, DataStays, ReturnKeeps DEF ConvertDone, HInv

LEMMA RelationFailsStep == HInv /\ RelationFails => HInv'
  BY OpPc, DataStays, ReturnKeeps DEF RelationFails, HInv

LEMMA InterruptStep == HInv /\ Interrupt => HInv'
<1>. SUFFICES ASSUME HInv, Interrupt PROVE HInv'
  OBVIOUS
<1>1. SlotType' /\ slot'.at = slot.at /\ slot'.ctx = slot.ctx /\ slot.ctx # NoConn
  BY DEF Interrupt, HInv, SlotType
<1>2. slot.at # 0
  BY <1>1, ScopedFacts DEF Free
<1>3. HandlerScoped'
  BY <1>1, <1>2 DEF Interrupt, HInv, HandlerScoped, IsActive
<1>. QED
  BY <1>1, <1>3, DataStays DEF Interrupt, HInv

LEMMA TaskBindsStep == \A i \in DOMAIN stack, f \in Frame : HInv /\ TaskBinds(i, f) => HInv'
<1>. SUFFICES ASSUME HInv, NEW i \in DOMAIN stack, NEW f \in Frame, TaskBinds(i, f) PROVE HInv'
  OBVIOUS
<1>. DEFINE e == [stack[i] EXCEPT !.scans = @ \cup {f}]
<1>1. i \in 1 .. Len(stack) /\ stack[i] \in WellFormed /\ stack[i].op = "statement" /\ stack[i].pc = "run"
  BY StackFacts DEF TaskBinds, HInv
<1>2. e \in WellFormed /\ e.op = "statement" /\ e.conn = stack[i].conn /\ e.pc = "run"
  BY <1>1 DEF WellFormed, Call
<1>3. stack' = [stack EXCEPT ![i] = e] /\ UNCHANGED <<frameVars, deep, slot, answer>>
  BY DEF TaskBinds
<1>. HIDE DEF e
<1>4. /\ stack' \in Seq(WellFormed) /\ Len(stack') = Len(stack)
      /\ \A j \in 1 .. Len(stack) : stack'[j] = IF j = i THEN e ELSE stack[j]
  BY <1>1, <1>2, <1>3, ExceptSeq DEF HInv
<1>5. \A j \in 1 .. Len(stack) :
        stack'[j].op = stack[j].op /\ stack'[j].conn = stack[j].conn /\ stack'[j].pc = stack[j].pc
  BY <1>1, <1>2, <1>4
<1>6. slot.at # 0 => OwnerOK(stack'[slot.at], slot.ctx)
  <2>1. slot.at # 0 => slot.at \in 1 .. Len(stack) /\ OwnerOK(stack[slot.at], slot.ctx)
    BY ScopedFacts, StackFacts DEF HInv
  <2>. QED
    BY <1>5, <2>1 DEF OwnerOK
<1>7. HandlerScoped'
  BY <1>3, <1>4, <1>5, <1>6, ScopedFacts, ScopedAgain
<1>. QED
  BY <1>3, <1>4, <1>7, DataStays DEF HInv, SlotType

LEMMA StutterStep == HInv /\ UNCHANGED vars => HInv'
<1>. SUFFICES ASSUME HInv, UNCHANGED vars PROVE HInv'
  OBVIOUS
<1>. QED
  BY DataStays DEF vars, HInv, SlotType, HandlerScoped, IsActive

LEMMA Inductive == HInv /\ [Next]_vars => HInv'
<1>. SUFFICES ASSUME HInv, [Next]_vars PROVE HInv'
  OBVIOUS
<1>1. CASE \E f \in Frame : ReadLength(f) \/ \E k \in Cols : ReadColumn(f, k)
  BY <1>1, ReadLengthStep, ReadColumnStep
<1>2. CASE RunQuery \/ CallbackFails \/ QueryFails \/ QueryDone \/ FillFails \/ FillDone
  BY <1>2, RunQueryStep, CallbackFailsStep, QueryFailsStep, QueryDoneStep, FillFailsStep, FillDoneStep
<1>3. CASE \E c \in Conn : \E f \in Frame : RelFromDf(c, f)
  BY <1>3, RelFromDfStep
<1>4. CASE \E c \in Conn : \E f \in Frame \cup {NoFrame} : Execute(c, f)
  BY <1>4, ExecuteStep
<1>5. CASE BindTouches \/ BindDone \/ BindFails \/ RelationFails
  BY <1>5, BindTouchesStep, BindDoneStep, BindFailsStep, RelationFailsStep
<1>6. CASE \E i \in DOMAIN stack : \E f \in Frame : TaskBinds(i, f)
  BY <1>6, TaskBindsStep
<1>7. CASE \E ok \in BOOLEAN : StatementDone(ok)
  BY <1>7, StatementDoneStep
<1>8. CASE StatementFails \/ ConvertDone \/ Interrupt
  BY <1>8, StatementFailsStep, ConvertDoneStep, InterruptStep
<1>9. CASE UNCHANGED vars
  BY <1>9, StutterStep
<1>. QED
  BY <1>1, <1>2, <1>3, <1>4, <1>5, <1>6, <1>7, <1>8, <1>9 DEF Next

-----------------------------------------------------------------------------
(***************************************************************************)
(* What becomes of a SIGINT.                                               *)
(***************************************************************************)

Reported ==
  \/ answer' = "interrupt"
  \/ stack[slot.at].op = "read" /\ err'[stack[slot.at].frame]

\* A handler that saw SIGINT has a connection, so it belongs to a statement or a materialization under way.
LEMMA FlagIsOwned ==
  ASSUME HInv, slot.flag
  PROVE  slot.at # 0 /\ slot.ctx # NoConn /\ OwnerOK(stack[slot.at], slot.ctx)
<1>1. slot.ctx # NoConn
  BY DEF HInv, SlotType
<1>2. slot.at # 0
  BY <1>1, ScopedFacts DEF Free
<1>. QED
  BY <1>1, <1>2, ScopedFacts

LEMMA ReturningOwner ==
  ASSUME HInv, slot.flag, slot'.at = 0, stack # <<>>, NEW a, Return(a)
  PROVE  slot.at = Len(stack) /\ Top = stack[slot.at] /\ OwnerOK(Top, slot.ctx) /\ Top.pc # "convert" /\ answer' = a
<1>1. slot.at = Len(stack) /\ answer' = a
  BY FlagIsOwned DEF Return, Released
<1>. QED
  BY <1>1, FlagIsOwned DEF OwnerOK, Top

LEMMA Reporting ==
  ASSUME HInv, [Next]_vars, slot.flag, slot'.at = 0
  PROVE  Reported
<1>1. slot.at # 0 /\ slot' # slot
  BY FlagIsOwned
<1>2. ASSUME NEW f \in Frame, NEW k, Enter(f, k) PROVE FALSE
  BY <1>1, <1>2 DEF Enter
<1>3. CASE BindFails \/ StatementFails \/ (\E c \in Conn : \E f \in Frame : RelFromDf(c, f)) \/ UNCHANGED vars
           \/ \E i \in DOMAIN stack : \E f \in Frame : TaskBinds(i, f)
  BY <1>1, <1>3 DEF BindFails, StatementFails, RelFromDf, TaskBinds, vars
<1>4. CASE \E f \in Frame : ReadLength(f) \/ \E k \in Cols : ReadColumn(f, k)
  BY <1>2, <1>4 DEF ReadLength, ReadColumn
<1>5. CASE BindTouches
  <2>1. stack # <<>> /\ Top \in WellFormed /\ Top.frame # NoFrame
    BY <1>5, OpPc, StackFacts DEF BindTouches, HInv
  <2>2. Top.frame \in Frame
    BY <2>1 DEF WellFormed, Call
  <2>. QED
    BY <1>2, <1>5, <2>2 DEF BindTouches
<1>6. CASE \E c \in Conn : \E f \in Frame \cup {NoFrame} : Execute(c, f)
  BY <1>1, <1>6 DEF Execute, IsActive
<1>7. CASE RunQuery \/ CallbackFails \/ FillFails \/ FillDone
  <2>1. stack # <<>> /\ Top.pc \in {"callback", "fill"}
    BY <1>7, OpPc DEF RunQuery, CallbackFails, FillFails, FillDone
  <2>2. slot.at # Len(stack) /\ Len(stack) # 0
    BY <2>1, NotOwner, StackFacts DEF HInv
  <2>. QED
    BY <1>1, <1>7, <2>2 DEF RunQuery, CallbackFails, FillFails, FillDone, Return, Released, Claim, IsActive
<1>8. CASE QueryFails
  <2>1. stack # <<>> /\ Top.op = "read" /\ Top.frame \in Frame
    BY <1>8, OpPc, TopRead DEF QueryFails, StoresError
  <2>2. err' = [err EXCEPT ![Top.frame] = TRUE]
    BY <1>8 DEF QueryFails, StoresError
  <2>3. err'[Top.frame]
    BY <2>1, <2>2 DEF HInv, DataType
  <2>4. Return("error")
    BY <1>8 DEF QueryFails, StoresError
  <2>. QED
    BY <2>1, <2>3, <2>4, ReturningOwner DEF Reported
<1>9. CASE QueryDone
  <2>1. stack # <<>> /\ Top.op = "read" /\ Len(stack) # 0
    BY <1>9, OpPc, StackFacts DEF QueryDone, HInv
  <2>2. slot.at = Len(stack) /\ err' = err
    BY <1>1, <1>9 DEF QueryDone, Return, Released
  <2>3. Return(IF err[Top.frame] THEN "error" ELSE "interrupt")
    BY <1>9, <2>2 DEF QueryDone
  <2>4. CASE err[Top.frame]
    BY <2>1, <2>2, <2>4 DEF Reported, Top
  <2>5. CASE ~err[Top.frame]
    BY <2>3, <2>5 DEF Return, Reported
  <2>. QED
    BY <2>4, <2>5
<1>10. CASE BindDone \/ RelationFails
  <2>1. stack # <<>> /\ (Top.op = "relation" \/ slot' = slot)
    BY <1>10, OpPc DEF BindDone, RelationFails
  <2>2. Top.op = "relation" /\ \E a \in {"ok", "error"} : Return(a)
    BY <1>1, <1>10, <2>1, OpPc DEF BindDone, RelationFails
  <2>. QED
    BY <2>1, <2>2, ReturningOwner DEF OwnerOK
<1>11. CASE \E ok \in BOOLEAN : StatementDone(ok)
  BY <1>11 DEF StatementDone, Reports, Return, Reported
<1>12. CASE ConvertDone
  <2>1. stack # <<>> /\ Top.pc = "convert" /\ \E a \in {"ok", "error"} : Return(a)
    BY <1>12, OpPc DEF ConvertDone
  <2>. QED
    BY <2>1, ReturningOwner
<1>13. CASE Interrupt
  BY <1>1, <1>13 DEF Interrupt, HInv, SlotType
<1>. QED
  BY <1>3, <1>4, <1>5, <1>6, <1>7, <1>8, <1>9, <1>10, <1>11, <1>12, <1>13 DEF Next

\* R's stack of calls is well formed and the interrupt handler's slot belongs to one of them, in every state and
\* whatever R code does in a callback.
THEOREM AltrepInvariant == Spec => []HInv
  BY Initially, Inductive, PTL DEF Spec

\* Every variable keeps its type, however deep calls nest and whatever R code does in a callback.
THEOREM AltrepTypeCorrect == Spec => []TypeOK
  BY AltrepInvariant, HInvType, PTL

\* The interrupt handler belongs to a call under way, interrupts that call's connection until its rows are
\* converted, and every statement and every query has one (ScopedInterruptHandler, src/src/signal.cpp).
THEOREM HandlersScoped == Spec => []HandlerScoped
<1>1. HInv => HandlerScoped
  BY DEF HInv
<1>. QED
  BY <1>1, AltrepInvariant, PTL

\* A query whose handler saw SIGINT ends with the interrupt: no way out of a statement drops the flag.  Excepted is
\* a materialization whose frame keeps the engine's error and answers that.
THEOREM InterruptsReported == Spec => InterruptReported
<1>1. HInv /\ [Next]_vars =>
        [slot.flag /\ slot'.at = 0 =>
           \/ answer' = "interrupt"
           \/ stack[slot.at].op = "read" /\ err'[stack[slot.at].frame]]_vars
  BY Reporting DEF Reported
<1>. QED
  BY <1>1, AltrepInvariant, PTL DEF Spec, InterruptReported

-----------------------------------------------------------------------------
(***************************************************************************)
(* The depth limit: a lock is held once, so that each materialization      *)
(* doubles a limit that no other has doubled, and puts that back.          *)
(***************************************************************************)

Locking(call, c) == call.conn = c /\ call.pc \in {"bind", "run"}
Deepens(call, c) == call.op = "read" /\ call.pc = "run" /\ call.conn = c

LocksOnce ==
  \A c \in Conn : \A i, j \in 1 .. Len(stack) : Locking(stack[i], c) /\ Locking(stack[j], c) => i = j

DepthOnce ==
  /\ \A c \in Conn : deep[c] = IF \E i \in 1 .. Len(stack) : Deepens(stack[i], c) THEN 1 ELSE 0
  /\ \A i \in 1 .. Len(stack) : stack[i].op = "read" /\ stack[i].pc = "run" => stack[i].old = 0

DInv == LocksOnce /\ DepthOnce

\* No call below the innermost one holds the connection's lock.
FreeBelow(m, c) == \A i \in 1 .. m : ~Locking(stack[i], c)

LEMMA NotLocked ==
  ASSUME HInv, NEW c, ~Locked(c)
  PROVE  FreeBelow(Len(stack), c)
  BY StackFacts DEF HInv, Locked, FreeBelow, Locking

\* The innermost call, where it holds the lock of c, is the only one.
LEMMA OnlyTop ==
  ASSUME HInv, DInv, stack # <<>>, Top.pc \in {"bind", "run"}
  PROVE  FreeBelow(Len(stack) - 1, Top.conn)
<1>1. /\ Top = stack[Len(stack)] /\ Len(stack) \in Nat /\ Len(stack) \in 1 .. Len(stack) /\ Top.conn \in Conn
  BY StackFacts DEF HInv, Top, WellFormed, Call
<1>2. ASSUME NEW i \in 1 .. Len(stack) - 1 PROVE i \in 1 .. Len(stack) /\ i # Len(stack)
  BY <1>1
<1>. QED
  BY <1>1, <1>2 DEF DInv, LocksOnce, FreeBelow, Locking

\* A call of the stack stays as it was, where locks and depth are concerned, or fails.
Goes(x, y) ==
  /\ y.op = x.op /\ y.conn = x.conn /\ y.old = x.old
  /\ y.pc = x.pc \/ (x.pc = "bind" /\ y.pc = "failed")

LEMMA GoesFacts ==
  ASSUME NEW x, NEW y, Goes(x, y)
  PROVE  /\ \A c : Locking(y, c) => Locking(x, c)
         /\ \A c : Deepens(y, c) <=> Deepens(x, c)
         /\ y.op = "read" /\ y.pc = "run" => x.op = "read" /\ x.pc = "run" /\ y.old = x.old
  BY DEF Goes, Locking, Deepens

\* The innermost call goes, and with it what it doubled.
LEMMA ReturnDepth ==
  ASSUME HInv, DInv, stack # <<>>, NEW a, Return(a),
         deep' = IF Top.op = "read" /\ Top.pc = "run" THEN [deep EXCEPT ![Top.conn] = 0] ELSE deep
  PROVE  DInv'
<1>. DEFINE m == Len(stack) - 1
<1>1. /\ Top = stack[m + 1] /\ m \in Nat /\ Top \in WellFormed /\ Len(stack) = m + 1
      /\ \A i \in 1 .. m : i \in 1 .. Len(stack) /\ stack[i] \in WellFormed
      /\ deep \in [Conn -> Nat]
  BY StackFacts DEF HInv, DataType, Top
<1>2. Len(stack') = m /\ \A i \in 1 .. m : Goes(stack[i], stack'[i])
  <2>1. ASSUME NEW i \in 1 .. m PROVE Goes(stack[i], stack'[i])
    <3>1. \/ stack'[i] = stack[i]
          \/ stack[i].pc = "bind" /\ stack'[i] = [stack[i] EXCEPT !.pc = "failed"]
      BY ReturnStack DEF HInv
    <3>. QED
      BY <1>1, <3>1 DEF Goes, WellFormed, Call
  <2>. QED
    BY <2>1, ReturnStack DEF HInv
<1>. HIDE DEF m
<1>3. LocksOnce'
  BY <1>1, <1>2, GoesFacts DEF DInv, LocksOnce
<1>4. ASSUME NEW c \in Conn
      PROVE  deep'[c] = IF \E i \in 1 .. m : Deepens(stack[i], c) THEN 1 ELSE 0
  <2>1. CASE Deepens(Top, c)
    <3>1. \A i \in 1 .. m : ~Deepens(stack[i], c)
      BY <1>1, <2>1, OnlyTop DEF FreeBelow, Locking, Deepens
    <3>. QED
      BY <1>1, <2>1, <3>1 DEF Deepens
  <2>2. CASE ~Deepens(Top, c)
    <3>1. deep'[c] = deep[c]
      BY <1>1, <2>2 DEF Deepens
    <3>2. \A i \in 1 .. Len(stack) : i \in 1 .. m \/ i = m + 1
      BY <1>1
    <3>. QED
      BY <1>1, <2>2, <3>1, <3>2 DEF DInv, DepthOnce
  <2>. QED
    BY <2>1, <2>2
<1>5. DepthOnce'
  BY <1>1, <1>2, <1>4, GoesFacts DEF DInv, DepthOnce
<1>. QED
  BY <1>3, <1>5 DEF DInv

\* The innermost call is now e, above m that stay; it doubles a limit only with the lock, and puts it back when it is
\* done.
LEMMA TopDepth ==
  ASSUME HInv, DInv, NEW m \in Nat, m <= Len(stack), NEW e \in WellFormed,
         Len(stack') = m + 1, stack'[m + 1] = e, \A i \in 1 .. m : stack'[i] = stack[i],
         e.pc \in {"bind", "run"} => FreeBelow(m, e.conn),
         e.op = "read" /\ e.pc = "run" => e.old = 0,
         \A c \in Conn :
           deep'[c] = IF Deepens(e, c) \/ (\E i \in 1 .. m : Deepens(stack[i], c)) THEN 1 ELSE 0
  PROVE  DInv'
<1>1. /\ \A i \in 1 .. m : i \in 1 .. Len(stack)
      /\ \A i \in 1 .. m + 1 : i \in 1 .. m \/ i = m + 1
      /\ m + 1 \in 1 .. m + 1 /\ \A i \in 1 .. m : i \in 1 .. m + 1
  BY StackFacts DEF HInv
<1>2. LocksOnce'
  BY <1>1 DEF DInv, LocksOnce, FreeBelow, Locking
<1>3. DepthOnce'
  BY <1>1 DEF DInv, DepthOnce
<1>. QED
  BY <1>2, <1>3 DEF DInv

LEMMA PushDepth ==
  ASSUME HInv, DInv, NEW e \in WellFormed, Push(e), deep' = deep, e.pc # "run",
         e.pc = "bind" => ~Locked(e.conn)
  PROVE  DInv'
<1>1. /\ Len(stack') = Len(stack) + 1 /\ stack'[Len(stack) + 1] = e /\ Len(stack) \in Nat
      /\ \A i \in 1 .. Len(stack) : stack'[i] = stack[i]
  BY PushStack, StackFacts DEF HInv
<1>2. \A c : ~Deepens(e, c)
  BY DEF Deepens
<1>. QED
  BY <1>1, <1>2, NotLocked, TopDepth DEF DInv, DepthOnce

\* The innermost call goes on without a materialization's query.
LEMMA StepDepth ==
  ASSUME HInv, DInv, NEW e \in WellFormed, Stepped(e), e.op # "read" \/ e.pc # "run", e.conn = Top.conn,
         e.pc \in {"bind", "run"} => Top.pc \in {"bind", "run"},
         deep' = IF Top.op = "read" /\ Top.pc = "run" THEN [deep EXCEPT ![Top.conn] = 0] ELSE deep
  PROVE  DInv'
<1>. DEFINE m == Len(stack) - 1
<1>1. /\ Top = stack[m + 1] /\ m \in Nat /\ Top \in WellFormed /\ m + 1 = Len(stack) /\ Len(stack) \in Nat
      /\ stack # <<>> /\ deep \in [Conn -> Nat]
  BY StackFacts DEF HInv, DataType, Top, Stepped
<1>2. Len(stack') = m + 1 /\ stack'[m + 1] = e
  BY <1>1, StepStack DEF HInv
<1>. HIDE DEF m
<1>3. ASSUME NEW i \in 1 .. m PROVE i \in 1 .. Len(stack) /\ i # Len(stack) /\ stack'[i] = stack[i]
  <2>1. i \in 1 .. Len(stack) /\ i # Len(stack)
    BY <1>1
  <2>. QED
    BY <2>1, StepStack DEF HInv
<1>4. e.pc \in {"bind", "run"} => FreeBelow(m, e.conn)
  BY <1>1, OnlyTop DEF m
<1>5. ASSUME NEW c \in Conn
      PROVE  deep'[c] = IF Deepens(e, c) \/ (\E i \in 1 .. m : Deepens(stack[i], c)) THEN 1 ELSE 0
  <2>0. ~Deepens(e, c)
    BY DEF Deepens
  <2>1. CASE Deepens(Top, c)
    <3>0. FreeBelow(m, Top.conn)
      BY <1>1, <2>1, OnlyTop DEF Deepens, m
    <3>1. \A i \in 1 .. m : ~Deepens(stack[i], c)
      BY <2>1, <3>0 DEF FreeBelow, Locking, Deepens
    <3>. QED
      BY <1>1, <2>0, <2>1, <3>1 DEF Deepens
  <2>2. CASE ~Deepens(Top, c)
    <3>1. deep'[c] = deep[c]
      BY <1>1, <2>2 DEF Deepens
    <3>2. \A i \in 1 .. Len(stack) : i \in 1 .. m \/ i = m + 1
      BY <1>1
    <3>. QED
      BY <1>1, <1>3, <2>0, <2>2, <3>1, <3>2 DEF DInv, DepthOnce
  <2>. QED
    BY <2>1, <2>2
<1>. QED
  BY <1>1, <1>2, <1>3, <1>4, <1>5, TopDepth

LEMMA NoDepth ==
  ASSUME stack # <<>>, Pc # "run" \/ Op # "read", deep' = deep
  PROVE  deep' = IF Top.op = "read" /\ Top.pc = "run" THEN [deep EXCEPT ![Top.conn] = 0] ELSE deep
  BY OpPc

\* What was doubled goes back to what it was.
LEMMA Restored ==
  ASSUME HInv, DInv, Op = "read", Pc = "run", RestoreDepth
  PROVE  /\ stack # <<>>
         /\ deep' = IF Top.op = "read" /\ Top.pc = "run" THEN [deep EXCEPT ![Top.conn] = 0] ELSE deep
<1>1. stack # <<>> /\ Top.op = "read" /\ Top.pc = "run" /\ Top = stack[Len(stack)] /\ Len(stack) \in 1 .. Len(stack)
  BY OpPc, StackFacts DEF HInv, Top
<1>. QED
  BY <1>1 DEF RestoreDepth, DInv, DepthOnce

LEMMA EnterDepth ==
  ASSUME HInv, DInv, NEW f \in Frame, NEW k \in Cols \cup {0}, k = 0 => rows[f] = 0, Enter(f, k)
  PROVE  DInv'
<1>1. CASE Pc = "bind" /\ Step("failed") /\ deep' = deep
  <2>. DEFINE e == [Top EXCEPT !.pc = "failed"]
  <2>1. stack # <<>> /\ Top \in WellFormed /\ Top.pc = "bind"
    BY <1>1, OpPc, StackFacts DEF HInv
  <2>2. Stepped(e) /\ e \in WellFormed /\ e.pc = "failed" /\ e.conn = Top.conn
    BY <1>1, <2>1, StepIsStepped, FailedIsWellFormed DEF WellFormed, Call
  <2>. HIDE DEF e
  <2>. QED
    BY <1>1, <2>1, <2>2, StepDepth
<1>2. CASE UNCHANGED <<stack, deep>>
  BY <1>2 DEF DInv, LocksOnce, DepthOnce
<1>3. CASE deep' = deep /\ Push(NewCall("read", Home[f], f, k, "callback"))
  <2>1. /\ NewCall("read", Home[f], f, k, "callback") \in WellFormed
        /\ NewCall("read", Home[f], f, k, "callback").pc = "callback"
    BY NewReadType
  <2>. QED
    BY <1>3, <2>1, PushDepth
<1>4. CASE mat[f] # 0 /\ deep' = deep /\ Push(NewCall("read", Home[f], f, k, "fill"))
  <2>1. k # 0
    BY <1>4 DEF HInv, DataType
  <2>2. /\ NewCall("read", Home[f], f, k, "fill") \in WellFormed
        /\ NewCall("read", Home[f], f, k, "fill").pc = "fill"
    BY <2>1, NewReadType
  <2>. QED
    BY <1>4, <2>2, PushDepth
<1>. QED
  BY <1>1, <1>2, <1>3, <1>4 DEF Enter

LEMMA RunQueryDepth ==
  ASSUME HInv, DInv, RunQuery
  PROVE  DInv'
<1>. DEFINE f == Top.frame
            c == Home[f]
<1>1. /\ stack # <<>> /\ Top.pc = "callback" /\ Top.op = "read" /\ Top \in WellFormed /\ Top.conn = c /\ c \in Conn
      /\ Pc = "callback"
  <2>1. stack # <<>> /\ Top.pc = "callback" /\ Pc = "callback"
    BY OpPc DEF RunQuery
  <2>. QED
    BY <2>1, StackFacts, CallbackIsRead, TopRead DEF HInv
<1>2. CASE Refused(c)
  <2>1. Return("error") /\ deep' = deep
    BY <1>2 DEF RunQuery
  <2>. QED
    BY <1>1, <2>1, NoDepth, ReturnDepth
<1>3. CASE ~Refused(c) /\ Locked(c)
  <2>. DEFINE e == [Top EXCEPT !.pc = "waiting"]
  <2>1. Step("waiting") /\ deep' = deep
    BY <1>3 DEF RunQuery
  <2>2. e \in WellFormed /\ Stepped(e) /\ e.pc = "waiting" /\ e.conn = Top.conn
    BY <1>1, <2>1, StepIsStepped DEF WellFormed, Call
  <2>. HIDE DEF e
  <2>. QED
    BY <1>1, <2>1, <2>2, NoDepth, StepDepth
<1>4. CASE ~Refused(c) /\ ~Locked(c)
  <2>. DEFINE e == [Top EXCEPT !.pc = "run", !.old = deep[c]]
              m == Len(stack) - 1
  <2>1. Stepped(e) /\ deep' = [deep EXCEPT ![c] = @ + 1]
    BY <1>1, <1>4 DEF RunQuery, Stepped, Top
  <2>2. e \in WellFormed /\ e.pc = "run" /\ e.op = "read" /\ e.conn = c /\ e.old = deep[c]
    BY <1>1 DEF WellFormed, Call, HInv, DataType
  <2>. HIDE DEF e
  <2>3. /\ Top = stack[m + 1] /\ m \in Nat /\ m + 1 = Len(stack) /\ Len(stack) \in Nat /\ deep \in [Conn -> Nat]
    BY <1>1, StackFacts DEF HInv, DataType, Top
  <2>4. Len(stack') = m + 1 /\ stack'[m + 1] = e
    BY <2>1, <2>2, <2>3, StepStack DEF HInv
  <2>. HIDE DEF m
  <2>5. ASSUME NEW i \in 1 .. m PROVE i \in 1 .. Len(stack) /\ stack'[i] = stack[i]
    <3>1. i \in 1 .. Len(stack) /\ i # Len(stack)
      BY <2>3
    <3>. QED
      BY <2>1, <2>2, <3>1, StepStack DEF HInv
  <2>6. FreeBelow(Len(stack), c)
    BY <1>4, NotLocked
  <2>7. deep[c] = 0 /\ FreeBelow(m, c)
    BY <1>1, <2>5, <2>6 DEF DInv, DepthOnce, FreeBelow, Locking, Deepens
  <2>8. ASSUME NEW d \in Conn
        PROVE  deep'[d] = IF Deepens(e, d) \/ (\E i \in 1 .. m : Deepens(stack[i], d)) THEN 1 ELSE 0
    <3>1. CASE d = c
      BY <1>1, <2>1, <2>2, <2>3, <2>7, <3>1 DEF Deepens
    <3>2. CASE d # c
      <4>1. \A i \in 1 .. Len(stack) : i \in 1 .. m \/ i = m + 1
        BY <2>3
      <4>2. ~Deepens(e, d) /\ ~Deepens(Top, d) /\ deep'[d] = deep[d]
        BY <1>1, <2>1, <2>2, <2>3, <3>2 DEF Deepens
      <4>. QED
        BY <2>3, <2>5, <4>1, <4>2 DEF DInv, DepthOnce
    <3>. QED
      BY <3>1, <3>2
  <2>. QED
    BY <2>2, <2>3, <2>4, <2>5, <2>7, <2>8, TopDepth
<1>. QED
  BY <1>2, <1>3, <1>4

LEMMA QueryDoneDepth ==
  ASSUME HInv, DInv, QueryDone
  PROVE  DInv'
<1>1. Op = "read" /\ Pc = "run" /\ RestoreDepth
  BY DEF QueryDone
<1>2. CASE \E a : Return(a)
  BY <1>1, <1>2, Restored, ReturnDepth
<1>3. CASE Step("fill") /\ Top.col # 0
  <2>. DEFINE e == [Top EXCEPT !.pc = "fill"]
  <2>1. stack # <<>> /\ Top \in WellFormed /\ Top.op = "read"
    BY <1>1, OpPc, StackFacts DEF HInv
  <2>2. e \in WellFormed /\ Stepped(e) /\ e.pc = "fill" /\ e.conn = Top.conn
    BY <1>3, <2>1, StepIsStepped DEF WellFormed, Call
  <2>. HIDE DEF e
  <2>. QED
    BY <1>1, <2>2, Restored, StepDepth
<1>. QED
  BY <1>2, <1>3 DEF QueryDone

LEMMA ScanDepth ==
  ASSUME HInv, DInv, NEW c \in Conn, NEW f \in Frame \cup {NoFrame}, NEW o \in {"statement", "relation"}, o = "relation" => f # NoFrame,
         Push(NewCall(o, c, f, 0, IF Locked(c) THEN "waiting" ELSE "bind")), deep' = deep
  PROVE  DInv'
<1>. DEFINE e == NewCall(o, c, f, 0, IF Locked(c) THEN "waiting" ELSE "bind")
<1>1. e \in WellFormed /\ e.conn = c /\ e.pc \in {"waiting", "bind"} /\ (e.pc = "bind" => ~Locked(c))
  BY DEF NewCall, WellFormed, Call
<1>2. Push(e)
  OBVIOUS
<1>. HIDE DEF e
<1>. QED
  BY <1>1, <1>2, PushDepth

LEMMA MovesDepth ==
  ASSUME HInv, DInv, Op # "read", Pc \in {"bind", "run"}, deep' = deep, NEW p \in {"failed", "run", "convert"},
         p # "failed" => Op = "statement", Step(p)
  PROVE  DInv'
<1>. DEFINE e == [Top EXCEPT !.pc = p]
<1>1. stack # <<>> /\ Top \in WellFormed /\ Top.pc \in {"bind", "run"} /\ Top.op # "read" /\ Op = Top.op
  BY OpPc, StackFacts DEF HInv
<1>2. e \in WellFormed /\ Stepped(e) /\ e.conn = Top.conn /\ e.op # "read"
  BY <1>1, StepIsStepped DEF WellFormed, Call
<1>. HIDE DEF e
<1>. QED
  BY <1>1, <1>2, StepDepth

LEMMA BindDoneDepth ==
  ASSUME HInv, DInv, BindDone
  PROVE  DInv'
<1>1. stack # <<>> /\ Top.pc = "bind" /\ Pc = "bind" /\ Top \in WellFormed /\ Top.op # "read" /\ deep' = deep
  BY OpPc, StackFacts DEF BindDone, frameVars, HInv, WellFormed
<1>2. CASE Top.op = "relation"
  BY <1>1, <1>2, NoDepth, ReturnDepth DEF BindDone
<1>3. CASE Top.op # "relation"
  <2>. DEFINE e == [Top EXCEPT !.pc = "run", !.scans = IF Top.frame = NoFrame THEN {} ELSE {Top.frame}]
  <2>1. Stepped(e)
    BY <1>1, <1>3 DEF BindDone, Stepped, Top
  <2>2. e \in WellFormed /\ e.op # "read" /\ e.conn = Top.conn
    BY <1>1, <1>3 DEF WellFormed, Call
  <2>. HIDE DEF e
  <2>. QED
    BY <1>1, <2>1, <2>2, StepDepth
<1>. QED
  BY <1>2, <1>3

LEMMA StatementDoneDepth ==
  ASSUME HInv, DInv, NEW ok \in BOOLEAN, StatementDone(ok)
  PROVE  DInv'
<1>1. stack # <<>> /\ Op = "statement" /\ Pc \in {"run", "failed"} /\ deep' = deep
  BY OpPc DEF StatementDone
<1>2. CASE \E a : Return(a)
  BY <1>1, <1>2, NoDepth, ReturnDepth
<1>3. CASE Pc = "run" /\ Step("convert")
  BY <1>1, <1>3, MovesDepth
<1>. QED
  BY <1>1, <1>2, <1>3 DEF StatementDone, Reports, HInv, SlotType

LEMMA TaskBindsDepth ==
  ASSUME HInv, DInv, NEW i \in DOMAIN stack, NEW f \in Frame, TaskBinds(i, f)
  PROVE  DInv'
<1>. DEFINE e == [stack[i] EXCEPT !.scans = @ \cup {f}]
<1>1. i \in 1 .. Len(stack) /\ stack[i] \in WellFormed
  BY StackFacts DEF HInv
<1>2. e \in WellFormed /\ e.op = stack[i].op /\ e.conn = stack[i].conn /\ e.pc = stack[i].pc /\ e.old = stack[i].old
  BY <1>1 DEF WellFormed, Call
<1>3. stack' = [stack EXCEPT ![i] = e] /\ deep' = deep
  BY DEF TaskBinds
<1>. HIDE DEF e
<1>4. /\ Len(stack') = Len(stack)
      /\ \A j \in 1 .. Len(stack) : stack'[j] = IF j = i THEN e ELSE stack[j]
  BY <1>1, <1>2, <1>3, ExceptSeq, StackFacts DEF HInv
<1>5. \A j \in 1 .. Len(stack) :
        stack'[j].op = stack[j].op /\ stack'[j].conn = stack[j].conn /\ stack'[j].pc = stack[j].pc /\ stack'[j].old = stack[j].old
  BY <1>2, <1>4
<1>. QED
  BY <1>3, <1>4, <1>5 DEF DInv, LocksOnce, DepthOnce, Locking, Deepens

LEMMA DepthStep == HInv /\ DInv /\ [Next]_vars => DInv'
<1>. SUFFICES ASSUME HInv, DInv, [Next]_vars PROVE DInv'
  OBVIOUS
<1>1. ASSUME NEW f \in Frame, ReadLength(f) \/ \E k \in Cols : ReadColumn(f, k) PROVE DInv'
  <2>1. \A k \in Cols : k # 0
    BY DEF Cols
  <2>. QED
    BY <1>1, <2>1, EnterDepth DEF ReadLength, ReadColumn
<1>2. CASE BindTouches
  <2>1. Top.frame \in Frame
    BY <1>2, OpPc, StackFacts DEF BindTouches, HInv, WellFormed, Call
  <2>2. PICK k \in Cols : Enter(Top.frame, k) /\ k # 0
    BY <1>2 DEF BindTouches, Untouched, Cols
  <2>. QED
    BY <2>1, <2>2, EnterDepth
<1>3. CASE RunQuery \/ QueryDone \/ BindDone
  BY <1>3, RunQueryDepth, QueryDoneDepth, BindDoneDepth
<1>4. CASE QueryFails
  BY <1>4, Restored, ReturnDepth DEF QueryFails, StoresError
<1>5. CASE CallbackFails \/ FillFails \/ FillDone \/ RelationFails \/ ConvertDone
  <2>1. Pc # "R" /\ Pc # "run" /\ deep' = deep /\ \E a : Return(a)
    BY <1>5 DEF CallbackFails, FillFails, FillDone, RelationFails, ConvertDone
  <2>. QED
    BY <2>1, OpPc, NoDepth, ReturnDepth
<1>6. CASE BindFails \/ StatementFails
  <2>1. Pc \in {"bind", "run"} /\ Op # "read" /\ deep' = deep /\ Step("failed")
    BY <1>6, OpPc, StackFacts DEF BindFails, StatementFails, HInv, WellFormed
  <2>. QED
    BY <2>1, MovesDepth
<1>7. ASSUME NEW c \in Conn, NEW f \in Frame, RelFromDf(c, f) PROVE DInv'
  BY <1>7, ScanDepth DEF RelFromDf
<1>8. ASSUME NEW c \in Conn, NEW f \in Frame \cup {NoFrame}, Execute(c, f) PROVE DInv'
  <2>1. CASE IsActive
    BY <1>8, <2>1 DEF Execute, DInv, LocksOnce, DepthOnce
  <2>2. CASE ~IsActive
    BY <1>8, <2>2, ScanDepth DEF Execute
  <2>. QED
    BY <2>1, <2>2
<1>9. CASE \E i \in DOMAIN stack : \E f \in Frame : TaskBinds(i, f)
  BY <1>9, TaskBindsDepth
<1>10. CASE \E ok \in BOOLEAN : StatementDone(ok)
  BY <1>10, StatementDoneDepth
<1>11. CASE Interrupt \/ UNCHANGED vars
  BY <1>11 DEF Interrupt, vars, DInv, LocksOnce, DepthOnce
<1>. QED
  BY <1>1, <1>2, <1>3, <1>4, <1>5, <1>6, <1>7, <1>8, <1>9, <1>10, <1>11 DEF Next

LEMMA DepthCounted == HInv /\ DInv => DepthScoped
<1>. SUFFICES ASSUME HInv, DInv, NEW c \in Conn PROVE deep[c] = Cardinality(Deepening(c))
  BY DEF DepthScoped
<1>1. Deepening(c) = {i \in 1 .. Len(stack) : Deepens(stack[i], c)}
  BY StackFacts DEF HInv, Deepening, Deepens
<1>2. CASE \E i \in 1 .. Len(stack) : Deepens(stack[i], c)
  <2>1. PICK i \in 1 .. Len(stack) : Deepens(stack[i], c)
    BY <1>2
  <2>2. Deepening(c) = {i}
    BY <1>1, <2>1 DEF DInv, LocksOnce, Locking, Deepens
  <2>. QED
    BY <1>2, <2>2, FS_Singleton DEF DInv, DepthOnce
<1>3. CASE ~\E i \in 1 .. Len(stack) : Deepens(stack[i], c)
  <2>1. Deepening(c) = {}
    BY <1>1, <1>3
  <2>. QED
    BY <1>3, <2>1, FS_EmptySet DEF DInv, DepthOnce
<1>. QED
  BY <1>2, <1>3

\* max_expression_depth is raised by the materializations under way and by nothing else (the scope_exit of GetQueryResult(),
\* src/src/reltoaltrep.cpp): whatever fails, is interrupted or nests, and whatever R code does in a callback.
THEOREM DepthsScoped == Spec => []DepthScoped
<1>1. Init => DInv
  BY EmptySeq DEF Init, DInv, LocksOnce, DepthOnce
<1>. QED
  BY <1>1, DepthStep, DepthCounted, AltrepInvariant, PTL DEF Spec

-----------------------------------------------------------------------------
(***************************************************************************)
(* No call waits for a lock that its own stack holds.  A call that will    *)
(* wait for the lock of a frame's connection, or may read a frame, is      *)
(* guarded: if a call below holds that lock, the handler below is of that  *)
(* connection, so that GetQueryResult() fails the query.  No such call can *)
(* come to be unguarded, because neither handler nor lock moves under it.  *)
(***************************************************************************)

LockedTo(i, c) == \E j \in 1 .. i : stack[j].conn = c /\ stack[j].pc \in {"bind", "run"}

MayMaterialize(i) ==
  \/ stack[i].op = "read" /\ stack[i].pc = "callback"
  \/ stack[i].pc = "bind" /\ stack[i].frame # NoFrame /\ rows[stack[i].frame] = 0

Guarded(i) ==
  MayMaterialize(i) /\ LockedTo(i, Home[stack[i].frame]) =>
    slot.at \in 1 .. i /\ slot.ctx = Home[stack[i].frame]

Sound(i) ==
  /\ stack[i].pc # "waiting"
  /\ stack[i].op = "read" /\ stack[i].pc = "run" => runs[stack[i].frame] # 0
  /\ Guarded(i)

WInv == \A i \in 1 .. Len(stack) : Sound(i)

\* Runs are counted and row counts kept.
Later ==
  \A f \in Frame : (rows'[f] = 0 => rows[f] = 0) /\ (runs[f] # 0 => runs'[f] # 0)

LEMMA SoundStays ==
  ASSUME HInv, NEW i \in 1 .. Len(stack), Sound(i), Later,
         \A j \in 1 .. i :
           /\ stack'[j].op = stack[j].op /\ stack'[j].conn = stack[j].conn /\ stack'[j].frame = stack[j].frame
           /\ stack'[j].pc \in {stack[j].pc, "failed"},
         slot.at \in 1 .. i => slot'.at = slot.at /\ slot'.ctx = slot.ctx
  PROVE  Sound(i)'
<1>1. i \in Nat /\ i \in 1 .. i /\ stack[i] \in WellFormed
  BY StackFacts DEF HInv
<1>2. /\ stack'[i].op = stack[i].op /\ stack'[i].frame = stack[i].frame
      /\ stack'[i].pc \in {stack[i].pc, "failed"}
  BY <1>1
<1>3. stack[i].op = "read" \/ stack[i].frame # NoFrame => stack[i].frame \in Frame
  BY <1>1 DEF WellFormed, Call
<1>4. MayMaterialize(i)' => MayMaterialize(i)
  BY <1>2, <1>3 DEF MayMaterialize, Later
<1>5. ASSUME NEW c, LockedTo(i, c)' PROVE LockedTo(i, c)
  <2>1. PICK j \in 1 .. i : stack'[j].conn = c /\ stack'[j].pc \in {"bind", "run"}
    BY <1>5 DEF LockedTo
  <2>. QED
    BY <2>1 DEF LockedTo
<1>6. Guarded(i)'
  BY <1>2, <1>4, <1>5 DEF Guarded, Sound
<1>. QED
  BY <1>2, <1>3, <1>6 DEF Sound, Later

LEMMA PushSound ==
  ASSUME HInv, WInv, NEW e \in WellFormed, Push(e), Later,
         slot.at # 0 => slot'.at = slot.at /\ slot'.ctx = slot.ctx,
         Sound(Len(stack))'
  PROVE  WInv'
<1>1. Len(stack) \in Nat
  BY StackFacts DEF HInv
<1>2. Len(stack') = Len(stack) + 1 /\ \A i \in 1 .. Len(stack) : stack'[i] = stack[i]
  BY PushStack DEF HInv
<1>3. ASSUME NEW i \in 1 .. Len(stack) PROVE Sound(i)'
  <2>1. \A j \in 1 .. i : stack'[j] = stack[j]
    BY <1>1, <1>2
  <2>2. slot.at \in 1 .. i => slot'.at = slot.at /\ slot'.ctx = slot.ctx
    OBVIOUS
  <2>. QED
    BY <2>1, <2>2, SoundStays DEF WInv
<1>4. \A i \in 1 .. Len(stack') : i \in 1 .. Len(stack) \/ i = Len(stack')
  BY <1>1, <1>2
<1>. QED
  BY <1>3, <1>4 DEF WInv

LEMMA ReturnSound ==
  ASSUME HInv, WInv, stack # <<>>, NEW a, Return(a), Later
  PROVE  WInv'
<1>1. Len(stack) \in Nat \ {0} /\ \A i \in 1 .. Len(stack) : stack[i] \in WellFormed
  BY StackFacts DEF HInv
<1>2. /\ Len(stack') = Len(stack) - 1
      /\ \A i \in 1 .. Len(stack) - 1 :
           \/ stack'[i] = stack[i]
           \/ stack[i].pc = "bind" /\ stack'[i] = [stack[i] EXCEPT !.pc = "failed"]
  BY ReturnStack DEF HInv
<1>3. ASSUME NEW i \in 1 .. Len(stack) - 1 PROVE Sound(i)'
  <2>1. ASSUME NEW j \in 1 .. i
        PROVE  /\ stack'[j].op = stack[j].op /\ stack'[j].conn = stack[j].conn
               /\ stack'[j].frame = stack[j].frame
               /\ stack'[j].pc \in {stack[j].pc, "failed"}
    <3>1. j \in 1 .. Len(stack) - 1 /\ stack[j] \in WellFormed
      BY <1>1
    <3>2. CASE stack'[j] = stack[j]
      BY <3>2
    <3>3. CASE stack'[j] = [stack[j] EXCEPT !.pc = "failed"]
      BY <3>1, <3>3 DEF WellFormed, Call
    <3>. QED
      BY <1>2, <3>1, <3>2, <3>3
  <2>2. slot.at \in 1 .. i => slot' = slot
    BY <1>1 DEF Return, Released
  <2>3. i \in 1 .. Len(stack)
    BY <1>1
  <2>. QED
    BY <2>1, <2>2, <2>3, SoundStays DEF WInv
<1>. QED
  <2>1. 1 .. Len(stack') = 1 .. Len(stack) - 1
    BY <1>2
  <2>. QED
    BY <1>3, <2>1 DEF WInv

LEMMA StepSound ==
  ASSUME HInv, WInv, NEW e \in WellFormed, Stepped(e), Later,
         slot.at \in 1 .. Len(stack) - 1 => slot' = slot,
         e.pc \in {"run", "fill", "convert", "failed"},
         e.op = "read" /\ e.pc = "run" => runs'[e.frame] # 0
  PROVE  WInv'
<1>1. Len(stack) \in Nat \ {0}
  BY StackFacts DEF HInv, Stepped
<1>2. /\ Len(stack') = Len(stack) /\ stack'[Len(stack)] = e
      /\ \A i \in 1 .. Len(stack) : i # Len(stack) => stack'[i] = stack[i]
  BY StepStack DEF HInv
<1>3. Sound(Len(stack))'
  BY <1>1, <1>2 DEF Sound, Guarded, MayMaterialize
<1>4. ASSUME NEW i \in 1 .. Len(stack) - 1 PROVE Sound(i)'
  <2>1. \A j \in 1 .. i : stack'[j] = stack[j]
    BY <1>1, <1>2
  <2>2. slot.at \in 1 .. i => slot' = slot
    BY <1>1
  <2>3. i \in 1 .. Len(stack)
    BY <1>1
  <2>. QED
    BY <2>1, <2>2, <2>3, SoundStays DEF WInv
<1>5. \A i \in 1 .. Len(stack) : i \in 1 .. Len(stack) - 1 \/ i = Len(stack)
  BY <1>1
<1>. QED
  BY <1>2, <1>3, <1>4, <1>5 DEF WInv

\* R code in a callback keeps off the connections whose locks its stack holds, and hands rel_from_df() no
\* unread frame of the connection it is for.
Considerate == "connection" \notin Habits /\ "relation" \notin Habits

LEMMA LaterStays == UNCHANGED frameVars => Later
  BY DEF frameVars, Later

LEMMA LockedToTop ==
  ASSUME HInv, NEW c, Locked(c)
  PROVE  LockedTo(Len(stack), c)
  BY StackFacts DEF HInv, Locked, LockedTo

\* Where a materialization may start, no lock waits for it.
Clear(f) == Locked(Home[f]) => slot.at \in 1 .. Len(stack) /\ slot.ctx = Home[f]

LEMMA StaysClearIsClear ==
  ASSUME HInv, Considerate, NEW f \in Frame, rows[f] = 0, StaysClear(f)
  PROVE  Clear(f)
<1>. SUFFICES ASSUME Locked(Home[f]) PROVE slot.at \in 1 .. Len(stack) /\ slot.ctx = Home[f]
  BY DEF Clear
<1>1. slot.ctx = Home[f] /\ slot.ctx # NoConn
  BY DEF StaysClear, Considerate, IsActiveFor
<1>2. slot.at # 0
  BY <1>1, ScopedFacts DEF Free
<1>. QED
  BY <1>1, <1>2, ScopedFacts, StackFacts DEF HInv

LEMMA EnterSound ==
  ASSUME HInv, WInv, NEW f \in Frame, NEW k \in Cols \cup {0}, k = 0 => rows[f] = 0, rows[f] = 0 => Clear(f),
         Enter(f, k)
  PROVE  WInv'
<1>. DEFINE n == Len(stack)
<1>0. n \in Nat
  BY StackFacts DEF HInv
<1>1. CASE /\ IF Pc = "bind" THEN Step("failed") ELSE UNCHANGED stack
           /\ UNCHANGED <<frameVars, deep, slot>>
  <2>1. CASE Pc = "bind"
    <3>. DEFINE e == [Top EXCEPT !.pc = "failed"]
    <3>1. stack # <<>> /\ Top \in WellFormed /\ Top.pc = "bind"
      BY <2>1, OpPc, StackFacts DEF HInv
    <3>2. Stepped(e) /\ e \in WellFormed /\ e.pc = "failed"
      BY <1>1, <2>1, <3>1, StepIsStepped, FailedIsWellFormed DEF WellFormed, Call
    <3>. HIDE DEF e
    <3>. QED
      BY <1>1, <3>2, LaterStays, StepSound
  <2>2. CASE Pc # "bind"
    BY <1>1, <2>2 DEF WInv, Sound, Guarded, MayMaterialize, LockedTo, frameVars
  <2>. QED
    BY <2>1, <2>2
<1>2. CASE /\ rows[f] = 0
           /\ Push(NewCall("read", Home[f], f, k, "callback"))
           /\ UNCHANGED <<frameVars, deep, slot, answer>>
  <2>. DEFINE e == NewCall("read", Home[f], f, k, "callback")
  <2>1. e \in WellFormed /\ e.op = "read" /\ e.pc = "callback" /\ e.frame = f
    BY NewReadType DEF NewCall
  <2>. HIDE DEF e
  <2>2. /\ Len(stack') = n + 1 /\ stack'[n + 1] = e
        /\ \A i \in 1 .. n : stack'[i] = stack[i]
    BY <1>2, <2>1, PushStack DEF HInv, e
  <2>3. LockedTo(Len(stack), Home[f])' => Locked(Home[f])
    <3>. SUFFICES ASSUME NEW j \in 1 .. n + 1, stack'[j].conn = Home[f], stack'[j].pc \in {"bind", "run"}
                  PROVE  Locked(Home[f])
      BY <2>2 DEF LockedTo
    <3>1. j \in 1 .. n
      BY <1>0, <2>1, <2>2
    <3>. QED
      BY <2>2, <3>1, StackFacts DEF Locked, HInv
  <2>4. LockedTo(Len(stack), Home[f])' => slot'.at \in 1 .. Len(stack') /\ slot'.ctx = Home[f]
    BY <1>0, <1>2, <2>2, <2>3 DEF Clear
  <2>5. Sound(Len(stack))'
    BY <2>1, <2>2, <2>4 DEF Sound, Guarded
  <2>. QED
    BY <1>2, <2>1, <2>5, LaterStays, PushSound DEF e
<1>3. CASE /\ mat[f] # 0
           /\ Push(NewCall("read", Home[f], f, k, "fill"))
           /\ UNCHANGED <<mat, rows, err, runs, conv, marks, deep, slot, answer>>
  <2>. DEFINE e == NewCall("read", Home[f], f, k, "fill")
  <2>1. k # 0
    BY <1>3 DEF HInv, DataType
  <2>2. e \in WellFormed /\ e.op = "read" /\ e.pc = "fill"
    BY <2>1, NewReadType
  <2>. HIDE DEF e
  <2>3. Len(stack') = n + 1 /\ stack'[n + 1] = e
    BY <1>3, <2>2, PushStack DEF HInv, e
  <2>4. Sound(Len(stack))'
    BY <2>2, <2>3 DEF Sound, Guarded, MayMaterialize
  <2>5. Later
    BY <1>3 DEF Later
  <2>. QED
    BY <1>3, <2>2, <2>4, <2>5, PushSound DEF e
<1>. QED
  BY <1>1, <1>2, <1>3 DEF Enter

LEMMA ReadSound ==
  ASSUME HInv, WInv, Considerate, NEW f \in Frame, ReadLength(f) \/ \E k \in Cols : ReadColumn(f, k)
  PROVE  WInv'
<1>1. rows[f] = 0 => Clear(f)
  BY StaysClearIsClear DEF ReadLength, ReadColumn
<1>2. CASE ReadLength(f)
  BY <1>1, <1>2, EnterSound DEF ReadLength
<1>3. ASSUME NEW k \in Cols, ReadColumn(f, k) PROVE WInv'
  <2>1. k \in Cols \cup {0} /\ k # 0
    BY DEF Cols
  <2>. QED
    BY <1>1, <1>3, <2>1, EnterSound DEF ReadColumn
<1>. QED
  BY <1>2, <1>3

\* A bind's own lock, or its statement's handler, is what guards the columns it touches.
LEMMA BindTouchesSound ==
  ASSUME HInv, WInv, BindTouches
  PROVE  WInv'
<1>. DEFINE f == Top.frame
            n == Len(stack)
<1>1. /\ stack # <<>> /\ Top \in WellFormed /\ f # NoFrame /\ Top.pc = "bind"
      /\ Top = stack[n] /\ n \in 1 .. n
  BY OpPc, StackFacts DEF HInv, BindTouches, Top
<1>2. f \in Frame
  BY <1>1 DEF WellFormed, Call
<1>3. rows[f] = 0 => Clear(f)
  BY <1>1, LockedToTop DEF WInv, Sound, Guarded, MayMaterialize, Clear
<1>4. PICK k \in Untouched(f) : Enter(f, k)
  BY DEF BindTouches
<1>5. k \in Cols \cup {0} /\ k # 0
  BY DEF Untouched, Cols
<1>. QED
  BY <1>2, <1>3, <1>4, <1>5, EnterSound

LEMMA RunQuerySound ==
  ASSUME HInv, WInv, RunQuery
  PROVE  WInv'
<1>. DEFINE f == Top.frame
            c == Home[f]
            n == Len(stack)
            e == [Top EXCEPT !.pc = "run", !.old = deep[c]]
<1>1. /\ stack # <<>> /\ Top.pc = "callback" /\ Top.op = "read" /\ Top \in WellFormed
      /\ f \in Frame /\ c \in Conn /\ n \in 1 .. n /\ Top = stack[n]
  <2>1. stack # <<>> /\ Top.pc = "callback"
    BY OpPc DEF RunQuery
  <2>. QED
    BY <2>1, StackFacts, CallbackIsRead, TopRead DEF HInv, Top
<1>2. Locked(c) => Refused(c)
  BY <1>1, LockedToTop DEF WInv, Sound, Guarded, MayMaterialize, Refused, IsActiveFor
<1>3. CASE Refused(c)
  BY <1>1, <1>3, LaterStays, ReturnSound DEF RunQuery
<1>4. CASE ~Refused(c)
  <2>1. /\ Stepped(e) /\ runs' = [runs EXCEPT ![f] = @ + 1] /\ rows' = rows
        /\ slot' = IF IsActive THEN slot ELSE Claim(n, c)
    BY <1>1, <1>2, <1>4 DEF RunQuery, Stepped, Top
  <2>2. e \in WellFormed /\ e.pc = "run" /\ e.frame = f
    BY <1>1 DEF WellFormed, Call, HInv, DataType
  <2>3. Later /\ runs'[f] # 0
    BY <1>1, <2>1 DEF Later, HInv, DataType
  <2>4. slot.at \in 1 .. n - 1 => slot' = slot
    BY <2>1 DEF IsActive
  <2>. HIDE DEF e
  <2>. QED
    BY <2>1, <2>2, <2>3, <2>4, StepSound
<1>. QED
  BY <1>3, <1>4

LEMMA ReturningSound ==
  ASSUME HInv, WInv, Pc # "R", NEW a, Return(a), rows' = rows, runs' = runs
  PROVE  WInv'
  BY OpPc, ReturnSound DEF Later

LEMMA QueryDoneSound ==
  ASSUME HInv, WInv, QueryDone
  PROVE  WInv'
<1>. DEFINE f == Top.frame
            n == Len(stack)
            e == [Top EXCEPT !.pc = "fill"]
<1>1. /\ stack # <<>> /\ Top.op = "read" /\ Top.pc = "run"
      /\ Top \in WellFormed /\ f \in Frame /\ n \in 1 .. n /\ Top = stack[n]
  BY OpPc, TopRead, StackFacts DEF QueryDone, HInv, Top
<1>2. runs[f] # 0
  BY <1>1 DEF WInv, Sound
<1>3. Later
  BY <1>1, <1>2 DEF QueryDone, Later, HInv, DataType
<1>4. CASE \E a \in {"ok", "error", "interrupt"} : Return(a)
  BY <1>1, <1>3, <1>4, ReturnSound
<1>5. CASE /\ Top.col # 0 /\ Step("fill")
           /\ slot' = IF slot.at = Len(stack) THEN Free ELSE slot
  <2>1. Stepped(e) /\ e \in WellFormed /\ e.pc = "fill"
    BY <1>1, <1>5, StepIsStepped DEF WellFormed, Call
  <2>2. slot.at \in 1 .. n - 1 => slot' = slot
    BY <1>1, <1>5
  <2>. HIDE DEF e
  <2>. QED
    BY <1>3, <2>1, <2>2, StepSound
<1>. QED
  BY <1>4, <1>5 DEF QueryDone

\* A statement starts where the lock of its connection is free, and scans a frame that it may read.
LEMMA ExecuteSound ==
  ASSUME HInv, WInv, Considerate, NEW c \in Conn, NEW f \in Frame \cup {NoFrame}, Execute(c, f)
  PROVE  WInv'
<1>. DEFINE n == Len(stack)
            e == NewCall("statement", c, f, 0, "bind")
<1>1. CASE IsActive
  BY <1>1 DEF Execute, WInv, Sound, Guarded, MayMaterialize, LockedTo, frameVars
<1>2. CASE ~IsActive
  <2>1. /\ Push(e) /\ slot' = Claim(n + 1, c) /\ slot.at = 0 /\ slot = Free /\ ~Locked(c)
        /\ f # NoFrame => Home[f] = c \/ StaysClear(f)
        /\ UNCHANGED frameVars /\ n \in Nat
    BY <1>2, ScopedFacts, StackFacts DEF Execute, IsActive, Considerate, HInv
  <2>2. e \in WellFormed /\ e.op = "statement" /\ e.conn = c /\ e.frame = f /\ e.pc = "bind"
    BY DEF NewCall, WellFormed, Call
  <2>. HIDE DEF e
  <2>3. /\ Len(stack') = n + 1 /\ stack'[n + 1] = e
        /\ \A i \in 1 .. n : stack'[i] = stack[i]
    BY <2>1, <2>2, PushStack DEF HInv
  <2>4. ASSUME f # NoFrame, rows[f] = 0, LockedTo(Len(stack), Home[f])' PROVE Home[f] = c
    <3>1. PICK j \in 1 .. n + 1 : stack'[j].conn = Home[f] /\ stack'[j].pc \in {"bind", "run"}
      BY <2>3, <2>4 DEF LockedTo
    <3>2. CASE j = n + 1
      BY <2>2, <2>3, <3>1, <3>2
    <3>3. CASE j \in 1 .. n
      <4>1. Locked(Home[f])
        BY <2>3, <3>1, <3>3, StackFacts DEF Locked, HInv
      <4>2. ~StaysClear(f)
        BY <2>1, <2>4, <4>1 DEF StaysClear, Considerate, IsActiveFor, Free
      <4>. QED
        BY <2>1, <2>4, <4>2
    <3>. QED
      BY <2>1, <3>1, <3>2, <3>3
  <2>5. slot'.at = Len(stack') /\ slot'.ctx = c /\ Len(stack') \in 1 .. Len(stack') /\ rows' = rows
    BY <2>1, <2>3 DEF Claim, frameVars
  <2>6. Sound(Len(stack))'
    BY <2>2, <2>3, <2>4, <2>5 DEF Sound, Guarded, MayMaterialize
  <2>. QED
    BY <2>1, <2>2, <2>6, LaterStays, PushSound
<1>. QED
  BY <1>1, <1>2

LEMMA RelFromDfSound ==
  ASSUME HInv, WInv, Considerate, NEW c \in Conn, NEW f \in Frame, RelFromDf(c, f)
  PROVE  WInv'
<1>. DEFINE n == Len(stack)
            e == NewCall("relation", c, f, 0, "bind")
<1>1. /\ Push(e) /\ ~Locked(c) /\ StaysClear(f)
      /\ Home[f] = c => rows[f] # 0
      /\ UNCHANGED frameVars /\ slot' = slot /\ n \in Nat
  BY StackFacts DEF RelFromDf, Considerate, HInv
<1>2. e \in WellFormed /\ e.op = "relation" /\ e.conn = c /\ e.frame = f /\ e.pc = "bind"
  BY DEF NewCall, WellFormed, Call
<1>. HIDE DEF e
<1>3. /\ Len(stack') = n + 1 /\ stack'[n + 1] = e
      /\ \A i \in 1 .. n : stack'[i] = stack[i]
  BY <1>1, <1>2, PushStack DEF HInv
<1>4. ASSUME rows[f] = 0, LockedTo(Len(stack), Home[f])' PROVE Locked(Home[f])
  <2>1. PICK j \in 1 .. n + 1 : stack'[j].conn = Home[f] /\ stack'[j].pc \in {"bind", "run"}
    BY <1>3, <1>4 DEF LockedTo
  <2>2. j \in 1 .. n
    BY <1>1, <1>2, <1>3, <1>4, <2>1
  <2>. QED
    BY <1>3, <2>1, <2>2, StackFacts DEF Locked, HInv
<1>5. rows[f] = 0 => Clear(f)
  BY <1>1, StaysClearIsClear
<1>6. rows[f] = 0 /\ LockedTo(Len(stack), Home[f])' => slot'.at \in 1 .. Len(stack') /\ slot'.ctx = Home[f]
  BY <1>1, <1>3, <1>4, <1>5 DEF Clear
<1>7. Sound(Len(stack))'
  BY <1>1, <1>2, <1>3, <1>6 DEF Sound, Guarded, MayMaterialize, frameVars
<1>. QED
  BY <1>1, <1>2, <1>7, LaterStays, PushSound

\* The innermost call moves on, or fails, above guarded ones.
LEMMA StepOnSound ==
  ASSUME HInv, WInv, NEW e \in WellFormed, Stepped(e), e.op # "read", e.pc \in {"run", "convert", "failed"},
         UNCHANGED frameVars, slot' = slot \/ slot.at = Len(stack)
  PROVE  WInv'
<1>1. slot.at \in 1 .. Len(stack) - 1 => slot' = slot
  BY StackFacts DEF HInv
<1>. QED
  BY <1>1, LaterStays, StepSound

LEMMA TopMoves ==
  ASSUME HInv, stack # <<>>, Top.op # "read" \/ Top.pc = "bind"
  PROVE  /\ \A p \in {"failed"} \cup (IF Top.op = "statement" THEN {"convert"} ELSE {}) :
              /\ [Top EXCEPT !.pc = p] \in WellFormed /\ [Top EXCEPT !.pc = p].pc = p
              /\ [Top EXCEPT !.pc = p].op # "read"
  BY StackFacts DEF HInv, WellFormed, Call

LEMMA BindDoneSound ==
  ASSUME HInv, WInv, BindDone
  PROVE  WInv'
<1>1. stack # <<>> /\ Top.pc = "bind" /\ Top \in WellFormed /\ Pc # "R"
  BY OpPc, StackFacts DEF BindDone, HInv
<1>2. CASE Top.op = "relation"
  BY <1>1, <1>2, ReturningSound DEF BindDone, frameVars
<1>3. CASE Top.op # "relation"
  <2>. DEFINE e == [Top EXCEPT !.pc = "run", !.scans = IF Top.frame = NoFrame THEN {} ELSE {Top.frame}]
  <2>1. Stepped(e) /\ UNCHANGED <<frameVars, slot>>
    BY <1>1, <1>3 DEF BindDone, Stepped, Top
  <2>2. e \in WellFormed /\ e.op # "read" /\ e.pc = "run"
    BY <1>1, <1>3 DEF WellFormed, Call
  <2>. QED
    BY <2>1, <2>2, StepOnSound
<1>. QED
  BY <1>2, <1>3

LEMMA FailingSound ==
  ASSUME HInv, WInv, BindFails \/ StatementFails
  PROVE  WInv'
<1>. DEFINE e == [Top EXCEPT !.pc = "failed"]
<1>1. stack # <<>> /\ (Top.op # "read" \/ Top.pc = "bind")
  BY OpPc DEF BindFails, StatementFails
<1>2. Stepped(e) /\ UNCHANGED <<frameVars, slot>>
  BY <1>1, StepIsStepped DEF BindFails, StatementFails
<1>. QED
  BY <1>1, <1>2, TopMoves, StepOnSound

LEMMA StatementDoneSound ==
  ASSUME HInv, WInv, NEW ok \in BOOLEAN, StatementDone(ok)
  PROVE  WInv'
<1>1. /\ stack # <<>> /\ Top.op = "statement" /\ Pc # "R"
      /\ Top = stack[Len(stack)] /\ Len(stack) \in Nat \ {0}
  BY OpPc, StackFacts DEF StatementDone, HInv, Top
<1>2. CASE \E a \in {"interrupt", "error"} : Return(a)
  BY <1>1, <1>2, ReturningSound DEF StatementDone, frameVars
<1>3. CASE Step("convert")
  <2>1. Stepped([Top EXCEPT !.pc = "convert"]) /\ UNCHANGED frameVars /\ slot.at = Len(stack)
    BY <1>1, <1>3, StepIsStepped, ScopedFacts DEF StatementDone
  <2>. QED
    BY <1>1, <2>1, TopMoves, StepOnSound
<1>. QED
  BY <1>2, <1>3 DEF StatementDone

LEMMA TaskBindsSound ==
  ASSUME HInv, WInv, NEW i \in DOMAIN stack, NEW f \in Frame, TaskBinds(i, f)
  PROVE  WInv'
<1>. DEFINE e == [stack[i] EXCEPT !.scans = @ \cup {f}]
<1>1. i \in 1 .. Len(stack) /\ stack[i] \in WellFormed
  BY StackFacts DEF HInv
<1>2. /\ e \in WellFormed
      /\ e.op = stack[i].op /\ e.conn = stack[i].conn /\ e.frame = stack[i].frame /\ e.pc = stack[i].pc
  BY <1>1 DEF WellFormed, Call
<1>3. stack' = [stack EXCEPT ![i] = e] /\ UNCHANGED <<frameVars, slot>>
  BY DEF TaskBinds
<1>. HIDE DEF e
<1>4. /\ Len(stack') = Len(stack) /\ Len(stack) \in Nat
      /\ \A j \in 1 .. Len(stack) : stack'[j] = IF j = i THEN e ELSE stack[j]
  BY <1>1, <1>2, <1>3, ExceptSeq, StackFacts DEF HInv
<1>5. \A j \in 1 .. Len(stack) :
        /\ stack'[j].op = stack[j].op /\ stack'[j].conn = stack[j].conn /\ stack'[j].frame = stack[j].frame
        /\ stack'[j].pc \in {stack[j].pc, "failed"}
  BY <1>2, <1>4
<1>6. ASSUME NEW k \in 1 .. Len(stack) PROVE Sound(k)'
  <2>1. \A j \in 1 .. k : j \in 1 .. Len(stack)
    BY <1>4
  <2>. QED
    BY <1>3, <1>5, <2>1, LaterStays, SoundStays DEF WInv
<1>. QED
  BY <1>4, <1>6 DEF WInv

LEMMA Waiting == Considerate /\ HInv /\ WInv /\ [Next]_vars => WInv'
<1>. SUFFICES ASSUME Considerate, HInv, WInv, [Next]_vars PROVE WInv'
  OBVIOUS
<1>1. CASE \E f \in Frame : ReadLength(f) \/ \E k \in Cols : ReadColumn(f, k)
  BY <1>1, ReadSound
<1>2. CASE RunQuery \/ QueryDone \/ BindTouches \/ BindDone \/ BindFails \/ StatementFails
  BY <1>2, RunQuerySound, QueryDoneSound, BindTouchesSound, BindDoneSound, FailingSound
<1>3. CASE CallbackFails \/ QueryFails \/ FillFails \/ FillDone \/ RelationFails \/ ConvertDone
  <2>1. Pc # "R" /\ rows' = rows /\ runs' = runs /\ \E a \in {"ok", "error"} : Return(a)
    BY <1>3 DEF CallbackFails, QueryFails, FillFails, FillDone, RelationFails, ConvertDone, frameVars
  <2>. QED
    BY <2>1, ReturningSound
<1>4. CASE \E c \in Conn : \E f \in Frame : RelFromDf(c, f)
  BY <1>4, RelFromDfSound
<1>5. CASE \E c \in Conn : \E f \in Frame \cup {NoFrame} : Execute(c, f)
  BY <1>5, ExecuteSound
<1>6. CASE \E i \in DOMAIN stack : \E f \in Frame : TaskBinds(i, f)
  BY <1>6, TaskBindsSound
<1>7. CASE \E ok \in BOOLEAN : StatementDone(ok)
  BY <1>7, StatementDoneSound
<1>8. CASE Interrupt \/ UNCHANGED vars
  <2>1. slot'.at = slot.at /\ slot'.ctx = slot.ctx /\ UNCHANGED <<stack, rows, runs>>
    BY <1>8 DEF Interrupt, vars, frameVars, HInv, SlotType
  <2>. QED
    BY <2>1 DEF WInv, Sound, Guarded, MayMaterialize, LockedTo
<1>. QED
  BY <1>1, <1>2, <1>3, <1>4, <1>5, <1>6, <1>7, <1>8 DEF Next

\* No call waits for a client context lock that its own stack holds: GetQueryResult() fails a query of the
\* connection whose query is running (src/src/reltoaltrep.cpp), and that is enough however calls nest, for R code
\* that is considerate.
THEOREM NeverSelfWaits ==
  ASSUME Considerate
  PROVE  Spec => []NoSelfWait
<1>1. Init => WInv
  BY EmptySeq DEF Init, WInv
<1>2. HInv /\ WInv => NoSelfWait
  BY OpPc, StackFacts DEF HInv, WInv, Sound, NoSelfWait, Pc, Top
<1>3. HInv /\ HInv' /\ WInv /\ [Next]_vars => WInv'
  BY Waiting
<1>. QED
  BY <1>1, <1>2, <1>3, AltrepInvariant, PTL DEF Spec
=============================================================================
