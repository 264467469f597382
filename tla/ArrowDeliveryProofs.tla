------------------------ MODULE ArrowDeliveryProofs ------------------------
(***************************************************************************)
(* What ArrowResults tells the consumers of results: an end that is none   *)
(* reaches only a reader on a pool thread, and only when a statement has   *)
(* ended its result; every other verdict is final; and together the        *)
(* answers are those of ResultDelivery.  Proved for every set of contexts  *)
(* and results, read on whatever thread.                                   *)
(***************************************************************************)
EXTENDS ArrowResultsProofs

\* What the last answer says of a result.  EndOpenResults() ends none that has told its end or the engine's error:
\* it is no query result, and its stream is closed.  A pool thread may tell either of one that is just being ended.
ToldOK(r) ==
  /\ told[r] = "invalidated" => invalidated[r]
  /\ told[r] = "error" => failed[r]
  /\ failed[r] => told[r] \in {"error", "invalidated"}
  /\ told[r] \in {"end", "error"} /\ r \in streamed => finished[r] /\ holder[r] # "query_result"
  /\ told[r] \in {"end", "error"} /\ invalidated[r] => r \in PoolStreams

\* Only a stream is tracked, invalidated or fails.
VInv ==
  /\ \A c \in Ctx : \A o \in Reachable(c) : o.res \in streamed
  /\ \A r \in Res : invalidated[r] \/ failed[r] => r \in streamed
  /\ \A r \in Res : ToldOK(r)

\* While a pool thread reads, its reader has told no verdict.
ReadsUndecided ==
  \A r \in Res : pool[r] \in PoolReads => ~failed[r] /\ told[r] \in {"nothing", "rows", "dropped"}

-----------------------------------------------------------------------------
(***************************************************************************)
(* The kinds of step.                                                      *)
(***************************************************************************)

\* No read on a pool thread begins or ends.
SameReads == \A r \in Res : pool'[r] \in PoolReads <=> pool[r] \in PoolReads

USE DEF ahead, ends, SameReads

\* No consumer is answered, nothing is made; results may be given up, moved, tracked as sources and closed.
Quiet ==
  /\ UNCHANGED <<told, failed, finished, streamed, left, lost>> /\ SameReads
  /\ \A r \in Res : /\ holder'[r] = "query_result" => holder[r] = "query_result"
                    /\ holder'[r] = "none" <=> holder[r] = "none"
  /\ \A c \in Ctx : active'[c] \in {active[c], NoRes}
  /\ \A c \in Ctx : \A o \in Reachable(c)' : o \in Reachable(c) \/ o.res \in streamed

LEMMA BeginStatementQuiet ==
  ASSUME IInv, NEW c \in Ctx, BeginStatement(c)
  PROVE  Quiet /\ UNCHANGED invalidated
<1>1. UNCHANGED <<told, failed, finished, streamed, left, lost, invalidated, pool>> /\ ending = NoCtx /\ ending' = c /\ c # NoCtx
  BY ConstantsAssumption DEF BeginStatement, RCode, reading
<1>2. /\ \A r \in Res : holder'[r] \in {holder[r], "gone"} /\ (holder[r] = "none" => holder'[r] = "none")
      /\ \A d \in Ctx : active'[d] \in {active[d], NoRes}
  <2>1. CASE UNCHANGED <<holder, active>>
    BY <2>1
  <2>2. CASE Drained
    BY <2>2, DrainedEffect, ClosingEffect DEF IInv
  <2>3. QED
    BY <2>1, <2>2 DEF BeginStatement
<1>3. ASSUME NEW d \in Ctx, NEW o \in Reachable(d)' PROVE o \in Reachable(d)
  <2>1. \/ tracked' = [tracked EXCEPT ![c] = {}] /\ todo' = tracked[c]
        \/ tracked' = [TrackedWithout(Parked) EXCEPT ![c] = {}] /\ todo' = TrackedWithout(Parked)[c]
    BY DEF BeginStatement
  <2>2. todo' \subseteq tracked[c] /\ tracked'[d] \subseteq tracked[d]
    BY <2>1 DEF TrackedWithout, IInv, TypeOK, TypeOfObjects
  <2>3. QED
    BY <1>1, <1>3, <2>2 DEF Reachable
<1>4. QED
  BY <1>1, <1>2, <1>3 DEF Quiet

\* A result is destroyed, by what holds it.
LEMMA DestroyQuiet ==
  ASSUME IInv, NEW r \in Res, Destroy(r), holder[r] # "none",
         UNCHANGED <<ending, todo, told, failed, finished, streamed, left, lost>>, SameReads
  PROVE  Quiet
<1>1. active' = ActiveAfterClosing({r}) /\ tracked' = TrackedWithout({r}) /\ holder' = [holder EXCEPT ![r] = "gone"]
  BY DEF Destroy
<1>2. \A c \in Ctx : active'[c] \in {active[c], NoRes} /\ tracked'[c] \subseteq tracked[c]
  <2>1. \A c \in Ctx : active'[c] = IF active[c] \in {r} THEN NoRes ELSE active[c]
    BY <1>1, ClosingEffect DEF IInv
  <2>2. \A c \in Ctx : tracked'[c] = {o \in tracked[c] : o.res \notin {r}}
    BY <1>1, UntrackingEffect DEF IInv
  <2>3. QED
    BY <2>1, <2>2
<1>3. \A q \in Res : holder'[q] = IF q = r THEN "gone" ELSE holder[q]
  BY <1>1 DEF IInv, TypeOK, TypeOfObjects
<1>4. QED
  BY <1>2, <1>3 DEF Quiet, Reachable

\* What is held changes hands, and nothing is closed.
LEMMA MovedQuiet ==
  ASSUME IInv, NEW r \in Res, holder[r] # "none",
         NEW h \in {"wrapper", "reader", "parked_result", "parked_wrapper"},
         UNCHANGED holder \/ holder' = [holder EXCEPT ![r] = h],
         UNCHANGED <<ending, todo, told, failed, finished, streamed, left, lost, active>>, SameReads,
         \A c \in Ctx : \A o \in tracked'[c] : o \in tracked[c] \/ o.res \in streamed
  PROVE  Quiet
<1>1. \A q \in Res : holder'[q] = holder[q] \/ (q = r /\ holder'[q] = h)
  BY DEF IInv, TypeOK, TypeOfObjects
<1>2. QED
  BY <1>1 DEF Quiet, Reachable

LEMMA TrackedQuiet ==
  ASSUME IInv, NEW r \in Res, UNCHANGED tracked \/ tracked' = TrackedAsSource(r) \/ tracked' = TrackedWithout({r})
  PROVE  \A c \in Ctx : \A o \in tracked'[c] : o \in tracked[c] \/ o.res \in streamed
<1>1. CASE tracked' = TrackedAsSource(r)
  BY <1>1, TrackingEffect, Fields DEF IInv
<1>2. CASE tracked' = TrackedWithout({r})
  BY <1>2, UntrackingEffect DEF IInv
<1>3. QED
  BY <1>1, <1>2

LEMMA FinalizeQuiet ==
  ASSUME IInv, NEW r \in Res, FinalizeResult(r)
  PROVE  Quiet /\ UNCHANGED invalidated
<1>1. UNCHANGED <<ending, todo, told, failed, finished, streamed, left, lost, invalidated, pool>>
  BY DEF FinalizeResult, rThread, reading
<1>2. CASE UNCHANGED <<holder, tracked, active>>
  BY <1>1, <1>2 DEF Quiet, Reachable
<1>3. CASE holder[r] \in {"query_result", "wrapper"} /\ Destroy(r)
  BY <1>1, <1>3, DestroyQuiet
<1>4. CASE /\ holder[r] = "query_result" /\ holder' = [holder EXCEPT ![r] = "parked_result"]
           /\ tracked' = [tracked EXCEPT ![Home[r]] = @ \ {QueryResultOf(r)}] /\ UNCHANGED active
  <2>1. \A c \in Ctx : tracked'[c] \subseteq tracked[c]
    BY <1>4, ConstantsAssumption DEF IInv, TypeOK, TypeOfObjects
  <2>2. QED
    BY <1>1, <1>4, <2>1, MovedQuiet
<1>5. CASE /\ holder[r] = "wrapper" /\ holder' = [holder EXCEPT ![r] = "parked_wrapper"]
           /\ UNCHANGED <<tracked, active>>
  BY <1>1, <1>5, MovedQuiet
<1>6. QED
  BY <1>2, <1>3, <1>4, <1>5 DEF FinalizeResult

LEMMA ReleaseReaderQuiet ==
  ASSUME IInv, NEW r \in Res, ReleaseReader(r)
  PROVE  Quiet /\ UNCHANGED invalidated
<1>1. UNCHANGED <<ending, todo, told, failed, finished, streamed, left, lost, invalidated, pool>> /\ holder[r] = "reader"
  BY DEF ReleaseReader, rThread, reading
<1>2. CASE Destroy(r)
  BY <1>1, <1>2, DestroyQuiet
<1>3. CASE holder' = [holder EXCEPT ![r] = "parked_wrapper"] /\ UNCHANGED <<tracked, active>>
  BY <1>1, <1>3, MovedQuiet
<1>4. QED
  BY <1>2, <1>3 DEF ReleaseReader

LEMMA DrainQuiet ==
  ASSUME IInv, Drain
  PROVE  Quiet /\ UNCHANGED invalidated
<1>1. UNCHANGED <<ending, todo, told, failed, finished, streamed, left, lost, invalidated, pool>> /\ Drained
  BY DEF Drain, rThread, reading
<1>2. tracked' = TrackedWithout(Parked)
  BY DEF Drain
<1>3. QED
  BY <1>1, <1>2, DrainedEffect, ClosingEffect, UntrackingEffect DEF Quiet, Reachable, IInv

\* Steps of R's thread that answer nobody.
LEMMA RQuiet ==
  ASSUME IInv, NEW r \in Res, BeginRead(r) \/ HandOver(r) \/ ReleaseArrowResult(r)
  PROVE  Quiet /\ UNCHANGED invalidated
<1>1. CASE BeginRead(r)
  <2>1. /\ UNCHANGED <<ending, todo, told, failed, finished, streamed, left, lost, invalidated, active, pool>>
        /\ holder[r] # "none"
        /\ UNCHANGED holder \/ holder' = [holder EXCEPT ![r] = "wrapper"]
        /\ UNCHANGED tracked \/ tracked' = TrackedAsSource(r)
    BY <1>1 DEF BeginRead, Readable, reading, engine
  <2>2. QED
    BY <2>1, TrackedQuiet, MovedQuiet
<1>2. CASE HandOver(r)
  <2>1. /\ UNCHANGED <<ending, todo, told, failed, finished, streamed, left, lost, invalidated, active, pool>>
        /\ holder[r] # "none"
        /\ holder' = [holder EXCEPT ![r] = "reader"]
        /\ UNCHANGED tracked \/ tracked' = TrackedAsSource(r)
    BY <1>2 DEF HandOver, reading, engine, rThread
  <2>2. QED
    BY <2>1, TrackedQuiet, MovedQuiet
<1>3. CASE ReleaseArrowResult(r)
  <2>1. /\ UNCHANGED <<ending, todo, told, failed, finished, streamed, left, lost, invalidated, pool>>
        /\ holder[r] # "none" /\ Destroy(r)
    BY <1>3 DEF ReleaseArrowResult, reading, rThread
  <2>2. QED
    BY <2>1, DestroyQuiet
<1>4. QED
  BY <1>1, <1>2, <1>3

\* Steps of a pool thread that answer nobody.
LEMMA PoolQuiet ==
  ASSUME IInv, NEW r \in Res,
         \/ PoolPoll(r) \/ PoolFetch(r) \/ PoolAppend(r)
         \/ PoolRelease(r) \/ PoolPark(r) \/ PoolUntrack(r) \/ PoolClose(r)
  PROVE  Quiet /\ UNCHANGED invalidated
<1>1. UNCHANGED <<ending, todo, told, failed, finished, streamed, left, lost, invalidated>>
  BY DEF PoolPoll, PoolFetch, PoolAppend, PoolRelease, PoolPark, PoolUntrack, PoolClose, reading, rThread
<1>2. SameReads
  BY DEF PoolPoll, PoolFetch, PoolAppend, Polls, PoolRelease, PoolPark, PoolUntrack, PoolClose, PoolReads,
         IInv, TypeOK, TypeOfObjects
<1>3. holder[r] # "none"
  BY DEF PoolPoll, PoolFetch, PoolAppend, Polls, PoolRelease, PoolPark, PoolUntrack, PoolClose, IInv, OwnersOK
<1>4. CASE PoolRelease(r) \/ PoolPoll(r) \/ PoolFetch(r) \/ PoolAppend(r)
  BY <1>1, <1>2, <1>4 DEF PoolRelease, PoolPoll, PoolFetch, PoolAppend, Quiet, engine, objects, Reachable
<1>5. CASE PoolPark(r)
  BY <1>1, <1>2, <1>3, <1>5, MovedQuiet DEF PoolPark, engine
<1>6. CASE PoolUntrack(r)
  BY <1>1, <1>2, <1>3, <1>6, TrackedQuiet, MovedQuiet DEF PoolUntrack, engine
<1>7. CASE PoolClose(r)
  <2>1. \A q \in Res : holder'[q] = holder[q] \/ (q = r /\ holder'[q] = "gone")
    BY <1>7 DEF PoolClose, IInv, TypeOK, TypeOfObjects
  <2>2. QED
    BY <1>1, <1>2, <1>3, <1>7, <2>1, ClosingEffect DEF PoolClose, Quiet, Reachable, IInv
<1>8. QED
  BY <1>4, <1>5, <1>6, <1>7

\* Steps that touch no result.
LEMMA ControlQuiet ==
  ASSUME IInv, \/ HandlerRefuses \/ EngineRefuses \/ EnterEngine \/ Callback \/ CallbackReturns \/ StatementReturns
               \/ (\E c \in Ctx : Disconnect(c)) \/ UNCHANGED vars
  PROVE  Quiet /\ UNCHANGED invalidated
<1>1. UNCHANGED <<active, objects, streamed, reading, todo, pool>>
  BY DEF HandlerRefuses, EngineRefuses, EnterEngine, Callback, CallbackReturns, StatementReturns, Disconnect, vars,
    engine, rThread
<1>2. todo = {} \/ UNCHANGED ending
  BY DEF HandlerRefuses, EngineRefuses, EnterEngine, Callback, CallbackReturns, StatementReturns, Disconnect, vars,
    rThread
<1>3. \A c \in Ctx : Reachable(c)' \subseteq Reachable(c)
  BY <1>1, <1>2 DEF Reachable, objects
<1>4. QED
  BY <1>1, <1>3 DEF Quiet, objects, reading

\* A turn of EndOpenResults()' loop: it asks, marks or closes.
LEMMA EndingQuiet ==
  ASSUME IInv, NEW o \in todo, EndAsk(o) \/ EndMark(o) \/ EndClose(o)
  PROVE  /\ Quiet /\ o.res \in Res /\ ending \in Ctx /\ o \in Reachable(ending)
         /\ UNCHANGED invalidated \/ (EndMark(o) /\ invalidated' = [invalidated EXCEPT ![o.res] = TRUE])
<1>1. ending # NoCtx
  BY DEF IInv, StackOK
<1>2. o.res \in Res /\ ending \in Ctx /\ o \in Reachable(ending)
  BY <1>1, EndingObject
<1>3. /\ UNCHANGED <<told, failed, finished, streamed, left, lost, holder, tracked, ending, pool>> /\ todo' \subseteq todo
      /\ UNCHANGED invalidated \/ (EndMark(o) /\ invalidated' = [invalidated EXCEPT ![o.res] = TRUE])
  BY DEF EndAsk, EndMark, EndClose, objects, reading
<1>4. ASSUME NEW c \in Ctx PROVE active'[c] \in {active[c], NoRes}
  <2>1. CASE UNCHANGED active
    BY <2>1
  <2>2. CASE active' = ActiveAfterClosing({o.res})
    BY <2>2, ClosingEffect DEF IInv
  <2>3. QED
    BY <2>1, <2>2 DEF EndAsk, EndMark, EndClose, engine
<1>5. QED
  BY <1>2, <1>3, <1>4 DEF Quiet, Reachable

\* What an answer to the consumer of r leaves alone, on whatever thread; and r itself is not abandoned by it.
ReadsOnly(r) ==
  /\ UNCHANGED <<streamed, invalidated>>
  /\ \A q \in Res : q # r =>
       /\ left'[q] = left[q] /\ told'[q] = told[q] /\ finished'[q] = finished[q] /\ failed'[q] = failed[q]
       /\ holder'[q] = holder[q] /\ pool'[q] = pool[q]
  /\ \A c \in Ctx : active'[c] = active[c] \/ (active[c] = r /\ active'[c] = NoRes)
  /\ holder[r] # "none" /\ holder'[r] \notin {"none", "query_result"}
  /\ \A c \in Ctx : \A o \in Reachable(c)' : o \in Reachable(c) \/ o.res \in streamed

\* A read in one step, of a result that no pool thread is reading: rows, an exception, an error of a stream, or an
\* answer that is known.
Reads(r, k) ==
  /\ UNCHANGED pool /\ pool[r] \notin PoolReads
  /\ \/ HasRows(r) /\ (Batch(r, k) \/ BatchLost(r, k))
     \/ HasRows(r) /\ ReadFails(r, k) /\ r \in streamed
     \/ ~HasRows(r) /\ AnswerWithoutRows(r) /\ holder[r] \in {"query_result", "wrapper", "reader"}

LEMMA OpenHasRows ==
  ASSUME IInv, NEW r \in Res, active[Home[r]] = r
  PROVE  r \in streamed /\ ~failed[r] /\ ~finished[r]
<1>1. active[Home[r]] # NoRes /\ Home[r] \in Ctx
  BY ConstantsAssumption
<1>2. QED
  BY <1>1 DEF IInv, OpenOK

LEMMA EndReadOpen ==
  ASSUME IInv, NEW r \in Res, NEW k \in Batches, EndRead(r, k)
  PROVE  /\ HasRows(r) /\ r \in streamed /\ ending = NoCtx /\ ending' = NoCtx
         /\ holder[r] \in {"wrapper", "reader"} /\ (holder[r] = "reader" => r \notin PoolStreams)
<1>1. ~atR /\ Pop /\ Top = ReadFrame(r) /\ ending' = ending
  BY DEF EndRead
<1>2. Top = stack[Len(stack)] /\ Len(stack) \in 1..Len(stack)
  BY <1>1, PopEffect
<1>3. stack[Len(stack)].kind = "read" /\ stack[Len(stack)].res = r /\ stack[Len(stack)].ctx = Home[r]
  BY <1>1, <1>2 DEF ReadFrame
<1>4. /\ active[Home[r]] = r /\ ending = NoCtx /\ ending' = NoCtx
      /\ holder[r] \in {"wrapper", "reader"} /\ (holder[r] = "reader" => r \notin PoolStreams)
  BY <1>1, <1>2, <1>3 DEF IInv, LocksHold, StackOK
<1>5. marked = {} /\ Home[r] \in Ctx /\ r # NoRes
  BY <1>4, ConstantsAssumption DEF IInv, StackOK, TypeOK, TypeOfThread
<1>6. ~invalidated[r]
  BY <1>4, <1>5 DEF IInv, OpenOK
<1>7. QED
  BY <1>4, <1>6, OpenHasRows DEF HasRows, Decided, IsOpen

LEMMA ReadByREffect ==
  ASSUME IInv, NEW r \in Res, NEW k \in Batches, ReadAtOnce(r, k) \/ EndRead(r, k)
  PROVE  Reads(r, k) /\ ReadsOnly(r)
<1>1. /\ WrapperAfterRead(r) /\ holder[r] \in {"query_result", "wrapper", "reader"}
      /\ holder[r] = "reader" => r \notin PoolStreams
      /\ UNCHANGED <<ending, todo, streamed, invalidated, pool>>
      /\ \/ HasRows(r) /\ (Batch(r, k) \/ BatchLost(r, k) \/ (r \in streamed /\ ReadFails(r, k)))
         \/ ~HasRows(r) /\ AnswerWithoutRows(r)
  <2>1. CASE ReadAtOnce(r, k)
    BY <2>1 DEF ReadAtOnce, Readable, rThread
  <2>2. CASE EndRead(r, k)
    <3>1. /\ WrapperAfterRead(r) /\ UNCHANGED <<todo, streamed, invalidated, pool>>
          /\ Batch(r, k) \/ BatchLost(r, k) \/ ReadFails(r, k)
      BY <2>2 DEF EndRead
    <3>2. QED
      BY <2>2, <3>1, EndReadOpen
  <2>3. QED
    BY <2>1, <2>2
<1>2. pool[r] \notin PoolReads
  BY <1>1 DEF IInv, OwnersOK, PoolReads
<1>3. Reads(r, k)
  BY <1>1, <1>2 DEF Reads
<1>4. /\ \A q \in Res : q # r => holder'[q] = holder[q]
      /\ holder'[r] \in {"reader", "wrapper", "gone"}
  BY <1>1 DEF WrapperAfterRead, IInv, TypeOK, TypeOfObjects
<1>5. UNCHANGED tracked \/ tracked' = TrackedAsSource(r) \/ tracked' = TrackedWithout({r})
  BY <1>1 DEF WrapperAfterRead
<1>6. \A c \in Ctx : \A o \in Reachable(c)' : o \in Reachable(c) \/ o.res \in streamed
  BY <1>1, <1>5, TrackedQuiet DEF Reachable
<1>7. ReadsOn(r, k) \/ (~HasRows(r) /\ AnswerWithoutRows(r) /\ holder[r] \in {"query_result", "wrapper", "reader"})
  BY <1>1 DEF ReadsOn
<1>8. QED
  BY <1>1, <1>3, <1>4, <1>6, <1>7, ReadEffect DEF ReadsOnly

\* A pool thread's read of a result that is retained or has a verdict.
LEMMA PoolReadAtOnceEffect ==
  ASSUME IInv, NEW r \in Res, NEW k \in Batches, PoolReadAtOnce(r, k)
  PROVE  Reads(r, k) /\ ReadsOnly(r)
<1>1. /\ holder[r] = "reader" /\ UNCHANGED <<ending, todo, objects, streamed, invalidated, pool>> /\ pool[r] \notin PoolReads
      /\ \/ HasRows(r) /\ (Batch(r, k) \/ BatchLost(r, k))
         \/ ~HasRows(r) /\ AnswerWithoutRows(r)
  <2>1. UNCHANGED <<ending, todo, objects, streamed, invalidated, pool>> /\ holder[r] = "reader" /\ pool[r] = "idle"
    BY DEF PoolReadAtOnce, rThread
  <2>2. CASE Decided(r) /\ AnswerWithoutRows(r)
    BY <2>1, <2>2 DEF HasRows, PoolReads
  <2>3. CASE ~Decided(r) /\ r \notin streamed /\ (Batch(r, k) \/ BatchLost(r, k))
    BY <2>1, <2>3 DEF HasRows, PoolReads
  <2>4. QED
    BY <2>2, <2>3 DEF PoolReadAtOnce
<1>2. ReadsOn(r, k) \/ (~HasRows(r) /\ AnswerWithoutRows(r) /\ holder[r] \in {"query_result", "wrapper", "reader"})
  BY <1>1 DEF ReadsOn
<1>3. Reads(r, k)
  BY <1>1 DEF Reads
<1>4. QED
  BY <1>1, <1>2, <1>3, ReadEffect DEF ReadsOnly, objects, Reachable

\* What a read of r that reaches the engine, or retained rows, comes to: rows; an exception, which may strike past the
\* last row; the engine's error; or the end, on a pool thread perhaps one that is none.
Freed(r) == active' = [c \in Ctx |-> IF active[c] = r THEN NoRes ELSE active[c]]

GivesRows(r, n) ==
  /\ n # 0 /\ told' = [told EXCEPT ![r] = "rows"]
  /\ UNCHANGED <<lost, failed>>
  /\ UNCHANGED active \/ (n = left[r] /\ Freed(r))

GivesUp(r, n) ==
  /\ told' = [told EXCEPT ![r] = "dropped"] /\ lost' = [lost EXCEPT ![r] = @ + n]
  /\ UNCHANGED failed
  /\ UNCHANGED active \/ (n = left[r] /\ Freed(r))

GivesError(r, n) ==
  /\ told' = [told EXCEPT ![r] = "error"] /\ lost' = [lost EXCEPT ![r] = @ + n]
  /\ failed' = [failed EXCEPT ![r] = TRUE] /\ finished'[r]
  /\ r \in streamed /\ Freed(r)

GivesEnd(r, n) ==
  /\ n = 0 /\ told' = [told EXCEPT ![r] = "end"] /\ finished'[r]
  /\ UNCHANGED <<lost, failed>>
  /\ \/ left[r] = 0 /\ Freed(r)
     \/ invalidated[r] /\ UNCHANGED active

Outcome(r, n) ==
  /\ left' = [left EXCEPT ![r] = @ - n]
  /\ GivesRows(r, n) \/ GivesUp(r, n) \/ GivesError(r, n) \/ GivesEnd(r, n)

LEMMA HandsOrLoses ==
  ASSUME IInv, NEW r \in Res, NEW n \in 0..left[r], NEW over \in BOOLEAN,
         Hands(r, n) \/ Loses(r, n, "dropped"), SeesEnd(r, over),
         over => n = left[r] \/ ~IsOpen(r),
         Hands(r, n) /\ n = 0 => over,
         over /\ n = 0 /\ left[r] # 0 => invalidated[r]
  PROVE  Outcome(r, n)
<1>1. left[r] \in Nat /\ n \in Nat /\ r # NoRes
  BY ConstantsAssumption DEF IInv, TypeOK, TypeOfReading
<1>2. /\ finished'[r] = over /\ UNCHANGED failed
      /\ over => Freed(r)
      /\ ~over => UNCHANGED active
  BY EndSeen DEF IInv, SeesEnd, Freed, ActiveAfterClosing
<1>3. ~IsOpen(r) /\ Freed(r) => UNCHANGED active
  <2>1. ASSUME ~IsOpen(r), Freed(r), NEW c \in Ctx PROVE active'[c] = active[c]
    BY <1>1, <2>1 DEF IsOpen, Freed, IInv, OpenOK
  <2>2. QED
    BY <2>1 DEF Freed, IInv, TypeOK, TypeOfEngine
<1>4. UNCHANGED active \/ (n = left[r] /\ Freed(r))
  BY <1>2, <1>3
<1>5. CASE Loses(r, n, "dropped")
  BY <1>2, <1>4, <1>5 DEF Loses, Outcome, GivesUp
<1>6. CASE Hands(r, n) /\ n # 0
  BY <1>2, <1>4, <1>6 DEF Hands, Outcome, GivesRows
<1>7. CASE Hands(r, n) /\ n = 0
  <2>1. left[r] = 0 \/ (invalidated[r] /\ UNCHANGED active)
    BY <1>2, <1>3, <1>7
  <2>2. QED
    BY <1>2, <1>7, <2>1 DEF Hands, Outcome, GivesEnd
<1>8. QED
  BY <1>5, <1>6, <1>7

LEMMA FailsOutcome ==
  ASSUME NEW r \in Res, NEW n \in 0..left[r], IInv, r \in streamed, Fails(r, n)
  PROVE  Outcome(r, n)
  BY DEF Fails, Loses, Outcome, GivesError, Freed, ActiveAfterClosing, IInv, TypeOK, TypeOfReading

\* R's thread, or a pool thread that reads retained rows.
LEMMA ReadsOutcome ==
  ASSUME IInv, VInv, NEW r \in Res, NEW k \in Batches, Reads(r, k), HasRows(r)
  PROVE  /\ \E n \in 0..left[r] : Outcome(r, n)
         /\ told[r] \in {"nothing", "rows", "dropped"} \/ (told[r] = "end" /\ r \notin streamed /\ GivesEnd(r, 0))
<1> DEFINE m == RowsTaken(r, k)
<1>1. /\ ToldOK(r) /\ k \in Nat \ {0} /\ left[r] \in Nat /\ told[r] \in Answers
      /\ ~invalidated[r] /\ ~failed[r] /\ ~finished[r]
  BY ConstantsAssumption DEF VInv, Batches, IInv, TypeOK, TypeOfReading, HasRows, Decided
<1>2. told[r] \in {"nothing", "rows", "dropped"} \/ (told[r] = "end" /\ r \notin streamed /\ left[r] = 0)
  BY <1>1 DEF ToldOK, Answers, IInv, EndsEmpty
<1>3. m \in 0..left[r] /\ (m < k => m = left[r]) /\ (m = 0 => m < k) /\ 0 \in 0..left[r]
  BY <1>1 DEF RowsTaken
<1> HIDE DEF m
<1>4. CASE Batch(r, k)
  <2>1. Hands(r, m) /\ SeesEnd(r, m < k)
    BY <1>4 DEF Batch, m
  <2>2. Outcome(r, m)
    <3>1. (m < k) \in BOOLEAN
      OBVIOUS
    <3>2. \A over \in BOOLEAN : over = (m < k) => Outcome(r, m)
      BY <1>1, <1>3, <2>1, HandsOrLoses
    <3>3. QED
      BY <3>1, <3>2
  <2>3. told[r] = "end" => m = 0
    BY <1>2, <1>3
  <2>4. told[r] = "end" => GivesEnd(r, 0)
    <3>1. ASSUME m = 0 PROVE told'[r] = "end"
      BY <2>1, <3>1 DEF Hands, IInv, TypeOK, TypeOfReading
    <3>2. \A a : told' = [told EXCEPT ![r] = a] => told'[r] = a
      BY DEF IInv, TypeOK, TypeOfReading
    <3>3. ASSUME m = 0 PROVE GivesEnd(r, m)
      BY <2>2, <3>1, <3>2, <3>3 DEF Outcome, GivesRows, GivesUp, GivesError
    <3>4. QED
      BY <2>3, <3>3
  <2>5. QED
    BY <1>2, <1>3, <2>2, <2>4
<1>5. CASE BatchLost(r, k)
  <2>1. PICK n \in 0..m : Loses(r, n, "dropped") /\ SeesEnd(r, 0 < n /\ n < k /\ n = left[r])
    BY <1>5 DEF BatchLost, m
  <2>2. n \in 0..left[r] /\ told[r] # "end"
    BY <1>1, <1>3, <1>5, <2>1 DEF BatchLost
  <2>3. Outcome(r, n)
    <3>1. UNCHANGED active \/ (n = left[r] /\ Freed(r))
      BY <2>1 DEF SeesEnd, Freed, ActiveAfterClosing
    <3>2. QED
      BY <2>1, <3>1 DEF Loses, SeesEnd, Outcome, GivesUp
  <2>4. QED
    BY <1>2, <2>2, <2>3
<1>6. CASE ReadFails(r, k) /\ r \in streamed
  <2>1. PICK n \in 0..m : Fails(r, n)
    BY <1>6 DEF ReadFails, m
  <2>2. n \in 0..left[r]
    BY <1>1, <1>3
  <2>3. QED
    BY <1>2, <1>6, <2>1, <2>2, FailsOutcome
<1>7. QED
  BY <1>4, <1>5, <1>6 DEF Reads

\* The end of a read on a pool thread.
PoolOver(r) == PoolBatch(r) \/ PoolSeesEnd(r) \/ PoolBatchLost(r) \/ PoolFails(r)

LEMMA PoolOverOutcome ==
  ASSUME IInv, ReadsUndecided, NEW r \in Res, PoolOver(r)
  PROVE  /\ r \in PoolStreams /\ r \in streamed /\ pool[r] \in PoolReads
         /\ told[r] \in {"nothing", "rows", "dropped"} /\ ~failed[r]
         /\ pool' = [pool EXCEPT ![r] = "idle"] /\ UNCHANGED <<ending, todo, objects, streamed, invalidated>>
         /\ holder[r] = "reader"
         /\ \E n \in 0..left[r] : Outcome(r, n)
<1>1. /\ PoolReadEnds(r) /\ pool[r] \in PoolReads
  BY DEF PoolOver, PoolBatch, PoolSeesEnd, PoolBatchLost, PoolFails, Polls, PoolReads
<1>2. /\ r \in PoolStreams /\ r \in streamed /\ holder[r] = "reader"
      /\ told[r] \in {"nothing", "rows", "dropped"} /\ ~failed[r]
      /\ have[r] \in 0..left[r] /\ left[r] \in Nat
  BY <1>1 DEF IInv, OwnersOK, UnderWay, PoolReads, ReadsUndecided, TypeOK, TypeOfObjects, TypeOfReading
<1>3. ASSUME PoolBatch(r) \/ PoolBatchLost(r) PROVE Outcome(r, have[r])
  <2>1. /\ (Hands(r, have[r]) /\ have[r] > 0) \/ Loses(r, have[r], "dropped")
        /\ SeesEnd(r, FALSE)
    BY <1>3 DEF PoolBatch, PoolBatchLost
  <2>2. have[r] > 0 => have[r] # 0
    BY <1>2
  <2>3. CASE Hands(r, have[r]) /\ have[r] > 0
    BY <1>2, <2>1, <2>2, <2>3, HandsOrLoses
  <2>4. CASE Loses(r, have[r], "dropped")
    BY <1>2, <2>1, <2>4 DEF Loses, SeesEnd, Outcome, GivesUp
  <2>5. QED
    BY <2>1, <2>3, <2>4
<1>4. ASSUME PoolSeesEnd(r) PROVE Outcome(r, have[r])
  <2>1. /\ Hands(r, have[r]) \/ Loses(r, have[r], "dropped")
        /\ SeesEnd(r, TRUE)
        /\ have[r] = left[r] \/ ~IsOpen(r)
    BY <1>4 DEF PoolSeesEnd
  <2>2. have[r] = 0 /\ left[r] # 0 => invalidated[r]
    BY <1>2, <2>1 DEF IInv, EndsEmpty
  <2>3. QED
    BY <1>2, <2>1, <2>2, HandsOrLoses
<1>5. ASSUME PoolFails(r) PROVE Outcome(r, have[r])
  BY <1>2, <1>5, FailsOutcome DEF PoolFails
<1>6. Outcome(r, have[r])
  BY <1>3, <1>4, <1>5 DEF PoolOver
<1>7. QED
  BY <1>1, <1>2, <1>6 DEF PoolReadEnds, rThread

LEMMA PoolOverEffect ==
  ASSUME IInv, ReadsUndecided, NEW r \in Res, PoolOver(r)
  PROVE  ReadsOnly(r)
<1>1. PICK n \in 0..left[r] : Outcome(r, n)
  BY PoolOverOutcome
<1>2. \A q \in Res : q # r => left'[q] = left[q] /\ told'[q] = told[q] /\ failed'[q] = failed[q]
  BY <1>1 DEF Outcome, GivesRows, GivesUp, GivesError, GivesEnd, IInv, TypeOK, TypeOfReading
<1>3. \A q \in Res : q # r => finished'[q] = finished[q] /\ pool'[q] = pool[q]
  BY PoolOverOutcome DEF PoolOver, PoolBatch, PoolSeesEnd, PoolBatchLost, PoolFails, Fails, SeesEnd, IInv, TypeOK,
                         TypeOfReading, TypeOfObjects
<1>4. \A c \in Ctx : active'[c] = active[c] \/ (active[c] = r /\ active'[c] = NoRes)
  BY <1>1 DEF Outcome, GivesRows, GivesUp, GivesError, GivesEnd, Freed
<1>5. QED
  BY <1>2, <1>3, <1>4, PoolOverOutcome DEF ReadsOnly, objects, Reachable

\* rapi_execute_arrow() takes every row of a result that is retained, or drops some.
LEMMA ReadTableEffect ==
  ASSUME IInv, VInv, NEW r \in Res, ReadTable(r)
  PROVE  /\ UNCHANGED <<streamed, invalidated, finished, failed, holder, active, pool, ending, todo, tracked>>
         /\ r \notin streamed /\ holder[r] = "query_result" /\ ~invalidated[r] /\ ~failed[r]
         /\ \A q \in Res : q # r => left'[q] = left[q] /\ told'[q] = told[q]
         /\ \/ /\ left' = [left EXCEPT ![r] = 0] /\ told' = [told EXCEPT ![r] = "end"] /\ UNCHANGED lost
            \/ told[r] # "end" /\ \E n \in 0..left[r] : Loses(r, n, "dropped")
<1>1. /\ UNCHANGED <<streamed, invalidated, finished, failed, holder, active, pool, ending, todo, tracked>>
      /\ r \notin streamed /\ holder[r] = "query_result"
      /\ \/ /\ left' = [left EXCEPT ![r] = 0] /\ told' = [told EXCEPT ![r] = "end"] /\ UNCHANGED lost
         \/ told[r] # "end" /\ \E n \in 0..left[r] : Loses(r, n, "dropped")
  BY DEF ReadTable, engine, objects, rThread
<1>2. ~invalidated[r] /\ ~failed[r]
  BY <1>1 DEF VInv
<1>3. \A q \in Res : q # r => left'[q] = left[q] /\ told'[q] = told[q]
  BY <1>1 DEF Loses, IInv, TypeOK, TypeOfReading
<1>4. QED
  BY <1>1, <1>2, <1>3

\* rapi_execute_impl() answers with a result.
LEMMA MadeEffect ==
  ASSUME IInv, NEW r \in Res, NEW n \in 0..MaxRows, NEW stream \in BOOLEAN, ResultReturns(r, n, stream)
  PROVE  /\ UNCHANGED <<told, failed, finished, invalidated, lost, pool>>
         /\ holder[r] = "none" /\ holder' = [holder EXCEPT ![r] = "query_result"]
         /\ left' = [left EXCEPT ![r] = n] /\ n \in Nat
         /\ told[r] = "nothing" /\ ~failed[r] /\ ~invalidated[r] /\ r \notin streamed
         /\ Home[r] \in Ctx /\ active[Home[r]] = NoRes
         /\ \/ UNCHANGED <<streamed, active>>
            \/ streamed' = streamed \cup {r} /\ active' = [active EXCEPT ![Home[r]] = r]
         /\ \A c \in Ctx : \A o \in Reachable(c)' : o \in Reachable(c) \/ (o.res = r /\ r \in streamed')
<1>1. /\ ~atR /\ Pop /\ Top.kind = "statement" /\ Home[r] = Top.ctx /\ holder[r] = "none"
      /\ UNCHANGED <<told, failed, finished, invalidated, lost, pool, ending, todo>>
      /\ holder' = [holder EXCEPT ![r] = "query_result"] /\ left' = [left EXCEPT ![r] = n]
  BY DEF ResultReturns
<1>2. /\ told[r] = "nothing" /\ ~failed[r] /\ ~invalidated[r] /\ r \notin streamed
      /\ Home[r] \in Ctx /\ n \in Nat
  BY <1>1, ConstantsAssumption DEF IInv, OwnersOK
<1>3. active[Home[r]] = NoRes
  BY <1>1, PopEffect DEF IInv, LocksHold
<1>4. CASE stream
  <2>1. /\ streamed' = streamed \cup {r} /\ active' = [active EXCEPT ![Home[r]] = r]
        /\ tracked' = [tracked EXCEPT ![Home[r]] = @ \cup {QueryResultOf(r)}]
    BY <1>4 DEF ResultReturns
  <2>2. \A c \in Ctx : \A o \in tracked'[c] : o \in tracked[c] \/ o = QueryResultOf(r)
    BY <2>1, <1>2 DEF IInv, TypeOK, TypeOfObjects
  <2>3. \A c \in Ctx : \A o \in Reachable(c)' : o \in Reachable(c) \/ (o.res = r /\ r \in streamed')
    BY <1>1, <2>1, <2>2, Fields DEF Reachable
  <2>4. QED
    BY <1>1, <1>2, <1>3, <2>1, <2>3
<1>5. CASE ~stream
  <2>1. UNCHANGED <<streamed, active, tracked>>
    BY <1>5 DEF ResultReturns
  <2>2. QED
    BY <1>1, <1>2, <1>3, <2>1 DEF Reachable
<1>6. QED
  BY <1>4, <1>5

\* A pool thread starts to read a streamed result that has no verdict.
LEMMA BeginEffect ==
  ASSUME IInv, NEW r \in Res, PoolBeginRead(r)
  PROVE  /\ UNCHANGED <<holder, active, tracked, ending, todo, streamed, left, lost, invalidated, finished, failed, told>>
         /\ pool' = [pool EXCEPT ![r] = "reading"]
         /\ r \in PoolStreams /\ holder[r] = "reader" /\ r \in streamed /\ ~invalidated[r] /\ ~failed[r] /\ ~finished[r]
  BY DEF PoolBeginRead, Decided, reading, engine, objects, rThread

\* Every step is of one of these kinds.
StepKinds ==
  \/ Quiet /\ UNCHANGED invalidated
  \/ \E o \in todo : EndMark(o)
  \/ \E r \in Res, n \in 0..MaxRows, stream \in BOOLEAN : ResultReturns(r, n, stream)
  \/ \E r \in Res, k \in Batches : Reads(r, k) /\ ReadsOnly(r)
  \/ \E r \in Res : ReadTable(r) \/ PoolBeginRead(r) \/ PoolOver(r)

LEMMA KindsOfSteps ==
  ASSUME IInv, [Next]_vars
  PROVE  StepKinds
<1>1. ASSUME NEW c \in Ctx, BeginStatement(c) \/ Disconnect(c) PROVE StepKinds
  BY <1>1, BeginStatementQuiet, ControlQuiet DEF StepKinds
<1>2. CASE EndingStep
  <2>1. HandlerRefuses \/ EngineRefuses \/ EnterEngine => StepKinds
    BY ControlQuiet DEF StepKinds
  <2>2. ASSUME NEW o \in todo, EndAsk(o) \/ EndMark(o) \/ EndClose(o) PROVE StepKinds
    BY <2>2, EndingQuiet DEF StepKinds
  <2>3. QED
    BY <1>2, <2>1, <2>2 DEF EndingStep
<1>3. CASE EngineReturns
  <2>1. StatementReturns => StepKinds
    BY ControlQuiet DEF StepKinds
  <2>2. ASSUME NEW r \in Res, NEW k \in Batches, EndRead(r, k) PROVE StepKinds
    BY <2>2, ReadByREffect DEF StepKinds
  <2>3. QED
    BY <1>3, <2>1, <2>2 DEF EngineReturns, StepKinds
<1>4. CASE Callback \/ CallbackReturns \/ Drain
  BY <1>4, ControlQuiet, DrainQuiet DEF StepKinds
<1>5. ASSUME NEW r \in Res, NEW k \in Batches, ReadAtOnce(r, k) \/ PoolReadAtOnce(r, k) PROVE StepKinds
  BY <1>5, ReadByREffect, PoolReadAtOnceEffect DEF StepKinds
<1>6. ASSUME NEW r \in Res,
             \/ BeginRead(r) \/ ReadTable(r) \/ HandOver(r)
             \/ FinalizeResult(r) \/ ReleaseReader(r) \/ ReleaseArrowResult(r)
      PROVE  StepKinds
  <2>1. BeginRead(r) \/ HandOver(r) \/ ReleaseArrowResult(r) => StepKinds
    BY RQuiet DEF StepKinds
  <2>2. FinalizeResult(r) \/ ReleaseReader(r) => StepKinds
    BY FinalizeQuiet, ReleaseReaderQuiet DEF StepKinds
  <2>3. ReadTable(r) => StepKinds
    BY DEF StepKinds
  <2>4. QED
    BY <1>6, <2>1, <2>2, <2>3
<1>7. ASSUME NEW r \in Res, PoolBeginRead(r) \/ PoolRelease(r) \/ PoolStep(r) PROVE StepKinds
  <2>1. PoolPoll(r) \/ PoolFetch(r) \/ PoolAppend(r) \/ PoolRelease(r) \/ PoolPark(r) \/ PoolUntrack(r) \/ PoolClose(r)
          => StepKinds
    BY PoolQuiet DEF StepKinds
  <2>2. PoolBeginRead(r) \/ PoolOver(r) => StepKinds
    BY DEF StepKinds
  <2>3. QED
    BY <1>7, <2>1, <2>2 DEF PoolStep, PoolOver
<1>8. CASE UNCHANGED vars
  BY <1>8, ControlQuiet DEF StepKinds
<1>9. QED
  BY <1>1, <1>2, <1>3, <1>4, <1>5, <1>6, <1>7, <1>8 DEF Next

-----------------------------------------------------------------------------
(***************************************************************************)
(* What the answers say, step by step.                                     *)
(***************************************************************************)

LEMMA InitTold == Init => VInv
<1>1. ASSUME Init PROVE \A c \in Ctx : Reachable(c) = {}
  BY <1>1 DEF Init, Reachable
<1>2. ASSUME Init, NEW r \in Res PROVE told[r] = "nothing" /\ ~failed[r] /\ ~invalidated[r]
  BY <1>2 DEF Init
<1>3. QED
  BY <1>1, <1>2 DEF VInv, ToldOK

\* What nobody is told leaves what was told right.
LEMMA ToldKept ==
  ASSUME NEW r \in Res, ToldOK(r), told'[r] = told[r], failed'[r] = failed[r], finished'[r] = finished[r],
         r \in streamed' <=> r \in streamed, invalidated'[r] = invalidated[r],
         holder'[r] = "query_result" => holder[r] = "query_result"
  PROVE  ToldOK(r)'
  BY DEF ToldOK

LEMMA QuietTold ==
  ASSUME IInv, VInv, Quiet, UNCHANGED invalidated
  PROVE  VInv'
<1>1. \A c \in Ctx : \A o \in Reachable(c)' : o.res \in streamed'
  BY DEF Quiet, VInv
<1>2. ASSUME NEW r \in Res PROVE ToldOK(r)'
  BY ToldKept DEF Quiet, VInv
<1>3. QED
  BY <1>1, <1>2 DEF VInv, Quiet

\* Whom EndOpenResults() marks has told no end and no error, unless a pool thread reads it.
LEMMA MarkedUntold ==
  ASSUME IInv, VInv, NEW o \in todo, EndMark(o)
  PROVE  /\ o.res \in Res /\ o.res \in streamed /\ holder[o.res] # "none"
         /\ o.res \in PoolStreams \/ told[o.res] \notin {"end", "error"}
<1>1. o.res \in Res /\ ending \in Ctx /\ o \in Reachable(ending) /\ o \in found
  BY EndingQuiet DEF EndMark
<1>2. o.res \in streamed /\ holder[o.res] # "none" /\ ToldOK(o.res) /\ Registered(o)
  BY <1>1 DEF VInv, IInv, TrackedIsLive, Registered
<1>3. o.res \in PoolStreams \/ Ends(o)
  BY <1>1 DEF IInv, UnderWay
<1>4. IsOpen(o.res) => ~finished[o.res]
  BY <1>1, OpenHasRows DEF IsOpen
<1>5. QED
  BY <1>1, <1>2, <1>3, <1>4 DEF Ends, ToldOK

LEMMA MarkTold ==
  ASSUME IInv, VInv, NEW o \in todo, EndMark(o)
  PROVE  VInv'
<1>1. Quiet /\ o.res \in Res /\ o.res \in streamed /\ (o.res \in PoolStreams \/ told[o.res] \notin {"end", "error"})
  BY EndingQuiet, MarkedUntold
<1>2. invalidated'[o.res] /\ \A r \in Res : r # o.res => invalidated'[r] = invalidated[r]
  BY <1>1 DEF EndMark, IInv, TypeOK, TypeOfReading
<1>3. \A c \in Ctx : \A p \in Reachable(c)' : p.res \in streamed'
  BY <1>1 DEF Quiet, VInv
<1>4. ASSUME NEW r \in Res PROVE ToldOK(r)'
  <2>1. ToldOK(r)
    BY DEF VInv
  <2>2. CASE r # o.res
    BY <1>1, <1>2, <2>1, <2>2, ToldKept DEF Quiet
  <2>3. CASE r = o.res
    BY <1>1, <1>2, <2>1, <2>3 DEF Quiet, ToldOK
  <2>4. QED
    BY <2>2, <2>3
<1>5. \A r \in Res : invalidated'[r] \/ failed'[r] => r \in streamed'
  BY <1>1, <1>2 DEF Quiet, VInv
<1>6. QED
  BY <1>3, <1>4, <1>5 DEF VInv

LEMMA MadeTold ==
  ASSUME IInv, VInv, NEW r \in Res, NEW n \in 0..MaxRows, NEW stream \in BOOLEAN, ResultReturns(r, n, stream)
  PROVE  VInv'
<1>1. /\ UNCHANGED <<told, failed, finished, invalidated>> /\ told[r] = "nothing" /\ ~failed[r]
      /\ \A q \in Res : q # r => holder'[q] = holder[q] /\ (q \in streamed' <=> q \in streamed)
      /\ streamed \subseteq streamed'
  BY MadeEffect DEF IInv, TypeOK, TypeOfObjects
<1>2. \A c \in Ctx : \A o \in Reachable(c)' : o.res \in streamed'
  BY <1>1, MadeEffect DEF VInv
<1>3. ASSUME NEW q \in Res PROVE ToldOK(q)'
  <2>1. ToldOK(q)
    BY DEF VInv
  <2>2. CASE q = r
    BY <1>1, <2>2 DEF ToldOK
  <2>3. CASE q # r
    BY <1>1, <2>1, <2>3, ToldKept
  <2>4. QED
    BY <2>2, <2>3
<1>4. \A q \in Res : invalidated'[q] \/ failed'[q] => q \in streamed'
  BY <1>1 DEF VInv
<1>5. QED
  BY <1>2, <1>3, <1>4 DEF VInv

\* A read of r leaves what was told of every other result right.
LEMMA OthersTold ==
  ASSUME IInv, VInv, NEW r \in Res, ReadsOnly(r), failed'[r] => failed[r] \/ r \in streamed,
         ToldOK(r)'
  PROVE  VInv'
<1>1. \A c \in Ctx : \A o \in Reachable(c)' : o.res \in streamed'
  BY DEF ReadsOnly, VInv
<1>2. ASSUME NEW q \in Res, q # r PROVE ToldOK(q)'
  BY <1>2, ToldKept DEF ReadsOnly, VInv
<1>3. \A q \in Res : invalidated'[q] \/ failed'[q] => q \in streamed'
  BY DEF VInv, ReadsOnly
<1>4. QED
  BY <1>1, <1>2, <1>3 DEF VInv

\* A read that reaches the engine, or retained rows.
LEMMA OutcomeTold ==
  ASSUME IInv, VInv, NEW r \in Res, NEW n \in 0..left[r], Outcome(r, n), ReadsOnly(r), ~failed[r],
         ~invalidated[r] \/ r \in PoolStreams
  PROVE  VInv'
<1>1. UNCHANGED <<streamed, invalidated>> /\ holder'[r] # "query_result"
  BY DEF ReadsOnly
<1>2. CASE GivesError(r, n)
  <2>1. told'[r] = "error" /\ failed'[r] /\ finished'[r] /\ r \in streamed
    BY <1>2 DEF GivesError, IInv, TypeOK, TypeOfReading
  <2>2. QED
    BY <1>1, <2>1, OthersTold DEF ToldOK
<1>3. CASE GivesRows(r, n) \/ GivesUp(r, n)
  <2>1. told'[r] \in {"rows", "dropped"} /\ UNCHANGED failed
    BY <1>3 DEF GivesRows, GivesUp, IInv, TypeOK, TypeOfReading
  <2>2. QED
    BY <1>1, <2>1, OthersTold DEF ToldOK
<1>4. CASE GivesEnd(r, n)
  <2>1. told'[r] = "end" /\ UNCHANGED failed /\ finished'[r]
    BY <1>4 DEF GivesEnd, IInv, TypeOK, TypeOfReading
  <2>2. QED
    BY <1>1, <2>1, OthersTold DEF ToldOK
<1>5. QED
  BY <1>2, <1>3, <1>4 DEF Outcome

\* A verdict that is known.
LEMMA KnownTold ==
  ASSUME IInv, VInv, NEW r \in Res, AnswerWithoutRows(r), ReadsOnly(r)
  PROVE  VInv'
<1>1. /\ UNCHANGED <<streamed, invalidated, failed>> /\ holder'[r] # "query_result" /\ ToldOK(r)
      /\ told'[r] = AnswerAtOnce(r) /\ finished'[r] = (finished[r] \/ AnswerAtOnce(r) = "end")
  BY DEF ReadsOnly, VInv, AnswerWithoutRows, IInv, TypeOK, TypeOfReading
<1>2. ToldOK(r)'
  <2>1. CASE invalidated[r]
    BY <1>1, <2>1 DEF ToldOK, AnswerAtOnce
  <2>2. CASE ~invalidated[r] /\ failed[r]
    BY <1>1, <2>2 DEF ToldOK, AnswerAtOnce
  <2>3. CASE ~invalidated[r] /\ ~failed[r]
    BY <1>1, <2>3 DEF ToldOK, AnswerAtOnce
  <2>4. QED
    BY <2>1, <2>2, <2>3
<1>3. QED
  BY <1>1, <1>2, OthersTold

LEMMA ReadsTold ==
  ASSUME IInv, VInv, NEW r \in Res, NEW k \in Batches, Reads(r, k), ReadsOnly(r)
  PROVE  VInv'
<1>1. CASE HasRows(r)
  BY <1>1, ReadsOutcome, OutcomeTold DEF HasRows, Decided
<1>2. CASE ~HasRows(r)
  BY <1>2, KnownTold DEF Reads
<1>3. QED
  BY <1>1, <1>2

LEMMA ReadTableTold ==
  ASSUME IInv, VInv, NEW r \in Res, ReadTable(r)
  PROVE  VInv'
<1>1. /\ UNCHANGED <<streamed, invalidated, finished, failed, holder, active, ending, todo, tracked>>
      /\ r \notin streamed /\ ~invalidated[r] /\ ~failed[r]
      /\ \A q \in Res : q # r => told'[q] = told[q]
  BY ReadTableEffect
<1>2. told'[r] \in {"end", "dropped"}
  BY ReadTableEffect DEF Loses, IInv, TypeOK, TypeOfReading
<1>3. ASSUME NEW q \in Res PROVE ToldOK(q)'
  <2>1. CASE q = r
    BY <1>1, <1>2, <2>1 DEF ToldOK
  <2>2. CASE q # r
    BY <1>1, <2>2, ToldKept DEF VInv
  <2>3. QED
    BY <2>1, <2>2
<1>4. QED
  BY <1>1, <1>3 DEF VInv, Reachable

LEMMA BeginTold ==
  ASSUME IInv, VInv, NEW r \in Res, PoolBeginRead(r)
  PROVE  VInv'
<1>1. UNCHANGED <<holder, tracked, ending, todo, streamed, invalidated, finished, failed, told>>
  BY BeginEffect
<1>2. QED
  BY <1>1, ToldKept DEF VInv, Reachable

LEMMA PoolOverTold ==
  ASSUME IInv, VInv, ReadsUndecided, NEW r \in Res, PoolOver(r)
  PROVE  VInv'
  BY PoolOverOutcome, PoolOverEffect, OutcomeTold

LEMMA TellingKeeps ==
  ASSUME IInv, VInv, ReadsUndecided, [Next]_vars
  PROVE  VInv'
  BY KindsOfSteps, QuietTold, MarkTold, MadeTold, ReadsTold, ReadTableTold, BeginTold, PoolOverTold DEF StepKinds

\* A pool thread asks for the verdict before it reads, and while it does no other thread reads its result.
LEMMA ReadsUndecidedKept ==
  ASSUME IInv, VInv, ReadsUndecided, [Next]_vars
  PROVE  ReadsUndecided'
<1> SUFFICES ASSUME NEW r \in Res, pool'[r] \in PoolReads
             PROVE  ~failed'[r] /\ told'[r] \in {"nothing", "rows", "dropped"}
  BY DEF ReadsUndecided
<1>1. pool[r] \in PoolReads => ~failed[r] /\ told[r] \in {"nothing", "rows", "dropped"} /\ holder[r] = "reader"
  BY DEF ReadsUndecided, IInv, OwnersOK, PoolReads
<1>2. CASE Quiet
  BY <1>1, <1>2 DEF Quiet
<1>3. ASSUME NEW o \in todo, EndMark(o) PROVE Quiet
  BY <1>3, EndingQuiet
<1>4. ASSUME NEW q \in Res, NEW n \in 0..MaxRows, NEW stream \in BOOLEAN, ResultReturns(q, n, stream)
      PROVE  UNCHANGED <<told, failed, pool>>
  BY <1>4, MadeEffect
<1>5. ASSUME NEW q \in Res, NEW k \in Batches, Reads(q, k), ReadsOnly(q)
      PROVE  told'[r] = told[r] /\ failed'[r] = failed[r] /\ pool'[r] = pool[r]
  BY <1>5 DEF Reads, ReadsOnly
<1>6. ASSUME NEW q \in Res, ReadTable(q) PROVE told'[r] = told[r] /\ UNCHANGED <<failed, pool>>
  BY <1>1, <1>6, ReadTableEffect
<1>7. ASSUME NEW q \in Res, PoolBeginRead(q) PROVE ~failed'[r] /\ told'[r] \in {"nothing", "rows", "dropped"}
  <2>1. UNCHANGED <<told, failed>> /\ (q # r => pool'[r] = pool[r])
    BY <1>7, BeginEffect DEF IInv, TypeOK, TypeOfObjects
  <2>2. CASE q = r
    <3>1. ToldOK(r) /\ told[r] \in Answers /\ ~failed[r] /\ ~invalidated[r] /\ ~finished[r] /\ r \in streamed
      BY <1>7, <2>2, BeginEffect DEF VInv, IInv, TypeOK, TypeOfReading
    <3>2. QED
      BY <2>1, <3>1 DEF ToldOK, Answers
  <2>3. QED
    BY <1>1, <2>1, <2>2
<1>8. ASSUME NEW q \in Res, PoolOver(q) PROVE told'[r] = told[r] /\ failed'[r] = failed[r] /\ pool'[r] = pool[r]
  <2>1. pool'[q] = "idle" /\ ReadsOnly(q)
    BY <1>8, PoolOverOutcome, PoolOverEffect DEF IInv, TypeOK, TypeOfObjects
  <2>2. QED
    BY <2>1 DEF ReadsOnly, PoolReads
<1>9. QED
  BY <1>1, <1>2, <1>3, <1>4, <1>5, <1>6, <1>7, <1>8, KindsOfSteps DEF StepKinds

LEMMA Telling == Spec => [](IInv /\ VInv /\ ReadsUndecided)
<1>1. IInv /\ VInv /\ ReadsUndecided /\ [Next]_vars => VInv' /\ ReadsUndecided'
  BY TellingKeeps, ReadsUndecidedKept
<1>2. Init => VInv /\ ReadsUndecided
  BY InitTold DEF Init, ReadsUndecided, PoolReads
<1>3. QED
  BY <1>1, <1>2, Invariance, PTL DEF Spec

\* A result that says it has ended has no row left: each went to the consumer, or was given up by a read that told of
\* an error.  Only a reader on a pool thread may hear of an end early, and only once a statement has marked its result.
THEOREM NoTruncation == Spec => []NoTruncatedEnd
<1>1. IInv /\ VInv => NoTruncatedEnd
  BY DEF IInv, EndsEmpty, WholeForR, VInv, ToldOK, NoTruncatedEnd
<1>2. QED
  BY <1>1, Telling, PTL

-----------------------------------------------------------------------------
\* The verdict on r stays, or one that a pool thread told is taken back for the statement that ends the result.
Stays(r) ==
  \/ told'[r] = told[r]
  \/ r \in PoolStreams /\ invalidated[r] /\ told'[r] = "invalidated"

\* A result that has given its verdict has no rows for another read.
LEMMA ReadRepeats ==
  ASSUME IInv, VInv, NEW r \in Res, NEW k \in Batches, Reads(r, k), told[r] \in Verdicts
  PROVE  Stays(r)
<1>1. ToldOK(r)
  BY DEF VInv
<1>2. CASE HasRows(r)
  <2>1. told[r] = "end" /\ GivesEnd(r, 0)
    BY <1>2, ReadsOutcome DEF Verdicts
  <2>2. told'[r] = "end"
    BY <2>1 DEF GivesEnd, IInv, TypeOK, TypeOfReading
  <2>3. QED
    BY <2>1, <2>2 DEF Stays
<1>3. CASE ~HasRows(r)
  <2>1. told'[r] = AnswerAtOnce(r)
    BY <1>3 DEF Reads, AnswerWithoutRows, IInv, TypeOK, TypeOfReading
  <2>2. QED
    BY <1>1, <2>1 DEF Stays, AnswerAtOnce, ToldOK, Verdicts
<1>4. QED
  BY <1>2, <1>3

LEMMA VerdictKept ==
  ASSUME IInv, VInv, ReadsUndecided, [Next]_vars, NEW r \in Res, told[r] \in Verdicts
  PROVE  Stays(r)
<1>1. ToldOK(r)
  BY DEF VInv
<1>2. CASE Quiet
  BY <1>2 DEF Quiet, Stays
<1>3. ASSUME NEW o \in todo, EndMark(o) PROVE Stays(r)
  BY <1>3, EndingQuiet DEF Quiet, Stays
<1>4. ASSUME NEW q \in Res, NEW n \in 0..MaxRows, NEW stream \in BOOLEAN, ResultReturns(q, n, stream)
      PROVE  Stays(r)
  BY <1>4, MadeEffect DEF Stays
<1>5. ASSUME NEW q \in Res, NEW k \in Batches, Reads(q, k), ReadsOnly(q) PROVE Stays(r)
  BY <1>5, ReadRepeats DEF ReadsOnly, Stays
<1>6. ASSUME NEW q \in Res, ReadTable(q) PROVE Stays(r)
  <2>1. CASE q = r
    <3>1. told[r] = "end" /\ told'[r] = "end"
      BY <1>1, <1>6, <2>1, ReadTableEffect DEF ToldOK, Verdicts, IInv, TypeOK, TypeOfReading
    <3>2. QED
      BY <3>1 DEF Stays
  <2>2. CASE q # r
    BY <1>6, <2>2, ReadTableEffect DEF Stays
  <2>3. QED
    BY <2>1, <2>2
<1>7. ASSUME NEW q \in Res, PoolBeginRead(q) PROVE Stays(r)
  BY <1>7, BeginEffect DEF Stays
<1>8. ASSUME NEW q \in Res, PoolOver(q) PROVE Stays(r)
  BY <1>8, PoolOverOutcome, PoolOverEffect DEF ReadsOnly, Stays, Verdicts
<1>9. QED
  BY <1>2, <1>3, <1>4, <1>5, <1>6, <1>7, <1>8, KindsOfSteps DEF StepKinds

\* A consumer that has been told the end, the engine's error or an invalidation is told the same by every later read;
\* only what is read on a pool thread may take back one of the first two, for the statement that ends its result.  (A
\* read that fails by itself decides nothing: what comes after it is not repeated.)
THEOREM VerdictsFinal == Spec => VerdictIsFinal
<1>1. IInv /\ VInv /\ ReadsUndecided /\ [Next]_vars =>
        [\A r \in Res : told[r] \in Verdicts =>
           \/ told'[r] = told[r]
           \/ r \in PoolStreams /\ invalidated[r] /\ told'[r] = "invalidated"]_vars
  BY VerdictKept DEF Stays
<1>2. QED
  BY <1>1, Telling, PTL DEF Spec, VerdictIsFinal

-----------------------------------------------------------------------------
(***************************************************************************)
(* ArrowResults implements ResultDelivery.                                 *)
(***************************************************************************)

\* Some contexts lose their open result, and nothing else is to be seen.
LEMMA QuietReleases ==
  ASSUME IInv, IInv', Quiet, UNCHANGED invalidated
  PROVE  Delivery!Next
<1> DEFINE cs == {c \in Ctx : active'[c] # active[c]}
<1>1. active' = [c \in Ctx |-> IF c \in cs THEN NoRes ELSE active[c]]
  <2>1. \A c \in Ctx : active'[c] = IF c \in cs THEN NoRes ELSE active[c]
    BY DEF Quiet
  <2>2. active' \in [Ctx -> Res \cup {NoRes}]
    BY DEF IInv, TypeOK, TypeOfEngine
  <2>3. QED
    BY <2>1, <2>2
<1>2. {r \in Res : holder'[r] # "none"} = {r \in Res : holder[r] # "none"}
  BY DEF Quiet
<1>3. {r \in Res : pool'[r] \in PoolReads} = {r \in Res : pool[r] \in PoolReads}
  BY DEF Quiet
<1>4. UNCHANGED <<left, lost, told>>
  BY DEF Quiet
<1>5. Delivery!Release(cs)
  BY <1>1, <1>2, <1>3, <1>4 DEF Delivery!Release, Delivery!rows
<1>6. cs \in SUBSET Ctx
  OBVIOUS
<1> HIDE DEF cs
<1>7. QED
  BY <1>5, <1>6 DEF Delivery!Next

\* EndOpenResults() marks a result.
LEMMA MarkEnds ==
  ASSUME IInv, IInv', VInv, NEW o \in todo, EndMark(o)
  PROVE  Delivery!Next
<1>1. /\ o.res \in Res /\ o.res \in {r \in Res : holder[r] # "none"}
      /\ o.res \in PoolStreams \/ told[o.res] \notin {"end", "error"}
  BY MarkedUntold
<1>2. UNCHANGED <<left, lost, told, holder, active, pool>>
  BY DEF EndMark, objects, engine
<1>3. {q \in Res : invalidated'[q]} = {q \in Res : invalidated[q]} \cup {o.res}
  BY <1>1 DEF EndMark, IInv, TypeOK, TypeOfReading
<1>4. Delivery!EndFor(o.res)
  BY <1>1, <1>2, <1>3 DEF Delivery!EndFor, Delivery!rows
<1>5. QED
  BY <1>1, <1>4 DEF Delivery!Next

LEMMA MadeDelivers ==
  ASSUME IInv, IInv', NEW r \in Res, NEW n \in 0..MaxRows, NEW stream \in BOOLEAN, ResultReturns(r, n, stream)
  PROVE  Delivery!Next
<1>1. {q \in Res : holder'[q] # "none"} = {q \in Res : holder[q] # "none"} \cup {r}
  BY MadeEffect DEF IInv, TypeOK, TypeOfObjects
<1>2. left'[r] \in Nat /\ left' = [left EXCEPT ![r] = left'[r]]
  BY MadeEffect DEF IInv, TypeOK, TypeOfReading
<1>3. Delivery!Make(r)
  BY <1>1, <1>2, MadeEffect DEF Delivery!Make
<1>4. QED
  BY <1>3 DEF Delivery!Next

\* An answer to the consumer of r makes and ends nothing.
LEMMA ReadSeen ==
  ASSUME IInv, NEW r \in Res, ReadsOnly(r)
  PROVE  /\ {q \in Res : holder'[q] # "none"} = {q \in Res : holder[q] # "none"}
         /\ r \in {q \in Res : holder[q] # "none"}
         /\ {q \in Res : invalidated'[q]} = {q \in Res : invalidated[q]}
  BY DEF ReadsOnly

\* What a read comes to is what a result may answer.
LEMMA OutcomeDelivers ==
  ASSUME IInv, NEW r \in Res, NEW n \in 0..left[r], Outcome(r, n), r \in {q \in Res : holder[q] # "none"},
         told[r] \in {"nothing", "rows", "dropped"}, invalidated[r] => pool[r] \in PoolReads,
         {q \in Res : pool'[q] \in PoolReads} = {q \in Res : pool[q] \in PoolReads} \ {r},
         {q \in Res : holder'[q] # "none"} = {q \in Res : holder[q] # "none"},
         {q \in Res : invalidated'[q]} = {q \in Res : invalidated[q]}
  PROVE  Delivery!Next
<1>1. left[r] \in Nat /\ n \in Nat /\ n <= left[r] /\ left' = [left EXCEPT ![r] = @ - n]
  BY DEF Outcome, IInv, TypeOK, TypeOfReading
<1>2. ASSUME NEW a, told' = [told EXCEPT ![r] = a] PROVE Delivery!Answers(r, a)
  BY <1>2 DEF Delivery!Answers, Delivery!Undecided
<1>3. Freed(r) => Delivery!Freed(r)
  BY DEF Freed, Delivery!Freed
<1>4. CASE GivesRows(r, n)
  <2>1. n \in 1..left[r]
    BY <1>1, <1>4 DEF GivesRows
  <2>2. Delivery!Deliver(r)
    BY <1>1, <1>2, <1>3, <1>4, <2>1 DEF GivesRows, Delivery!Deliver
  <2>3. QED
    BY <2>2 DEF Delivery!Next
<1>5. CASE GivesUp(r, n)
  <2>1. Delivery!Drop(r)
    BY <1>1, <1>2, <1>3, <1>5 DEF GivesUp, Delivery!Drop
  <2>2. QED
    BY <2>1 DEF Delivery!Next
<1>6. CASE GivesError(r, n)
  <2>1. Delivery!Fail(r)
    BY <1>1, <1>2, <1>3, <1>6 DEF GivesError, Delivery!Fail
  <2>2. QED
    BY <2>1 DEF Delivery!Next
<1>7. CASE GivesEnd(r, n)
  <2>1. UNCHANGED left
    BY <1>1, <1>7 DEF GivesEnd, IInv, TypeOK, TypeOfReading
  <2>2. CASE left[r] = 0 /\ Freed(r)
    <3>1. left' = [left EXCEPT ![r] = 0]
      BY <1>1, <2>1, <2>2 DEF IInv, TypeOK, TypeOfReading
    <3>2. Delivery!End(r)
      BY <1>2, <1>3, <1>7, <2>2, <3>1 DEF GivesEnd, Delivery!End
    <3>3. QED
      BY <3>2 DEF Delivery!Next
  <2>3. CASE invalidated[r] /\ UNCHANGED active
    <3>1. Delivery!CutShort(r)
      BY <1>2, <1>7, <2>1, <2>3 DEF GivesEnd, Delivery!CutShort, Delivery!rows
    <3>2. QED
      BY <3>1 DEF Delivery!Next
  <2>4. QED
    BY <1>7, <2>2, <2>3 DEF GivesEnd
<1>8. QED
  BY <1>4, <1>5, <1>6, <1>7 DEF Outcome

\* The verdict that is known, or known again.
LEMMA KnownDelivers ==
  ASSUME IInv, VInv, NEW r \in Res, NEW k \in Batches, ~HasRows(r), Reads(r, k), ReadsOnly(r)
  PROVE  [Delivery!Next]_Delivery!vars
<1>1. /\ ToldOK(r) /\ left[r] \in Nat /\ told[r] \in Answers /\ holder[r] \in {"query_result", "wrapper", "reader"}
      /\ told' = [told EXCEPT ![r] = AnswerAtOnce(r)] /\ UNCHANGED <<left, lost, active, pool>> /\ pool[r] \notin PoolReads
  BY DEF Reads, AnswerWithoutRows, VInv, IInv, TypeOK, TypeOfReading
<1>2. CASE told'[r] = told[r]
  <2>1. UNCHANGED told
    BY <1>1, <1>2 DEF IInv, TypeOK, TypeOfReading
  <2>2. QED
    BY <1>1, <2>1, ReadSeen DEF Delivery!vars, Delivery!rows
<1>3. CASE told'[r] # told[r] /\ invalidated[r]
  <2>1. AnswerAtOnce(r) = "invalidated" /\ told[r] # "invalidated"
    BY <1>1, <1>3 DEF AnswerAtOnce, IInv, TypeOK, TypeOfReading
  <2>2. told[r] \in {"nothing", "rows", "dropped"} \/ (r \in PoolStreams /\ told[r] \in {"end", "error"})
    BY <1>1, <1>3, <2>1 DEF ToldOK, Answers
  <2>3. Delivery!Invalidate(r)
    BY <1>1, <1>3, <2>1, <2>2, ReadSeen DEF Delivery!Invalidate, Delivery!Undecided, Delivery!rows
  <2>4. QED
    BY <2>3 DEF Delivery!Next
<1>4. CASE told'[r] # told[r] /\ ~invalidated[r]
  <2>1. ~failed[r] /\ told'[r] = "end" /\ AnswerAtOnce(r) = "end"
    BY <1>1, <1>4 DEF AnswerAtOnce, ToldOK, IInv, TypeOK, TypeOfReading
  <2>2. told[r] \in {"nothing", "rows", "dropped"}
    BY <1>1, <1>4, <2>1 DEF ToldOK, Answers
  <2>3. left[r] = 0 /\ \A c \in Ctx : active[c] # r
    <3>1. left[r] = 0
      BY <1>1, <1>4, <2>1 DEF HasRows, Decided, IInv, EndsEmpty
    <3>2. IsOpen(r) => HasRows(r)
      BY <1>4, <2>1, OpenHasRows DEF HasRows, Decided, IsOpen
    <3>3. QED
      BY <3>1, <3>2, ConstantsAssumption DEF IInv, OpenOK, IsOpen
  <2>4. left' = [left EXCEPT ![r] = 0] /\ active' = [c \in Ctx |-> IF active[c] = r THEN NoRes ELSE active[c]]
    BY <1>1, <2>3 DEF IInv, TypeOK, TypeOfReading, TypeOfEngine
  <2>5. {q \in Res : pool'[q] \in PoolReads} = {q \in Res : pool[q] \in PoolReads} \ {r}
    BY <1>1
  <2>6. Delivery!Answers(r, "end")
    BY <1>1, <1>4, <2>1, <2>2, <2>5, ReadSeen DEF Delivery!Answers, Delivery!Undecided
  <2>7. Delivery!End(r)
    BY <1>1, <2>4, <2>6 DEF Delivery!End, Delivery!Freed
  <2>8. QED
    BY <2>7 DEF Delivery!Next
<1>5. QED
  BY <1>2, <1>3, <1>4

LEMMA ReadDelivers ==
  ASSUME IInv, VInv, NEW r \in Res, NEW k \in Batches, Reads(r, k), ReadsOnly(r)
  PROVE  [Delivery!Next]_Delivery!vars
<1>1. {q \in Res : pool'[q] \in PoolReads} = {q \in Res : pool[q] \in PoolReads} \ {r}
  BY DEF Reads
<1>2. CASE HasRows(r) /\ told[r] \in {"nothing", "rows", "dropped"}
  <2>1. ~invalidated[r]
    BY <1>2 DEF HasRows, Decided
  <2>2. QED
    BY <1>1, <1>2, <2>1, ReadsOutcome, ReadSeen, OutcomeDelivers
<1>3. CASE HasRows(r) /\ told[r] = "end" /\ r \notin streamed /\ GivesEnd(r, 0)
  <2>1. UNCHANGED <<told, lost, pool>>
    BY <1>3 DEF GivesEnd, Reads, IInv, TypeOK, TypeOfReading
  <2>2. PICK n \in 0..left[r] : Outcome(r, n)
    BY <1>3, ReadsOutcome
  <2>3. left[r] = 0
    BY <1>3 DEF HasRows, Decided, IInv, EndsEmpty
  <2>4. UNCHANGED left
    <3>1. n = 0 /\ left' = [left EXCEPT ![r] = @ - n]
      BY <2>2, <2>3 DEF Outcome
    <3>2. QED
      BY <2>3, <3>1 DEF Outcome, IInv, TypeOK, TypeOfReading
  <2>5. \A c \in Ctx : active[c] # r
    BY <1>3, ConstantsAssumption DEF IInv, OpenOK
  <2>6. UNCHANGED active
    BY <1>3, <2>5 DEF GivesEnd, Freed, IInv, TypeOK, TypeOfEngine
  <2>7. QED
    BY <2>1, <2>4, <2>6, ReadSeen DEF Delivery!vars, Delivery!rows
<1>4. QED
  BY <1>2, <1>3, ReadsOutcome, KnownDelivers

\* rapi_execute_arrow() delivers every row and the end, once and again, or drops some rows.
LEMMA TableDelivers ==
  ASSUME IInv, VInv, NEW r \in Res, ReadTable(r)
  PROVE  [Delivery!Next]_Delivery!vars
<1>1. /\ UNCHANGED <<streamed, invalidated, failed, holder, active, pool>> /\ r \notin streamed
      /\ holder[r] = "query_result" /\ ~invalidated[r] /\ ~failed[r] /\ ToldOK(r) /\ told[r] \in Answers
      /\ left[r] \in Nat
  BY ReadTableEffect DEF VInv, IInv, TypeOK, TypeOfReading
<1>2. told[r] \in {"nothing", "rows", "dropped", "end"} /\ (told[r] = "end" => left[r] = 0) /\ pool[r] \notin PoolReads
  BY <1>1 DEF ToldOK, Answers, IInv, EndsEmpty, OwnersOK, PoolReads
<1>3. {q \in Res : pool'[q] \in PoolReads} = {q \in Res : pool[q] \in PoolReads} \ {r}
  BY <1>1, <1>2
<1>4. ASSUME NEW a, told[r] # "end", told' = [told EXCEPT ![r] = a] PROVE Delivery!Answers(r, a)
  BY <1>1, <1>2, <1>3, <1>4 DEF Delivery!Answers, Delivery!Undecided
<1>5. CASE left' = [left EXCEPT ![r] = 0] /\ told' = [told EXCEPT ![r] = "end"] /\ UNCHANGED lost
  <2>1. CASE told[r] = "end"
    <3>1. UNCHANGED <<left, told>>
      BY <1>2, <1>5, <2>1 DEF IInv, TypeOK, TypeOfReading
    <3>2. QED
      BY <1>1, <1>5, <3>1 DEF Delivery!vars, Delivery!rows
  <2>2. CASE told[r] # "end"
    <3>1. active' = [c \in Ctx |-> IF active[c] = r THEN NoRes ELSE active[c]]
      BY <1>1, ConstantsAssumption DEF IInv, TypeOK, TypeOfEngine, OpenOK
    <3>2. Delivery!End(r)
      BY <1>4, <1>5, <2>2, <3>1 DEF Delivery!End, Delivery!Freed
    <3>3. QED
      BY <3>2 DEF Delivery!Next
  <2>3. QED
    BY <2>1, <2>2
<1>6. CASE told[r] # "end" /\ \E n \in 0..left[r] : Loses(r, n, "dropped")
  <2>1. Delivery!Drop(r)
    BY <1>1, <1>4, <1>6 DEF Loses, Delivery!Drop
  <2>2. QED
    BY <2>1 DEF Delivery!Next
<1>7. QED
  BY <1>5, <1>6, ReadTableEffect

LEMMA BeginDelivers ==
  ASSUME IInv, VInv, NEW r \in Res, PoolBeginRead(r)
  PROVE  Delivery!Next
<1>1. ToldOK(r) /\ told[r] \in Answers
  BY DEF VInv, IInv, TypeOK, TypeOfReading
<1>2. told[r] \in {"nothing", "rows", "dropped"}
  BY <1>1, BeginEffect DEF ToldOK, Answers
<1>3. {q \in Res : pool'[q] \in PoolReads} = {q \in Res : pool[q] \in PoolReads} \cup {r}
  BY BeginEffect DEF IInv, TypeOK, TypeOfObjects, PoolReads
<1>4. Delivery!Begin(r)
  BY <1>2, <1>3, BeginEffect DEF Delivery!Begin, Delivery!Undecided, Delivery!rows
<1>5. QED
  BY <1>4 DEF Delivery!Next

LEMMA PoolOverDelivers ==
  ASSUME IInv, VInv, ReadsUndecided, NEW r \in Res, PoolOver(r)
  PROVE  Delivery!Next
<1>1. ReadsOnly(r)
  BY PoolOverEffect
<1>2. {q \in Res : pool'[q] \in PoolReads} = {q \in Res : pool[q] \in PoolReads} \ {r}
  BY PoolOverOutcome DEF PoolReads, IInv, TypeOK, TypeOfObjects
<1>3. QED
  BY <1>1, <1>2, PoolOverOutcome, ReadSeen, OutcomeDelivers

LEMMA DeliveryStep ==
  ASSUME IInv, IInv', VInv, ReadsUndecided, [Next]_vars
  PROVE  [Delivery!Next]_Delivery!vars
<1>1. CASE Quiet /\ UNCHANGED invalidated
  BY <1>1, QuietReleases
<1>2. ASSUME NEW o \in todo, EndMark(o) PROVE Delivery!Next
  BY <1>2, MarkEnds
<1>3. ASSUME NEW r \in Res, NEW n \in 0..MaxRows, NEW stream \in BOOLEAN, ResultReturns(r, n, stream)
      PROVE  Delivery!Next
  BY <1>3, MadeDelivers
<1>4. ASSUME NEW r \in Res, NEW k \in Batches, Reads(r, k), ReadsOnly(r)
      PROVE  [Delivery!Next]_Delivery!vars
  BY <1>4, ReadDelivers
<1>5. ASSUME NEW r \in Res, ReadTable(r) \/ PoolBeginRead(r) \/ PoolOver(r)
      PROVE  [Delivery!Next]_Delivery!vars
  BY <1>5, TableDelivers, BeginDelivers, PoolOverDelivers
<1>6. QED
  BY <1>1, <1>2, <1>3, <1>4, <1>5, KindsOfSteps DEF StepKinds

\* Whatever owns, ends and moves the results, and on whatever thread they are read (ResultDelivery): each answer hands
\* out rows or says what became of them; rows are given up only by a read that tells of an error; the end comes when
\* none is left; and the end, the engine's error and an invalidation stay.  One that is read ahead may hear of the
\* statement that ends it as an end, once, or after another verdict.  A connection has one open result.
THEOREM DeliveryImplemented == Spec => ImplementsDelivery
<1>1. Init => Delivery!Init
  BY DEF Init, Delivery!Init, PoolReads
<1>2. IInv /\ IInv' /\ VInv /\ ReadsUndecided /\ [Next]_vars => [Delivery!Next]_Delivery!vars
  BY DeliveryStep
<1>3. QED
  BY <1>1, <1>2, Telling, PTL DEF Spec, ImplementsDelivery, Delivery!Spec
=============================================================================
