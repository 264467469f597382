--------------------------- MODULE ArrowResults ---------------------------
(***************************************************************************)
(* The Arrow route's results and the statements of their connections:      *)
(* src/src/arrow_export.cpp, the result half of src/src/statement.cpp and  *)
(* their types in src/src/include/rapi.hpp.                                *)
(*                                                                         *)
(* A streamed result holds its connection's one query open.  The glue ends *)
(* it (EndOpenResults) before it starts a statement there, and the result  *)
(* reports so when it is read next.  What makes this hard is who runs      *)
(* when: R code runs underneath an engine call, in a callback, and starts  *)
(* statements or finalizes results there, and a reader handed to arrow is  *)
(* read and released on a thread of arrow's pool.                          *)
(*                                                                         *)
(* R's thread is a stack of engine calls, each of which holds the lock of  *)
(* its client context; `atR` tells whether R code or the engine is on top. *)
(*                                                                         *)
(* RowsAsked, EndsAnySource, AnswerUnasked, NotTrackedAsSource,            *)
(* StillTracked, HandlerNeverBusy and LockedToUntrack are faulty twins of  *)
(* the definition that follows each: what a plausible bug would make of    *)
(* it.  No action uses one; the mutation checks do.                        *)
(***************************************************************************)
EXTENDS Integers, Sequences, FiniteSets

CONSTANTS
  Ctx,          \* client contexts, one per connection
  Res,          \* query results of the Arrow route
  Home,         \* the context each result runs on
  MaxRows,      \* bound: rows of a result
  MaxBatch,     \* bound: rows a read asks for (chunk_size)
  MaxDepth,     \* bound: engine calls on R's stack
  Closable,     \* bound: contexts whose connection R may close
  PoolStreams,  \* results whose reader runs on a thread of arrow's pool
  Reentrant,    \* may a read's callback use the connection being read?
  NoCtx, NoRes

ASSUME ConstantsAssumption ==
  /\ NoCtx \notin Ctx /\ NoRes \notin Res
  /\ MaxRows \in Nat /\ MaxBatch \in Nat \ {0} /\ MaxDepth \in Nat \ {0}
  /\ Home \in [Res -> Ctx]
  /\ PoolStreams \subseteq Res /\ Closable \subseteq Ctx
  /\ Reentrant \in BOOLEAN

VARIABLES
  connected,    \* contexts whose connection is open
  active,       \* the open result of a context's active query, in the engine
  tracked,      \* OpenResults(): per context, the objects to end
  holder,       \* who owns the engine's result
  alive,        \* results whose RQueryResult has not been finalized
  streamed,     \* results submitted to be streamed
  left,         \* rows the engine has still to hand out
  lost,         \* rows of batches that failed reads have given up
  invalidated,  \* ended for another statement
  finished,     \* RArrowChunkSource::finished
  failed,       \* RArrowChunkSource::error is set
  told,         \* the last answer to the consumer
  stack,        \* engine calls of R's thread
  atR,          \* R code, rather than the engine, is running on R's thread
  ending,       \* the context EndOpenResults() is ending, under its lock
  todo,         \* the objects it has still to end
  found,        \* of these, the one it has found open
  marked,       \* of these, the one it has marked and not closed yet
  pool,         \* what the pool thread is doing with a reader
  have          \* rows of the batch it is putting together

ends      == <<found, marked>>
rThread   == <<stack, atR, ending, todo, ends>>
engine    == <<active, connected>>
objects   == <<tracked, holder, alive>>
reading   == <<left, lost, invalidated, finished, failed, told>>
ahead     == <<pool, have>>
vars == <<rThread, engine, objects, streamed, reading, ahead>>

-----------------------------------------------------------------------------
Holders == {"none", "query_result", "wrapper", "reader",
            "parked_result", "parked_wrapper", "gone"}
Answers == {"nothing", "rows", "dropped", "end", "invalidated", "error"}
PoolReads == {"reading", "polled", "fetching"}
PoolSteps == PoolReads \cup {"idle", "parking", "untracking", "closing"}

\* An ROpenResult registers itself by address: a query result, or the chunk source of its stream.
QueryResultOf(r) == [kind |-> "query_result", res |-> r]
SourceOf(r)      == [kind |-> "source", res |-> r]
OpenResult       == [kind : {"query_result", "source"}, res : Res]
Frame            == [kind : {"statement", "read"}, ctx : Ctx, res : Res \cup {NoRes}]

StatementFrame(c) == [kind |-> "statement", ctx |-> c, res |-> NoRes]
ReadFrame(r)      == [kind |-> "read", ctx |-> Home[r], res |-> r]

Push(f) == stack' = Append(stack, f)
Pop     == stack' = SubSeq(stack, 1, Len(stack) - 1)
Top     == stack[Len(stack)]

\* The client context locks that R's thread holds, in calls below the one on top, and that pool threads hold.
LockedByR    == {stack[i].ctx : i \in 1..Len(stack)}
LockedToUntrack == {Home[r] : r \in {q \in Res : pool[q] \in {"fetching", "untracking"}}}
LockedByPool == {Home[r] : r \in {q \in Res : pool[q] = "fetching"}}
LockFree(c)  == c \notin LockedByR \cup LockedByPool

BeingRead == {stack[i].res : i \in 1..Len(stack)}

\* ScopedInterruptHandler::instance: a statement installs it, a read does not.
HandlerNeverBusy == FALSE
HandlerBusy == \E i \in 1..Len(stack) : stack[i].kind = "statement"

\* RCallbackScope::Active(): some engine call is running R code.
CallbackActive == Len(stack) > (IF atR THEN 0 ELSE 1)

\* R code is running and holds no lock of the glue's.
RCode == atR /\ ending = NoCtx

IsOpen(r) == active[Home[r]] = r

\* Closing a stream, or the query of a result, that is still open takes its context's lock.
CanClose(r) == IsOpen(r) => LockFree(Home[r])

\* What QueryResult::Close() does to the engine: an open query is abandoned.
ActiveAfterClosing(rs) ==
  [c \in Ctx |-> IF active[c] \in rs THEN NoRes ELSE active[c]]

\* ROpenResult::Untrack() of every object of these results.
StillTracked(rs) == tracked
TrackedWithout(rs) ==
  [c \in Ctx |-> {o \in tracked[c] : o.res \notin rs}]

Parked == {r \in Res : holder[r] \in {"parked_result", "parked_wrapper"}}

\* A connection holds its context, and so do every engine call there and every result: its RQueryResult, its
\* wrapper, and what is parked of them.
ContextAlive(c) ==
  \/ c \in connected \cup LockedByR
  \/ \E r \in Res : Home[r] = c /\ (r \in alive \/ holder[r] \notin {"none", "gone"})

\* RArrowChunkSource's constructor: the source streams, and is tracked, unless the result was ended before.
NotTrackedAsSource(r) == TrackedWithout({r})
TrackedAsSource(r) ==
  LET streams == r \in streamed /\ ~invalidated[r]
  IN [c \in Ctx |-> TrackedWithout({r})[c] \cup {o \in {SourceOf(r)} : streams /\ Home[r] = c}]

Init ==
  /\ connected = Ctx
  /\ active = [c \in Ctx |-> NoRes]
  /\ tracked = [c \in Ctx |-> {}]
  /\ holder = [r \in Res |-> "none"]
  /\ alive = {} /\ streamed = {}
  /\ left = [r \in Res |-> 0]
  /\ lost = [r \in Res |-> 0]
  /\ invalidated = [r \in Res |-> FALSE]
  /\ finished = [r \in Res |-> FALSE]
  /\ failed = [r \in Res |-> FALSE]
  /\ told = [r \in Res |-> "nothing"]
  /\ stack = <<>> /\ atR = TRUE /\ ending = NoCtx
  /\ todo = {} /\ found = {} /\ marked = {}
  /\ pool = [r \in Res |-> "idle"]
  /\ have = [r \in Res |-> 0]

-----------------------------------------------------------------------------
(***************************************************************************)
(* Statements.  Every entry point that starts one drains what is parked,   *)
(* ends the connection's open results, installs the interrupt handler and  *)
(* enters the engine.                                                      *)
(***************************************************************************)

\* RCallbackScope::Drain() as called where no callback runs: every parked object is destroyed.
\* Destroying a parked wrapper untracks its source, and either form closes its query.
Drained ==
  /\ \A r \in Parked : CanClose(r)
  /\ holder' = [r \in Res |-> IF r \in Parked THEN "gone" ELSE holder[r]]
  /\ active' = ActiveAfterClosing(Parked)

\* EndOpenResults() up to its loop: drain, take open_results_lock, and move the context's entries out of the map.
\* A statement in a callback finds Active() and drains nothing.
BeginStatement(c) ==
  /\ RCode /\ ContextAlive(c) /\ Len(stack) < MaxDepth
  /\ \/ Reentrant
     \/ \A i \in 1..Len(stack) : stack[i].kind = "read" => stack[i].ctx # c
  /\ IF CallbackActive
     THEN /\ UNCHANGED <<holder, active>>
          /\ todo' = tracked[c]
          /\ tracked' = [tracked EXCEPT ![c] = {}]
     ELSE /\ Drained
          /\ todo' = TrackedWithout(Parked)[c]
          /\ tracked' = [TrackedWithout(Parked) EXCEPT ![c] = {}]
  /\ ending' = c
  /\ UNCHANGED <<stack, atR, ends, connected, alive, streamed, reading, ahead>>

\* EndForAnotherStatement() ends a query result that still has its result, a source only while its stream is open.
EndsAnySource(o) == o.kind = "query_result" => holder[o.res] = "query_result"
Ends(o) == IF o.kind = "query_result" THEN holder[o.res] = "query_result" ELSE IsOpen(o.res)

\* A turn of its loop takes three steps.  IsOpen() asks the engine, under the client context lock if the stream is open.
EndAsk(o) ==
  /\ ending # NoCtx /\ o \in todo /\ found \cup marked = {}
  /\ CanClose(o.res)
  /\ \/ Ends(o) /\ found' = {o} /\ UNCHANGED todo
     \/ ~Ends(o) /\ todo' = todo \ {o} /\ UNCHANGED found
  /\ UNCHANGED <<stack, atR, ending, marked, engine, objects, streamed, reading, ahead>>

\* No lock is held when the result is marked: a pool thread may have read on since, and reads on.
EndMark(o) ==
  /\ o \in found /\ found' = {} /\ marked' = {o}
  /\ invalidated' = [invalidated EXCEPT ![o.res] = TRUE]
  /\ UNCHANGED <<stack, atR, ending, todo, engine, objects, streamed,
                 left, lost, finished, failed, told, ahead>>

\* Closing what is still open takes the client context lock.
EndClose(o) ==
  /\ o \in marked /\ CanClose(o.res)
  /\ marked' = marked \ {o} /\ todo' = todo \ {o}
  /\ active' = ActiveAfterClosing({o.res})
  /\ UNCHANGED <<stack, atR, ending, found, connected, objects, streamed, reading, ahead>>

\* ScopedInterruptHandler's constructor finds an instance: "Connection already working on another query".
HandlerRefuses ==
  /\ ending # NoCtx /\ todo = {} /\ HandlerBusy
  /\ ending' = NoCtx
  /\ UNCHANGED <<stack, atR, todo, ends, engine, objects, streamed, reading, ahead>>

\* InitialCleanup() in the engine finds an open result on the context and refuses the statement.
EngineRefuses ==
  /\ ending # NoCtx /\ todo = {} /\ ~HandlerBusy
  /\ LockFree(ending)
  /\ active[ending] # NoRes
  /\ ending' = NoCtx
  /\ UNCHANGED <<stack, atR, todo, ends, engine, objects, streamed, reading, ahead>>

\* The engine runs the statement, with the context locked.
EnterEngine ==
  /\ ending # NoCtx /\ todo = {} /\ ~HandlerBusy
  /\ LockFree(ending)
  /\ active[ending] = NoRes
  /\ Push(StatementFrame(ending))
  /\ atR' = FALSE /\ ending' = NoCtx
  /\ UNCHANGED <<todo, ends, engine, objects, streamed, reading, ahead>>

\* The engine runs R code: the progress display, a replacement scan, an Arrow stream factory.
Callback ==
  /\ ~atR /\ atR' = TRUE
  /\ UNCHANGED <<stack, ending, todo, ends, engine, objects, streamed, reading, ahead>>

CallbackReturns ==
  /\ RCode /\ stack # <<>> /\ atR' = FALSE
  /\ UNCHANGED <<stack, ending, todo, ends, engine, objects, streamed, reading, ahead>>

\* The statement fails, or its rows become R vectors.
StatementReturns ==
  /\ ~atR /\ Top.kind = "statement"
  /\ Pop /\ atR' = TRUE
  /\ UNCHANGED <<ending, todo, ends, engine, objects, streamed, reading, ahead>>

\* rapi_execute_impl() answers with an RQueryResult of n rows: streamed, its query is the context's open result
\* and it is tracked; completed, its rows are retained and its query is over.
ResultReturns(r, n, stream) ==
  /\ ~atR /\ Top.kind = "statement" /\ Home[r] = Top.ctx
  /\ holder[r] = "none"
  /\ Pop /\ atR' = TRUE
  /\ holder' = [holder EXCEPT ![r] = "query_result"]
  /\ alive' = alive \cup {r}
  /\ left' = [left EXCEPT ![r] = n]
  /\ IF stream
     THEN /\ streamed' = streamed \cup {r}
          /\ active' = [active EXCEPT ![Home[r]] = r]
          /\ tracked' = [tracked EXCEPT ![Home[r]] = @ \cup {QueryResultOf(r)}]
     ELSE UNCHANGED <<streamed, active, tracked>>
  /\ UNCHANGED <<ending, todo, ends, connected, lost, invalidated, finished, failed, told, ahead>>

-----------------------------------------------------------------------------
(***************************************************************************)
(* Reading.                                                                *)
(***************************************************************************)

\* The answers that need no engine: GetNext() asks whether the result was invalidated, LoadNextChunk() whether the
\* engine failed or the end was seen, and a stream whose query is no longer open is at its end.
AnswerUnasked(r) == IF failed[r] THEN "error" ELSE "end"
AnswerAtOnce(r) ==
  IF invalidated[r] THEN "invalidated" ELSE IF failed[r] THEN "error" ELSE "end"

Decided(r) == invalidated[r] \/ failed[r] \/ finished[r]
HasRows(r) == ~Decided(r) /\ (r \in streamed => IsOpen(r))

\* The rows that a read of k takes.
RowsAsked(r, k) == k
RowsTaken(r, k) == IF k < left[r] THEN k ELSE left[r]

\* FetchArray() hands out a batch of n rows, none of them at the end, or an exception takes n rows with it.
Hands(r, n) ==
  /\ left' = [left EXCEPT ![r] = @ - n]
  /\ told' = [told EXCEPT ![r] = IF n = 0 THEN "end" ELSE "rows"]
  /\ UNCHANGED lost

Loses(r, n, answer) ==
  /\ left' = [left EXCEPT ![r] = @ - n]
  /\ lost' = [lost EXCEPT ![r] = @ + n]
  /\ told' = [told EXCEPT ![r] = answer]

\* LoadNextChunk() sees the end of the stream, with which the engine ends the query, or does not.
SeesEnd(r, over) ==
  /\ finished' = [finished EXCEPT ![r] = over]
  /\ active' = IF over THEN ActiveAfterClosing({r}) ELSE active
  /\ UNCHANGED failed

\* A read of k rows: a batch, or a short one with which it has seen the end.
Batch(r, k) == Hands(r, RowsTaken(r, k)) /\ SeesEnd(r, RowsTaken(r, k) < k)

\* An exception of the appender, or of a chunk of retained rows, reaches the consumer and nothing else: the rows
\* appended so far are gone, and the next read goes on behind them.  Finalize() fails behind the end, too.
\* (That such an exception may strike past a verdict, where memory runs out, is left out.)
BatchLost(r, k) ==
  /\ told[r] # "end"
  /\ \E n \in 0..RowsTaken(r, k) :
       Loses(r, n, "dropped") /\ SeesEnd(r, 0 < n /\ n < k /\ n = left[r])

\* Fail(): the engine's error, which every later read repeats, and which ends the query.
Fails(r, n) ==
  /\ Loses(r, n, "error")
  /\ failed' = [failed EXCEPT ![r] = TRUE]
  /\ finished' = [finished EXCEPT ![r] = TRUE]
  /\ active' = ActiveAfterClosing({r})

ReadFails(r, k) == \E n \in 0..RowsTaken(r, k) : n < k /\ Fails(r, n)

\* R's thread reads: dbFetchArrowChunk() through the wrapper it makes on the first call, or a reader.
\* Neither a batch size nor an error is known before the engine returns.
Readable(r) ==
  \/ holder[r] \in {"query_result", "wrapper"} /\ r \in alive
  \/ holder[r] = "reader" /\ r \notin PoolStreams

\* What rapi_fetch_arrow_array() does to the query result: the first call makes the wrapper, and the one that
\* answers with the end lets go of it.
WrapperAfterRead(r) ==
  LET ended == told'[r] = "end"
  IN IF holder[r] = "reader"
     THEN UNCHANGED <<holder, tracked>>
     ELSE /\ holder' = [holder EXCEPT ![r] = IF ended THEN "gone" ELSE "wrapper"]
          /\ tracked' = IF ended THEN TrackedWithout({r})
                        ELSE IF holder[r] = "query_result" THEN TrackedAsSource(r) ELSE tracked

AnswerWithoutRows(r) ==
  /\ told' = [told EXCEPT ![r] = AnswerAtOnce(r)]
  /\ finished' = [finished EXCEPT ![r] = @ \/ AnswerAtOnce(r) = "end"]
  /\ UNCHANGED <<left, lost, failed, active>>

\* A read that needs no engine: the verdict is known, or the rows are retained.
ReadAtOnce(r, k) ==
  /\ RCode /\ Readable(r) /\ r \notin BeingRead
  /\ \/ ~HasRows(r) /\ AnswerWithoutRows(r)
     \/ HasRows(r) /\ r \notin streamed /\ (Batch(r, k) \/ BatchLost(r, k))
  /\ WrapperAfterRead(r)
  /\ UNCHANGED <<rThread, connected, alive, streamed, invalidated, ahead>>

\* A streamed result is read in the engine, under the client context lock and without an interrupt handler.
\* (The lock is taken anew for each chunk.  In between no R code runs, and nobody else ends the result.)
BeginRead(r) ==
  /\ RCode /\ Readable(r) /\ r \notin BeingRead
  /\ r \in streamed /\ HasRows(r) /\ Len(stack) < MaxDepth
  /\ LockFree(Home[r])
  /\ Push(ReadFrame(r)) /\ atR' = FALSE
  /\ IF holder[r] = "query_result"
     THEN /\ holder' = [holder EXCEPT ![r] = "wrapper"]
          /\ tracked' = TrackedAsSource(r)
     ELSE UNCHANGED <<holder, tracked>>
  /\ UNCHANGED <<ending, todo, ends, engine, alive, streamed, reading, ahead>>

EndRead(r, k) ==
  /\ ~atR /\ Top = ReadFrame(r)
  /\ Pop /\ atR' = TRUE
  /\ Batch(r, k) \/ BatchLost(r, k) \/ ReadFails(r, k)
  /\ WrapperAfterRead(r)
  /\ UNCHANGED <<ending, todo, ends, connected, alive, streamed, invalidated, ahead>>

\* rapi_execute_arrow(): a completed result as one Arrow table.  A failure on the way loses the rows fetched for
\* it; what is left stays readable.
ReadTable(r) ==
  /\ RCode /\ r \in alive /\ holder[r] = "query_result" /\ r \notin streamed
  /\ \/ /\ left' = [left EXCEPT ![r] = 0]
        /\ told' = [told EXCEPT ![r] = "end"]
        /\ UNCHANGED lost
     \/ told[r] # "end" /\ \E n \in 0..left[r] : Loses(r, n, "dropped")
  /\ UNCHANGED <<rThread, engine, objects, streamed, invalidated, finished, failed, ahead>>

\* rapi_fetch_arrow_stream_into() and rapi_record_batch(): the consumer's reader owns the result from here on.
HandOver(r) ==
  /\ RCode /\ r \in alive /\ r \notin BeingRead
  /\ holder[r] \in {"query_result", "wrapper"}
  /\ holder' = [holder EXCEPT ![r] = "reader"]
  /\ tracked' = IF holder[r] = "query_result" THEN TrackedAsSource(r) ELSE tracked
  /\ UNCHANGED <<rThread, engine, alive, streamed, reading, ahead>>

-----------------------------------------------------------------------------
(***************************************************************************)
(* Letting go, on R's thread.                                              *)
(***************************************************************************)

\* The objects of r are destroyed here and now: the source untracks itself, and an open query is abandoned.
Destroy(r) ==
  /\ CanClose(r)
  /\ holder' = [holder EXCEPT ![r] = "gone"]
  /\ tracked' = TrackedWithout({r})
  /\ active' = ActiveAfterClosing({r})

\* ~RQueryResult(), from a garbage collection.  It untracks itself; inside a callback what it owns is parked, a
\* wrapper with its source still tracked.
FinalizeResult(r) ==
  /\ RCode /\ r \in alive /\ r \notin BeingRead
  /\ alive' = alive \ {r}
  /\ \/ /\ holder[r] \notin {"query_result", "wrapper"}
        /\ UNCHANGED <<holder, tracked, active>>
     \/ /\ holder[r] \in {"query_result", "wrapper"} /\ ~CallbackActive
        /\ Destroy(r)
     \/ /\ holder[r] = "query_result" /\ CallbackActive
        /\ holder' = [holder EXCEPT ![r] = "parked_result"]
        /\ tracked' = [tracked EXCEPT ![Home[r]] = @ \ {QueryResultOf(r)}]
        /\ UNCHANGED active
     \/ /\ holder[r] = "wrapper" /\ CallbackActive
        /\ holder' = [holder EXCEPT ![r] = "parked_wrapper"]
        /\ UNCHANGED <<tracked, active>>
  /\ UNCHANGED <<rThread, connected, streamed, reading, ahead>>

\* RArrowArrayStreamWrapper::Release() on R's thread: nanoarrow's finalizer, or an explicit release.
ReleaseReader(r) ==
  /\ RCode /\ holder[r] = "reader" /\ r \notin PoolStreams /\ r \notin BeingRead
  /\ IF CallbackActive
     THEN /\ holder' = [holder EXCEPT ![r] = "parked_wrapper"]
          /\ UNCHANGED <<tracked, active>>
     ELSE Destroy(r)
  /\ UNCHANGED <<rThread, connected, alive, streamed, reading, ahead>>

\* rapi_release_arrow_result(), from dbClearResult(): R calls it, so nothing is parked.
ReleaseArrowResult(r) ==
  /\ RCode /\ r \in alive /\ r \notin BeingRead
  /\ holder[r] \in {"query_result", "wrapper"}
  /\ Destroy(r)
  /\ UNCHANGED <<rThread, connected, alive, streamed, reading, ahead>>

\* RCallbackScope::Drain() of an entry point that starts no statement.
Drain ==
  /\ RCode /\ ~CallbackActive /\ Parked # {}
  /\ Drained
  /\ tracked' = TrackedWithout(Parked)
  /\ UNCHANGED <<rThread, connected, alive, streamed, reading, ahead>>

\* rapi_disconnect(): the connection lets go of its context and waits for nothing; calls and results keep theirs.
Disconnect(c) ==
  /\ RCode /\ c \in connected \cap Closable
  /\ connected' = connected \ {c}
  /\ UNCHANGED <<rThread, active, objects, streamed, reading, ahead>>

-----------------------------------------------------------------------------
(***************************************************************************)
(* A thread of arrow's pool, reading ahead from a reader and releasing it. *)
(***************************************************************************)

\* A read that needs no engine.  GetNext() asks Invalidated() before it takes any lock.
PoolReadAtOnce(r, k) ==
  /\ holder[r] = "reader" /\ r \in PoolStreams /\ pool[r] = "idle"
  /\ \/ Decided(r) /\ AnswerWithoutRows(r)
     \/ ~Decided(r) /\ r \notin streamed /\ (Batch(r, k) \/ BatchLost(r, k))
  /\ UNCHANGED <<rThread, connected, objects, streamed, invalidated, ahead>>

PoolBeginRead(r) ==
  /\ holder[r] = "reader" /\ r \in PoolStreams /\ pool[r] = "idle"
  /\ r \in streamed /\ ~Decided(r)
  /\ pool' = [pool EXCEPT ![r] = "reading"]
  /\ UNCHANGED <<rThread, engine, objects, streamed, reading, have>>

\* Each chunk is polled, found open and fetched, the lock taken anew: R's thread may end the result at any point.
\* Poll() and IsOpen() are one step, since a stream closed between them reads as one closed before.
Polls(r) == pool[r] = "reading" /\ have[r] < MaxBatch

PoolPoll(r) ==
  /\ Polls(r) /\ IsOpen(r) /\ LockFree(Home[r])
  /\ pool' = [pool EXCEPT ![r] = "polled"]
  /\ UNCHANGED <<rThread, engine, objects, streamed, reading, have>>

PoolFetch(r) ==
  /\ pool[r] = "polled" /\ IsOpen(r) /\ LockFree(Home[r])
  /\ pool' = [pool EXCEPT ![r] = "fetching"]
  /\ UNCHANGED <<rThread, engine, objects, streamed, reading, have>>

\* A chunk, which counts for one row here, is appended to the batch.
PoolAppend(r) ==
  /\ pool[r] = "fetching" /\ have[r] < left[r]
  /\ pool' = [pool EXCEPT ![r] = "reading"]
  /\ have' = [have EXCEPT ![r] = @ + 1]
  /\ UNCHANGED <<rThread, engine, objects, streamed, reading>>

\* The read ends; its batch leaves the result.
PoolReadEnds(r) ==
  /\ pool' = [pool EXCEPT ![r] = "idle"]
  /\ have' = [have EXCEPT ![r] = 0]
  /\ UNCHANGED <<rThread, connected, objects, streamed, invalidated>>

\* The batch has the size asked for.
PoolBatch(r) ==
  /\ pool[r] = "reading" /\ have[r] > 0
  /\ Hands(r, have[r]) /\ SeesEnd(r, FALSE)
  /\ PoolReadEnds(r)

\* The engine has no more rows, or the stream was closed before the chunk was polled or fetched and reads as ended.
PoolSeesEnd(r) ==
  /\ \/ pool[r] = "fetching" /\ have[r] = left[r]
     \/ (Polls(r) \/ pool[r] = "polled") /\ ~IsOpen(r)
  /\ \/ Hands(r, have[r])
     \/ have[r] > 0 /\ Loses(r, have[r], "dropped")
  /\ SeesEnd(r, TRUE)
  /\ PoolReadEnds(r)

\* An exception that only this read reports: the appender's, or that of a fetch from a stream closed since its poll.
PoolBatchLost(r) ==
  /\ pool[r] \in {"reading", "fetching"} \/ (pool[r] = "polled" /\ ~IsOpen(r))
  /\ Loses(r, have[r], "dropped") /\ SeesEnd(r, FALSE)
  /\ PoolReadEnds(r)

\* The query's error, from a poll or a fetch, or a poll that meets the stream as it is closed: it was cancelled.
PoolFails(r) ==
  /\ pool[r] = "fetching" \/ (Polls(r) /\ LockFree(Home[r]))
  /\ Fails(r, have[r])
  /\ PoolReadEnds(r)

\* Release() asks whether a callback runs, and parks or destroys.
PoolRelease(r) ==
  /\ holder[r] = "reader" /\ r \in PoolStreams /\ pool[r] = "idle"
  /\ pool' = [pool EXCEPT ![r] = IF CallbackActive THEN "parking" ELSE "untracking"]
  /\ UNCHANGED <<rThread, engine, objects, streamed, reading, have>>

PoolPark(r) ==
  /\ pool[r] = "parking"
  /\ pool' = [pool EXCEPT ![r] = "idle"]
  /\ holder' = [holder EXCEPT ![r] = "parked_wrapper"]
  /\ UNCHANGED <<rThread, engine, tracked, alive, streamed, reading, have>>

\* ~RArrowChunkSource(): Untrack() waits for open_results_lock, which EndOpenResults() holds while it ends results.
PoolUntrack(r) ==
  /\ pool[r] = "untracking" /\ ending = NoCtx
  /\ pool' = [pool EXCEPT ![r] = "closing"]
  /\ tracked' = TrackedWithout({r})
  /\ UNCHANGED <<rThread, engine, holder, alive, streamed, reading, have>>

\* Then its stream closes, under the client context lock.
PoolClose(r) ==
  /\ pool[r] = "closing" /\ CanClose(r)
  /\ pool' = [pool EXCEPT ![r] = "idle"]
  /\ holder' = [holder EXCEPT ![r] = "gone"]
  /\ active' = ActiveAfterClosing({r})
  /\ UNCHANGED <<rThread, connected, tracked, alive, streamed, reading, have>>

-----------------------------------------------------------------------------
EndingStep ==
  \/ \E o \in todo : EndAsk(o) \/ EndMark(o) \/ EndClose(o)
  \/ HandlerRefuses \/ EngineRefuses \/ EnterEngine

Batches == 1..MaxBatch

EngineReturns ==
  \/ StatementReturns
  \/ \E r \in Res, n \in 0..MaxRows, stream \in BOOLEAN : ResultReturns(r, n, stream)
  \/ \E r \in Res, k \in Batches : EndRead(r, k)

PoolStep(r) ==
  \/ PoolPoll(r) \/ PoolFetch(r) \/ PoolAppend(r)
  \/ PoolBatch(r) \/ PoolSeesEnd(r) \/ PoolBatchLost(r) \/ PoolFails(r)
  \/ PoolPark(r) \/ PoolUntrack(r) \/ PoolClose(r)

Next ==
  \/ \E c \in Ctx : BeginStatement(c) \/ Disconnect(c)
  \/ EndingStep \/ Callback \/ CallbackReturns \/ EngineReturns \/ Drain
  \/ \E r \in Res, k \in Batches : ReadAtOnce(r, k) \/ PoolReadAtOnce(r, k)
  \/ \E r \in Res :
       \/ BeginRead(r) \/ ReadTable(r) \/ HandOver(r)
       \/ FinalizeResult(r) \/ ReleaseReader(r) \/ ReleaseArrowResult(r)
       \/ PoolBeginRead(r) \/ PoolRelease(r) \/ PoolStep(r)

Spec == Init /\ [][Next]_vars

\* The engine's calls return, also below others, R's callbacks return, the loop of EndOpenResults() goes on, and
\* a thread that waits for a lock that is free again and again gets it.  R starts and reads what it likes.
Fairness ==
  /\ SF_vars(EndingStep)
  /\ \A d \in 1..MaxDepth :
       /\ SF_vars(Len(stack) = d /\ EngineReturns)
       /\ SF_vars(Len(stack) = d /\ CallbackReturns)
  /\ \A r \in Res : SF_vars(PoolStep(r))

FairSpec == Spec /\ Fairness

-----------------------------------------------------------------------------
(***************************************************************************)
(* Properties.                                                             *)
(***************************************************************************)

TypeOfThread ==
  /\ stack \in Seq(Frame) /\ atR \in BOOLEAN
  /\ ending \in Ctx \cup {NoCtx} /\ todo \subseteq OpenResult
  /\ found \subseteq todo /\ marked \subseteq todo

TypeOfEngine == connected \subseteq Ctx /\ active \in [Ctx -> Res \cup {NoRes}]

TypeOfObjects ==
  /\ tracked \in [Ctx -> SUBSET OpenResult]
  /\ holder \in [Res -> Holders] /\ pool \in [Res -> PoolSteps]
  /\ alive \subseteq Res /\ streamed \subseteq Res
  /\ have \in [Res -> Nat]

TypeOfReading ==
  /\ left \in [Res -> Nat] /\ lost \in [Res -> Nat]
  /\ told \in [Res -> Answers]
  /\ invalidated \in [Res -> BOOLEAN]
  /\ finished \in [Res -> BOOLEAN] /\ failed \in [Res -> BOOLEAN]

TypeOK == TypeOfThread /\ TypeOfEngine /\ TypeOfObjects /\ TypeOfReading

\* What EndOpenResults() can still reach for a context: the map's entries and those of its own loop.
Reachable(c) == tracked[c] \cup (IF ending = c THEN todo ELSE {})

\* An object in the map, or moved out of it to be ended, has not been freed or moved from, and keeps the context
\* whose address is its key alive: EndOpenResults() calls through no dangling pointer.
Registered(o) ==
  IF o.kind = "query_result"
  THEN o.res \in alive /\ holder[o.res] = "query_result"
  ELSE holder[o.res] \in {"wrapper", "reader", "parked_wrapper"}

TrackedIsLive ==
  \A c \in Ctx : \A o \in Reachable(c) :
    Home[o.res] = c /\ Registered(o) /\ ContextAlive(c)

\* A result that holds its connection's query open is known to the glue: EndOpenResults() can reach it, or it is
\* parked after its RQueryResult untracked it, or a pool thread has untracked it and is about to close it.
Known(r) ==
  \/ \E o \in Reachable(Home[r]) : o.res = r
  \/ holder[r] = "parked_result"
  \/ pool[r] = "closing"

OpenIsKnown ==
  \A c \in Ctx : active[c] # NoRes => Home[active[c]] = c /\ Known(active[c])

\* A result says that it has ended only once all its rows are gone, and rows go to the consumer or with a read that
\* has told of an error.  The one exception is read on a pool thread and marked by EndOpenResults() as ended.
NoTruncatedEnd ==
  \A r \in Res : told[r] = "end" => left[r] = 0 \/ (r \in PoolStreams /\ invalidated[r])

\* The same of every result, without the exception.
NoTruncatedEndAnywhere ==
  \A r \in Res : told[r] = "end" => left[r] = 0

\* "A read that failed fails again": a consumer that retries does not get to the end.
NoEndPastFailure ==
  \A r \in Res : told[r] = "end" => lost[r] = 0

\* The end, the engine's error and an invalidation are final: a consumer that reads on is told the same again.  On a
\* pool thread one of the first two may come before a statement's ending is done, and becomes an invalidation.
Verdicts == {"end", "invalidated", "error"}

VerdictIsFinal ==
  [][\A r \in Res : told[r] \in Verdicts =>
       \/ told'[r] = told[r]
       \/ r \in PoolStreams /\ invalidated[r] /\ told'[r] = "invalidated"]_vars

\* R's thread never waits for a client context lock that a call below it on its own stack holds.
NoSelfWait ==
  ending \in LockedByR =>
    /\ \A o \in todo : ~IsOpen(o.res)
    /\ todo = {} => HandlerBusy

\* A reader released on a pool thread is destroyed or parked in the end: EndOpenResults(), which holds its lock
\* while it waits for the client context, and the release, which takes both in turn, do not wait for each other.
ReleaseCompletes ==
  \A r \in Res : pool[r] = "untracking" ~> pool[r] = "idle"

\* A statement that R starts is run or refused in the end.
StatementIsAnswered == ending # NoCtx ~> ending = NoCtx

-----------------------------------------------------------------------------
(***************************************************************************)
(* The inductive invariant: why the safety properties hold.                *)
(***************************************************************************)

\* R's thread: its calls are on distinct contexts, the engine runs only below a call, and EndOpenResults() keeps
\* nothing back.
StackOK ==
  /\ \A i, j \in 1..Len(stack) : stack[i].ctx = stack[j].ctx => i = j
  /\ ~atR => stack # <<>>
  /\ ending # NoCtx => atR
  /\ ending = NoCtx => todo = {}

\* Whoever holds a context's lock finds its open result as it left it: no result under a statement, and under a
\* read the result that is read, by its one reader.
LocksHold ==
  /\ \A i \in 1..Len(stack) : stack[i].kind = "statement" =>
       stack[i].res = NoRes /\ active[stack[i].ctx] = NoRes
  /\ \A i \in 1..Len(stack) : stack[i].kind = "read" =>
       /\ stack[i].res \in Res /\ stack[i].ctx = Home[stack[i].res]
       /\ active[stack[i].ctx] = stack[i].res
       /\ \/ holder[stack[i].res] = "wrapper"
          \/ holder[stack[i].res] = "reader" /\ stack[i].res \notin PoolStreams
  /\ \A r \in Res : pool[r] = "fetching" => active[Home[r]] = r
  /\ LockedByR \cap LockedByPool = {}

\* Who owns what, on which thread.
OwnersOK ==
  /\ \A r \in Res : holder[r] \in {"query_result", "wrapper"} => r \in alive
  /\ \A r \in Res : holder[r] = "none" =>
       /\ r \notin alive \cup streamed
       /\ left[r] = 0 /\ told[r] = "nothing"
       /\ ~invalidated[r] /\ ~finished[r] /\ ~failed[r]
  /\ \A r \in Res : pool[r] # "idle" => holder[r] = "reader" /\ r \in PoolStreams
  /\ \A r \in Res : pool[r] \in PoolReads => r \in streamed
  /\ \A r \in Res : pool[r] = "closing" => \A c \in Ctx : \A o \in Reachable(c) : o.res # r

\* The object that EndOpenResults() has to end for r, by who owns r.
Tracker(r) == IF holder[r] = "query_result" THEN QueryResultOf(r) ELSE SourceOf(r)

\* An open result is streamed, of this connection, not given up, known, and marked only as it is being ended.
OpenOK ==
  \A c \in Ctx : active[c] # NoRes =>
    /\ Home[active[c]] = c /\ active[c] \in streamed
    /\ holder[active[c]] \notin {"none", "gone"}
    /\ ~failed[active[c]] /\ ~finished[active[c]]
    /\ invalidated[active[c]] => \E o \in marked : o.res = active[c]
    /\ \/ holder[active[c]] = "parked_result"
       \/ pool[active[c]] = "closing"
       \/ Tracker(active[c]) \in Reachable(c)

\* A result ends without an invalidation or an error only by handing out every row.
EndsEmpty ==
  \A r \in Res : ~invalidated[r] /\ ~failed[r] =>
    /\ finished[r] => left[r] = 0
    /\ r \in streamed /\ ~IsOpen(r) /\ holder[r] \in {"query_result", "wrapper", "reader"} => left[r] = 0
    /\ told[r] = "end" => left[r] = 0

\* What is under way: one turn of EndOpenResults()' loop, of a result that only a pool thread can have read to its
\* end meanwhile; and batches of rows that have not left their results.
UnderWay ==
  /\ found = {} \/ marked = {}
  /\ \A o \in found : o.res \in PoolStreams \/ Ends(o)
  /\ \A o \in marked : invalidated[o.res]
  /\ \A r \in Res : have[r] <= left[r] /\ (pool[r] \notin PoolReads => have[r] = 0)

\* What R's thread reads ends whole even then.
WholeForR ==
  \A r \in Res \ PoolStreams : told[r] = "end" => left[r] = 0

IInv ==
  TypeOK /\ StackOK /\ LocksHold /\ OwnersOK /\ TrackedIsLive /\ OpenOK /\ EndsEmpty /\ WholeForR /\ UnderWay

-----------------------------------------------------------------------------
\* The abstract specification: what every result promises its consumer, whatever ends and owns it.
Delivery == INSTANCE ResultDelivery WITH
  Ahead <- PoolStreams,
  made <- {r \in Res : holder[r] # "none"},
  rest <- left, dropped <- lost, answer <- told, holds <- active,
  ended <- {r \in Res : invalidated[r]},
  underway <- {r \in Res : pool[r] \in PoolReads}

\* Every row and then the end, or one other verdict that stays, but for rows that a read drops as it tells of its
\* failure; less for what is read on a pool thread, but only of the one read that a statement's ending overtakes.
ImplementsDelivery == Delivery!Spec

=============================================================================
