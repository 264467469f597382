----------------------------- MODULE DbiResults -----------------------------
(***************************************************************************)
(* The DBI results of one connection: sent, bound, fetched and cleared.    *)
(* src/R/Result.R and the methods of duckdb_result and duckdb_result_arrow *)
(* in src/R/dbBind*, dbFetch*, dbHasCompleted* and dbClearResult*, with    *)
(* rapi_bind() and rapi_execute_impl() of src/src/statement.cpp.           *)
(*                                                                         *)
(* Three classes answer a reader.  A "frame" result holds its rows in R    *)
(* and a position in them; an "arrow" result holds one query result per    *)
(* row bound, the first being read and the others pending; a "legacy" one  *)
(* (dbSendQuery(arrow = TRUE)) keeps its query result and scans it whole   *)
(* at each fetch.  A bind starts over: it drops what the result held       *)
(* before it looks at the parameters, and may fail at any row.  A          *)
(* statement ends the connection's streamed query result, whoever reads    *)
(* it.  A read may fail: for good, when the engine says so, or with the    *)
(* rows of its batch alone, and the next read goes on behind them.         *)
(*                                                                         *)
(* A row is the turn of the bind it answers, which alternates, the         *)
(* execution it comes from and its number there.  What the reader of a     *)
(* stream that was handed over does is ArrowResults's.                     *)
(*                                                                         *)
(* AlwaysStreams, KeepsPosition, KeepsRows, FirstOnly and NeverAtEnd are   *)
(* faulty twins of the definition that follows each.  No action uses one;  *)
(* the mutation checks do.                                                 *)
(***************************************************************************)
EXTENDS Integers, SequencesExt

CONSTANTS
  Result,       \* R's result objects
  Kind,         \* what is sent for a result: records of class, statement type and whether it takes parameters
  MaxBound,     \* bound: rows of parameters in a bind
  MaxRows,      \* bound: rows of an execution, and of a fetch
  None

ASSUME DbiAssumption ==
  /\ MaxBound \in Nat \ {0} /\ MaxRows \in Nat \ {0}
  /\ \A r \in Result :
       Kind[r] \subseteq [class : {"frame", "arrow", "legacy"}, params : BOOLEAN,
                          type : {"SELECT", "RETURNING", "COUNT", "EXPLAIN"}]

VARIABLES
  kind,         \* result -> its kind; None before it is sent
  open,         \* env$open
  resultset,    \* env$resultset: rows, None for NULL
  fetched,      \* env$rows_fetched
  current,      \* env$query_result, or the slot of a legacy result
  pending,      \* env$pending_query_results
  completed,    \* env$completed
  turn,         \* the turn of the result's last bind
  answer,       \* the rows it was answered with
  gone,         \* those that have left the result, in that order
  lost          \* those of them that no reader has received: a read failed over them

sent   == <<kind, open>>
frames == <<resultset, fetched>>
arrows == <<current, pending, completed>>
ghosts == <<turn, answer, gone, lost>>
vars   == <<sent, frames, arrows, ghosts>>

-----------------------------------------------------------------------------
Row == {0, 1} \X (1..MaxBound) \X (1..MaxRows)

\* A query result: the rows left in it, and whether they are collected (retained), the connection's open query
\* (streaming), cut by another statement (ended) or by an error (failed), a reader's (handed) or over.
States == {"retained", "streaming", "ended", "failed", "handed", "over"}
QueryResult == [left : Seq(Row), state : States]

\* NULL is no kind of result, no rows and no query result.
ASSUME NoneAssumption ==
  /\ \A r \in Result : None \notin Kind[r]
  /\ None \notin Seq(Row) /\ None \notin QueryResult

Held(r) == IF current[r] = None THEN <<>> ELSE <<current[r]>> \o pending[r]

Is(r, class) == kind[r] # None /\ kind[r].class = class
TakesRows(r) == kind[r].type \in {"SELECT", "RETURNING"}
Ready(r)     == kind[r] # None /\ open[r]
Cut(q)       == q.state \in {"ended", "failed"}

LeftOf(qs) == FlattenSeq([i \in DOMAIN qs |-> qs[i].left])

\* What the result has yet to hand out.
Rest(r) ==
  IF Is(r, "arrow") THEN LeftOf(Held(r))
  ELSE IF resultset[r] = None THEN <<>> ELSE SubSeq(resultset[r], fetched[r] + 1, Len(resultset[r]))

HasCompleted(r) ==
  IF Is(r, "arrow") THEN completed[r]
  ELSE resultset[r] # None /\ (kind[r].type = "SELECT" => fetched[r] = Len(resultset[r]))

Init ==
  /\ kind = [r \in Result |-> None]
  /\ open = [r \in Result |-> FALSE]
  /\ resultset = [r \in Result |-> None]
  /\ fetched = [r \in Result |-> 0]
  /\ current = [r \in Result |-> None]
  /\ pending = [r \in Result |-> <<>>]
  /\ completed = [r \in Result |-> FALSE]
  /\ turn = [r \in Result |-> 0]
  /\ answer = [r \in Result |-> <<>>]
  /\ gone = [r \in Result |-> <<>>]
  /\ lost = [r \in Result |-> {}]

-----------------------------------------------------------------------------
(***************************************************************************)
(* Executions.                                                             *)
(***************************************************************************)

\* rapi_bind() streams the one row of an Arrow bind only: each execution ends the query of the one before it.
\* A SELECT streams (StreamsByDefault()); what else runs is completed.
AlwaysStreams(k, n) == k.class = "arrow" /\ k.type = "SELECT"
Streams(k, n) == k.class = "arrow" /\ k.type = "SELECT" /\ n = 1

\* EndOpenResults(): what streams is ended for the statement about to run.
Ended(q) == IF q # None /\ q.state = "streaming" THEN [q EXCEPT !.state = "ended"] ELSE q

AfterStatement == [r \in Result |-> Ended(current[r])]

\* The rows that executions of this many rows each answer a bind of this turn with, execution by execution.
RowsOf(t, counts, i) == [j \in 1..counts[i] |-> <<t, i, j>>]
AllRows(t, counts) == FlattenSeq([i \in DOMAIN counts |-> RowsOf(t, counts, i)])

\* Their query results, once the last of them has run.
Executed(k, t, counts) ==
  [i \in DOMAIN counts |->
     [left  |-> RowsOf(t, counts, i),
      state |-> IF ~Streams(k, Len(counts)) THEN "retained" ELSE IF i = Len(counts) THEN "streaming" ELSE "ended"]]

\* Every execution succeeds: duckdb_post_execute() stores the frames bound together, an Arrow result takes the
\* first query result and leaves the others pending.
Answered(r, k, counts) ==
  LET rows   == AllRows(turn'[r], counts)
      qs     == Executed(k, turn'[r], counts)
      others == IF counts = <<>> THEN current ELSE AfterStatement
  IN /\ answer' = [answer EXCEPT ![r] = rows]
     /\ gone' = [gone EXCEPT ![r] = <<>>]
     /\ lost' = [lost EXCEPT ![r] = {}]
     /\ IF k.class = "frame"
        THEN /\ resultset' = [resultset EXCEPT ![r] = rows]
             /\ current' = others
             /\ UNCHANGED <<pending, completed>>
        ELSE /\ current' = [others EXCEPT ![r] = IF qs = <<>> THEN None ELSE Head(qs)]
             /\ pending' = [pending EXCEPT ![r] = IF qs = <<>> THEN <<>> ELSE Tail(qs)]
             /\ completed' = [completed EXCEPT ![r] = qs = <<>>]
             /\ UNCHANGED resultset

Counts(n) == [1..n -> 0..MaxRows]

\* Preparing is a statement of its own; one without parameters runs as it is sent.
Send(r, k) ==
  /\ kind[r] = None
  /\ kind' = [kind EXCEPT ![r] = k]
  /\ open' = [open EXCEPT ![r] = TRUE]
  /\ UNCHANGED <<fetched, turn>>
  /\ IF k.params
     THEN /\ current' = AfterStatement
          /\ UNCHANGED <<resultset, pending, completed, answer, gone, lost>>
     ELSE \E counts \in Counts(1) : Answered(r, k, counts)

\* A statement that fails, as it is prepared or run, makes no result, but has ended the stream.
SendFails ==
  /\ current' = AfterStatement
  /\ UNCHANGED <<sent, frames, pending, completed, ghosts>>

\* dbBind() reads from the first row again.
KeepsPosition(r) == fetched
FromTheStart(r) == [fetched EXCEPT ![r] = 0]

\* dbBind(), and every row is executed.
Bind(r, n) ==
  /\ Ready(r) /\ kind[r].params /\ ~Is(r, "legacy")
  /\ turn' = [turn EXCEPT ![r] = 1 - @]
  /\ fetched' = FromTheStart(r)
  /\ \E counts \in Counts(n) : Answered(r, kind[r], counts)
  /\ UNCHANGED sent

\* dbBind() lets go of the rows before it looks at the parameters: an empty frame, or no query result.
KeepsRows(r) == resultset
Dropped(r) == [resultset EXCEPT ![r] = <<>>]

StartsOver(r, others) ==
  /\ Ready(r)
  /\ turn' = [turn EXCEPT ![r] = 1 - @]
  /\ answer' = [answer EXCEPT ![r] = <<>>]
  /\ gone' = [gone EXCEPT ![r] = <<>>]
  /\ lost' = [lost EXCEPT ![r] = {}]
  /\ fetched' = FromTheStart(r)
  /\ IF Is(r, "arrow")
     THEN /\ current' = [others EXCEPT ![r] = None]
          /\ pending' = [pending EXCEPT ![r] = <<>>]
          /\ completed' = [completed EXCEPT ![r] = FALSE]
          /\ UNCHANGED resultset
     ELSE /\ resultset' = Dropped(r)
          /\ current' = others
          /\ UNCHANGED <<pending, completed>>
  /\ UNCHANGED sent

\* The parameters are refused: named, of the wrong number or lengths, or for a statement that takes none.
BindRefused(r) == StartsOver(r, current)

\* A row fails: the rows executed before it have run, and their results are lost.  So is that of a legacy result's
\* one row when it succeeds: nothing takes the query result it answers with.
RunsForNothing(r) == Ready(r) /\ kind[r].params /\ StartsOver(r, AfterStatement)

-----------------------------------------------------------------------------
(***************************************************************************)
(* Reading.                                                                *)
(***************************************************************************)

\* dbFetch(n) of a frame: the next n rows, or what is left.  An EXPLAIN answers whole each time, and a statement
\* that returns a count with a warning and no rows.
Fetch(r, n) ==
  LET k == IF n < Len(Rest(r)) THEN n ELSE Len(Rest(r)) IN
  /\ Ready(r) /\ Is(r, "frame") /\ TakesRows(r)
  /\ resultset[r] # None
  /\ fetched' = [fetched EXCEPT ![r] = @ + k]
  /\ gone' = [gone EXCEPT ![r] = @ \o SubSeq(Rest(r), 1, k)]
  /\ UNCHANGED <<sent, resultset, arrows, turn, answer, lost>>

\* dbFetchArrowChunk() reads the first query result that is not drained, or else the last.
FirstOnly(qs) == 1
Source(qs) ==
  LET more == {i \in DOMAIN qs : qs[i].left # <<>> \/ Cut(qs[i])}
  IN IF more = {} THEN Len(qs) ELSE CHOOSE i \in more : \A j \in more : i <= j

\* A batch of n rows: one shorter than asked for has seen the end of the query.
AfterBatch(q, n) == [q EXCEPT !.left = SubSeq(@, n + 1, Len(@)), !.state = IF Len(q.left) < n THEN "over" ELSE @]

\* The end was read where the engine had no row: env$completed.
NeverAtEnd(q) == FALSE
AtEnd(q) == q.left = <<>>

Reads(r) == Ready(r) /\ Is(r, "arrow") /\ ~completed[r] /\ current[r] # None

\* The next batch of at most n rows, or the empty batch that says there are none.  What was drained on the way is
\* let go of.
FetchChunk(r, n) ==
  LET qs == Held(r)
      i  == Source(qs)
      q  == qs[i]
  IN /\ Reads(r) /\ ~Cut(q)
     /\ gone' = [gone EXCEPT ![r] = @ \o SubSeq(q.left, 1, IF n < Len(q.left) THEN n ELSE Len(q.left))]
     /\ current' = [current EXCEPT ![r] = AfterBatch(q, n)]
     /\ pending' = [pending EXCEPT ![r] = SubSeq(qs, i + 1, Len(qs))]
     /\ completed' = [completed EXCEPT ![r] = AtEnd(q)]
     /\ UNCHANGED <<sent, frames, turn, answer, lost>>

\* A read of what is held fails at its i-th query result, k rows into it: nobody gets what it has read so far, and
\* what is left of that query result is read next.
FailsAt(r, i, k, state) ==
  LET qs   == Held(r)
      read == LeftOf(SubSeq(qs, 1, i - 1)) \o SubSeq(qs[i].left, 1, k)
  IN /\ gone' = [gone EXCEPT ![r] = @ \o read]
     /\ lost' = [lost EXCEPT ![r] = @ \cup ToSet(read)]
     /\ current' = [current EXCEPT ![r] = [left |-> SubSeq(qs[i].left, k + 1, Len(qs[i].left)), state |-> state]]
     /\ pending' = [pending EXCEPT ![r] = SubSeq(qs, i + 1, Len(qs))]
     /\ UNCHANGED <<sent, frames, completed, turn, answer>>

\* What a read of n rows that fails k rows in leaves of a query result.  The appender's exceptions are forgotten
\* (FetchArray()); one that comes as the batch is finished may follow the end.  The engine's error on a stream is
\* kept (Fail()).
AfterFailure(q, n, k) ==
  {IF 0 < k /\ k < n /\ k = Len(q.left) THEN "over" ELSE q.state}
    \cup (IF q.state = "streaming" /\ k < n THEN {"failed"} ELSE {})

\* dbFetchArrowChunk() fails where it would read, or at a drained query result on the way there.
ChunkFails(r, n) ==
  LET qs == Held(r) IN
  /\ Reads(r)
  /\ \E i \in 1..Source(qs) : \E k \in 0..Len(qs[i].left) :
       /\ ~Cut(qs[i]) /\ k <= n
       /\ \E state \in AfterFailure(qs[i], n, k) : FailsAt(r, i, k, state)

\* dbFetchArrow() of one execution hands its stream over, with what is left in it.
HandOver(r) ==
  /\ Reads(r) /\ pending[r] = <<>>
  /\ current' = [current EXCEPT ![r].state = "handed"]
  /\ completed' = [completed EXCEPT ![r] = TRUE]
  /\ UNCHANGED <<sent, frames, pending, ghosts>>

\* dbFetchArrow() of several reads chunk after chunk to the end.
DrainAll(r) ==
  LET qs == Held(r) IN
  /\ Reads(r) /\ pending[r] # <<>>
  /\ \A i \in DOMAIN qs : ~Cut(qs[i])
  /\ gone' = [gone EXCEPT ![r] = @ \o Rest(r)]
  /\ current' = [current EXCEPT ![r] = [left |-> <<>>, state |-> "over"]]
  /\ pending' = [pending EXCEPT ![r] = <<>>]
  /\ completed' = [completed EXCEPT ![r] = TRUE]
  /\ UNCHANGED <<sent, frames, turn, answer, lost>>

\* It fails, or is interrupted, on the way: the chunks it has read are lost with it, and the next read goes on
\* behind them.
DrainFails(r) ==
  LET qs == Held(r) IN
  /\ Reads(r) /\ pending[r] # <<>>
  /\ \E i \in DOMAIN qs : \E k \in 0..Len(qs[i].left) : FailsAt(r, i, k, qs[i].state)

-----------------------------------------------------------------------------
\* dbClearResult() closes the result, and of an Arrow one releases every query result it holds; a stream handed over
\* keeps its own, and the query result of a legacy one is the garbage collector's.
Clear(r) ==
  /\ Ready(r)
  /\ open' = [open EXCEPT ![r] = FALSE]
  /\ IF Is(r, "arrow")
     THEN /\ current' = [current EXCEPT ![r] = None]
          /\ pending' = [pending EXCEPT ![r] = <<>>]
     ELSE UNCHANGED <<current, pending>>
  /\ UNCHANGED <<kind, frames, completed, ghosts>>

Reading(r) == \E n \in 1..MaxRows : Fetch(r, n) \/ FetchChunk(r, n)

Next ==
  \/ SendFails
  \/ \E r \in Result :
       \/ \E k \in Kind[r] : Send(r, k)
       \/ \E n \in 0..MaxBound : Bind(r, n)
       \/ BindRefused(r) \/ RunsForNothing(r)
       \/ \E n \in 1..MaxRows : Fetch(r, n) \/ FetchChunk(r, n) \/ ChunkFails(r, n)
       \/ HandOver(r) \/ DrainAll(r) \/ DrainFails(r)
       \/ Clear(r)

Spec == Init /\ [][Next]_vars

\* A reader fetches until the result says it has completed.
FairSpec == Spec /\ \A r \in Result : WF_vars(Reading(r))

-----------------------------------------------------------------------------
(***************************************************************************)
(* Properties.                                                             *)
(***************************************************************************)

\* Positions stay within the rows there are, and what is pending is pending behind a current query result.
TypeOK ==
  /\ \A r \in Result : kind[r] \in Kind[r] \cup {None}
  /\ open \in [Result -> BOOLEAN]
  /\ completed \in [Result -> BOOLEAN] /\ turn \in [Result -> {0, 1}]
  /\ answer \in [Result -> Seq(Row)] /\ gone \in [Result -> Seq(Row)] /\ lost \in [Result -> SUBSET Row]
  /\ \A r \in Result :
       /\ resultset[r] \in {None} \cup Seq(Row)
       /\ fetched[r] \in 0..(IF resultset[r] = None THEN 0 ELSE Len(resultset[r]))
       /\ current[r] \in {None} \cup QueryResult
       /\ pending[r] \in Seq(QueryResult) /\ (current[r] = None => pending[r] = <<>>)

Positioned(r) == Is(r, "arrow") \/ (Is(r, "frame") /\ TakesRows(r))

\* dbFetch(), dbFetchArrow() and dbFetchArrowChunk() hand out the rows of the last bind, each once and in order:
\* what has left the result and what it has left are that answer, and a row it has left is not one that a read lost,
\* however fetches, reads that fail, binds that fail, other statements and handing over interleave.  After a bind
\* that failed there is none (R/dbBind__duckdb_result.R).
AnswerAccounted ==
  \A r \in Result : Ready(r) /\ Positioned(r) =>
    gone[r] \o Rest(r) = answer[r] /\ lost[r] \subseteq ToSet(gone[r])

\* dbHasCompleted() is TRUE only when every row has left a SELECT's or an Arrow result, to R or with a read that
\* told of an error, or its stream was handed over: not while a row is pending in another execution of the bind, and
\* never for a stream that was cut short.
CompletedTellsAll ==
  \A r \in Result :
    /\ Ready(r) /\ Positioned(r) /\ HasCompleted(r)
    /\ Is(r, "arrow") \/ kind[r].type = "SELECT"
    => \/ gone[r] = answer[r]
       \/ current[r] # None /\ current[r].state = "handed"

\* The results of a bind of several rows outlive one another and the statements that come between reads: a
\* statement ends a stream, and none of them is one (src/statement.cpp, rapi_bind()).
BindsKeepTheirRows ==
  \A r \in Result : pending[r] # <<>> => \A i \in DOMAIN Held(r) : ~Cut(Held(r)[i])

CutShort(r) == current[r] # None /\ Cut(current[r])
Answering(r) ==
  /\ Ready(r) /\ Positioned(r) /\ ~HasCompleted(r)
  /\ IF Is(r, "arrow") THEN current[r] # None ELSE resultset[r] # None

\* A loop that fetches until dbHasCompleted() says TRUE ends, unless the result is bound again for ever: the result
\* completes, or a read tells that it was cut short, or it is cleared.
ReadsToTheEnd ==
  \A r \in Result :
    <>[][turn'[r] = turn[r]]_vars => (Answering(r) ~> (~Answering(r) \/ CutShort(r)))
=============================================================================
