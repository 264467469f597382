------------------------------- MODULE Altrep -------------------------------
(***************************************************************************)
(* Relations handed to R as ALTREP data frames (src/src/reltoaltrep.cpp).  *)
(* A data frame runs its query when R first reads it, keeps the result     *)
(* while a column may still need it, and converts one column at a time.    *)
(* Every read runs R code: the materialize callback, R functions and the   *)
(* progress display under the query, finalizers under a conversion.  R's   *)
(* one thread therefore holds a stack of calls, and what a call finds      *)
(* depends on the calls below it: whose client context lock is held        *)
(* (scan.cpp binds a data frame under it), and whether a query of          *)
(* the session holds the interrupt handler (src/src/signal.cpp).           *)
(*                                                                         *)
(* Versions stand for the data: run n of a frame's query gives version n,  *)
(* and no two runs need agree.  A vector that is partly filled is set and  *)
(* not whole.                                                              *)
(*                                                                         *)
(* ReleasedByAny, NeverRefused, DepthHalvedAgain, DepthStays,              *)
(* ForgetsError, KeptPartial, AllButOneMarked, IsSet and ReportsIfRan are  *)
(* faulty twins of the definition that follows each; no action uses one.   *)
(***************************************************************************)
EXTENDS Naturals, Sequences, FiniteSets

CONSTANTS Conn,      \* connections, each with a client context and its lock
          Frame,     \* data frames made by rel_to_altrep()
          Home,      \* the connection of the relation a frame reads
          NCols,     \* the number of columns of a frame
          Habits,    \* what R code in a callback may do: a subset of AllHabits
          MaxRuns,   \* bound: runs of one frame's query
          MaxDepth,  \* bound: calls that R code has under way at once
          NoConn, NoFrame

\* "frame": touch the frame whose materialize callback, or whose column's conversion, is running.
\* "connection": start what needs a client context lock that a call of its own stack holds.
\* "relation": hand rel_from_df() an unread frame of the very connection.
AllHabits == {"frame", "connection", "relation"}

ASSUME HomeAssumption == Home \in [Frame -> Conn]
ASSUME ColsAssumption == NCols \in Nat /\ NCols > 0
ASSUME HabitsAssumption == Habits \subseteq AllHabits
ASSUME BoundsAssumption == MaxRuns \in Nat /\ MaxDepth \in Nat
ASSUME NoneAssumption == NoConn \notin Conn /\ NoFrame \notin Frame

Cols == 1 .. NCols

VARIABLES
  stack,   \* the calls under way on R's thread, the innermost last
  mat,     \* mat_result: the version it holds, 0 for none
  rows,    \* row_count and materialized: the version they were taken from, 0 before
  err,     \* mat_error is set
  runs,    \* how often the query ran
  vec,     \* transformed_vector of each column: its version, 0 for R_NilValue
  whole,   \* the columns whose vector has every row
  conv,    \* the columns whose `converted` flag is set
  marks,   \* transformed_columns
  deep,    \* how often max_expression_depth is doubled, per connection
  slot,    \* ScopedInterruptHandler::instance
  answer   \* what the last call returned

frameVars == <<mat, rows, err, runs, vec, whole, conv, marks>>
vars == <<stack, frameVars, deep, slot, answer>>

\* A read takes a column, or with col = 0 the row count.  A statement is dbExecute() and its like,
\* a relation is rel_from_df(): both may scan a frame.
Call == [op : {"read", "statement", "relation"}, conn : Conn, frame : Frame \cup {NoFrame},
         col : Cols \cup {0}, old : Nat, scans : SUBSET Frame,
         pc : {"callback", "bind", "run", "fill", "convert", "failed", "waiting"}]
NewCall(op, c, f, k, pc) ==
  [op |-> op, conn |-> c, frame |-> f, col |-> k, old |-> 0, scans |-> {}, pc |-> pc]

\* The call in `at` constructed the handler; Disable() takes its context away.
Free == [at |-> 0, ctx |-> NoConn, flag |-> FALSE]
Claim(i, c) == [at |-> i, ctx |-> c, flag |-> FALSE]

Top == stack[Len(stack)]
Op == IF stack = <<>> THEN "R" ELSE Top.op
Pc == IF stack = <<>> THEN "R" ELSE Top.pc
Below == SubSeq(stack, 1, Len(stack) - 1)
Step(pc) == stack' = [stack EXCEPT ![Len(stack)].pc = pc]
Push(call) == stack' = Append(stack, call)

IsActive == slot.at # 0
IsActiveFor(c) == slot.ctx = c
\* A bind and a run hold the client context lock of their connection until they end.
Locked(c) == \E i \in DOMAIN stack : stack[i].conn = c /\ stack[i].pc \in {"bind", "run"}

Init ==
  /\ stack = <<>>
  /\ mat = [f \in Frame |-> 0] /\ rows = [f \in Frame |-> 0]
  /\ err = [f \in Frame |-> FALSE] /\ runs = [f \in Frame |-> 0]
  /\ vec = [f \in Frame |-> [k \in Cols |-> 0]]
  /\ whole = [f \in Frame |-> {}] /\ conv = [f \in Frame |-> {}]
  /\ marks = [f \in Frame |-> 0]
  /\ deep = [c \in Conn |-> 0]
  /\ slot = Free
  /\ answer = "nothing"

-----------------------------------------------------------------------------
ReleasedByAny == Free
\* Only the handler that installed itself clears the slot.
Released == IF slot.at = Len(stack) THEN Free ELSE slot

\* The innermost call returns.  A bind whose touch of a column failed fails with it
\* (TouchColumnsOrThrow); R code may go on.  The handler goes with the call that constructed it.
Return(a) ==
  LET i == Len(stack) - 1 IN
  /\ stack' = IF a # "ok" /\ i > 0 /\ stack[i].pc = "bind"
              THEN [Below EXCEPT ![i].pc = "failed"] ELSE Below
  /\ slot' = Released
  /\ answer' = a

\* Where R code runs: at top level, in a callback, under a query, under a conversion.
RCode == Pc \in {"R", "callback", "run", "fill", "convert"}
MayCall == RCode /\ Len(stack) < MaxDepth

KeepsOff(f, K) ==
  \/ "frame" \in Habits
  \/ ~\E i \in DOMAIN stack : /\ stack[i].op = "read" /\ stack[i].frame = f
                              /\ \/ stack[i].pc = "callback"
                                 \/ stack[i].pc = "fill" /\ stack[i].col \in K
\* Materializing f does not wait for a lock of the stack's own: it is free, or the query that
\* holds it also holds the handler, and the materialization is refused.
StaysClear(f) ==
  \/ "connection" \in Habits
  \/ f = NoFrame
  \/ rows[f] # 0
  \/ ~Locked(Home[f]) \/ IsActiveFor(Home[f])

\* GetQueryResult() and Dataptr() up to the first R code: a stored error, a released result, a
\* pending query, a held result.
Enter(f, k) ==
  \/ /\ err[f] \/ (mat[f] = 0 /\ rows[f] # 0)
     /\ answer' = "error"
     /\ IF Pc = "bind" THEN Step("failed") ELSE UNCHANGED stack
     /\ UNCHANGED <<frameVars, deep, slot>>
  \/ /\ ~err[f] /\ mat[f] = 0 /\ rows[f] = 0
     /\ Push(NewCall("read", Home[f], f, k, "callback"))
     /\ UNCHANGED <<frameVars, deep, slot, answer>>
  \/ /\ ~err[f] /\ mat[f] # 0
     /\ Push(NewCall("read", Home[f], f, k, "fill"))
     /\ vec' = [vec EXCEPT ![f][k] = mat[f]]
     /\ whole' = [whole EXCEPT ![f] = @ \ {k}]
     /\ UNCHANGED <<mat, rows, err, runs, conv, marks, deep, slot, answer>>

\* R code reads a column that is not converted yet: Dataptr().  One that is set returns at once.
ReadColumn(f, k) ==
  /\ MayCall /\ vec[f][k] = 0
  /\ KeepsOff(f, {k}) /\ StaysClear(f)
  /\ Enter(f, k)

\* R code asks for the number of rows: RowCount().
ReadLength(f) ==
  /\ MayCall /\ rows[f] = 0
  /\ KeepsOff(f, {}) /\ StaysClear(f)
  /\ Enter(f, 0)

NeverRefused(c) == FALSE
\* The callback returned.  A query of the connection that holds the handler would wait for that
\* query's lock, and is refused; any other ends open results, takes the handler if it is free, and
\* waits for the lock of its connection.
Refused(c) == IsActiveFor(c)

RunQuery ==
  LET f == Top.frame
      c == Home[f] IN
  /\ Pc = "callback" /\ runs[f] < MaxRuns
  /\ IF Refused(c)
     THEN Return("error") /\ UNCHANGED <<frameVars, deep>>
     ELSE /\ slot' = IF IsActive THEN slot ELSE Claim(Len(stack), c)
          /\ IF Locked(c)
             THEN Step("waiting") /\ UNCHANGED <<runs, deep>>
             ELSE /\ stack' = [stack EXCEPT ![Len(stack)].pc = "run", ![Len(stack)].old = deep[c]]
                  /\ deep' = [deep EXCEPT ![c] = @ + 1]
                  /\ runs' = [runs EXCEPT ![f] = @ + 1]
          /\ UNCHANGED <<mat, rows, err, vec, whole, conv, marks, answer>>

CallbackFails ==
  /\ Pc = "callback"
  /\ Return("error")
  /\ UNCHANGED <<frameVars, deep>>

DepthStays == UNCHANGED deep
DepthHalvedAgain == deep' = [deep EXCEPT ![Top.conn] = Top.old - 1]
\* max_expression_depth goes back on every way out.
RestoreDepth == deep' = [deep EXCEPT ![Top.conn] = Top.old]

ForgetsError(f) == UNCHANGED err
StoresError(f) == err' = [err EXCEPT ![f] = TRUE]

\* Materialize() stores its error, which the frame then answers for good.  It discards the
\* handler with a flag that nobody read.
QueryFails ==
  /\ Op = "read" /\ Pc = "run"
  /\ StoresError(Top.frame)
  /\ RestoreDepth
  /\ Return("error")
  /\ UNCHANGED <<mat, rows, runs, vec, whole, conv, marks>>

\* Materialize() stores the result; an interrupt is reported, the row count returned, or the
\* column allocated.
QueryDone ==
  LET f == Top.frame
      k == Top.col
      mine == slot.at = Len(stack)
      reported == mine /\ slot.flag IN
  /\ Op = "read" /\ Pc = "run"
  /\ mat' = [mat EXCEPT ![f] = runs[f]]
  /\ rows' = [rows EXCEPT ![f] = runs[f]]
  /\ RestoreDepth
  /\ IF err[f] \/ reported \/ k = 0
     THEN Return(IF err[f] THEN "error" ELSE IF reported THEN "interrupt" ELSE "ok") /\ UNCHANGED <<vec, whole>>
     ELSE /\ Step("fill")
          /\ slot' = IF mine THEN Free ELSE slot
          /\ vec' = [vec EXCEPT ![f][k] = runs[f]]
          /\ whole' = [whole EXCEPT ![f] = @ \ {k}]
          /\ UNCHANGED answer
  /\ UNCHANGED <<err, runs, conv, marks>>

KeptPartial(f, k) == vec[f][k]
\* A conversion that throws part way drops the vector.
Dropped(f, k) == 0

FillFails ==
  LET f == Top.frame
      k == Top.col IN
  /\ Pc = "fill"
  /\ vec' = [vec EXCEPT ![f][k] = Dropped(f, k)]
  /\ Return("error")
  /\ UNCHANGED <<mat, rows, err, runs, whole, conv, marks, deep>>

AllButOneMarked(f) == marks[f] + 2 = NCols
\* The column is converted, and the result released once every column is.
AllMarked(f) == marks[f] + 1 = NCols

FillDone ==
  LET f == Top.frame
      k == Top.col IN
  /\ Pc = "fill"
  /\ whole' = [whole EXCEPT ![f] = @ \cup {k}]
  /\ conv' = [conv EXCEPT ![f] = @ \cup {k}]
  /\ marks' = [marks EXCEPT ![f] = @ + 1]
  /\ mat' = IF AllMarked(f) THEN [mat EXCEPT ![f] = 0] ELSE mat
  /\ Return("ok")
  /\ UNCHANGED <<rows, err, runs, vec, deep>>

-----------------------------------------------------------------------------
\* A statement, with or without a frame to scan.  One handler serves the session: while any call
\* has it, its constructor refuses.
Execute(c, f) ==
  /\ MayCall
  /\ IF IsActive
     THEN answer' = "error" /\ UNCHANGED <<stack, slot>>
     ELSE /\ "connection" \in Habits \/ ~Locked(c)
          /\ f # NoFrame => KeepsOff(f, Cols) /\ (Home[f] = c \/ StaysClear(f))
          /\ Push(NewCall("statement", c, f, 0, IF Locked(c) THEN "waiting" ELSE "bind"))
          /\ slot' = Claim(Len(stack) + 1, c)
          /\ UNCHANGED answer
  /\ UNCHANGED <<frameVars, deep>>

\* rel_from_df() binds its scan under the lock too, but has no handler.
RelFromDf(c, f) ==
  /\ MayCall
  /\ "connection" \in Habits \/ ~Locked(c)
  /\ "relation" \in Habits \/ (Home[f] = c => rows[f] # 0)
  /\ KeepsOff(f, Cols) /\ StaysClear(f)
  /\ Push(NewCall("relation", c, f, 0, IF Locked(c) THEN "waiting" ELSE "bind"))
  /\ UNCHANGED <<frameVars, deep, slot, answer>>

\* The scan's bind on R's thread touches each column in turn.
Untouched(f) == {k \in Cols : vec[f][k] = 0}

BindTouches ==
  LET f == Top.frame IN
  /\ Pc = "bind" /\ f # NoFrame
  /\ \E k \in Untouched(f) : (\A j \in Untouched(f) : k <= j) /\ Enter(f, k)

BindDone ==
  LET f == Top.frame IN
  /\ Pc = "bind" /\ (f # NoFrame => Untouched(f) = {})
  /\ IF Top.op = "relation"
     THEN Return("ok")
     ELSE /\ stack' = [stack EXCEPT ![Len(stack)].pc = "run",
                                    ![Len(stack)].scans = IF f = NoFrame THEN {} ELSE {f}]
          /\ UNCHANGED <<slot, answer>>
  /\ UNCHANGED <<frameVars, deep>>

BindFails ==
  /\ Pc = "bind"
  /\ Step("failed")
  /\ UNCHANGED <<frameVars, deep, slot, answer>>

IsSet(f, k) == vec[f][k] # 0
\* A task of a running statement binds a scan on an engine thread: it converts nothing, and takes
\* the columns that are in memory.
InMemory(f, k) == k \in conv[f]

TaskBinds(i, f) ==
  /\ stack[i].op = "statement" /\ stack[i].pc = "run"
  /\ \A k \in Cols : InMemory(f, k)
  /\ stack' = [stack EXCEPT ![i].scans = @ \cup {f}]
  /\ UNCHANGED <<frameVars, deep, slot, answer>>

ReportsIfRan(ok) == ok /\ slot.flag
\* The engine is done: HandleInterrupt() speaks first, then Disable() gives R its own handler
\* back, then the error or the rows are answered.
Reports(ok) == slot.flag

StatementDone(ok) ==
  /\ Op = "statement"
  /\ Pc = IF ok THEN "run" ELSE "failed"
  /\ IF Reports(ok) THEN Return("interrupt")
     ELSE IF ~ok THEN Return("error")
     ELSE Step("convert") /\ slot' = [slot EXCEPT !.ctx = NoConn] /\ UNCHANGED answer
  /\ UNCHANGED <<frameVars, deep>>

StatementFails ==
  /\ Op = "statement" /\ Pc = "run"
  /\ Step("failed")
  /\ UNCHANGED <<frameVars, deep, slot, answer>>

ConvertDone ==
  /\ Pc = "convert"
  /\ \E a \in {"ok", "error"} : Return(a)
  /\ UNCHANGED <<frameVars, deep>>

RelationFails ==
  /\ Op = "relation" /\ Pc = "failed"
  /\ Return("error")
  /\ UNCHANGED <<frameVars, deep>>

\* SIGINT while a handler has a context.
Interrupt ==
  /\ slot.ctx # NoConn /\ ~slot.flag
  /\ slot' = [slot EXCEPT !.flag = TRUE]
  /\ UNCHANGED <<stack, frameVars, deep, answer>>

Next ==
  \/ \E f \in Frame : ReadLength(f) \/ \E k \in Cols : ReadColumn(f, k)
  \/ RunQuery \/ CallbackFails \/ QueryFails \/ QueryDone \/ FillFails \/ FillDone
  \/ \E c \in Conn : \E f \in Frame : RelFromDf(c, f)
  \/ \E c \in Conn : \E f \in Frame \cup {NoFrame} : Execute(c, f)
  \/ BindTouches \/ BindDone \/ BindFails \/ RelationFails
  \/ \E i \in DOMAIN stack : \E f \in Frame : TaskBinds(i, f)
  \/ \E ok \in BOOLEAN : StatementDone(ok)
  \/ StatementFails \/ ConvertDone \/ Interrupt

Spec == Init /\ [][Next]_vars

-----------------------------------------------------------------------------
TypeOK ==
  /\ stack \in Seq(Call)
  /\ mat \in [Frame -> 0 .. MaxRuns] /\ rows \in [Frame -> 0 .. MaxRuns]
  /\ err \in [Frame -> BOOLEAN] /\ runs \in [Frame -> 0 .. MaxRuns]
  /\ vec \in [Frame -> [Cols -> 0 .. MaxRuns]]
  /\ whole \in [Frame -> SUBSET Cols] /\ conv \in [Frame -> SUBSET Cols]
  /\ marks \in [Frame -> Nat]
  /\ deep \in [Conn -> Nat]
  /\ slot \in [at : Nat, ctx : Conn \cup {NoConn}, flag : BOOLEAN]
  /\ answer \in {"nothing", "ok", "error", "interrupt"}

\* A result is held exactly while a column may still need it: a frame with an unconverted column
\* can convert it, and one whose columns are all R vectors keeps nothing in the engine.
HeldWhileNeeded ==
  \A f \in Frame : rows[f] # 0 => (mat[f] # 0 <=> \E k \in Cols : k \notin conv[f])

\* A relation is executed at most once, whatever fails, is interrupted or nests: reading a data frame
\* again never repeats what its query does.
RunsOnce == \A f \in Frame : runs[f] <= 1

\* A running statement reads only complete columns, whether R's thread or a task of the engine
\* bound its scan, and whatever conversions run above and below it.
ScansWhole ==
  \A i \in DOMAIN stack : stack[i].pc = "run" =>
    \A f \in stack[i].scans : whole[f] = Cols

\* Who holds the interrupt handler: a call under way, whose own connection it interrupts until the
\* result is converted.  Every statement holds it itself, and no query runs while the slot is free.
HandlerScoped ==
  /\ IsActive =>
       /\ slot.at \in DOMAIN stack
       /\ LET owner == stack[slot.at] IN
            /\ \/ owner.op = "statement"
               \/ owner.op = "read" /\ owner.pc \in {"run", "waiting"}
            /\ slot.ctx = IF owner.pc = "convert" THEN NoConn ELSE owner.conn
  /\ ~IsActive => slot = Free
  /\ \A i \in DOMAIN stack :
       /\ stack[i].op = "statement" => slot.at = i
       /\ stack[i].pc = "run" => slot.at \in 1 .. i

\* max_expression_depth is doubled by the materializations under way and by nothing else: no error,
\* interrupt or nested call leaves it raised.
Deepening(c) == {i \in DOMAIN stack : stack[i].op = "read" /\ stack[i].conn = c /\ stack[i].pc = "run"}
DepthScoped == \A c \in Conn : deep[c] = Cardinality(Deepening(c))

\* No call waits for a client context lock that its own stack holds.
NoSelfWait == Pc # "waiting"

\* A query whose handler saw SIGINT ends with the interrupt, also when the query failed of it. The
\* exception is a materialization: the frame keeps the engine's error and answers that.
InterruptReported ==
  [][slot.flag /\ slot'.at = 0 =>
       \/ answer' = "interrupt"
       \/ stack[slot.at].op = "read" /\ err'[stack[slot.at].frame]]_vars

-----------------------------------------------------------------------------
\* The conversions of a column under way.
Filling(f, k) == {i \in DOMAIN stack : stack[i].pc = "fill" /\ stack[i].frame = f /\ stack[i].col = k}

\* What a read of a column returns without converting: a set vector, and a torn one if it is
\* neither whole nor being filled.
Torn == MaxRuns + 1
Shown(f, k) ==
  IF vec[f][k] = 0 \/ Filling(f, k) # {} THEN 0 ELSE IF k \in whole[f] THEN vec[f][k] ELSE Torn

\* The frames keep the promise of a lazy data frame.
Lazy == INSTANCE LazyFrame WITH
  Version <- 1 .. MaxRuns, data <- rows, broken <- err,
  given <- [f \in Frame |-> [k \in Cols |-> Shown(f, k)]]

ImplementsLazyFrame == Lazy!Spec

=============================================================================
