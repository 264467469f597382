---------------------------- MODULE Registration ----------------------------
(***************************************************************************)
(* One connection's transaction, the data frames registered on it, and the *)
(* calls built on both: src/register.cpp, R/register.R, dbExistsTable(),   *)
(* dbWriteTable(), dbAppendTable() and duckdb_read_csv().                  *)
(*                                                                         *)
(* A registered data frame is two things: a temporary view that holds its  *)
(* bare address, which the engine rolls back with everything else, and an  *)
(* attribute of the connection that keeps it from being collected, which   *)
(* no transaction knows of.                                                *)
(*                                                                         *)
(* A call of several statements is where it `at` is.  R has one thread, so *)
(* nothing but a garbage collection happens between its steps, but each    *)
(* statement may fail, or be interrupted, and on.exit() then cleans up.    *)
(*                                                                         *)
(* KeepsFirst, UnregisterLater, Unrelaxed, AlwaysPutBack, NotPutBack and   *)
(* LeavesOpen are faulty twins of the definition that follows each: what a *)
(* plausible bug would make of it.  No action uses one; the mutation       *)
(* checks do.                                                              *)
(***************************************************************************)
EXTENDS Integers

CONSTANTS
  Name,          \* names that R code registers data frames under
  WriteView,     \* the view of a write: its name is random, so it is always new
  Frame,         \* data frames
  NoFrame,
  Table,
  MaxFills,      \* bound: how often a table is written to
  DefaultPolicy, \* default_transaction_invalidation_policy
  Interrupts     \* whether a registration or an unregistration may be cut short

ASSUME ConstantsAssumption ==
  /\ WriteView \notin Name /\ NoFrame \notin Frame /\ Table # {}
  /\ MaxFills \in Nat \ {0} /\ DefaultPolicy \in {"strict", "lenient"} /\ Interrupts \in BOOLEAN

VARIABLES
  view,      \* the data frame whose address a view holds, as this connection sees it
  rows,      \* how often a table was written to, or Absent
  saved,     \* both, as they were when the transaction began that is open
  txn,       \* "none", "open", or "failed" and refusing everything but its end
  policy,    \* which errors abort the transaction
  own,       \* history: the policy the transaction was begun with or R code has set since
  kept,      \* the data frame that the connection's attribute for a name keeps
  live,      \* data frames not collected
  held,      \* data frames that R code reaches by itself
  at,        \* the step a call is at
  arg,       \* what it was called with
  found,     \* what its last probe answered
  second,    \* whether dbWriteTable() asks for the second time
  previous,  \* the policy that the probe puts back, or "none"
  touched,   \* history: names (un)registered in the open transaction
  undone     \* history: names whose last (un)registration was cut short or rolled back

engineVars == <<view, rows, saved, txn>>
policyVars == <<policy, own>>
frames     == <<live, held>>
callVars   == <<at, arg, found, second, previous>>
history    == <<touched, undone>>
vars       == <<view, rows, saved, txn, policy, own, kept, live, held, at, arg, found, second, previous, touched,
                undone>>

View     == Name \cup {WriteView}
Absent   == -1
Policies == {"strict", "lenient"}

Calls == [call : {"exists", "write", "append", "csv"}, table : Table, frame : Frame \cup {NoFrame},
          overwrite : BOOLEAN, append : BOOLEAN, begins : BOOLEAN, before : [Table -> {Absent} \cup 0..MaxFills]]

Steps == {"idle", "ask", "look", "answer", "remove", "fields", "register", "fill", "unregister",
          "begin", "create", "copy", "commit", "exit"}

NoCall == [call |-> "exists", table |-> CHOOSE t \in Table : TRUE, frame |-> NoFrame, overwrite |-> FALSE,
           append |-> FALSE, begins |-> FALSE, before |-> [t \in Table |-> Absent]]

Idle == at = "idle"

Empty == [view |-> [n \in View |-> NoFrame], rows |-> [t \in Table |-> Absent]]

-----------------------------------------------------------------------------
(***************************************************************************)
(* The engine: a statement in a transaction, or in one of its own.         *)
(***************************************************************************)

\* "name": a catalog, binder or parser error; "other": an interrupt, an I/O error and the rest; "early": R code
\* or the glue raises, and the engine hears nothing of it.
EngineErrors == {"name", "other"}
Errors == EngineErrors \cup {"early"}

Invalidates(error) == error = "other" \/ (error = "name" /\ policy = "strict")

\* A statement is refused or fails.  In a transaction of its own that leaves nothing.
StatementFails(error) ==
  /\ txn' = IF txn = "open" /\ Invalidates(error) THEN "failed" ELSE txn
  /\ UNCHANGED <<view, rows, saved>>

ViewBecomes(n, f) ==
  /\ txn # "failed"
  /\ view' = [view EXCEPT ![n] = f]
  /\ UNCHANGED <<rows, saved, txn>>

TableBecomes(t, count) ==
  /\ txn # "failed"
  /\ rows' = [rows EXCEPT ![t] = count]
  /\ UNCHANGED <<view, saved, txn>>

Reads == txn # "failed" /\ UNCHANGED engineVars

Touch(n) == touched' = IF txn = "open" THEN touched \cup {n} ELSE touched

\* BEGIN, outside of a transaction.
Begins ==
  /\ txn' = "open"
  /\ saved' = [view |-> view, rows |-> rows]
  /\ policy' = DefaultPolicy /\ own' = DefaultPolicy
  /\ UNCHANGED <<view, rows>>

Commits ==
  /\ txn = "open" /\ txn' = "none"
  /\ saved' = Empty /\ touched' = {}
  /\ UNCHANGED <<view, rows, undone>>

\* ROLLBACK, and COMMIT of a failed transaction.  What is undone matters for the views that it leaves.
RollsBack ==
  /\ txn # "none" /\ txn' = "none"
  /\ view' = saved.view /\ rows' = saved.rows
  /\ saved' = Empty /\ touched' = {}
  /\ undone' = {n \in undone \cup touched : saved.view[n] # NoFrame}

-----------------------------------------------------------------------------
(***************************************************************************)
(* rapi_register_df() and rapi_unregister_df().  `ok` is whether R is told *)
(* of an error; an interrupt is reported once the statement has run.       *)
(***************************************************************************)

\* What the attribute keeps when the view could not be created.
KeepsFirst(n, f) == [kept EXCEPT ![n] = f]
KeptAfterRefusal(n, f) == kept

Registers(n, f, overwrite, ok) ==
  \/ /\ view[n] = NoFrame \/ overwrite
     /\ ViewBecomes(n, f) /\ Touch(n)
     /\ \/ ok /\ kept' = [kept EXCEPT ![n] = f] /\ undone' = undone \ {n}
        \/ ~ok /\ Interrupts /\ undone' = undone \cup {n} /\ UNCHANGED kept
  \/ /\ ~ok
     /\ \E error \in Errors : StatementFails(error)
     /\ kept' = KeptAfterRefusal(n, f)
     /\ UNCHANGED history

\* The attribute goes first, whatever comes of DROP VIEW.
UnregisterLater(n) == kept
KeptWhenDropFails(n) == [kept EXCEPT ![n] = NoFrame]

Unregisters(n, ok) ==
  \/ /\ ViewBecomes(n, NoFrame) /\ Touch(n)
     /\ kept' = [kept EXCEPT ![n] = NoFrame]
     /\ undone' = undone \ {n}
  \/ /\ ~ok /\ (Interrupts \/ txn = "failed")
     /\ \E error \in EngineErrors : StatementFails(error)
     /\ kept' = KeptWhenDropFails(n)
     /\ undone' = IF view[n] = NoFrame THEN undone ELSE undone \cup {n}
     /\ UNCHANGED touched

-----------------------------------------------------------------------------
Init ==
  /\ view = Empty.view /\ rows = Empty.rows /\ saved = Empty
  /\ txn = "none" /\ policy = DefaultPolicy /\ own = DefaultPolicy
  /\ kept = [n \in View |-> NoFrame] /\ live = Frame /\ held = Frame
  /\ at = "idle" /\ arg = NoCall /\ found = "no" /\ second = FALSE /\ previous = "none"
  /\ touched = {} /\ undone = {}

-----------------------------------------------------------------------------
(***************************************************************************)
(* What R code does between the calls.                                     *)
(***************************************************************************)

\* dbBegin(), in a transaction an error like any other.
Begin ==
  /\ Idle
  /\ \/ txn = "none" /\ Begins
     \/ txn # "none" /\ StatementFails("other") /\ UNCHANGED policyVars
  /\ UNCHANGED <<kept, frames, callVars, history>>

\* dbCommit(); a commit that fails is rolled back.
Commit ==
  /\ Idle /\ (Commits \/ RollsBack)
  /\ UNCHANGED <<policyVars, kept, frames, callVars>>

Rollback ==
  /\ Idle /\ RollsBack
  /\ UNCHANGED <<policyVars, kept, frames, callVars>>

\* A statement of the user that fails in a transaction.
UserError ==
  /\ Idle /\ txn = "open" /\ \E error \in Errors : StatementFails(error)
  /\ UNCHANGED <<policyVars, kept, frames, callVars, history>>

\* SET current_transaction_invalidation_policy.
SetPolicy(p) ==
  /\ Idle /\ txn = "open"
  /\ policy' = p /\ own' = p
  /\ UNCHANGED <<engineVars, kept, frames, callVars, history>>

Register(n, f, overwrite, ok) ==
  /\ Idle /\ f \in held /\ Registers(n, f, overwrite, ok)
  /\ UNCHANGED <<policyVars, frames, callVars>>

Unregister(n, ok) ==
  /\ Idle /\ Unregisters(n, ok)
  /\ UNCHANGED <<policyVars, frames, callVars>>

DropFrame(f) ==
  /\ f \in held /\ held' = held \ {f}
  /\ UNCHANGED <<engineVars, policyVars, kept, live, callVars, history>>

\* R's garbage collector, at any time.
Collect(f) ==
  /\ f \in live \ held /\ \A n \in View : kept[n] # f
  /\ ~Idle => arg.frame # f
  /\ live' = live \ {f}
  /\ UNCHANGED <<engineVars, policyVars, kept, held, callVars, history>>

\* A data frame that no view has the address of, in place of one collected.
NewFrame(f) ==
  /\ f \notin live /\ \A n \in View : view[n] # f /\ saved.view[n] # f
  /\ live' = live \cup {f} /\ held' = held \cup {f}
  /\ UNCHANGED <<engineVars, policyVars, kept, callVars, history>>

-----------------------------------------------------------------------------
(***************************************************************************)
(* The steps of a call.                                                    *)
(***************************************************************************)

\* A call that is over is forgotten.
Goes(from, to) ==
  /\ at = from /\ at' = to
  /\ IF to = "idle"
     THEN arg' = NoCall /\ found' = "no" /\ second' = FALSE /\ UNCHANGED previous
     ELSE UNCHANGED <<arg, found, second, previous>>

\* A step that runs a statement and leaves the rest alone.
Runs(from, to) == Goes(from, to) /\ UNCHANGED <<policyVars, kept, frames, history>>

Start(call) ==
  /\ Idle
  /\ arg' = call /\ second' = FALSE
  /\ at' = CASE call.call = "append" -> "fields"
             [] call.call = "csv" /\ call.begins -> "begin"
             [] OTHER -> "ask"
  /\ UNCHANGED <<engineVars, policyVars, kept, frames, found, previous, history>>

\* probe_table(): relaxes the policy of a transaction for the statement that looks.
Unrelaxed(p) == p
Relaxed(p)   == "lenient"

Ask ==
  /\ at = "ask" /\ at' = "look"
  /\ IF txn = "none"
     THEN previous' = "none" /\ UNCHANGED policy
     ELSE previous' = policy /\ policy' = Relaxed(policy)
  /\ UNCHANGED <<engineVars, own, kept, frames, arg, found, second, history>>

Answers == {"yes", "no", "unreadable", "raised"}

\* An error means that there is no such table, unless the transaction had failed or the probe is interrupted.
Look(answer) ==
  /\ at = "look" /\ at' = "answer"
  /\ found' = answer
  /\ \/ answer = "yes" /\ rows[arg.table] # Absent /\ Reads
     \/ answer = "no" /\ rows[arg.table] = Absent /\ txn # "failed" /\ StatementFails("name")
     \/ answer = "unreadable" /\ txn # "failed" /\ \E error \in {"other", "early"} : StatementFails(error)
     \/ answer = "raised" /\ \E error \in {"other", "early"} : StatementFails(error)
  /\ UNCHANGED <<policyVars, kept, frames, arg, second, previous, history>>

\* on.exit() of the probe.
AlwaysPutBack == previous
NotPutBack == policy
PutBack    == IF previous = "none" THEN policy ELSE previous

AfterWriteAsked ==
  CASE found = "raised"         -> "idle"
    [] found = "yes" /\ second  -> "fields"
    [] found = "yes" /\ ~second -> IF arg.overwrite THEN "remove" ELSE IF arg.append THEN "ask" ELSE "idle"
    [] OTHER                    -> IF second THEN "register" ELSE "ask"

AfterCsvAsked ==
  CASE found = "raised" -> "exit" [] found = "yes" -> "copy" [] OTHER -> "create"

Answer ==
  /\ at = "answer"
  /\ at' = CASE arg.call = "write" -> AfterWriteAsked
             [] arg.call = "csv"   -> AfterCsvAsked
             [] OTHER              -> "idle"
  /\ policy' = PutBack /\ previous' = "none"
  /\ arg' = IF at' = "idle" THEN NoCall ELSE arg
  /\ second' = (at' # "idle") /\ found' = IF at' = "idle" THEN "no" ELSE found
  /\ UNCHANGED <<engineVars, own, kept, frames, history>>

\* dbRemoveTable() of an overwriting dbWriteTable().
Remove ==
  \/ Runs("remove", "ask") /\ rows[arg.table] # Absent /\ TableBecomes(arg.table, Absent)
  \/ Runs("remove", "idle") /\ \E error \in Errors : StatementFails(error)

\* dbAppendTable(), called or reached from dbWriteTable(): the fields have to match, and there may be no rows.
Fields ==
  \/ /\ Runs("fields", "register") \/ Runs("fields", "idle")
     /\ rows[arg.table] # Absent /\ Reads
  \/ Runs("fields", "idle") /\ \E error \in Errors : StatementFails(error)

\* Whether the write made the table's rows; a view is unregistered on exit, once it may have been registered.
RegisterForWrite(ok) ==
  /\ Goes("register", IF ok THEN "fill" ELSE "unregister")
  /\ Registers(WriteView, arg.frame, TRUE, ok)
  /\ UNCHANGED <<policyVars, frames>>

\* CREATE TABLE ... AS or INSERT INTO ... SELECT from the view.
Creates == arg.call = "write" /\ found # "yes"

Fill ==
  /\ Runs("fill", "unregister")
  /\ \/ Creates /\ rows[arg.table] = Absent /\ TableBecomes(arg.table, 1)
     \/ ~Creates /\ rows[arg.table] \in 0..(MaxFills - 1) /\ TableBecomes(arg.table, rows[arg.table] + 1)
     \/ \E error \in Errors : StatementFails(error)

UnregisterOnExit(ok) ==
  /\ Goes("unregister", "idle")
  /\ Unregisters(WriteView, ok)
  /\ UNCHANGED <<policyVars, frames>>

\* duckdb_read_csv(transaction = TRUE).
CsvBegin ==
  \/ Goes("begin", "ask") /\ txn = "none" /\ Begins /\ UNCHANGED <<kept, frames, history>>
  \/ Runs("begin", "idle") /\ StatementFails("other")

CsvCreate ==
  \/ Runs("create", "copy") /\ rows[arg.table] = Absent /\ TableBecomes(arg.table, 0)
  \/ Runs("create", "exit") /\ \E error \in Errors : StatementFails(error)

\* One COPY for each file, and the count at the end.
CsvCopy ==
  \/ /\ Runs("copy", "copy") \/ Runs("copy", "commit")
     /\ rows[arg.table] \in 0..(MaxFills - 1) /\ TableBecomes(arg.table, rows[arg.table] + 1)
  \/ Runs("copy", "exit") /\ \E error \in Errors : StatementFails(error)

CsvCommit ==
  /\ \/ Goes("commit", "idle") /\ (IF arg.begins THEN Commits ELSE UNCHANGED <<engineVars, history>>)
     \/ Goes("commit", "exit") /\ arg.begins /\ RollsBack
  /\ UNCHANGED <<policyVars, kept, frames>>

\* on.exit() rolls the call's own transaction back; the error of one that is over is caught.
LeavesOpen == FALSE
RollsBackOnExit == arg.begins /\ txn # "none"

CsvExit ==
  /\ Goes("exit", "idle")
  /\ IF RollsBackOnExit THEN RollsBack ELSE UNCHANGED <<engineVars, history>>
  /\ UNCHANGED <<policyVars, kept, frames>>

-----------------------------------------------------------------------------
CallStep ==
  \/ Ask \/ Answer \/ Remove \/ Fields \/ Fill
  \/ \E answer \in Answers : Look(answer)
  \/ \E ok \in BOOLEAN : RegisterForWrite(ok) \/ UnregisterOnExit(ok)
  \/ CsvBegin \/ CsvCreate \/ CsvCopy \/ CsvCommit \/ CsvExit

Call(c, t, f, mode, begins) ==
  [call |-> c, table |-> t, frame |-> f, overwrite |-> mode = "overwrite", append |-> mode = "append",
   begins |-> begins, before |-> rows]

\* dbWriteTable() refuses to both overwrite and append.
Modes == {"create", "overwrite", "append"}

StartOf(t) ==
  \/ Start(Call("exists", t, NoFrame, "create", FALSE))
  \/ \E begins \in BOOLEAN : Start(Call("csv", t, NoFrame, "create", begins))
  \/ \E f \in held : Start(Call("append", t, f, "append", FALSE))
  \/ \E f \in held, mode \in Modes : Start(Call("write", t, f, mode, FALSE))

Next ==
  \/ Begin \/ Commit \/ Rollback \/ UserError \/ CallStep
  \/ \E p \in Policies : SetPolicy(p)
  \/ \E n \in Name, ok \in BOOLEAN :
       Unregister(n, ok) \/ \E f \in Frame, overwrite \in BOOLEAN : Register(n, f, overwrite, ok)
  \/ \E f \in Frame : DropFrame(f) \/ Collect(f) \/ NewFrame(f)
  \/ \E t \in Table : StartOf(t)

Spec == Init /\ [][Next]_vars

-----------------------------------------------------------------------------
(***************************************************************************)
(* Properties.                                                             *)
(***************************************************************************)

Frames == Frame \cup {NoFrame}
Counts == {Absent} \cup 0..MaxFills

TypeOK ==
  /\ view \in [View -> Frames] /\ rows \in [Table -> Counts]
  /\ saved \in [view : [View -> Frames], rows : [Table -> Counts]]
  /\ txn \in {"none", "open", "failed"} /\ policy \in Policies /\ own \in Policies
  /\ kept \in [View -> Frames] /\ live \subseteq Frame /\ held \subseteq live
  /\ at \in Steps /\ arg \in Calls
  /\ found \in Answers /\ second \in BOOLEAN /\ previous \in Policies \cup {"none"}
  /\ touched \subseteq View /\ undone \subseteq View

\* A write leaves nothing behind: when its call is over nothing keeps its data frame, and once a transaction it
\* failed in is over too, there is no view either, unless dropping it was cut short outside of a transaction.
WriteCleansUp ==
  Idle =>
    /\ kept[WriteView] = NoFrame
    /\ txn = "none" /\ WriteView \notin undone => view[WriteView] = NoFrame

\* dbExistsTable() relaxes the policy of an open transaction while it looks, and however that ends the
\* transaction has its own policy afterwards.
PolicyIsOwn == txn # "none" /\ at \notin {"look", "answer"} => policy = own

\* Asking for a table that does not exist leaves the open transaction usable.
ProbeSparesTransaction == [][at = "look" /\ found' = "no" => txn' = txn]_vars

\* duckdb_read_csv() in its own transaction reads every file or leaves the tables as they were.
CsvAllOrNothing == [][at = "exit" /\ at' = "idle" /\ arg.begins => txn' = "none" /\ rows' = arg.before]_vars

\* A view that a statement can bind has its data frame, whoever let go of it, unless the last registration or
\* unregistration of its name was cut short or rolled back.
ViewIsLive == \A n \in View \ undone : view[n] # NoFrame => view[n] \in live

\* The same of every view whose name has not been unregistered since, and that a statement is not refused: as the
\* documentation says, a registration keeps the data frame alive until it is unregistered.
ViewIsLiveAlways ==
  txn # "failed" => \A n \in View : view[n] # NoFrame /\ kept[n] # NoFrame => view[n] \in live

-----------------------------------------------------------------------------
(***************************************************************************)
(* The inductive invariant: why the safety properties hold.                *)
(***************************************************************************)

\* What a call was given, and what an attribute keeps, is not collected.
LiveOK ==
  /\ ~Idle => arg.frame \in live \cup {NoFrame}
  /\ \A n \in View : kept[n] # NoFrame => kept[n] \in live

\* The view and the attribute of a name agree, and so they will when the transaction is rolled back.
KeptOK ==
  /\ \A n \in View \ undone : view[n] # NoFrame => kept[n] = view[n]
  /\ txn # "none" => \A n \in View \ (undone \cup touched) : saved.view[n] = view[n]
  /\ txn = "none" => touched = {}

\* Only a write that is under way keeps its data frame.
WriteOK == at \notin {"fill", "unregister"} => kept[WriteView] = NoFrame

Probing == at \in {"look", "answer"}

\* A probe knows the policy it has to put back, and the transaction that it relaxed does not end meanwhile.
PolicyOK ==
  /\ PolicyIsOwn
  /\ ~Probing => previous = "none"
  /\ Probing /\ txn = "none" => previous = "none"
  /\ Probing /\ txn # "none" => previous = own /\ policy = "lenient"

\* The transaction that duckdb_read_csv() began has saved the tables as they were before it.
CsvOK ==
  /\ arg.begins => arg.call = "csv"
  /\ arg.call = "csv" => at \notin {"remove", "fields", "register", "fill", "unregister"}
  /\ at = "begin" => rows = arg.before
  /\ arg.begins /\ at \notin {"idle", "begin"} =>
       \/ txn # "none" /\ saved.rows = arg.before
       \/ txn = "none" /\ rows = arg.before /\ at = "exit"

IInv == TypeOK /\ LiveOK /\ KeptOK /\ WriteOK /\ PolicyOK /\ CsvOK

=============================================================================
