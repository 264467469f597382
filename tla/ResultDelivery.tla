-------------------------- MODULE ResultDelivery --------------------------
(***************************************************************************)
(* What a result of the Arrow route promises its consumer: every row, then *)
(* the end, unless the query's error or another statement on its           *)
(* connection comes first, and then that answer for good.  A read may also *)
(* fail by itself and drop the rows it had: it says so, and the next one   *)
(* goes on.  A connection has at most one open result.  Who owns the       *)
(* result and how it is ended is ArrowResults' business.  A result that is *)
(* read ahead, on another thread than the statements', is promised less:   *)
(* the one read that is under way as a statement ends the result may still *)
(* have any answer, and a verdict may be taken back for the statement.     *)
(***************************************************************************)
EXTENDS Naturals

CONSTANTS Ctx, Res, Home, NoRes,
  Ahead  \* results that are read ahead

VARIABLES
  made,       \* results that exist
  rest,       \* rows not handed out yet
  dropped,    \* rows given up by reads that failed
  answer,     \* the last answer to the consumer
  holds,      \* the open result of each connection
  ended,      \* results that another statement has ended
  underway    \* results read ahead that have a read under way

rows == <<rest, dropped>>
vars == <<made, rows, answer, holds, ended, underway>>

Init ==
  /\ made = {} /\ ended = {} /\ underway = {}
  /\ rest = [r \in Res |-> 0]
  /\ dropped = [r \in Res |-> 0]
  /\ answer = [r \in Res |-> "nothing"]
  /\ holds = [c \in Ctx |-> NoRes]

\* r holds no connection any more.
Freed(r) == holds' = [c \in Ctx |-> IF holds[c] = r THEN NoRes ELSE holds[c]]

Undecided(r) == r \in made /\ answer[r] \in {"nothing", "rows", "dropped"}

\* A read that began before r was ended has its answer, which is a.
Answers(r, a) ==
  /\ Undecided(r)
  /\ r \in ended => r \in underway
  /\ answer' = [answer EXCEPT ![r] = a]
  /\ underway' = underway \ {r}
  /\ UNCHANGED <<made, ended>>

\* A statement answers with a result; a streamed one takes a connection that is free.
Make(r) ==
  /\ r \notin made \cup ended /\ made' = made \cup {r}
  /\ rest'[r] \in Nat /\ rest' = [rest EXCEPT ![r] = rest'[r]]
  /\ \/ UNCHANGED holds
     \/ holds[Home[r]] = NoRes /\ holds' = [holds EXCEPT ![Home[r]] = r]
  /\ UNCHANGED <<dropped, answer, ended, underway>>

\* The connections of some open results become free, which have ended or which nobody reads any more.
Release(cs) ==
  /\ holds' = [c \in Ctx |-> IF c \in cs THEN NoRes ELSE holds[c]]
  /\ UNCHANGED <<made, rows, answer, ended, underway>>

\* Another statement on its connection ends a result: one that has told neither its end nor an error, unless a
\* read ahead has just done so.
EndFor(r) ==
  /\ r \in made /\ (r \in Ahead \/ answer[r] \notin {"end", "error"})
  /\ ended' = ended \cup {r}
  /\ UNCHANGED <<made, rows, answer, holds, underway>>

\* A read ahead begins, of a result that has not been ended.
Begin(r) ==
  /\ r \in Ahead \ ended /\ Undecided(r)
  /\ underway' = underway \cup {r}
  /\ UNCHANGED <<made, rows, answer, holds, ended>>

\* Rows; the last ones may free its connection.
Deliver(r) ==
  /\ Answers(r, "rows")
  /\ \E n \in 1..rest[r] :
       /\ rest' = [rest EXCEPT ![r] = @ - n]
       /\ UNCHANGED holds \/ (n = rest[r] /\ Freed(r))
  /\ UNCHANGED dropped

\* A read fails by itself, and takes rows with it.
Drop(r) ==
  /\ Answers(r, "dropped")
  /\ \E n \in 0..rest[r] :
       /\ rest' = [rest EXCEPT ![r] = @ - n]
       /\ dropped' = [dropped EXCEPT ![r] = @ + n]
       /\ UNCHANGED holds \/ (n = rest[r] /\ Freed(r)) \/ (r \in ended /\ Freed(r))

\* The end, with whatever rows were left, and nothing held any more.
End(r) ==
  /\ Answers(r, "end")
  /\ rest' = [rest EXCEPT ![r] = 0]
  /\ Freed(r)
  /\ UNCHANGED dropped

\* The query fails, and the batch that was being put together is gone.
Fail(r) ==
  /\ Answers(r, "error")
  /\ \E n \in 0..rest[r] :
       /\ rest' = [rest EXCEPT ![r] = @ - n]
       /\ dropped' = [dropped EXCEPT ![r] = @ + n]
  /\ Freed(r)

\* The read that was under way as r was ended tells the consumer an end that is none.
CutShort(r) ==
  /\ r \in ended /\ Answers(r, "end")
  /\ UNCHANGED <<rows, holds>>

\* The consumer hears that a statement has ended the result, read ahead perhaps after another verdict.
Invalidate(r) ==
  /\ r \in ended \ underway
  /\ Undecided(r) \/ (r \in Ahead /\ answer[r] \in {"end", "error"})
  /\ answer' = [answer EXCEPT ![r] = "invalidated"]
  /\ UNCHANGED <<made, rows, holds, ended, underway>>

Next ==
  \/ \E r \in Res :
       \/ Make(r) \/ EndFor(r) \/ Begin(r)
       \/ Deliver(r) \/ Drop(r) \/ End(r) \/ Fail(r) \/ CutShort(r) \/ Invalidate(r)
  \/ \E cs \in SUBSET Ctx : Release(cs)

Spec == Init /\ [][Next]_vars

=============================================================================
