-------------------------- MODULE DbiResultsProofs --------------------------
(***************************************************************************)
(* Proofs about DbiResults, for any number of results on a connection, and *)
(* binds and executions of any number of rows: what a bind of several rows *)
(* holds is never cut short; the rows of a bind leave once and in order,   *)
(* through reads that fail as well, and a result that says it has          *)
(* completed has none left.                                                *)
(***************************************************************************)
EXTENDS DbiResults, FlattenLemmas, SequenceTheorems, WellFoundedInduction, TLAPS

USE DbiAssumption

\* A query result that no statement can end and no error cut: it does not stream, and is nobody else's.
Settled == [left : Seq(Row), state : {"retained", "over"}]

\* What is pending is settled, and so is the query result before it.
HeldOK ==
  /\ current \in [Result -> {None} \cup QueryResult]
  /\ pending \in [Result -> Seq(Settled)]
  /\ \A r \in Result : pending[r] # <<>> => current[r] \in {None} \cup Settled

IInv ==
  /\ open \in [Result -> BOOLEAN]
  /\ turn \in [Result -> {0, 1}]
  /\ HeldOK

LEMMA SettledIsQueryResult == Settled \subseteq QueryResult
  BY DEF Settled, QueryResult, States

-----------------------------------------------------------------------------
(***************************************************************************)
(* What the helpers return.                                                *)
(***************************************************************************)

LEMMA EndedType ==
  ASSUME NEW q \in {None} \cup QueryResult
  PROVE  /\ Ended(q) \in {None} \cup QueryResult
         /\ q \in {None} \cup Settled => Ended(q) = q
  BY DEF Ended, QueryResult, Settled, States

\* A statement leaves what is held settled.
LEMMA AfterStatementKeeps ==
  ASSUME HeldOK
  PROVE  /\ AfterStatement \in [Result -> {None} \cup QueryResult]
         /\ \A r \in Result : pending[r] # <<>> => AfterStatement[r] \in {None} \cup Settled
  BY EndedType DEF HeldOK, AfterStatement

LEMMA RowsOfType ==
  ASSUME NEW t \in {0, 1}, NEW n \in 0..MaxBound, NEW counts \in Counts(n), NEW i \in 1..n
  PROVE  RowsOf(t, counts, i) \in Seq(Row)
<1>1. counts[i] \in 0..MaxRows /\ i \in 1..MaxBound
  BY DEF Counts
<1>2. \A j \in 1..counts[i] : <<t, i, j>> \in Row
  BY <1>1 DEF Row
<1>. QED
  BY <1>1, <1>2, IsASeq DEF RowsOf

\* The executions of a bind of several rows are all retained: none of them streams.
LEMMA ExecutedType ==
  ASSUME NEW k, NEW t \in {0, 1}, NEW n \in 0..MaxBound, NEW counts \in Counts(n)
  PROVE  /\ Executed(k, t, counts) \in Seq(QueryResult)
         /\ Len(Executed(k, t, counts)) = n
         /\ n # 1 => Executed(k, t, counts) \in Seq(Settled)
<1>. DEFINE qs == Executed(k, t, counts)
<1>1. DOMAIN counts = 1..n /\ Len(counts) = n /\ n \in Nat
  BY DEF Counts
<1>2. ASSUME NEW i \in 1..n
      PROVE  qs[i] \in QueryResult /\ (n # 1 => qs[i] \in Settled)
  <2>1. RowsOf(t, counts, i) \in Seq(Row)
    BY RowsOfType
  <2>. QED
    BY <1>1, <2>1 DEF Executed, QueryResult, Settled, States, Streams
<1>3. qs \in [1..n -> QueryResult] /\ (n # 1 => qs \in [1..n -> Settled])
  BY <1>1, <1>2 DEF Executed
<1>. QED
  BY <1>1, <1>3, SeqDef, LenProperties

\* The query result that a read takes its rows from is one of those held: one position comes first among those
\* that are not drained.
LEMMA SourceType ==
  ASSUME NEW qs \in Seq(QueryResult), qs # <<>>
  PROVE  Source(qs) \in 1..Len(qs)
<1>. DEFINE more == {i \in DOMAIN qs : qs[i].left # <<>> \/ Cut(qs[i])}
<1>1. DOMAIN qs = 1..Len(qs) /\ Len(qs) \in Nat \ {0}
  BY EmptySeq, LenProperties
<1>2. CASE more = {}
  BY <1>1, <1>2 DEF Source
<1>3. CASE more # {}
  <2>1. more \subseteq Nat
    BY <1>1
  <2>2. PICK i \in more : \A j \in more : <<j, i>> \notin OpToRel(<, Nat)
    BY <2>1, <1>3, WFMin, NatLessThanWellFounded
  <2>3. \A j \in more : i <= j
    <3>1. \A j \in more : ~(j < i)
      BY <2>1, <2>2, Zenon DEF OpToRel
    <3>. QED
      BY <2>1, <3>1
  <2>. QED
    BY <1>1, <1>3, <2>3 DEF Source
<1>. QED
  BY <1>2, <1>3

-----------------------------------------------------------------------------
(***************************************************************************)
(* Every step preserves the invariant.                                     *)
(***************************************************************************)

LEMMA Initially == Init => IInv
<1>. SUFFICES ASSUME Init PROVE IInv
  OBVIOUS
<1>1. current \in [Result -> {None} \cup QueryResult] /\ pending \in [Result -> Seq(Settled)]
  BY EmptySeq DEF Init
<1>. QED
  BY <1>1 DEF Init, IInv, HeldOK

\* A bind, or a statement without parameters, of any number of executions.
LEMMA AnsweredKeeps ==
  ASSUME IInv, NEW r \in Result, NEW k, NEW n \in 0..MaxBound, NEW counts \in Counts(n),
         turn' \in [Result -> {0, 1}], Answered(r, k, counts)
  PROVE  HeldOK'
<1>. DEFINE qs == Executed(k, turn'[r], counts)
            others == IF counts = <<>> THEN current ELSE AfterStatement
<1>1. turn'[r] \in {0, 1} /\ n \in Nat /\ n \in 0..MaxBound /\ counts \in Counts(n)
  OBVIOUS
<1>2. /\ others \in [Result -> {None} \cup QueryResult]
      /\ \A x \in Result : pending[x] # <<>> => others[x] \in {None} \cup Settled
  BY AfterStatementKeeps DEF IInv, HeldOK
<1>3. CASE k.class = "frame"
  BY <1>2, <1>3 DEF Answered, IInv, HeldOK
<1>4. CASE k.class # "frame"
  <2>1. /\ current' = [others EXCEPT ![r] = IF qs = <<>> THEN None ELSE Head(qs)]
        /\ pending' = [pending EXCEPT ![r] = IF qs = <<>> THEN <<>> ELSE Tail(qs)]
    BY <1>4 DEF Answered
  <2>2. qs \in Seq(QueryResult) /\ Len(qs) = n /\ (n # 1 => qs \in Seq(Settled))
    <3>1. PICK t \in {0, 1} : t = turn'[r]
      BY <1>1
    <3>2. /\ Executed(k, t, counts) \in Seq(QueryResult) /\ Len(Executed(k, t, counts)) = n
          /\ n # 1 => Executed(k, t, counts) \in Seq(Settled)
      BY ONLY <1>1, <3>1, ExecutedType
    <3>. QED
      BY <3>1, <3>2
  <2>. HIDE DEF qs, others
  <2>3. qs # <<>> => Head(qs) \in QueryResult
    BY <2>2, HeadTailProperties
  <2>4. qs # <<>> /\ n # 1 => Head(qs) \in Settled /\ Tail(qs) \in Seq(Settled)
    BY <2>2, HeadTailProperties
  <2>5. qs # <<>> /\ n = 1 => Tail(qs) = <<>>
    <3>1. qs # <<>> /\ n = 1 => Tail(qs) \in Seq(QueryResult) /\ Len(Tail(qs)) = 0
      BY <2>2, HeadTailProperties
    <3>. QED
      BY <3>1, EmptySeq
  <2>6. <<>> \in Seq(Settled)
    BY EmptySeq
  <2>. QED
    BY <1>2, <2>1, <2>3, <2>4, <2>5, <2>6 DEF IInv, HeldOK
<1>. QED
  BY <1>3, <1>4

LEMMA SendStep ==
  ASSUME IInv, NEW r \in Result, NEW k \in Kind[r], Send(r, k)
  PROVE  IInv'
<1>1. open' \in [Result -> BOOLEAN] /\ turn' \in [Result -> {0, 1}]
  BY DEF Send, IInv
<1>2. CASE k.params
  BY <1>1, <1>2, AfterStatementKeeps DEF Send, IInv, HeldOK
<1>3. CASE ~k.params
  <2>1. PICK counts \in Counts(1) : Answered(r, k, counts)
    BY <1>3 DEF Send
  <2>2. 1 \in 0..MaxBound
    OBVIOUS
  <2>. QED
    BY <1>1, <2>1, <2>2, AnsweredKeeps DEF IInv
<1>. QED
  BY <1>2, <1>3

LEMMA BindStep ==
  ASSUME IInv, NEW r \in Result, NEW n \in 0..MaxBound, Bind(r, n)
  PROVE  IInv'
<1>1. turn' \in [Result -> {0, 1}] /\ open' = open
  BY DEF Bind, IInv, sent
<1>2. PICK counts \in Counts(n) : Answered(r, kind[r], counts)
  BY DEF Bind
<1>. QED
  BY <1>1, <1>2, AnsweredKeeps DEF IInv

\* A bind that is refused or fails starts over, among results that a statement has ended or not.
LEMMA StartsOverKeeps ==
  ASSUME IInv, NEW r \in Result, NEW others,
         others \in [Result -> {None} \cup QueryResult],
         \A x \in Result : pending[x] # <<>> => others[x] \in {None} \cup Settled,
         StartsOver(r, others)
  PROVE  IInv'
<1>1. turn' \in [Result -> {0, 1}] /\ open' = open
  BY DEF StartsOver, IInv, sent
<1>2. <<>> \in Seq(Settled)
  BY EmptySeq
<1>. QED
  BY <1>1, <1>2 DEF StartsOver, IInv, HeldOK

LEMMA BindRefusedStep == \A r \in Result : IInv /\ BindRefused(r) => IInv'
  BY StartsOverKeeps DEF BindRefused, IInv, HeldOK

LEMMA RunsForNothingStep == \A r \in Result : IInv /\ RunsForNothing(r) => IInv'
  BY StartsOverKeeps, AfterStatementKeeps DEF RunsForNothing, IInv

LEMMA SendFailsStep == IInv /\ SendFails => IInv'
  BY AfterStatementKeeps DEF SendFails, IInv, HeldOK, sent, ghosts

LEMMA FetchStep == \A r \in Result, n \in 1..MaxRows : IInv /\ Fetch(r, n) => IInv'
  BY DEF Fetch, IInv, HeldOK, sent, arrows

\* What is held, as a sequence.
LEMMA HeldType ==
  ASSUME IInv, NEW r \in Result, current[r] # None
  PROVE  /\ Held(r) \in Seq(QueryResult) /\ Held(r) # <<>>
         /\ Len(Held(r)) = 1 + Len(pending[r])
         /\ Held(r)[1] = current[r]
         /\ \A i \in 2..Len(Held(r)) : Held(r)[i] = pending[r][i - 1] /\ Held(r)[i] \in Settled
<1>1. pending[r] \in Seq(Settled) /\ pending[r] \in Seq(QueryResult) /\ Len(pending[r]) \in Nat
  BY SettledIsQueryResult, SeqMonotonic, LenProperties DEF IInv, HeldOK
<1>2. <<current[r]>> \in Seq(QueryResult) /\ Len(<<current[r]>>) = 1 /\ <<current[r]>>[1] = current[r]
  BY DEF IInv, HeldOK
<1>3. /\ Held(r) \in Seq(QueryResult)
      /\ Len(Held(r)) = 1 + Len(pending[r])
      /\ \A i \in 1..Len(Held(r)) : Held(r)[i] = IF i <= 1 THEN <<current[r]>>[i] ELSE pending[r][i - 1]
  BY <1>1, <1>2, ConcatProperties DEF Held
<1>4. ASSUME NEW i \in 2..Len(Held(r))
      PROVE  Held(r)[i] = pending[r][i - 1] /\ Held(r)[i] \in Settled
  <2>1. i - 1 \in 1..Len(pending[r]) /\ Held(r)[i] = pending[r][i - 1]
    BY <1>1, <1>3
  <2>. QED
    BY <1>1, <2>1, ElementOfSeq
<1>5. Len(Held(r)) # 0 /\ Held(r)[1] = current[r]
  BY <1>1, <1>2, <1>3
<1>. QED
  BY <1>3, <1>4, <1>5, EmptySeq

LEMMA FetchChunkStep ==
  ASSUME IInv, NEW r \in Result, NEW n \in 1..MaxRows, FetchChunk(r, n)
  PROVE  IInv'
<1>. DEFINE qs == Held(r)
            i == Source(qs)
            q == qs[i]
<1>1. /\ current[r] # None /\ ~Cut(q)
      /\ current' = [current EXCEPT ![r] = AfterBatch(q, n)]
      /\ pending' = [pending EXCEPT ![r] = SubSeq(qs, i + 1, Len(qs))]
      /\ UNCHANGED <<open, turn>>
  BY DEF FetchChunk, Reads, sent
<1>2. i \in 1..Len(qs) /\ Len(qs) \in Nat
  BY <1>1, HeldType, SourceType, LenProperties
<1>3. q \in QueryResult
  BY <1>1, <1>2, HeldType, ElementOfSeq
<1>4. AfterBatch(q, n) \in QueryResult /\ (q \in Settled => AfterBatch(q, n) \in Settled)
  <2>1. q.left \in Seq(Row) /\ Len(q.left) \in Nat
    BY <1>3, LenProperties DEF QueryResult
  <2>2. SubSeq(q.left, n + 1, Len(q.left)) \in Seq(Row)
    BY <2>1, SubSeqProperties, ElementOfSeq
  <2>. QED
    BY <1>3, <2>1, <2>2 DEF AfterBatch, QueryResult, Settled, States
<1>5. /\ SubSeq(qs, i + 1, Len(qs)) \in Seq(Settled)
      /\ Len(SubSeq(qs, i + 1, Len(qs))) = IF i + 1 <= Len(qs) THEN Len(qs) - i ELSE 0
  <2>1. \A j \in (i + 1)..Len(qs) : qs[j] \in Settled
    BY <1>1, <1>2, HeldType
  <2>. HIDE DEF i, qs
  <2>. QED
    BY <1>2, <2>1, SubSeqProperties
<1>6. pending'[r] # <<>> => q \in Settled
  <2>. SUFFICES ASSUME pending'[r] # <<>> PROVE q \in Settled
    OBVIOUS
  <2>1. pending'[r] = SubSeq(qs, i + 1, Len(qs))
    BY <1>1 DEF IInv, HeldOK
  <2>2. Len(pending'[r]) # 0
    BY <1>5, <2>1, EmptySeq
  <2>3. i + 1 <= Len(qs)
    BY <1>2, <1>5, <2>1, <2>2
  <2>4. pending[r] # <<>>
    BY <1>1, <1>2, <2>3, HeldType, EmptySeq
  <2>. QED
    BY <1>1, <1>2, <2>3, <2>4, HeldType DEF IInv, HeldOK
<1>. HIDE DEF i, q, qs
<1>. QED
  BY <1>1, <1>4, <1>5, <1>6 DEF IInv, HeldOK

\* A read that fails leaves what is settled settled: only a stream, which is all its result holds, fails for good.
LEMMA FailsAtKeeps ==
  ASSUME IInv, NEW r \in Result, current[r] # None,
         NEW i \in 1..Len(Held(r)), NEW k \in 0..Len(Held(r)[i].left), NEW state \in States,
         state \in {"over", Held(r)[i].state} \/ Held(r)[i].state = "streaming",
         FailsAt(r, i, k, state)
  PROVE  IInv'
<1>. DEFINE qs  == Held(r)
            q   == qs[i]
            new == [left |-> SubSeq(q.left, k + 1, Len(q.left)), state |-> state]
<1>1. /\ current' = [current EXCEPT ![r] = new]
      /\ pending' = [pending EXCEPT ![r] = SubSeq(qs, i + 1, Len(qs))]
      /\ UNCHANGED <<open, turn>>
  BY DEF FailsAt, sent
<1>2. qs \in Seq(QueryResult) /\ Len(qs) \in Nat /\ i \in 1..Len(qs)
  BY HeldType, LenProperties
<1>3. q \in QueryResult
  BY <1>2, ElementOfSeq
<1>4. new \in QueryResult /\ (q \in Settled => new \in Settled)
  <2>1. q.left \in Seq(Row) /\ Len(q.left) \in Nat /\ k \in Nat
    BY <1>3, LenProperties DEF QueryResult
  <2>2. SubSeq(q.left, k + 1, Len(q.left)) \in Seq(Row)
    BY <2>1, SubSeqProperties, ElementOfSeq
  <2>. QED
    BY <2>2 DEF QueryResult, Settled
<1>5. /\ SubSeq(qs, i + 1, Len(qs)) \in Seq(Settled)
      /\ Len(SubSeq(qs, i + 1, Len(qs))) = IF i + 1 <= Len(qs) THEN Len(qs) - i ELSE 0
  <2>1. \A j \in (i + 1)..Len(qs) : qs[j] \in Settled
    BY <1>2, HeldType
  <2>. HIDE DEF qs
  <2>. QED
    BY <1>2, <2>1, SubSeqProperties
<1>6. pending'[r] # <<>> => q \in Settled
  <2>. SUFFICES ASSUME pending'[r] # <<>> PROVE q \in Settled
    OBVIOUS
  <2>1. pending'[r] = SubSeq(qs, i + 1, Len(qs))
    BY <1>1 DEF IInv, HeldOK
  <2>2. Len(pending'[r]) # 0
    BY <1>5, <2>1, EmptySeq
  <2>3. i + 1 <= Len(qs)
    BY <1>2, <1>5, <2>1, <2>2
  <2>4. pending[r] # <<>>
    BY <1>2, <2>3, HeldType, EmptySeq
  <2>. QED
    BY <1>2, <2>3, <2>4, HeldType DEF IInv, HeldOK
<1>. HIDE DEF q, qs, new
<1>. QED
  BY <1>1, <1>4, <1>5, <1>6 DEF IInv, HeldOK

\* What a chunk read that fails comes to: some of the query results it passes, and some rows of the one it is at.
LEMMA ChunkFailsAt ==
  ASSUME IInv, NEW r \in Result, NEW n \in 1..MaxRows, ChunkFails(r, n)
  PROVE  \E i \in 1..Len(Held(r)) : \E k \in 0..Len(Held(r)[i].left), state \in States :
           /\ Reads(r) /\ FailsAt(r, i, k, state)
           /\ state \in {"over", Held(r)[i].state} \/ Held(r)[i].state = "streaming"
<1>1. current[r] # None /\ Reads(r)
  BY DEF ChunkFails, Reads
<1>2. PICK i \in 1..Source(Held(r)) : \E k \in 0..Len(Held(r)[i].left) :
        \E state \in AfterFailure(Held(r)[i], n, k) : FailsAt(r, i, k, state)
  BY DEF ChunkFails
<1>3. i \in 1..Len(Held(r)) /\ Held(r) \in Seq(QueryResult)
  BY <1>1, HeldType, SourceType, LenProperties
<1>4. Held(r)[i] \in QueryResult
  BY <1>3, ElementOfSeq
<1>5. PICK k \in 0..Len(Held(r)[i].left) : \E state \in AfterFailure(Held(r)[i], n, k) : FailsAt(r, i, k, state)
  BY <1>2
<1>6. \A state \in AfterFailure(Held(r)[i], n, k) : state \in States
  BY <1>4 DEF AfterFailure, QueryResult, States
<1>. QED
  BY <1>1, <1>3, <1>5, <1>6 DEF AfterFailure

LEMMA ChunkFailsStep == \A r \in Result, n \in 1..MaxRows : IInv /\ ChunkFails(r, n) => IInv'
  BY ChunkFailsAt, FailsAtKeeps DEF Reads

LEMMA DrainFailsAt ==
  ASSUME IInv, NEW r \in Result, DrainFails(r)
  PROVE  \E i \in 1..Len(Held(r)) : \E k \in 0..Len(Held(r)[i].left), state \in States :
           Reads(r) /\ FailsAt(r, i, k, state) /\ state = Held(r)[i].state
<1>1. current[r] # None /\ Reads(r)
  BY DEF DrainFails, Reads
<1>2. PICK i \in DOMAIN Held(r) : \E k \in 0..Len(Held(r)[i].left) : FailsAt(r, i, k, Held(r)[i].state)
  BY DEF DrainFails
<1>3. i \in 1..Len(Held(r)) /\ Held(r)[i] \in QueryResult
  BY <1>1, HeldType, LenProperties, ElementOfSeq
<1>. QED
  BY <1>1, <1>2, <1>3 DEF QueryResult

LEMMA DrainFailsStep == \A r \in Result : IInv /\ DrainFails(r) => IInv'
  BY DrainFailsAt, FailsAtKeeps DEF Reads

LEMMA HandOverStep == \A r \in Result : IInv /\ HandOver(r) => IInv'
<1>. SUFFICES ASSUME IInv, NEW r \in Result, HandOver(r) PROVE IInv'
  OBVIOUS
<1>1. /\ current[r] # None /\ pending[r] = <<>>
      /\ current' = [current EXCEPT ![r].state = "handed"]
      /\ UNCHANGED <<open, turn, pending>>
  BY DEF HandOver, Reads, sent, ghosts
<1>2. [current[r] EXCEPT !.state = "handed"] \in QueryResult
  BY <1>1 DEF IInv, HeldOK, QueryResult, States
<1>. QED
  BY <1>1, <1>2 DEF IInv, HeldOK

LEMMA DrainAllStep == \A r \in Result : IInv /\ DrainAll(r) => IInv'
<1>. SUFFICES ASSUME IInv, NEW r \in Result, DrainAll(r) PROVE IInv'
  OBVIOUS
<1>1. <<>> \in Seq(Settled) /\ [left |-> <<>>, state |-> "over"] \in Settled
  BY EmptySeq DEF Settled
<1>. QED
  BY <1>1, SettledIsQueryResult DEF DrainAll, IInv, HeldOK, sent

LEMMA ClearStep == \A r \in Result : IInv /\ Clear(r) => IInv'
<1>1. <<>> \in Seq(Settled)
  BY EmptySeq
<1>. QED
  BY <1>1 DEF Clear, IInv, HeldOK, ghosts

LEMMA StutterStep == IInv /\ UNCHANGED vars => IInv'
  BY DEF vars, sent, arrows, ghosts, IInv, HeldOK

LEMMA Inductive == IInv /\ [Next]_vars => IInv'
<1>. SUFFICES ASSUME IInv, [Next]_vars PROVE IInv'
  OBVIOUS
<1>1. CASE SendFails
  BY <1>1, SendFailsStep
<1>2. CASE UNCHANGED vars
  BY <1>2, StutterStep
<1>3. ASSUME NEW r \in Result, NEW k \in Kind[r], Send(r, k) PROVE IInv'
  BY <1>3, SendStep
<1>4. ASSUME NEW r \in Result, NEW n \in 0..MaxBound, Bind(r, n) PROVE IInv'
  BY <1>4, BindStep
<1>5. ASSUME NEW r \in Result, BindRefused(r) \/ RunsForNothing(r) PROVE IInv'
  BY <1>5, BindRefusedStep, RunsForNothingStep
<1>6. ASSUME NEW r \in Result, NEW n \in 1..MaxRows, Fetch(r, n) \/ FetchChunk(r, n) \/ ChunkFails(r, n)
      PROVE  IInv'
  BY <1>6, FetchStep, FetchChunkStep, ChunkFailsStep
<1>7. ASSUME NEW r \in Result, HandOver(r) \/ DrainAll(r) \/ DrainFails(r) PROVE IInv'
  BY <1>7, HandOverStep, DrainAllStep, DrainFailsStep
<1>8. ASSUME NEW r \in Result, Clear(r) PROVE IInv'
  BY <1>8, ClearStep
<1>. QED
  BY <1>1, <1>2, <1>3, <1>4, <1>5, <1>6, <1>7, <1>8 DEF Next

-----------------------------------------------------------------------------
LEMMA HeldKept == IInv => BindsKeepTheirRows
<1>. SUFFICES ASSUME IInv, NEW r \in Result, pending[r] # <<>>, NEW i \in DOMAIN Held(r)
              PROVE  ~Cut(Held(r)[i])
  BY DEF BindsKeepTheirRows
<1>1. CASE current[r] = None
  BY <1>1 DEF Held
<1>2. CASE current[r] # None
  <2>1. i \in 1..Len(Held(r)) /\ Len(Held(r)) \in Nat
    BY <1>2, HeldType, LenProperties
  <2>2. Held(r)[i] \in Settled
    BY <1>2, <2>1, HeldType DEF IInv, HeldOK
  <2>. QED
    BY <2>2 DEF Settled, Cut
<1>. QED
  BY <1>1, <1>2

\* The inductive invariant, for any number of results and rows.
THEOREM DbiInvariant == Spec => []IInv
  BY Initially, Inductive, PTL DEF Spec

\* The results of a bind of several rows outlive one another and every statement that comes between reads of
\* them: none streams (rapi_bind(), src/src/statement.cpp).
THEOREM BindsKept == Spec => []BindsKeepTheirRows
  BY DbiInvariant, HeldKept, PTL

-----------------------------------------------------------------------------
(***************************************************************************)
(* The rows: what has left a result and what it has left are the answer of *)
(* its last bind.                                                          *)
(***************************************************************************)

\* A result holds nothing before it is sent, and a position in its rows after that.
RowsTyped ==
  /\ kind \in [Result -> {None} \cup UNION {Kind[r] : r \in Result}]
  /\ completed \in [Result -> BOOLEAN]
  /\ resultset \in [Result -> {None} \cup Seq(Row)]
  /\ fetched \in [Result -> Nat]
  /\ answer \in [Result -> Seq(Row)] /\ gone \in [Result -> Seq(Row)] /\ lost \in [Result -> SUBSET Row]
  /\ \A r \in Result :
       /\ lost[r] \subseteq ToSet(gone[r])
       /\ kind[r] \in {None} \cup Kind[r]
       /\ resultset[r] = None => fetched[r] = 0
       /\ resultset[r] # None => fetched[r] <= Len(resultset[r])
       /\ current[r] = None => pending[r] = <<>>

Unsent(r) ==
  kind[r] = None => resultset[r] = None /\ current[r] = None /\ gone[r] = <<>> /\ answer[r] = <<>>

Accounted(r) == Ready(r) /\ Positioned(r) => gone[r] \o Rest(r) = answer[r]

Handed(r) == current[r] # None /\ current[r].state = "handed"

\* An Arrow result that has completed has no row left, unless its stream was handed over.
Told(r) == Ready(r) /\ Is(r, "arrow") /\ completed[r] => Rest(r) = <<>> \/ Handed(r)

RowsInv ==
  /\ RowsTyped
  /\ \A r \in Result : Unsent(r) /\ Accounted(r) /\ Told(r)

-----------------------------------------------------------------------------
(***************************************************************************)
(* Rows left in a sequence of query results.                               *)
(***************************************************************************)

Lefts(qs) == [i \in DOMAIN qs |-> qs[i].left]

LEMMA LeftsType ==
  ASSUME NEW qs \in Seq(QueryResult)
  PROVE  /\ Lefts(qs) \in Seq(Seq(Row)) /\ Len(Lefts(qs)) = Len(qs) /\ Len(qs) \in Nat
         /\ \A i \in 1..Len(qs) : Lefts(qs)[i] = qs[i].left /\ qs[i].left \in Seq(Row)
         /\ LeftOf(qs) = FlattenSeq(Lefts(qs))
<1>1. DOMAIN qs = 1..Len(qs) /\ Len(qs) \in Nat
  BY LenProperties
<1>2. \A i \in 1..Len(qs) : qs[i].left \in Seq(Row)
  <2>1. \A i \in 1..Len(qs) : qs[i] \in QueryResult
    BY <1>1, ElementOfSeq
  <2>. QED
    BY <2>1 DEF QueryResult
<1>3. Lefts(qs) \in Seq(Seq(Row)) /\ Len(Lefts(qs)) = Len(qs)
  <2>1. Lefts(qs) = [i \in 1..Len(qs) |-> qs[i].left]
    BY <1>1 DEF Lefts
  <2>2. Lefts(qs) \in [1..Len(qs) -> Seq(Row)]
    BY <1>2, <2>1
  <2>. QED
    BY <1>1, <2>2, SeqDef, LenProperties
<1>. QED
  BY <1>1, <1>2, <1>3 DEF Lefts, LeftOf

LEMMA LeftOfType ==
  ASSUME NEW qs \in Seq(QueryResult)
  PROVE  LeftOf(qs) \in Seq(Row)
  BY LeftsType, FlattenType

LEMMA LeftOfNothing ==
  ASSUME NEW qs \in Seq(QueryResult), \A i \in 1..Len(qs) : qs[i].left = <<>>
  PROVE  LeftOf(qs) = <<>>
<1>1. /\ Lefts(qs) \in Seq(Seq(Row)) /\ Len(Lefts(qs)) = Len(qs) /\ LeftOf(qs) = FlattenSeq(Lefts(qs))
      /\ \A i \in 1..Len(qs) : Lefts(qs)[i] = qs[i].left
  BY LeftsType
<1>2. \A i \in 1..Len(Lefts(qs)) : Lefts(qs)[i] = <<>>
  BY <1>1
<1>. QED
  BY <1>1, <1>2, FlattenNothing

\* Query results with the same rows have the same rows left.
LEMMA LeftOfSame ==
  ASSUME NEW qs \in Seq(QueryResult), NEW ps \in Seq(QueryResult), Len(ps) = Len(qs),
         \A i \in 1..Len(qs) : ps[i].left = qs[i].left
  PROVE  LeftOf(ps) = LeftOf(qs)
<1>1. DOMAIN qs = 1..Len(qs) /\ DOMAIN ps = 1..Len(qs)
  BY LenProperties
<1>2. Lefts(ps) = Lefts(qs)
  BY <1>1 DEF Lefts
<1>. QED
  BY <1>2, LeftsType

\* What is left from the first query result that has rows.
LEMMA LeftOfFrom ==
  ASSUME NEW qs \in Seq(QueryResult), NEW i \in 1..Len(qs), \A j \in 1..(i - 1) : qs[j].left = <<>>
  PROVE  /\ SubSeq(qs, i + 1, Len(qs)) \in Seq(QueryResult)
         /\ LeftOf(qs) = qs[i].left \o LeftOf(SubSeq(qs, i + 1, Len(qs)))
<1>. DEFINE more == SubSeq(qs, i + 1, Len(qs))
            ls   == Lefts(qs)
            lmore == SubSeq(ls, i + 1, Len(ls))
<1>1. /\ ls \in Seq(Seq(Row)) /\ Len(ls) = Len(qs) /\ LeftOf(qs) = FlattenSeq(ls) /\ Len(qs) \in Nat
      /\ \A j \in 1..Len(qs) : ls[j] = qs[j].left
  BY LeftsType
<1>2. \A j \in 1..(i - 1) : ls[j] = <<>>
  BY <1>1
<1>3. FlattenSeq(ls) = ls[i] \o FlattenSeq(lmore) /\ lmore \in Seq(Seq(Row))
  BY <1>1, <1>2, FlattenFrom
<1>4. \A j \in (i + 1)..Len(qs) : qs[j] \in QueryResult /\ ls[j] \in Seq(Row)
  BY <1>1, ElementOfSeq
<1>5. /\ more \in Seq(QueryResult)
      /\ Len(more) = IF i + 1 <= Len(qs) THEN Len(qs) - (i + 1) + 1 ELSE 0
      /\ \A j \in 1..(Len(qs) - (i + 1) + 1) : more[j] = qs[(i + 1) + j - 1]
  BY <1>1, <1>4, SubSeqProperties
<1>6. /\ Len(lmore) = IF i + 1 <= Len(qs) THEN Len(qs) - (i + 1) + 1 ELSE 0
      /\ \A j \in 1..(Len(qs) - (i + 1) + 1) : lmore[j] = ls[(i + 1) + j - 1]
  BY <1>1, <1>4, SubSeqProperties
<1>7. lmore = Lefts(more)
  <2>. HIDE DEF more, lmore, ls
  <2>1. Lefts(more) \in Seq(Seq(Row)) /\ Len(Lefts(more)) = Len(lmore)
    BY <1>5, <1>6, LeftsType
  <2>2. ASSUME NEW j \in 1..Len(lmore) PROVE lmore[j] = Lefts(more)[j]
    <3>1. j \in 1..(Len(qs) - (i + 1) + 1) /\ j \in 1..Len(more) /\ (i + 1) + j - 1 \in 1..Len(qs)
      BY <1>1, <1>5, <1>6
    <3>2. Lefts(more)[j] = more[j].left
      BY <1>5, <3>1, LeftsType
    <3>. QED
      BY <1>1, <1>5, <1>6, <3>1, <3>2
  <2>. QED
    BY <1>3, <2>1, <2>2, SeqEqual
<1>8. LeftOf(more) = FlattenSeq(lmore)
  BY <1>5, <1>7, LeftsType
<1>. QED
  BY <1>1, <1>3, <1>5, <1>8

\* What is left before one query result, in it and after it.
LEMMA LeftOfAround ==
  ASSUME NEW qs \in Seq(QueryResult), NEW i \in 1..Len(qs)
  PROVE  /\ SubSeq(qs, 1, i - 1) \in Seq(QueryResult) /\ SubSeq(qs, i + 1, Len(qs)) \in Seq(QueryResult)
         /\ LeftOf(qs) = Cat(LeftOf(SubSeq(qs, 1, i - 1)), Cat(qs[i].left, LeftOf(SubSeq(qs, i + 1, Len(qs)))))
<1>. DEFINE ls == Lefts(qs)
<1>1. /\ ls \in Seq(Seq(Row)) /\ Len(ls) = Len(qs) /\ LeftOf(qs) = FlattenSeq(ls)
      /\ \A j \in 1..Len(qs) : ls[j] = qs[j].left
      /\ i \in Nat /\ Len(qs) \in Nat /\ 1 <= i /\ i <= Len(qs)
  BY LeftsType
<1>. HIDE DEF ls
<1>2. FlattenSeq(ls) = Cat(FlattenSeq(SubSeq(ls, 1, i - 1)), Cat(ls[i], FlattenSeq(SubSeq(ls, i + 1, Len(ls)))))
  BY <1>1, FlattenAround
<1>3. ASSUME NEW a \in Nat, NEW b \in Nat, 1 <= a, b <= Len(qs)
      PROVE  /\ SubSeq(qs, a, b) \in Seq(QueryResult)
             /\ LeftOf(SubSeq(qs, a, b)) = FlattenSeq(SubSeq(ls, a, b))
  <2>. DEFINE ps == SubSeq(qs, a, b)
              ms == SubSeq(ls, a, b)
  <2>1. \A j \in a..b : qs[j] \in QueryResult /\ ls[j] \in Seq(Row)
    BY <1>1, <1>3, ElementOfSeq
  <2>2. /\ ps \in Seq(QueryResult) /\ Len(ps) = IF a <= b THEN b - a + 1 ELSE 0
        /\ \A j \in 1..(b - a + 1) : ps[j] = qs[a + j - 1]
    BY <2>1, SubSeqProperties
  <2>3. /\ ms \in Seq(Seq(Row)) /\ Len(ms) = IF a <= b THEN b - a + 1 ELSE 0
        /\ \A j \in 1..(b - a + 1) : ms[j] = ls[a + j - 1]
    BY <2>1, SubSeqProperties
  <2>. HIDE DEF ps, ms
  <2>4. Lefts(ps) \in Seq(Seq(Row)) /\ Len(Lefts(ps)) = Len(ms) /\ LeftOf(ps) = FlattenSeq(Lefts(ps))
    BY <2>2, <2>3, LeftsType
  <2>5. ASSUME NEW j \in 1..Len(ms) PROVE ms[j] = Lefts(ps)[j]
    <3>1. j \in 1..(b - a + 1) /\ j \in 1..Len(ps) /\ a + j - 1 \in 1..Len(qs)
      BY <1>3, <2>2, <2>3
    <3>2. Lefts(ps)[j] = ps[j].left
      BY <2>2, <3>1, LeftsType
    <3>. QED
      BY <1>1, <2>2, <2>3, <3>1, <3>2
  <2>6. ms = Lefts(ps)
    BY <2>3, <2>4, <2>5, SeqEqual
  <2>. QED
    BY <2>2, <2>4, <2>6 DEF ps, ms
<1>4. /\ 1 \in Nat /\ i - 1 \in Nat /\ i - 1 <= Len(qs) /\ i + 1 \in Nat /\ 1 <= i + 1 /\ Len(qs) <= Len(qs)
  BY <1>1
<1>5. /\ SubSeq(qs, 1, i - 1) \in Seq(QueryResult)
      /\ LeftOf(SubSeq(qs, 1, i - 1)) = FlattenSeq(SubSeq(ls, 1, i - 1))
  BY <1>3, <1>4
<1>6. /\ SubSeq(qs, i + 1, Len(qs)) \in Seq(QueryResult)
      /\ LeftOf(SubSeq(qs, i + 1, Len(qs))) = FlattenSeq(SubSeq(ls, i + 1, Len(qs)))
  BY <1>1, <1>3, <1>4
<1>. QED
  BY <1>1, <1>2, <1>5, <1>6

\* The rows of two sequences, one after the other.
LEMMA SetOfBoth ==
  ASSUME NEW S, NEW s \in Seq(S), NEW t \in Seq(S)
  PROVE  ToSet(s \o t) = ToSet(s) \cup ToSet(t)
<1>1. /\ s \o t \in Seq(S) /\ Len(s \o t) = Len(s) + Len(t) /\ Len(s) \in Nat /\ Len(t) \in Nat
      /\ \A j \in 1..(Len(s) + Len(t)) : (s \o t)[j] = IF j <= Len(s) THEN s[j] ELSE t[j - Len(s)]
  BY ConcatProperties, LenProperties
<1>. DEFINE u == s \o t
<1>2. DOMAIN u = 1..(Len(s) + Len(t)) /\ DOMAIN s = 1..Len(s) /\ DOMAIN t = 1..Len(t)
  BY <1>1, LenProperties
<1>. HIDE DEF u
<1>3. ASSUME NEW j \in DOMAIN u PROVE u[j] \in ToSet(s) \cup ToSet(t)
  <2>1. CASE j <= Len(s)
    BY <1>1, <1>2, <2>1 DEF ToSet, u
  <2>2. CASE ~(j <= Len(s))
    <3>1. j - Len(s) \in 1..Len(t) /\ u[j] = t[j - Len(s)]
      BY <1>1, <1>2, <2>2 DEF u
    <3>. QED
      BY <1>2, <3>1 DEF ToSet
  <2>. QED
    BY <2>1, <2>2
<1>4. ASSUME NEW j \in DOMAIN s PROVE s[j] \in ToSet(u)
  <2>1. j \in 1..(Len(s) + Len(t)) /\ j <= Len(s)
    BY <1>1, <1>2
  <2>2. u[j] = s[j] /\ j \in DOMAIN u
    BY <1>1, <1>2, <2>1 DEF u
  <2>. QED
    BY <2>2 DEF ToSet
<1>5. ASSUME NEW j \in DOMAIN t PROVE t[j] \in ToSet(u)
  <2>1. j + Len(s) \in 1..(Len(s) + Len(t)) /\ ~(j + Len(s) <= Len(s)) /\ (j + Len(s)) - Len(s) = j
    BY <1>1, <1>2
  <2>2. u[j + Len(s)] = t[j] /\ j + Len(s) \in DOMAIN u
    BY <1>1, <1>2, <2>1 DEF u
  <2>. QED
    BY <2>2 DEF ToSet
<1>. QED
  BY <1>3, <1>4, <1>5 DEF ToSet, u

LEMMA LeftOfEmpty == LeftOf(<<>>) = <<>>
<1>1. <<>> \in Seq(QueryResult) /\ Len(<<>>) = 0
  BY EmptySeq
<1>2. \A i \in 1..Len(<<>>) : (<<>>)[i].left = <<>>
  BY <1>1
<1>. QED
  BY <1>1, <1>2, LeftOfNothing

\* A query result and those pending behind it.
LEMMA LeftOfBefore ==
  ASSUME NEW q \in QueryResult, NEW ps \in Seq(QueryResult)
  PROVE  /\ <<q>> \o ps \in Seq(QueryResult)
         /\ LeftOf(<<q>> \o ps) = q.left \o LeftOf(ps)
<1>. DEFINE qs == <<q>> \o ps
<1>1. Len(ps) \in Nat /\ <<q>> \in Seq(QueryResult) /\ Len(<<q>>) = 1 /\ <<q>>[1] = q
  BY LenProperties
<1>2. /\ qs \in Seq(QueryResult) /\ Len(qs) = 1 + Len(ps)
      /\ \A i \in 1..(1 + Len(ps)) : qs[i] = IF i <= 1 THEN <<q>>[i] ELSE ps[i - 1]
  BY <1>1, ConcatProperties
<1>. HIDE DEF qs
<1>3. SubSeq(qs, 2, Len(qs)) = ps
  <2>1. \A j \in 2..Len(qs) : qs[j] \in QueryResult
    BY <1>1, <1>2, ElementOfSeq
  <2>2. /\ SubSeq(qs, 2, Len(qs)) \in Seq(QueryResult)
        /\ Len(SubSeq(qs, 2, Len(qs))) = IF 2 <= Len(qs) THEN Len(qs) - 2 + 1 ELSE 0
        /\ \A j \in 1..(Len(qs) - 2 + 1) : SubSeq(qs, 2, Len(qs))[j] = qs[2 + j - 1]
    BY <1>1, <1>2, <2>1, SubSeqProperties
  <2>3. Len(SubSeq(qs, 2, Len(qs))) = Len(ps)
    BY <1>1, <1>2, <2>2
  <2>4. \A j \in 1..Len(ps) : SubSeq(qs, 2, Len(qs))[j] = ps[j]
    BY <1>1, <1>2, <2>2
  <2>. QED
    BY <2>2, <2>3, <2>4, SeqEqual
<1>4. 1 \in 1..Len(qs) /\ qs[1] = q /\ 1..(1 - 1) = {}
  BY <1>1, <1>2
<1>5. LeftOf(qs) = qs[1].left \o LeftOf(SubSeq(qs, 1 + 1, Len(qs)))
  BY <1>2, <1>4, LeftOfFrom
<1>6. SubSeq(qs, 1 + 1, Len(qs)) = SubSeq(qs, 2, Len(qs))
  OBVIOUS
<1>7. LeftOf(qs) = q.left \o LeftOf(ps)
  BY <1>3, <1>4, <1>5, <1>6, Zenon
<1>. QED
  BY <1>2, <1>7 DEF qs

LEMMA LeftOfHeld ==
  ASSUME NEW q \in {None} \cup QueryResult, NEW ps \in Seq(QueryResult)
  PROVE  /\ (IF q = None THEN <<>> ELSE <<q>> \o ps) \in Seq(QueryResult)
         /\ LeftOf(IF q = None THEN <<>> ELSE <<q>> \o ps) = IF q = None THEN <<>> ELSE q.left \o LeftOf(ps)
<1>1. CASE q = None
  BY <1>1, LeftOfEmpty, EmptySeq
<1>2. CASE q # None
  BY <1>2, LeftOfBefore
<1>. QED
  BY <1>1, <1>2

\* A statement takes no row from a query result.
LEMMA EndedLeft ==
  ASSUME NEW q \in {None} \cup QueryResult
  PROVE  /\ Ended(q) \in {None} \cup QueryResult
         /\ q = None <=> Ended(q) = None
         /\ q # None => Ended(q).left = q.left
         /\ q # None /\ q.state = "handed" => Ended(q) = q
<1>1. CASE q = None
  BY <1>1 DEF Ended
<1>2. CASE q # None
  <2>1. Ended(q) \in QueryResult
    BY <1>2 DEF Ended, QueryResult, States
  <2>2. Ended(q) # None
    BY <2>1, NoneAssumption
  <2>. QED
    BY <1>2, <2>1, <2>2 DEF Ended, QueryResult
<1>. QED
  BY <1>1, <1>2

LEMMA RestType ==
  ASSUME IInv, RowsTyped, NEW r \in Result
  PROVE  Rest(r) \in Seq(Row)
<1>1. CASE Is(r, "arrow")
  <2>1. pending[r] \in Seq(QueryResult)
    BY SettledIsQueryResult, SeqMonotonic DEF IInv, HeldOK
  <2>2. Held(r) \in Seq(QueryResult)
    BY <2>1, LeftOfHeld DEF Held, IInv, HeldOK
  <2>. QED
    BY <1>1, <2>2, LeftOfType DEF Rest
<1>2. CASE ~Is(r, "arrow") /\ resultset[r] = None
  BY <1>2, EmptySeq DEF Rest
<1>3. CASE ~Is(r, "arrow") /\ resultset[r] # None
  <2>1. resultset[r] \in Seq(Row) /\ fetched[r] \in Nat /\ Len(resultset[r]) \in Nat
    BY <1>3, LenProperties DEF RowsTyped
  <2>2. \A i \in (fetched[r] + 1)..Len(resultset[r]) : resultset[r][i] \in Row
    BY <2>1, ElementOfSeq
  <2>3. SubSeq(resultset[r], fetched[r] + 1, Len(resultset[r])) \in Seq(Row)
    BY <2>1, <2>2, SubSeqProperties
  <2>. QED
    BY <1>3, <2>3 DEF Rest
<1>. QED
  BY <1>1, <1>2, <1>3

-----------------------------------------------------------------------------
\* What a step does to the results it is not about: at most it ends the stream of one.
Untouched(x) ==
  /\ kind'[x] = kind[x] /\ open'[x] = open[x]
  /\ resultset'[x] = resultset[x] /\ fetched'[x] = fetched[x]
  /\ current'[x] \in {current[x], Ended(current[x])}
  /\ pending'[x] = pending[x] /\ completed'[x] = completed[x]
  /\ answer'[x] = answer[x] /\ gone'[x] = gone[x] /\ lost'[x] = lost[x]

LEMMA UntouchedKeeps ==
  ASSUME IInv, RowsInv, NEW x \in Result, Untouched(x)
  PROVE  /\ Unsent(x)' /\ Accounted(x)' /\ Told(x)'
         /\ (current[x] = None => pending[x] = <<>>)'
<1>1. current[x] \in {None} \cup QueryResult /\ pending[x] \in Seq(QueryResult)
  BY SettledIsQueryResult, SeqMonotonic DEF IInv, HeldOK
<1>2. /\ current'[x] \in {None} \cup QueryResult
      /\ current[x] = None <=> current'[x] = None
      /\ current[x] # None => current'[x].left = current[x].left
      /\ Handed(x) => Handed(x)'
  BY <1>1, EndedLeft DEF Untouched, Handed
<1>3. Rest(x)' = Rest(x)
  <2>1. CASE Is(x, "arrow")
    <3>1. LeftOf(Held(x)) = IF current[x] = None THEN <<>> ELSE current[x].left \o LeftOf(pending[x])
      BY <1>1, LeftOfHeld DEF Held
    <3>2. LeftOf(Held(x)') = IF current'[x] = None THEN <<>> ELSE current'[x].left \o LeftOf(pending'[x])
      BY <1>1, <1>2, LeftOfHeld DEF Held, Untouched
    <3>3. LeftOf(Held(x)') = LeftOf(Held(x))
      BY <1>2, <3>1, <3>2 DEF Untouched
    <3>. QED
      BY <2>1, <3>3 DEF Rest, Is, Untouched, LeftOf
  <2>2. CASE ~Is(x, "arrow")
    BY <2>2 DEF Rest, Is, Untouched
  <2>. QED
    BY <2>1, <2>2
<1>4. /\ Ready(x)' = Ready(x) /\ Is(x, "arrow")' = Is(x, "arrow") /\ Positioned(x)' = Positioned(x)
  BY DEF Untouched, Ready, Is, Positioned, TakesRows
<1>5. Unsent(x)'
  BY <1>2 DEF RowsInv, Unsent, Untouched
<1>6. Accounted(x)'
  BY <1>3, <1>4 DEF RowsInv, Accounted, Untouched
<1>7. Told(x)'
  BY <1>2, <1>3, <1>4 DEF RowsInv, Told, Untouched
<1>8. current'[x] = None => pending'[x] = <<>>
  BY <1>2 DEF RowsInv, RowsTyped, Untouched
<1>. QED
  BY <1>5, <1>6, <1>7, <1>8

LEMMA RowsInitially == Init => RowsInv
<1>. SUFFICES ASSUME Init PROVE RowsInv
  OBVIOUS
<1>1. <<>> \in Seq(Row)
  BY EmptySeq
<1>2. RowsTyped
  BY <1>1 DEF Init, RowsTyped
<1>3. \A r \in Result : Unsent(r) /\ ~Ready(r)
  BY DEF Init, Unsent, Ready
<1>. QED
  BY <1>2, <1>3 DEF RowsInv, Accounted, Told

LEMMA StutterRows == RowsInv /\ UNCHANGED vars => RowsInv'
  BY DEF vars, sent, frames, arrows, ghosts, RowsInv, RowsTyped, Unsent, Accounted, Told, Rest, Held, Ready, Is,
         Positioned, TakesRows, Handed, LeftOf

\* All but the result a step is about are untouched: what is left to show is about that result, and the types.
LEMMA RowsStep ==
  ASSUME IInv, RowsInv, NEW r \in Result,
         \A x \in Result \ {r} : Untouched(x),
         kind' \in [Result -> {None} \cup UNION {Kind[x] : x \in Result}],
         completed' \in [Result -> BOOLEAN],
         resultset' \in [Result -> {None} \cup Seq(Row)],
         fetched' \in [Result -> Nat],
         answer' \in [Result -> Seq(Row)], gone' \in [Result -> Seq(Row)],
         lost' \in [Result -> SUBSET Row], lost'[r] \subseteq ToSet(gone'[r]),
         kind'[r] \in {None} \cup Kind[r],
         resultset'[r] = None => fetched'[r] = 0,
         resultset'[r] # None => fetched'[r] <= Len(resultset'[r]),
         current'[r] = None => pending'[r] = <<>>,
         Unsent(r)', Accounted(r)', Told(r)'
  PROVE  RowsInv'
<1>1. ASSUME NEW x \in Result
      PROVE  /\ kind'[x] \in {None} \cup Kind[x]
             /\ lost'[x] \subseteq ToSet(gone'[x])
             /\ resultset'[x] = None => fetched'[x] = 0
             /\ resultset'[x] # None => fetched'[x] <= Len(resultset'[x])
             /\ current'[x] = None => pending'[x] = <<>>
             /\ Unsent(x)' /\ Accounted(x)' /\ Told(x)'
  <2>1. CASE x = r
    BY <2>1
  <2>2. CASE x # r
    <3>1. Untouched(x)
      BY <2>2
    <3>2. /\ Unsent(x)' /\ Accounted(x)' /\ Told(x)'
          /\ (current[x] = None => pending[x] = <<>>)'
      BY <3>1, UntouchedKeeps
    <3>. QED
      BY <3>1, <3>2 DEF Untouched, RowsInv, RowsTyped
  <2>. QED
    BY <2>1, <2>2
<1>2. RowsTyped'
  BY <1>1 DEF RowsTyped
<1>. QED
  BY <1>1, <1>2 DEF RowsInv

\* A result made of executions holds the rows of all of them, one after the other.
LEMMA ExecutedRows ==
  ASSUME NEW k, NEW t \in {0, 1}, NEW n \in 0..MaxBound, NEW counts \in Counts(n)
  PROVE  /\ AllRows(t, counts) \in Seq(Row)
         /\ LeftOf(Executed(k, t, counts)) = AllRows(t, counts)
         /\ counts = <<>> => AllRows(t, counts) = <<>>
<1>. DEFINE qs == Executed(k, t, counts)
<1>1. qs \in Seq(QueryResult) /\ Len(qs) = n /\ n \in Nat
  <2>1. n \in Nat /\ n \in 0..MaxBound /\ t \in {0, 1} /\ counts \in Counts(n)
    OBVIOUS
  <2>2. Executed(k, t, counts) \in Seq(QueryResult) /\ Len(Executed(k, t, counts)) = n
    BY ONLY <2>1, ExecutedType
  <2>. QED
    BY <2>1, <2>2
<1>2. DOMAIN counts = 1..n /\ DOMAIN qs = 1..n
  BY DEF Counts, Executed
<1>3. [i \in DOMAIN qs |-> qs[i].left] = [i \in DOMAIN counts |-> RowsOf(t, counts, i)]
  BY <1>2 DEF Executed
<1>4. LeftOf(qs) = AllRows(t, counts)
  BY <1>3 DEF LeftOf, AllRows
<1>5. LeftOf(qs) \in Seq(Row)
  BY <1>1, LeftOfType
<1>6. counts = <<>> => LeftOf(qs) = <<>>
  <2>. SUFFICES ASSUME counts = <<>> PROVE LeftOf(qs) = <<>>
    OBVIOUS
  <2>1. n = 0
    BY <1>1, <1>2
  <2>2. qs = <<>>
    BY <1>1, <2>1, EmptySeq
  <2>. HIDE DEF qs
  <2>. QED
    BY <2>2, LeftOfEmpty
<1>. QED
  BY <1>4, <1>5, <1>6

\* The first query result and the ones pending are those there are.
LEMMA HeadBeforeTail ==
  ASSUME NEW S, NEW qs \in Seq(S), qs # <<>>
  PROVE  <<Head(qs)>> \o Tail(qs) = qs
<1>1. Head(qs) \in S /\ Head(qs) = qs[1] /\ Tail(qs) \in Seq(S) /\ Len(Tail(qs)) = Len(qs) - 1
  BY HeadTailProperties
<1>2. \A i \in 1..Len(Tail(qs)) : Tail(qs)[i] = qs[i + 1]
  BY HeadTailProperties
<1>. QED
  BY <1>1, <1>2

LEMMA AnsweredRows ==
  ASSUME IInv, RowsInv, NEW r \in Result, NEW k \in Kind[r], NEW n \in 0..MaxBound, NEW counts \in Counts(n),
         kind' \in [Result -> {None} \cup UNION {Kind[x] : x \in Result}], kind'[r] = k,
         \A x \in Result \ {r} : kind'[x] = kind[x] /\ open'[x] = open[x] /\ fetched'[x] = fetched[x],
         fetched' \in [Result -> Nat], fetched'[r] = 0,
         turn' \in [Result -> {0, 1}], Answered(r, k, counts)
  PROVE  RowsInv'
<1>. DEFINE rows   == AllRows(turn'[r], counts)
            qs     == Executed(k, turn'[r], counts)
            others == IF counts = <<>> THEN current ELSE AfterStatement
<1>1. turn'[r] \in {0, 1}
  OBVIOUS
<1>2. /\ rows \in Seq(Row) /\ LeftOf(qs) = rows /\ qs \in Seq(QueryResult)
  BY <1>1, ExecutedRows, ExecutedType
<1>3. /\ answer' = [answer EXCEPT ![r] = rows] /\ gone' = [gone EXCEPT ![r] = <<>>]
      /\ lost' = [lost EXCEPT ![r] = {}]
      /\ k.class = "frame" =>
           /\ resultset' = [resultset EXCEPT ![r] = rows] /\ current' = others
           /\ UNCHANGED <<pending, completed>>
      /\ k.class # "frame" =>
           /\ current' = [others EXCEPT ![r] = IF qs = <<>> THEN None ELSE Head(qs)]
           /\ pending' = [pending EXCEPT ![r] = IF qs = <<>> THEN <<>> ELSE Tail(qs)]
           /\ completed' = [completed EXCEPT ![r] = qs = <<>>]
           /\ UNCHANGED resultset
  BY DEF Answered
<1>4. \A x \in Result : others[x] \in {current[x], Ended(current[x])}
  BY DEF AfterStatement
<1>5. others \in [Result -> {None} \cup QueryResult] /\ pending[r] \in Seq(QueryResult)
  BY AfterStatementKeeps, SettledIsQueryResult, SeqMonotonic DEF IInv, HeldOK
<1>6. k # None /\ <<>> \in Seq(Row) /\ Len(rows) \in Nat /\ rows # None
  BY <1>2, NoneAssumption, EmptySeq, LenProperties
<1>. HIDE DEF rows, qs, others
<1>7. qs # <<>> => Head(qs) \in QueryResult /\ Head(qs) # None /\ <<Head(qs)>> \o Tail(qs) = qs
  BY <1>2, HeadBeforeTail, HeadTailProperties, NoneAssumption
<1>8. /\ completed' \in [Result -> BOOLEAN] /\ resultset' \in [Result -> {None} \cup Seq(Row)]
      /\ answer' \in [Result -> Seq(Row)] /\ gone' \in [Result -> Seq(Row)]
      /\ lost' \in [Result -> SUBSET Row] /\ lost'[r] = {}
  BY <1>2, <1>3, <1>6 DEF RowsInv, RowsTyped
<1>9. answer'[r] = rows /\ gone'[r] = <<>>
  BY <1>3 DEF RowsInv, RowsTyped
<1>10. \A x \in Result \ {r} : Untouched(x)
  BY <1>3, <1>4, <1>5 DEF Untouched, RowsInv, RowsTyped, IInv, HeldOK
<1>11. current'[r] = None => pending'[r] = <<>>
  <2>1. CASE k.class = "frame"
    BY <1>3, <1>4, <1>5, <2>1, EndedLeft DEF RowsInv, RowsTyped, IInv, HeldOK
  <2>2. CASE k.class # "frame"
    BY <1>3, <1>5, <1>7, <2>2 DEF IInv, HeldOK
  <2>. QED
    BY <2>1, <2>2
<1>12. resultset'[r] # None => fetched'[r] <= Len(resultset'[r])
  BY <1>8, LenProperties
<1>13. CASE k.class = "frame"
  <2>1. resultset'[r] = rows /\ fetched'[r] = 0
    BY <1>3, <1>13 DEF RowsInv, RowsTyped
  <2>2. Rest(r)' = SubSeq(rows, 1, Len(rows))
    BY <1>6, <1>13, <2>1 DEF Rest, Is
  <2>3. Rest(r)' = rows
    BY <1>2, <2>2, SubSeqFull
  <2>4. gone'[r] \o Rest(r)' = answer'[r]
    BY <1>2, <1>9, <2>3, ConcatEmptySeq
  <2>5. ~Is(r, "arrow")'
    BY <1>13 DEF Is
  <2>. QED
    BY <1>6, <1>8, <1>10, <1>11, <1>12, <2>4, <2>5, RowsStep DEF Unsent, Accounted, Told
<1>14. CASE k.class # "frame"
  <2>1. /\ current'[r] = IF qs = <<>> THEN None ELSE Head(qs)
        /\ pending'[r] = IF qs = <<>> THEN <<>> ELSE Tail(qs)
        /\ completed'[r] = (qs = <<>>)
    BY <1>3, <1>5, <1>14 DEF RowsInv, RowsTyped, IInv, HeldOK
  <2>2. Held(r)' = qs
    BY <1>7, <2>1 DEF Held
  <2>3. Is(r, "arrow")' => Rest(r)' = rows
    BY <1>2, <2>2 DEF Rest, LeftOf
  <2>4. Positioned(r)' => Is(r, "arrow")'
    BY <1>6, <1>14 DEF Positioned, Is
  <2>5. Accounted(r)'
    BY <1>2, <1>9, <2>3, <2>4, ConcatEmptySeq DEF Accounted
  <2>6. Told(r)'
    BY <1>2, <2>1, <2>3, LeftOfEmpty DEF Told
  <2>. QED
    BY <1>6, <1>8, <1>10, <1>11, <1>12, <2>5, <2>6, RowsStep DEF Unsent
<1>. QED
  BY <1>13, <1>14

LEMMA SendRows ==
  ASSUME IInv, RowsInv, NEW r \in Result, NEW k \in Kind[r], Send(r, k)
  PROVE  RowsInv'
<1>1. /\ kind[r] = None /\ k # None
      /\ kind' = [kind EXCEPT ![r] = k] /\ open' = [open EXCEPT ![r] = TRUE]
      /\ UNCHANGED <<fetched, turn>>
  BY NoneAssumption DEF Send
<1>2. /\ kind' \in [Result -> {None} \cup UNION {Kind[x] : x \in Result}] /\ kind'[r] = k
      /\ \A x \in Result \ {r} : kind'[x] = kind[x] /\ open'[x] = open[x] /\ fetched'[x] = fetched[x]
  BY <1>1 DEF RowsInv, RowsTyped, IInv
<1>3. resultset[r] = None /\ current[r] = None /\ gone[r] = <<>> /\ answer[r] = <<>> /\ fetched[r] = 0
      /\ pending[r] = <<>>
  BY <1>1 DEF RowsInv, RowsTyped, Unsent
<1>4. CASE k.params
  <2>1. /\ current' = AfterStatement
        /\ UNCHANGED <<resultset, pending, completed, answer, gone, lost>>
    BY <1>4 DEF Send
  <2>2. \A x \in Result : current'[x] \in {current[x], Ended(current[x])}
    BY <2>1 DEF AfterStatement
  <2>3. \A x \in Result \ {r} : Untouched(x)
    BY <1>1, <1>2, <2>1, <2>2 DEF Untouched
  <2>4. current'[r] = None
    BY <1>3, <2>2 DEF Ended
  <2>5. Rest(r)' = <<>>
    BY <1>1, <1>3, <2>1, <2>4, LeftOfEmpty DEF Rest, Held, LeftOf
  <2>6. <<>> \o <<>> = <<>>
    BY EmptySeq, ConcatEmptySeq
  <2>7. Accounted(r)' /\ Told(r)' /\ Unsent(r)'
    BY <1>1, <1>2, <1>3, <2>1, <2>5, <2>6 DEF Accounted, Told, Unsent
  <2>. QED
    BY <1>1, <1>2, <1>3, <2>1, <2>3, <2>7, RowsStep DEF RowsInv, RowsTyped
<1>5. CASE ~k.params
  <2>1. PICK counts \in Counts(1) : Answered(r, k, counts)
    BY <1>5 DEF Send
  <2>2. 1 \in 0..MaxBound
    OBVIOUS
  <2>3. turn' \in [Result -> {0, 1}] /\ fetched' \in [Result -> Nat] /\ fetched'[r] = 0
    BY <1>1, <1>3 DEF IInv, RowsInv, RowsTyped
  <2>. QED
    BY <1>2, <2>1, <2>2, <2>3, AnsweredRows
<1>. QED
  BY <1>4, <1>5

LEMMA BindRows ==
  ASSUME IInv, RowsInv, NEW r \in Result, NEW n \in 0..MaxBound, Bind(r, n)
  PROVE  RowsInv'
<1>1. PICK counts \in Counts(n) : Answered(r, kind[r], counts)
  BY DEF Bind
<1>2. /\ kind[r] # None /\ UNCHANGED <<kind, open>>
      /\ fetched' = [fetched EXCEPT ![r] = 0]
      /\ turn' = [turn EXCEPT ![r] = 1 - @]
  BY DEF Bind, Ready, FromTheStart, sent
<1>3. kind[r] \in Kind[r]
  BY <1>2 DEF RowsInv, RowsTyped
<1>4. /\ fetched' \in [Result -> Nat] /\ fetched'[r] = 0
      /\ \A x \in Result \ {r} : fetched'[x] = fetched[x]
  BY <1>2 DEF RowsInv, RowsTyped
<1>5. turn' \in [Result -> {0, 1}]
  BY <1>2 DEF IInv
<1>6. kind' \in [Result -> {None} \cup UNION {Kind[x] : x \in Result}]
  BY <1>2 DEF RowsInv, RowsTyped
<1>. QED
  BY <1>1, <1>2, <1>3, <1>4, <1>5, <1>6, AnsweredRows

\* A bind that is refused or fails answers nothing, and leaves nothing of the answer before it.
LEMMA StartsOverRows ==
  ASSUME IInv, RowsInv, NEW r \in Result, NEW others,
         others \in [Result -> {None} \cup QueryResult],
         \A x \in Result : others[x] \in {current[x], Ended(current[x])},
         StartsOver(r, others)
  PROVE  RowsInv'
<1>1. /\ kind[r] # None /\ UNCHANGED <<kind, open>>
      /\ answer' = [answer EXCEPT ![r] = <<>>] /\ gone' = [gone EXCEPT ![r] = <<>>]
      /\ lost' = [lost EXCEPT ![r] = {}]
      /\ fetched' = [fetched EXCEPT ![r] = 0]
      /\ Is(r, "arrow") =>
           /\ current' = [others EXCEPT ![r] = None] /\ pending' = [pending EXCEPT ![r] = <<>>]
           /\ completed' = [completed EXCEPT ![r] = FALSE] /\ UNCHANGED resultset
      /\ ~Is(r, "arrow") =>
           /\ resultset' = [resultset EXCEPT ![r] = <<>>] /\ current' = others /\ UNCHANGED <<pending, completed>>
  BY DEF StartsOver, Ready, FromTheStart, Dropped, sent
<1>2. <<>> \in Seq(Row) /\ <<>> # None /\ Len(<<>>) = 0
  BY EmptySeq, NoneAssumption
<1>3. /\ completed' \in [Result -> BOOLEAN] /\ resultset' \in [Result -> {None} \cup Seq(Row)]
      /\ answer' \in [Result -> Seq(Row)] /\ gone' \in [Result -> Seq(Row)] /\ fetched' \in [Result -> Nat]
      /\ answer'[r] = <<>> /\ gone'[r] = <<>> /\ fetched'[r] = 0
      /\ lost' \in [Result -> SUBSET Row] /\ lost'[r] = {}
  BY <1>1, <1>2 DEF RowsInv, RowsTyped
<1>4. \A x \in Result \ {r} : Untouched(x)
  BY <1>1 DEF Untouched, RowsInv, RowsTyped, IInv, HeldOK
<1>5. current'[r] = None => pending'[r] = <<>>
  BY <1>1, EndedLeft DEF RowsInv, RowsTyped, IInv, HeldOK
<1>6. Rest(r)' = <<>>
  <2>1. CASE Is(r, "arrow")
    <3>1. Held(r)' = <<>>
      BY <1>1, <2>1 DEF Held, IInv, HeldOK
    <3>. QED
      BY <1>1, <2>1, <3>1, LeftOfEmpty DEF Rest, Is, LeftOf
  <2>2. CASE ~Is(r, "arrow")
    <3>1. resultset'[r] = <<>>
      BY <1>1, <2>2 DEF RowsInv, RowsTyped
    <3>2. SubSeq(<<>>, 0 + 1, Len(<<>>)) = <<>>
      BY <1>2, SubSeqEmpty
    <3>. QED
      BY <1>1, <1>2, <1>3, <2>2, <3>1, <3>2 DEF Rest, Is
  <2>. QED
    BY <2>1, <2>2
<1>7. <<>> \o <<>> = <<>>
  BY <1>2, ConcatEmptySeq
<1>8. Accounted(r)' /\ Told(r)' /\ Unsent(r)'
  BY <1>1, <1>3, <1>6, <1>7 DEF Accounted, Told, Unsent
<1>9. resultset'[r] # None => fetched'[r] <= Len(resultset'[r])
  BY <1>3, LenProperties
<1>10. /\ kind' \in [Result -> {None} \cup UNION {Kind[x] : x \in Result}]
       /\ kind'[r] \in {None} \cup Kind[r]
  BY <1>1 DEF RowsInv, RowsTyped
<1>. QED
  BY <1>3, <1>4, <1>5, <1>8, <1>9, <1>10, RowsStep

LEMMA BindFailsRows ==
  ASSUME IInv, RowsInv, NEW r \in Result, BindRefused(r) \/ RunsForNothing(r)
  PROVE  RowsInv'
<1>1. CASE BindRefused(r)
  BY <1>1, StartsOverRows DEF BindRefused, IInv, HeldOK
<1>2. CASE RunsForNothing(r)
  <2>1. \A x \in Result : AfterStatement[x] \in {current[x], Ended(current[x])}
    BY DEF AfterStatement
  <2>. QED
    BY <1>2, <2>1, AfterStatementKeeps, StartsOverRows DEF RunsForNothing, IInv
<1>. QED
  BY <1>1, <1>2

LEMMA SendFailsRows == IInv /\ RowsInv /\ SendFails => RowsInv'
<1>. SUFFICES ASSUME IInv, RowsInv, SendFails PROVE RowsInv'
  OBVIOUS
<1>1. \A x \in Result : Untouched(x)
  BY DEF SendFails, Untouched, AfterStatement, sent, frames, ghosts
<1>2. \A x \in Result : Unsent(x)' /\ Accounted(x)' /\ Told(x)' /\ (current[x] = None => pending[x] = <<>>)'
  BY <1>1, UntouchedKeeps
<1>3. RowsTyped'
  BY <1>2 DEF SendFails, RowsInv, RowsTyped, sent, frames, ghosts
<1>. QED
  BY <1>2, <1>3 DEF RowsInv

-----------------------------------------------------------------------------
\* A slice of n elements, or of all there are, and what remains.
LEMMA TakeAndDrop ==
  ASSUME NEW S, NEW s \in Seq(S), NEW n \in Nat, NEW k, k = IF n < Len(s) THEN n ELSE Len(s)
  PROVE  /\ SubSeq(s, 1, k) \in Seq(S) /\ SubSeq(s, n + 1, Len(s)) \in Seq(S)
         /\ s = SubSeq(s, 1, k) \o SubSeq(s, n + 1, Len(s))
<1>1. Len(s) \in Nat /\ k \in 0..Len(s)
  BY LenProperties
<1>2. \A i \in 1..Len(s) : s[i] \in S
  BY ElementOfSeq
<1>3. SubSeq(s, 1, k) \in Seq(S) /\ SubSeq(s, k + 1, Len(s)) \in Seq(S)
  BY <1>1, <1>2, SubSeqProperties
<1>4. SubSeq(s, n + 1, Len(s)) = SubSeq(s, k + 1, Len(s))
  <2>1. CASE n < Len(s)
    BY <2>1
  <2>2. CASE ~(n < Len(s))
    <3>1. k = Len(s) /\ n + 1 \in Int /\ k + 1 \in Int /\ Len(s) \in Int /\ Len(s) < n + 1 /\ Len(s) < k + 1
      BY <1>1, <2>2
    <3>2. SubSeq(s, n + 1, Len(s)) = <<>>
      BY ONLY <3>1, SubSeqEmpty
    <3>3. SubSeq(s, k + 1, Len(s)) = <<>>
      BY ONLY <3>1, SubSeqEmpty
    <3>. QED
      BY <3>2, <3>3
  <2>. QED
    BY <2>1, <2>2
<1>5. SubSeq(s, 1, k) \o SubSeq(s, k + 1, Len(s)) = SubSeq(s, 1, Len(s))
  <2>1. 1 \in 1..(Len(s) + 1) /\ k \in (1 - 1)..Len(s) /\ Len(s) \in k..Len(s)
    BY <1>1
  <2>. QED
    BY <2>1, ConcatAdjacentSubSeq
<1>. QED
  BY <1>3, <1>4, <1>5, SubSeqFull

\* What remains of what remained.
LEMMA DropAfterDrop ==
  ASSUME NEW S, NEW s \in Seq(S), NEW f \in 0..Len(s), NEW k \in 0..(Len(s) - f)
  PROVE  /\ SubSeq(s, f + 1, Len(s)) \in Seq(S)
         /\ Len(SubSeq(s, f + 1, Len(s))) = Len(s) - f
         /\ SubSeq(SubSeq(s, f + 1, Len(s)), k + 1, Len(s) - f) = SubSeq(s, f + k + 1, Len(s))
<1>. DEFINE t == SubSeq(s, f + 1, Len(s))
            u == SubSeq(t, k + 1, Len(s) - f)
            v == SubSeq(s, f + k + 1, Len(s))
<1>1. Len(s) \in Nat /\ f \in Nat /\ k \in Nat /\ f <= Len(s) /\ f + k <= Len(s)
  BY LenProperties
<1>2. \A i \in 1..Len(s) : s[i] \in S
  BY ElementOfSeq
<1>3. /\ t \in Seq(S) /\ Len(t) = Len(s) - f
      /\ \A i \in 1..(Len(s) - f) : t[i] = s[f + i]
  <2>1. \A i \in (f + 1)..Len(s) : s[i] \in S
    BY <1>1, <1>2
  <2>2. /\ t \in Seq(S)
        /\ Len(t) = IF f + 1 <= Len(s) THEN Len(s) - (f + 1) + 1 ELSE 0
        /\ \A i \in 1..(Len(s) - (f + 1) + 1) : t[i] = s[(f + 1) + i - 1]
    BY <1>1, <2>1, SubSeqProperties
  <2>. HIDE DEF t
  <2>. QED
    BY <1>1, <2>2
<1>. HIDE DEF t
<1>4. \A i \in 1..(Len(s) - f) : t[i] \in S
  BY <1>1, <1>2, <1>3
<1>5. /\ u \in Seq(S) /\ Len(u) = Len(s) - f - k
      /\ \A i \in 1..(Len(s) - f - k) : u[i] = s[f + k + i]
  <2>1. /\ u \in Seq(S)
        /\ Len(u) = IF k + 1 <= Len(s) - f THEN Len(s) - f - (k + 1) + 1 ELSE 0
        /\ \A i \in 1..(Len(s) - f - (k + 1) + 1) : u[i] = t[(k + 1) + i - 1]
    BY <1>1, <1>4, SubSeqProperties
  <2>. HIDE DEF u
  <2>2. Len(u) = Len(s) - f - k
    BY <1>1, <2>1
  <2>3. ASSUME NEW i \in 1..(Len(s) - f - k) PROVE u[i] = s[f + k + i]
    <3>1. /\ i \in 1..(Len(s) - f - (k + 1) + 1) /\ (k + 1) + i - 1 = k + i
          /\ k + i \in 1..(Len(s) - f) /\ f + (k + i) = f + k + i
      BY <1>1
    <3>2. u[i] = t[k + i]
      BY <2>1, <3>1
    <3>3. t[k + i] = s[f + (k + i)]
      BY <1>3, <3>1
    <3>. QED
      BY <3>1, <3>2, <3>3
  <2>. QED
    BY <2>1, <2>2, <2>3
<1>6. /\ v \in Seq(S) /\ Len(v) = Len(s) - f - k
      /\ \A i \in 1..(Len(s) - f - k) : v[i] = s[f + k + i]
  <2>1. /\ v \in Seq(S)
        /\ Len(v) = IF f + k + 1 <= Len(s) THEN Len(s) - (f + k + 1) + 1 ELSE 0
        /\ \A i \in 1..(Len(s) - (f + k + 1) + 1) : v[i] = s[(f + k + 1) + i - 1]
    BY <1>1, <1>2, SubSeqProperties
  <2>. HIDE DEF v
  <2>. QED
    BY <1>1, <2>1
<1>7. u = v
  <2>. HIDE DEF u, v
  <2>. QED
    BY <1>5, <1>6, SeqEqual
<1>. QED
  BY <1>3, <1>7 DEF t, u, v

LEMMA FetchRows ==
  ASSUME IInv, RowsInv, NEW r \in Result, NEW n \in 1..MaxRows, Fetch(r, n)
  PROVE  RowsInv'
<1>. DEFINE rest == Rest(r)
            k    == IF n < Len(rest) THEN n ELSE Len(rest)
            rows == resultset[r]
            f    == fetched[r]
<1>1. /\ Ready(r) /\ Is(r, "frame") /\ TakesRows(r) /\ rows # None
      /\ fetched' = [fetched EXCEPT ![r] = @ + k]
      /\ gone' = [gone EXCEPT ![r] = @ \o SubSeq(rest, 1, k)]
      /\ UNCHANGED <<kind, open, resultset, current, pending, completed, turn, answer, lost>>
  BY DEF Fetch, sent, arrows
<1>2. rows \in Seq(Row) /\ f \in Nat /\ f <= Len(rows) /\ Len(rows) \in Nat
  BY <1>1, LenProperties DEF RowsInv, RowsTyped
<1>3. rest = SubSeq(rows, f + 1, Len(rows)) /\ ~Is(r, "arrow")
  BY <1>1 DEF Rest, Is
<1>4. rest \in Seq(Row) /\ Len(rest) = Len(rows) - f
  <2>1. f \in 0..Len(rows) /\ 0 \in 0..(Len(rows) - f)
    BY <1>2
  <2>. QED
    BY <1>2, <1>3, <2>1, DropAfterDrop
<1>5. k \in 0..(Len(rows) - f) /\ k \in Nat
  BY <1>2, <1>4
<1>6. SubSeq(rest, k + 1, Len(rest)) = SubSeq(rows, f + k + 1, Len(rows))
  <2>1. f \in 0..Len(rows)
    BY <1>2
  <2>. QED
    BY <1>2, <1>3, <1>4, <1>5, <2>1, DropAfterDrop
<1>7. /\ SubSeq(rest, 1, k) \in Seq(Row) /\ SubSeq(rest, k + 1, Len(rest)) \in Seq(Row)
      /\ rest = SubSeq(rest, 1, k) \o SubSeq(rest, k + 1, Len(rest))
  <2>1. k = IF k < Len(rest) THEN k ELSE Len(rest)
    BY <1>4, <1>5, <1>2
  <2>. QED
    BY <1>4, <1>5, <2>1, TakeAndDrop
<1>. HIDE DEF rest, k, rows, f
<1>8. fetched' \in [Result -> Nat] /\ fetched'[r] = f + k /\ fetched'[r] <= Len(rows)
  BY <1>1, <1>2, <1>5 DEF f, RowsInv, RowsTyped
<1>9. /\ gone' \in [Result -> Seq(Row)] /\ gone'[r] = gone[r] \o SubSeq(rest, 1, k) /\ gone[r] \in Seq(Row)
  BY <1>1, <1>7, ConcatProperties DEF RowsInv, RowsTyped
<1>14. lost'[r] \subseteq ToSet(gone'[r])
  <2>1. lost'[r] = lost[r] /\ lost[r] \subseteq ToSet(gone[r])
    BY <1>1 DEF RowsInv, RowsTyped
  <2>2. ToSet(gone'[r]) = ToSet(gone[r]) \cup ToSet(SubSeq(rest, 1, k))
    BY ONLY <1>7, <1>9, SetOfBoth
  <2>. QED
    BY ONLY <2>1, <2>2
<1>10. Rest(r)' = SubSeq(rest, k + 1, Len(rest))
  <2>1. Rest(r)' = SubSeq(rows, fetched'[r] + 1, Len(rows))
    BY <1>1, <1>3 DEF rows, Rest, Is
  <2>. QED
    BY <1>6, <1>8, <2>1
<1>11. gone'[r] \o Rest(r)' = gone[r] \o rest
  <2>1. PICK taken \in Seq(Row), remains \in Seq(Row) :
          taken = SubSeq(rest, 1, k) /\ remains = SubSeq(rest, k + 1, Len(rest))
    BY <1>7
  <2>2. /\ rest = Cat(taken, remains) /\ gone'[r] = Cat(gone[r], taken) /\ Rest(r)' = remains
        /\ gone[r] \in Seq(Row)
    BY <1>7, <1>9, <1>10, <2>1 DEF Cat
  <2>3. Cat(gone'[r], Rest(r)') = Cat(gone[r], rest)
    BY <2>2, CatAssociative
  <2>. QED
    BY <2>3 DEF Cat
<1>12. Accounted(r)' /\ Told(r)' /\ Unsent(r)'
  <2>1. Ready(r)' /\ ~Is(r, "arrow")' /\ Positioned(r)
    BY <1>1, <1>3 DEF Ready, Is, Positioned
  <2>2. gone[r] \o rest = answer[r]
    BY <1>1, <2>1 DEF RowsInv, Accounted, rest
  <2>. QED
    BY <1>1, <1>11, <2>1, <2>2 DEF Accounted, Told, Unsent, Ready
<1>13. \A x \in Result \ {r} : Untouched(x)
  BY <1>1 DEF Untouched, RowsInv, RowsTyped
<1>. QED
  BY <1>1, <1>8, <1>9, <1>12, <1>13, <1>14, RowsStep DEF RowsInv, RowsTyped, rows

\* What comes before the source of a read is drained; and a source at its end is the last of what is held.
LEMMA SourceFirst ==
  ASSUME NEW qs \in Seq(QueryResult), qs # <<>>
  PROVE  /\ \A j \in 1..(Source(qs) - 1) : qs[j].left = <<>>
         /\ qs[Source(qs)].left = <<>> /\ ~Cut(qs[Source(qs)]) => Source(qs) = Len(qs)
<1>. DEFINE more == {i \in DOMAIN qs : qs[i].left # <<>> \/ Cut(qs[i])}
            src  == Source(qs)
<1>1. src \in 1..Len(qs) /\ DOMAIN qs = 1..Len(qs) /\ Len(qs) \in Nat
  BY SourceType, LenProperties
<1>2. CASE more = {}
  <2>1. src = Len(qs)
    BY <1>2 DEF Source
  <2>. HIDE DEF src
  <2>. QED
    BY <1>1, <1>2, <2>1 DEF src
<1>3. CASE more # {}
  <2>1. more \subseteq Nat
    BY <1>1
  <2>. HIDE DEF more
  <2>2. \E i \in more : \A j \in more : i <= j
    BY <1>3, <2>1, LeastNumber
  <2>3. src = CHOOSE i \in more : \A j \in more : i <= j
    BY <1>3 DEF Source, more
  <2>. HIDE DEF src
  <2>4. src \in more /\ \A j \in more : src <= j
    BY <2>2, <2>3
  <2>5. \A j \in 1..(src - 1) : j \in DOMAIN qs /\ j \notin more
    BY <1>1, <2>4
  <2>6. \A j \in 1..(src - 1) : qs[j].left = <<>>
    BY <2>5 DEF more
  <2>7. ~(qs[src].left = <<>> /\ ~Cut(qs[src]))
    BY <2>4 DEF more
  <2>. QED
    BY <2>6, <2>7 DEF src
<1>. QED
  BY <1>2, <1>3

LEMMA FetchChunkRows ==
  ASSUME IInv, RowsInv, NEW r \in Result, NEW n \in 1..MaxRows, FetchChunk(r, n)
  PROVE  RowsInv'
<1>. DEFINE qs   == Held(r)
            i    == Source(qs)
            q    == qs[i]
            k    == IF n < Len(q.left) THEN n ELSE Len(q.left)
            more == SubSeq(qs, i + 1, Len(qs))
<1>1. /\ Ready(r) /\ Is(r, "arrow") /\ ~completed[r] /\ current[r] # None /\ ~Cut(q)
      /\ gone' = [gone EXCEPT ![r] = @ \o SubSeq(q.left, 1, k)]
      /\ current' = [current EXCEPT ![r] = AfterBatch(q, n)]
      /\ pending' = [pending EXCEPT ![r] = more]
      /\ completed' = [completed EXCEPT ![r] = AtEnd(q)]
      /\ UNCHANGED <<kind, open, resultset, fetched, turn, answer, lost>>
  BY DEF FetchChunk, Reads, sent, frames
<1>2. qs \in Seq(QueryResult) /\ qs # <<>> /\ Len(qs) \in Nat
  BY <1>1, HeldType, LenProperties
<1>. HIDE DEF qs
<1>3. /\ i \in 1..Len(qs) /\ \A j \in 1..(i - 1) : qs[j].left = <<>>
      /\ q.left = <<>> => i = Len(qs)
  BY <1>1, <1>2, SourceType, SourceFirst
<1>. HIDE DEF i
<1>4. q \in QueryResult /\ q.left \in Seq(Row)
  <2>1. qs[i] \in QueryResult
    BY ONLY <1>2, <1>3, ElementOfSeq
  <2>. QED
    BY <2>1 DEF QueryResult
<1>5. more \in Seq(QueryResult) /\ LeftOf(qs) = q.left \o LeftOf(more) /\ LeftOf(more) \in Seq(Row)
  BY <1>2, <1>3, LeftOfFrom, LeftOfType
<1>. HIDE DEF q, more
<1>6. /\ SubSeq(q.left, 1, k) \in Seq(Row) /\ SubSeq(q.left, n + 1, Len(q.left)) \in Seq(Row)
      /\ q.left = SubSeq(q.left, 1, k) \o SubSeq(q.left, n + 1, Len(q.left))
  <2>1. n \in Nat /\ k = IF n < Len(q.left) THEN n ELSE Len(q.left)
    OBVIOUS
  <2>. HIDE DEF k
  <2>. QED
    BY ONLY <1>4, <2>1, TakeAndDrop
<1>. HIDE DEF k
<1>7. /\ AfterBatch(q, n) \in QueryResult /\ AfterBatch(q, n) # None
      /\ AfterBatch(q, n).left = SubSeq(q.left, n + 1, Len(q.left))
  <2>1. AfterBatch(q, n) \in QueryResult
    BY <1>4, <1>6 DEF AfterBatch, QueryResult, States
  <2>2. AfterBatch(q, n).left = SubSeq(q.left, n + 1, Len(q.left))
    BY <1>4 DEF AfterBatch, QueryResult
  <2>. QED
    BY <2>1, <2>2, NoneAssumption
<1>8. /\ current'[r] = AfterBatch(q, n) /\ pending'[r] = more /\ completed'[r] = AtEnd(q)
      /\ gone'[r] = gone[r] \o SubSeq(q.left, 1, k) /\ gone[r] \in Seq(Row)
  BY <1>1 DEF IInv, HeldOK, RowsInv, RowsTyped
<1>9. /\ completed' \in [Result -> BOOLEAN] /\ gone' \in [Result -> Seq(Row)]
  BY <1>1, <1>6, <1>8, ConcatProperties DEF AtEnd, RowsInv, RowsTyped
<1>17. lost'[r] \subseteq ToSet(gone'[r])
  <2>1. lost'[r] = lost[r] /\ lost[r] \subseteq ToSet(gone[r])
    BY <1>1 DEF RowsInv, RowsTyped
  <2>2. ToSet(gone'[r]) = ToSet(gone[r]) \cup ToSet(SubSeq(q.left, 1, k))
    <3>1. PICK taken \in Seq(Row) : taken = SubSeq(q.left, 1, k)
      BY <1>6
    <3>2. ToSet(gone[r] \o taken) = ToSet(gone[r]) \cup ToSet(taken)
      BY <1>8, SetOfBoth
    <3>. QED
      BY <1>8, <3>1, <3>2
  <2>. QED
    BY ONLY <2>1, <2>2
<1>10. Rest(r) = q.left \o LeftOf(more)
  BY <1>1, <1>5 DEF Rest, qs
<1>11. Rest(r)' = SubSeq(q.left, n + 1, Len(q.left)) \o LeftOf(more)
  <2>1. Held(r)' = <<AfterBatch(q, n)>> \o more
    BY <1>7, <1>8 DEF Held
  <2>2. LeftOf(<<AfterBatch(q, n)>> \o more) = AfterBatch(q, n).left \o LeftOf(more)
    BY <1>5, <1>7, LeftOfBefore
  <2>3. Rest(r)' = LeftOf(<<AfterBatch(q, n)>> \o more)
    BY <1>1, <2>1 DEF Rest, Is, LeftOf
  <2>. QED
    BY <1>7, <2>2, <2>3
<1>12. gone'[r] \o Rest(r)' = gone[r] \o Rest(r)
  <2>1. PICK taken \in Seq(Row), remains \in Seq(Row), others \in Seq(Row) :
          /\ taken = SubSeq(q.left, 1, k) /\ remains = SubSeq(q.left, n + 1, Len(q.left))
          /\ others = LeftOf(more)
    BY <1>5, <1>6
  <2>2. PICK out \in Seq(Row) : out = gone[r]
    BY <1>8
  <2>3. /\ Rest(r) = Cat(Cat(taken, remains), others)
        /\ gone'[r] = Cat(out, taken) /\ Rest(r)' = Cat(remains, others)
    BY <1>6, <1>8, <1>10, <1>11, <2>1, <2>2 DEF Cat
  <2>4. Cat(remains, others) \in Seq(Row)
    BY ConcatProperties DEF Cat
  <2>5. Cat(gone'[r], Rest(r)') = Cat(out, Cat(taken, Cat(remains, others)))
    BY <2>3, <2>4, CatAssociative
  <2>6. Cat(taken, Cat(remains, others)) = Rest(r)
    BY <2>3, CatAssociative
  <2>. QED
    BY <2>2, <2>5, <2>6 DEF Cat
<1>13. Accounted(r)'
  <2>1. gone[r] \o Rest(r) = answer[r]
    BY <1>1 DEF RowsInv, Accounted, Positioned
  <2>. QED
    BY <1>1, <1>12, <2>1 DEF Accounted
<1>14. Told(r)'
  <2>. SUFFICES ASSUME q.left = <<>> PROVE Rest(r)' = <<>>
    BY <1>8 DEF Told, AtEnd
  <2>1. more = <<>>
    BY <1>2, <1>3, SubSeqEmpty DEF more
  <2>2. SubSeq(q.left, n + 1, Len(q.left)) = <<>>
    <3>1. Len(q.left) = 0
      OBVIOUS
    <3>2. n + 1 \in Int /\ Len(q.left) \in Int /\ Len(q.left) < n + 1
      BY <3>1
    <3>. QED
      BY ONLY <3>2, SubSeqEmpty
  <2>. QED
    BY <1>11, <2>1, <2>2, LeftOfEmpty
<1>15. Unsent(r)'
  BY <1>1 DEF Unsent, Ready
<1>16. \A x \in Result \ {r} : Untouched(x)
  BY <1>1 DEF Untouched, RowsInv, RowsTyped, IInv, HeldOK
<1>. QED
  BY <1>1, <1>7, <1>8, <1>9, <1>13, <1>14, <1>15, <1>16, <1>17, RowsStep DEF RowsInv, RowsTyped

\* A stream that is handed over keeps the rows it has.
LEMMA StateChangesRows ==
  ASSUME IInv, RowsInv, NEW r \in Result, NEW state \in States,
         Ready(r), Is(r, "arrow"), ~completed[r], current[r] # None,
         current' = [current EXCEPT ![r].state = state],
         completed' \in [Result -> BOOLEAN], \A x \in Result \ {r} : completed'[x] = completed[x],
         completed'[r] => state = "handed",
         UNCHANGED <<kind, open, resultset, fetched, pending, answer, gone, lost>>
  PROVE  RowsInv'
<1>1. current[r] \in QueryResult /\ pending[r] \in Seq(QueryResult)
  BY SettledIsQueryResult, SeqMonotonic DEF IInv, HeldOK
<1>2. /\ current'[r] = [current[r] EXCEPT !.state = state]
      /\ current'[r] \in QueryResult /\ current'[r] # None
      /\ current'[r].left = current[r].left /\ current'[r].state = state
  <2>1. current'[r] = [current[r] EXCEPT !.state = state]
    BY DEF IInv, HeldOK
  <2>2. /\ [current[r] EXCEPT !.state = state] \in QueryResult
        /\ [current[r] EXCEPT !.state = state].left = current[r].left
        /\ [current[r] EXCEPT !.state = state].state = state
    BY <1>1 DEF QueryResult
  <2>. QED
    BY <2>1, <2>2, NoneAssumption
<1>3. Rest(r)' = Rest(r)
  <2>1. LeftOf(Held(r)) = current[r].left \o LeftOf(pending[r])
    BY <1>1, LeftOfBefore DEF Held
  <2>2. LeftOf(<<current'[r]>> \o pending[r]) = current'[r].left \o LeftOf(pending[r])
    BY <1>1, <1>2, LeftOfBefore
  <2>3. Held(r)' = <<current'[r]>> \o pending[r]
    BY <1>2 DEF Held
  <2>4. Rest(r)' = LeftOf(<<current'[r]>> \o pending[r])
    BY <2>3 DEF Rest, Is, LeftOf
  <2>. QED
    BY <1>2, <2>1, <2>2, <2>4 DEF Rest
<1>4. Accounted(r)' /\ Unsent(r)'
  BY <1>3 DEF RowsInv, Accounted, Unsent, Ready, Positioned, Is, TakesRows
<1>5. Told(r)'
  BY <1>2 DEF Told, Handed
<1>6. \A x \in Result \ {r} : Untouched(x)
  BY DEF Untouched, IInv, HeldOK
<1>. QED
  BY <1>2, <1>4, <1>5, <1>6, RowsStep DEF RowsInv, RowsTyped

\* A read that fails: what it has read has left, and is lost, and what is left follows it.
LEMMA FailsAtRows ==
  ASSUME IInv, RowsInv, NEW r \in Result, Reads(r),
         NEW i \in 1..Len(Held(r)), NEW k \in 0..Len(Held(r)[i].left), NEW state \in States,
         FailsAt(r, i, k, state)
  PROVE  RowsInv'
<1>. DEFINE qs    == Held(r)
            front == SubSeq(qs, 1, i - 1)
            q     == qs[i]
            more  == SubSeq(qs, i + 1, Len(qs))
            taken == SubSeq(q.left, 1, k)
            after == SubSeq(q.left, k + 1, Len(q.left))
            read  == LeftOf(front) \o taken
            new   == [left |-> after, state |-> state]
<1>1. /\ Ready(r) /\ Is(r, "arrow") /\ ~completed[r] /\ current[r] # None
      /\ gone' = [gone EXCEPT ![r] = @ \o read]
      /\ lost' = [lost EXCEPT ![r] = @ \cup ToSet(read)]
      /\ current' = [current EXCEPT ![r] = new]
      /\ pending' = [pending EXCEPT ![r] = more]
      /\ UNCHANGED <<kind, open, resultset, fetched, completed, answer>>
  BY DEF FailsAt, Reads, sent, frames
<1>2. qs \in Seq(QueryResult)
  BY <1>1, HeldType
<1>3. q \in QueryResult /\ q.left \in Seq(Row)
  <2>1. qs[i] \in QueryResult
    BY <1>2, ElementOfSeq
  <2>. QED
    BY <2>1 DEF QueryResult
<1>10. Rest(r) = LeftOf(qs)
  BY <1>1 DEF Rest
<1>. HIDE DEF qs
<1>4. /\ front \in Seq(QueryResult) /\ more \in Seq(QueryResult)
      /\ LeftOf(qs) = Cat(LeftOf(front), Cat(q.left, LeftOf(more)))
      /\ LeftOf(front) \in Seq(Row) /\ LeftOf(more) \in Seq(Row)
  BY <1>2, LeftOfAround, LeftOfType DEF qs
<1>. HIDE DEF front, more, q
<1>5. taken \in Seq(Row) /\ after \in Seq(Row) /\ q.left = Cat(taken, after)
  <2>1. k \in Nat /\ k \in 0..Len(q.left) /\ Len(q.left) \in Nat
    BY <1>3, LenProperties DEF q, qs
  <2>2. k = IF k < Len(q.left) THEN k ELSE Len(q.left)
    BY <2>1
  <2>. QED
    BY <1>3, <2>1, <2>2, TakeAndDrop DEF Cat
<1>. HIDE DEF taken, after
<1>6. new \in QueryResult /\ new # None /\ new.left = after
  <2>1. new \in QueryResult /\ new.left = after
    BY <1>5 DEF QueryResult
  <2>. QED
    BY <2>1, NoneAssumption
<1>7. read \in Seq(Row) /\ read = Cat(LeftOf(front), taken)
  BY <1>4, <1>5, ConcatProperties DEF Cat
<1>. HIDE DEF new, read
<1>8. /\ current'[r] = new /\ pending'[r] = more /\ gone[r] \in Seq(Row)
      /\ gone'[r] = Cat(gone[r], read) /\ lost'[r] = lost[r] \cup ToSet(read)
  BY <1>1 DEF IInv, HeldOK, RowsInv, RowsTyped, Cat
<1>9. Rest(r)' = Cat(after, LeftOf(more))
  <2>1. Held(r)' = <<new>> \o more
    BY <1>6, <1>8 DEF Held
  <2>2. LeftOf(<<new>> \o more) = new.left \o LeftOf(more)
    BY <1>4, <1>6, LeftOfBefore
  <2>3. Rest(r)' = LeftOf(<<new>> \o more)
    BY <1>1, <2>1 DEF Rest, Is, LeftOf
  <2>. QED
    BY <1>6, <2>2, <2>3 DEF Cat
<1>11. Cat(gone'[r], Rest(r)') = Cat(gone[r], Rest(r))
  <2>1. PICK a \in Seq(Row), b \in Seq(Row), c \in Seq(Row), d \in Seq(Row), e \in Seq(Row) :
          a = gone[r] /\ b = LeftOf(front) /\ c = taken /\ d = after /\ e = LeftOf(more)
    BY <1>4, <1>5, <1>8
  <2>2. \A x, y \in Seq(Row) : Cat(x, y) \in Seq(Row)
    BY ConcatProperties DEF Cat
  <2>3. gone'[r] = Cat(a, Cat(b, c)) /\ Rest(r)' = Cat(d, e) /\ Rest(r) = Cat(b, Cat(Cat(c, d), e))
    BY <1>4, <1>5, <1>7, <1>8, <1>9, <1>10, <2>1
  <2>4. Cat(Cat(a, Cat(b, c)), Cat(d, e)) = Cat(a, Cat(Cat(b, c), Cat(d, e)))
    BY <2>2, CatAssociative
  <2>5. Cat(Cat(b, c), Cat(d, e)) = Cat(b, Cat(c, Cat(d, e)))
    BY <2>2, CatAssociative
  <2>6. Cat(c, Cat(d, e)) = Cat(Cat(c, d), e)
    BY CatAssociative
  <2>. QED
    BY <2>1, <2>3, <2>4, <2>5, <2>6
<1>12. gone' \in [Result -> Seq(Row)] /\ lost' \in [Result -> SUBSET Row] /\ lost'[r] \subseteq ToSet(gone'[r])
  <2>1. gone'[r] \in Seq(Row) /\ ToSet(read) \subseteq Row /\ ToSet(gone'[r]) = ToSet(gone[r]) \cup ToSet(read)
    <3>1. gone'[r] \in Seq(Row)
      BY <1>7, <1>8, ConcatProperties DEF Cat
    <3>2. ToSet(read) \subseteq Row
      BY <1>7, ElementOfSeq, LenProperties DEF ToSet
    <3>3. ToSet(gone[r] \o read) = ToSet(gone[r]) \cup ToSet(read)
      BY <1>7, <1>8, SetOfBoth
    <3>. QED
      BY <1>8, <3>1, <3>2, <3>3 DEF Cat
  <2>2. lost[r] \subseteq ToSet(gone[r]) /\ lost[r] \subseteq Row
    BY DEF RowsInv, RowsTyped
  <2>. QED
    BY <1>1, <1>8, <2>1, <2>2 DEF RowsInv, RowsTyped
<1>13. Accounted(r)'
  <2>1. gone[r] \o Rest(r) = answer[r]
    BY <1>1 DEF RowsInv, Accounted, Positioned
  <2>. QED
    BY <1>1, <1>11, <2>1 DEF Accounted, Cat
<1>14. Told(r)' /\ Unsent(r)'
  BY <1>1 DEF Told, Unsent, Ready
<1>15. \A x \in Result \ {r} : Untouched(x)
  BY <1>1 DEF Untouched, RowsInv, RowsTyped, IInv, HeldOK
<1>. QED
  BY <1>1, <1>6, <1>8, <1>12, <1>13, <1>14, <1>15, RowsStep DEF RowsInv, RowsTyped

LEMMA ChunkFailsRows == \A r \in Result, n \in 1..MaxRows : IInv /\ RowsInv /\ ChunkFails(r, n) => RowsInv'
  BY ChunkFailsAt, FailsAtRows

LEMMA DrainFailsRows == \A r \in Result : IInv /\ RowsInv /\ DrainFails(r) => RowsInv'
  BY DrainFailsAt, FailsAtRows

LEMMA HandOverRows == \A r \in Result : IInv /\ RowsInv /\ HandOver(r) => RowsInv'
<1>. SUFFICES ASSUME IInv, RowsInv, NEW r \in Result, HandOver(r) PROVE RowsInv'
  OBVIOUS
<1>1. "handed" \in States
  BY DEF States
<1>2. completed' \in [Result -> BOOLEAN] /\ \A x \in Result \ {r} : completed'[x] = completed[x]
  BY DEF HandOver, RowsInv, RowsTyped
<1>. QED
  BY <1>1, <1>2, StateChangesRows DEF HandOver, Reads, sent, frames, ghosts

LEMMA DrainAllRows == \A r \in Result : IInv /\ RowsInv /\ DrainAll(r) => RowsInv'
<1>. SUFFICES ASSUME IInv, RowsInv, NEW r \in Result, DrainAll(r) PROVE RowsInv'
  OBVIOUS
<1>. DEFINE over == [left |-> <<>>, state |-> "over"]
<1>1. /\ Ready(r) /\ Is(r, "arrow")
      /\ gone' = [gone EXCEPT ![r] = @ \o Rest(r)]
      /\ current' = [current EXCEPT ![r] = over]
      /\ pending' = [pending EXCEPT ![r] = <<>>]
      /\ completed' = [completed EXCEPT ![r] = TRUE]
      /\ UNCHANGED <<kind, open, resultset, fetched, answer, lost>>
  BY DEF DrainAll, Reads, sent, frames
<1>2. over \in QueryResult /\ over # None /\ over.left = <<>> /\ <<>> \in Seq(QueryResult) /\ <<>> \in Seq(Row)
  <2>1. <<>> \in Seq(QueryResult) /\ <<>> \in Seq(Row)
    BY EmptySeq
  <2>2. over \in QueryResult
    BY <2>1 DEF QueryResult, States
  <2>. QED
    BY <2>1, <2>2, NoneAssumption
<1>. HIDE DEF over
<1>3. Rest(r) \in Seq(Row) /\ gone[r] \in Seq(Row)
  BY RestType DEF RowsInv, RowsTyped
<1>4. /\ current'[r] = over /\ pending'[r] = <<>> /\ completed'[r]
      /\ gone'[r] = gone[r] \o Rest(r)
  BY <1>1 DEF IInv, HeldOK, RowsInv, RowsTyped
<1>5. gone'[r] \in Seq(Row)
  BY <1>3, <1>4, ConcatProperties
<1>6. Rest(r)' = <<>>
  <2>1. LeftOf(<<over>> \o <<>>) = over.left \o LeftOf(<<>>)
    BY <1>2, LeftOfBefore
  <2>2. <<>> \o <<>> = <<>>
    BY <1>2, ConcatEmptySeq
  <2>3. LeftOf(<<over>> \o <<>>) = <<>>
    BY <1>2, <2>1, <2>2, LeftOfEmpty
  <2>4. Held(r)' = <<over>> \o <<>>
    BY <1>2, <1>4 DEF Held
  <2>. QED
    BY <1>1, <2>3, <2>4 DEF Rest, Is, LeftOf
<1>7. gone[r] \o Rest(r) = answer[r]
  BY <1>1 DEF RowsInv, Accounted, Positioned
<1>8. gone'[r] \o <<>> = gone'[r]
  BY <1>5, ConcatEmptySeq
<1>9. Accounted(r)' /\ Told(r)' /\ Unsent(r)'
  BY <1>1, <1>4, <1>6, <1>7, <1>8 DEF Accounted, Told, Unsent, Ready
<1>11. lost'[r] \subseteq ToSet(gone'[r])
  BY <1>1, <1>3, <1>4, SetOfBoth DEF RowsInv, RowsTyped
<1>10. /\ gone' \in [Result -> Seq(Row)] /\ completed' \in [Result -> BOOLEAN]
       /\ \A x \in Result \ {r} : Untouched(x)
  BY <1>1, <1>4, <1>5 DEF Untouched, RowsInv, RowsTyped, IInv, HeldOK
<1>. QED
  BY <1>1, <1>2, <1>4, <1>9, <1>10, <1>11, RowsStep DEF RowsInv, RowsTyped

LEMMA ClearRows == \A r \in Result : IInv /\ RowsInv /\ Clear(r) => RowsInv'
<1>. SUFFICES ASSUME IInv, RowsInv, NEW r \in Result, Clear(r) PROVE RowsInv'
  OBVIOUS
<1>1. /\ kind[r] # None /\ open' = [open EXCEPT ![r] = FALSE]
      /\ UNCHANGED <<kind, resultset, fetched, completed, answer, gone, lost>>
      /\ \/ current' = [current EXCEPT ![r] = None] /\ pending' = [pending EXCEPT ![r] = <<>>]
         \/ UNCHANGED <<current, pending>>
  BY DEF Clear, Ready, frames, ghosts
<1>2. ~Ready(r)'
  BY <1>1 DEF Ready, IInv
<1>3. \A x \in Result \ {r} : Untouched(x)
  BY <1>1 DEF Untouched, IInv, HeldOK
<1>4. current'[r] = None => pending'[r] = <<>>
  BY <1>1 DEF RowsInv, RowsTyped, IInv, HeldOK
<1>5. Accounted(r)' /\ Told(r)' /\ Unsent(r)'
  BY <1>1, <1>2 DEF Accounted, Told, Unsent
<1>. QED
  BY <1>1, <1>3, <1>4, <1>5, RowsStep DEF RowsInv, RowsTyped

LEMMA RowsInductive == IInv /\ RowsInv /\ [Next]_vars => RowsInv'
<1>. SUFFICES ASSUME IInv, RowsInv, [Next]_vars PROVE RowsInv'
  OBVIOUS
<1>1. CASE SendFails
  BY <1>1, SendFailsRows
<1>2. CASE UNCHANGED vars
  BY <1>2, StutterRows
<1>3. ASSUME NEW r \in Result, NEW k \in Kind[r], Send(r, k) PROVE RowsInv'
  BY <1>3, SendRows
<1>4. ASSUME NEW r \in Result, NEW n \in 0..MaxBound, Bind(r, n) PROVE RowsInv'
  BY <1>4, BindRows
<1>5. ASSUME NEW r \in Result, BindRefused(r) \/ RunsForNothing(r) PROVE RowsInv'
  BY <1>5, BindFailsRows
<1>6. ASSUME NEW r \in Result, NEW n \in 1..MaxRows, Fetch(r, n) \/ FetchChunk(r, n) \/ ChunkFails(r, n)
      PROVE  RowsInv'
  BY <1>6, FetchRows, FetchChunkRows, ChunkFailsRows
<1>7. ASSUME NEW r \in Result, HandOver(r) \/ DrainAll(r) \/ DrainFails(r) PROVE RowsInv'
  BY <1>7, HandOverRows, DrainAllRows, DrainFailsRows
<1>8. ASSUME NEW r \in Result, Clear(r) PROVE RowsInv'
  BY <1>8, ClearRows
<1>. QED
  BY <1>1, <1>2, <1>3, <1>4, <1>5, <1>6, <1>7, <1>8 DEF Next

-----------------------------------------------------------------------------
LEMMA TypeFollows == IInv /\ RowsInv => TypeOK
<1>. SUFFICES ASSUME IInv, RowsInv PROVE TypeOK
  OBVIOUS
<1>1. ASSUME NEW r \in Result
      PROVE  /\ kind[r] \in Kind[r] \cup {None}
             /\ resultset[r] \in {None} \cup Seq(Row)
             /\ fetched[r] \in 0..(IF resultset[r] = None THEN 0 ELSE Len(resultset[r]))
             /\ current[r] \in {None} \cup QueryResult
             /\ pending[r] \in Seq(QueryResult) /\ (current[r] = None => pending[r] = <<>>)
  <2>1. pending[r] \in Seq(QueryResult)
    BY SettledIsQueryResult, SeqMonotonic DEF IInv, HeldOK
  <2>2. CASE resultset[r] = None
    BY <2>1, <2>2 DEF IInv, HeldOK, RowsInv, RowsTyped
  <2>3. CASE resultset[r] # None
    <3>1. resultset[r] \in Seq(Row) /\ Len(resultset[r]) \in Nat
      BY <2>3, LenProperties DEF RowsInv, RowsTyped
    <3>. QED
      BY <2>1, <2>3, <3>1 DEF IInv, HeldOK, RowsInv, RowsTyped
  <2>. QED
    BY <2>2, <2>3
<1>. QED
  BY <1>1 DEF TypeOK, IInv, RowsInv, RowsTyped

LEMMA AnswerFollows == RowsInv => AnswerAccounted
  BY DEF RowsInv, RowsTyped, Accounted, AnswerAccounted

LEMMA TellsFollows == IInv /\ RowsInv => CompletedTellsAll
<1>. SUFFICES ASSUME IInv, RowsInv, NEW r \in Result,
                     Ready(r), Positioned(r), HasCompleted(r), Is(r, "arrow") \/ kind[r].type = "SELECT"
              PROVE  gone[r] = answer[r] \/ (current[r] # None /\ current[r].state = "handed")
  BY DEF CompletedTellsAll
<1>1. gone[r] \o Rest(r) = answer[r] /\ gone[r] \in Seq(Row)
  BY DEF RowsInv, RowsTyped, Accounted
<1>2. gone[r] \o <<>> = gone[r]
  BY <1>1, ConcatEmptySeq
<1>3. CASE Is(r, "arrow")
  <2>1. completed[r]
    BY <1>3 DEF HasCompleted
  <2>. QED
    BY <1>1, <1>2, <1>3, <2>1 DEF RowsInv, Told, Handed
<1>4. CASE ~Is(r, "arrow")
  <2>1. resultset[r] # None /\ fetched[r] = Len(resultset[r])
    BY <1>4 DEF HasCompleted
  <2>2. Rest(r) = SubSeq(resultset[r], fetched[r] + 1, Len(resultset[r]))
    BY <1>4, <2>1 DEF Rest
  <2>3. Len(resultset[r]) \in Int /\ fetched[r] + 1 \in Int /\ Len(resultset[r]) < fetched[r] + 1
    BY <2>1, LenProperties DEF RowsInv, RowsTyped
  <2>4. SubSeq(resultset[r], fetched[r] + 1, Len(resultset[r])) = <<>>
    BY ONLY <2>3, SubSeqEmpty
  <2>. QED
    BY <1>1, <1>2, <2>2, <2>4
<1>. QED
  BY <1>3, <1>4

\* The rows' invariant, for any number of results, executions and rows.
THEOREM DbiRows == Spec => []RowsInv
<1>1. Init => IInv /\ RowsInv
  BY Initially, RowsInitially
<1>2. IInv /\ RowsInv /\ [Next]_vars => IInv' /\ RowsInv'
  BY Inductive, RowsInductive
<1>. QED
  BY <1>1, <1>2, PTL DEF Spec

\* A result's position stays within its rows, and what is pending is pending behind a current query result.
THEOREM DbiTypeCorrect == Spec => []TypeOK
  BY DbiInvariant, DbiRows, TypeFollows, PTL

\* dbFetch(), dbFetchArrow() and dbFetchArrowChunk() hand out the rows of the last bind, each once and in order, save
\* those that a read which failed has lost; a row it has left is none of them
\* (R/dbFetch__duckdb_result.R, R/dbFetchArrow__duckdb_result_arrow.R).
THEOREM AnswersAccounted == Spec => []AnswerAccounted
  BY DbiRows, AnswerFollows, PTL

\* dbHasCompleted() of a SELECT's frame, or of an Arrow result, is TRUE only when every row has left it, to R or
\* with a read that told of an error, or its stream was handed over.  A frame of another statement is left out: it
\* says TRUE with rows to fetch (R/dbHasCompleted__duckdb_result.R, R/dbFetchArrow__duckdb_result_arrow.R).
THEOREM CompletionTells == Spec => []CompletedTellsAll
  BY DbiInvariant, DbiRows, TellsFollows, PTL
=============================================================================
