------------------------- MODULE AltrepFrameProofs -------------------------
(***************************************************************************)
(* Proofs about the data frames of Altrep: each is one run of its query or *)
(* one error, its query runs once, its result is held exactly as long as a *)
(* column needs it, and a statement scans complete columns only.  They     *)
(* hold for any number of frames, columns and nested calls, for R code that*)
(* keeps off the frame whose callback or conversion is running: one that   *)
(* does not makes the query run twice.                                     *)
(***************************************************************************)
EXTENDS AltrepProofs

\* The data of a frame.  Before its query has run it has none; then all is of that run, and converted columns are
\* set and whole.
FrameData(f) ==
  /\ rows[f] = 0 => conv[f] = {} /\ \A k \in Cols : vec[f][k] = 0
  /\ rows[f] # 0 => rows[f] = runs[f] /\ ~err[f]
  /\ conv[f] = whole[f]
  /\ \A k \in Cols : vec[f][k] \in {0, rows[f]} /\ (k \in conv[f] => vec[f][k] # 0)

FillOf(i, f, k) == stack[i].pc = "fill" /\ stack[i].frame = f /\ stack[i].col = k

\* A vector that is set is converted or being filled.
Explained ==
  \A f \in Frame, k \in Cols :
    vec[f][k] # 0 => k \in conv[f] \/ \E i \in 1 .. Len(stack) : FillOf(i, f, k)

Locks(call) == call.pc \in {"bind", "run"}

\* What goes for two calls of a stack, x below y: no column is filled twice, no frame is materialized above its own
\* callback or bound above its own read, and no lock is held twice.
Beside(x, y) ==
  /\ x.pc = "fill" /\ y.pc = "fill" /\ x.frame = y.frame => x.col # y.col
  /\ x.pc = "callback" /\ y.op = "read" /\ x.frame = y.frame => y.pc \notin {"callback", "run"}
  /\ y.pc = "bind" /\ x.frame = y.frame => x.pc \notin {"callback", "fill"}
  /\ Locks(x) /\ Locks(y) => x.conn # y.conn

\* What goes for a call and its frame's vectors, converted columns, row count, error and runs: one that fills a column has set it, and one that materializes finds nothing.
OfFrame(x, v, c, r, e, n) ==
  /\ x.pc = "fill" => v[x.frame][x.col] # 0 /\ x.col \notin c[x.frame]
  /\ x.pc = "callback" => r[x.frame] = 0 /\ ~e[x.frame]
  /\ x.op = "read" /\ x.pc = "run" => r[x.frame] = 0 /\ ~e[x.frame] /\ n[x.frame] # 0
  /\ x.op = "read" => x.scans = {}
  /\ x.pc = "run" => \A g \in x.scans : c[g] = Cols

Calls ==
  /\ \A i \in 1 .. Len(stack) : OfFrame(stack[i], vec, conv, rows, err, runs)
  /\ \A i, j \in 1 .. Len(stack) : i < j => Beside(stack[i], stack[j])

\* The columns converted are counted, and the result is held until all are.
Held(f) ==
  /\ marks[f] = Cardinality(conv[f])
  /\ rows[f] # 0 => (mat[f] # 0 <=> conv[f] # Cols)

FInv == Calls /\ Explained /\ \A f \in Frame : FrameData(f) /\ Held(f)

\* R code keeps off the frame whose callback or conversion is running.
KeepsOffFrames == "frame" \notin Habits

-----------------------------------------------------------------------------
(***************************************************************************)
(* A step moves one call, at the top; those below stay, or a bind fails.   *)
(***************************************************************************)

SameCall(x, y) ==
  \/ y = x
  \/ x.pc = "bind" /\ y = [x EXCEPT !.pc = "failed"]

LEMMA SameFacts ==
  ASSUME NEW x \in WellFormed, NEW y, SameCall(x, y)
  PROVE  /\ y.op = x.op /\ y.conn = x.conn /\ y.frame = x.frame /\ y.col = x.col /\ y.scans = x.scans
         /\ y.pc = x.pc \/ (x.pc = "bind" /\ y.pc = "failed")
  BY DEF SameCall, WellFormed, Call

LEMMA SameBeside ==
  ASSUME NEW x \in WellFormed, NEW x1, SameCall(x, x1), NEW y, Beside(x, y)
  PROVE  Beside(x1, y)
  BY SameFacts DEF Beside, Locks

LEMMA BesideSame ==
  ASSUME NEW y \in WellFormed, NEW y1, SameCall(y, y1), NEW x, Beside(x, y)
  PROVE  Beside(x, y1)
  BY SameFacts DEF Beside, Locks

\* The step leaves what a call below relies on.
Spares(x) ==
  /\ x.pc = "fill" => vec'[x.frame][x.col] # 0 /\ x.col \notin conv'[x.frame]
  /\ x.pc = "callback" \/ (x.op = "read" /\ x.pc = "run") =>
       rows'[x.frame] = rows[x.frame] /\ err'[x.frame] = err[x.frame] /\ (runs[x.frame] # 0 => runs'[x.frame] # 0)

Grows == \A g \in Frame : conv'[g] \in SUBSET Cols /\ conv[g] \subseteq conv'[g]

LEMMA SparedOfFrame ==
  ASSUME NEW x \in WellFormed, NEW y, SameCall(x, y), OfFrame(x, vec, conv, rows, err, runs), Spares(x), Grows
  PROVE  OfFrame(y, vec', conv', rows', err', runs')
<1>1. /\ y.op = x.op /\ y.conn = x.conn /\ y.frame = x.frame /\ y.col = x.col /\ y.scans = x.scans
      /\ y.pc = x.pc \/ (x.pc = "bind" /\ y.pc = "failed")
  BY SameFacts
<1>2. x.scans \subseteq Frame
  BY DEF WellFormed, Call
<1>3. ASSUME y.pc = "run", NEW g \in y.scans PROVE conv'[g] = Cols
  <2>1. conv[g] = Cols
    BY <1>1, <1>3 DEF OfFrame
  <2>2. conv'[g] \in SUBSET Cols /\ conv[g] \subseteq conv'[g]
    BY <1>1, <1>2, <1>3 DEF Grows
  <2>. QED
    BY <2>1, <2>2
<1>. QED
  BY <1>1, <1>3 DEF OfFrame, Spares

\* The first m calls stay.
Stays(m) == \A i \in 1 .. m : SameCall(stack[i], stack'[i])

\* After a return.
LEMMA CallsAfterReturn ==
  ASSUME HInv, Calls, stack # <<>>, NEW a, Return(a), Grows,
         \A i \in 1 .. Len(stack) - 1 : Spares(stack[i])
  PROVE  Calls' /\ Len(stack') = Len(stack) - 1 /\ Stays(Len(stack) - 1)
<1>. DEFINE m == Len(stack) - 1
<1>1. m \in Nat /\ \A i \in 1 .. m : i \in 1 .. Len(stack) /\ stack[i] \in WellFormed
  BY StackFacts DEF HInv
<1>2. Len(stack') = m /\ \A i \in 1 .. m : SameCall(stack[i], stack'[i])
  BY ReturnStack DEF HInv, SameCall
<1>3. ASSUME NEW i \in 1 .. m PROVE OfFrame(stack'[i], vec', conv', rows', err', runs')
  BY <1>1, <1>2, SparedOfFrame DEF Calls
<1>4. ASSUME NEW i \in 1 .. m, NEW j \in 1 .. m, i < j PROVE Beside(stack'[i], stack'[j])
  BY <1>1, <1>2, <1>4, SameBeside, BesideSame DEF Calls
<1>. QED
  BY <1>2, <1>3, <1>4 DEF Calls, Stays

\* After a step of the innermost call, or a new one: e is on top of m that stay.
LEMMA CallsBelow ==
  ASSUME HInv, Calls, NEW m \in Nat, m <= Len(stack), Grows, NEW e \in WellFormed,
         Len(stack') = m + 1, stack'[m + 1] = e, \A i \in 1 .. m : stack'[i] = stack[i],
         \A i \in 1 .. m : Spares(stack[i]) /\ Beside(stack[i], e),
         OfFrame(e, vec', conv', rows', err', runs')
  PROVE  Calls' /\ Stays(m)
<1>1. \A i \in 1 .. m : i \in 1 .. Len(stack) /\ stack[i] \in WellFormed
  BY StackFacts DEF HInv
<1>2. ASSUME NEW i \in 1 .. m PROVE OfFrame(stack'[i], vec', conv', rows', err', runs')
  <2>1. SameCall(stack[i], stack[i])
    BY DEF SameCall
  <2>. QED
    BY <1>1, <2>1, SparedOfFrame DEF Calls
<1>3. ASSUME NEW i \in 1 .. m + 1 PROVE OfFrame(stack'[i], vec', conv', rows', err', runs')
  BY <1>2
<1>4. ASSUME NEW i \in 1 .. m + 1, NEW j \in 1 .. m + 1, i < j PROVE Beside(stack'[i], stack'[j])
  <2>1. i \in 1 .. m
    BY <1>4
  <2>2. CASE j = m + 1
    BY <2>1, <2>2
  <2>3. CASE j \in 1 .. m
    BY <1>1, <1>4, <2>1, <2>3 DEF Calls
  <2>. QED
    BY <2>2, <2>3
<1>. QED
  BY <1>3, <1>4 DEF Calls, Stays, SameCall

\* Where no data changes but runs are counted, calls are spared.
LEMMA Sparing ==
  ASSUME Calls, HInv, vec' = vec, conv' = conv, rows' = rows, err' = err,
         \A f \in Frame : runs[f] # 0 => runs'[f] # 0
  PROVE  Grows /\ \A i \in 1 .. Len(stack) : Spares(stack[i])
<1>1. Grows
  BY DEF Grows, HInv, DataType
<1>2. ASSUME NEW i \in 1 .. Len(stack) PROVE Spares(stack[i])
  <2>1. stack[i] \in WellFormed /\ OfFrame(stack[i], vec, conv, rows, err, runs)
    BY StackFacts DEF HInv, Calls
  <2>2. stack[i].op = "read" => stack[i].frame \in Frame
    BY <2>1 DEF WellFormed
  <2>. QED
    BY <2>1, <2>2, CallbackIsRead DEF OfFrame, Spares
<1>. QED
  BY <1>1, <1>2

\* What is still set is still explained, below the calls that go.
LEMMA ExplainedAgain ==
  ASSUME HInv, Explained, Grows, NEW m \in Nat, m <= Len(stack), Len(stack') \in Nat, m <= Len(stack'), Stays(m),
         \A f \in Frame, k \in Cols : vec'[f][k] # 0 =>
           \/ k \in conv'[f]
           \/ \E i \in 1 .. Len(stack') : FillOf(i, f, k)'
           \/ vec[f][k] # 0 /\ \A i \in 1 .. Len(stack) : FillOf(i, f, k) => i <= m
  PROVE  Explained'
<1>. SUFFICES ASSUME NEW f \in Frame, NEW k \in Cols, vec'[f][k] # 0, k \notin conv'[f]
              PROVE  \E i \in 1 .. Len(stack') : FillOf(i, f, k)'
  BY DEF Explained
<1>1. CASE vec[f][k] # 0 /\ \A i \in 1 .. Len(stack) : FillOf(i, f, k) => i <= m
  <2>1. k \notin conv[f]
    BY DEF Grows
  <2>2. PICK i \in 1 .. Len(stack) : FillOf(i, f, k) /\ i <= m
    BY <1>1, <2>1 DEF Explained
  <2>3. i \in 1 .. m /\ i \in 1 .. Len(stack')
    BY <2>2
  <2>4. SameCall(stack[i], stack'[i])
    BY <2>3 DEF Stays
  <2>5. FillOf(i, f, k)'
    BY <2>2, <2>4 DEF FillOf, SameCall
  <2>. QED
    BY <2>3, <2>5
<1>. QED
  BY <1>1

\* The data is as it was.
DataSame == UNCHANGED <<vec, conv, whole, rows, err, marks, mat, runs>>

LEMMA FramesSame ==
  ASSUME FInv, DataSame
  PROVE  \A f \in Frame : FrameData(f)' /\ Held(f)'
  BY DEF FInv, DataSame, FrameData, Held

\* A call that fills no column returns, and leaves the data alone.
LEMMA ReturnSame ==
  ASSUME HInv, FInv, Pc # "R", Pc # "fill", NEW a, Return(a), DataSame
  PROVE  FInv'
<1>1. stack # <<>> /\ Top.pc # "fill" /\ Top = stack[Len(stack)] /\ Len(stack) \in Nat \ {0}
  BY OpPc, StackFacts DEF HInv, Top
<1>2. Grows /\ \A i \in 1 .. Len(stack) : Spares(stack[i])
  BY Sparing DEF FInv, DataSame
<1>3. Calls' /\ Len(stack') = Len(stack) - 1 /\ Stays(Len(stack) - 1)
  BY <1>1, <1>2, CallsAfterReturn DEF FInv
<1>4. \A f \in Frame, k \in Cols, i \in 1 .. Len(stack) : FillOf(i, f, k) => i <= Len(stack) - 1
  BY <1>1 DEF FillOf
<1>5. Explained'
  BY <1>1, <1>2, <1>3, <1>4, ExplainedAgain DEF FInv, DataSame
<1>. QED
  BY <1>3, <1>5, FramesSame DEF FInv

\* The innermost call goes on as e, which is of its frame as before, and leaves the data alone.
LEMMA StepSame ==
  ASSUME HInv, FInv, NEW e \in WellFormed, Stepped(e), Top.pc # "fill",
         UNCHANGED <<vec, conv, whole, rows, err, marks, mat>>,
         \A f \in Frame : runs'[f] = runs[f] \/ (rows[f] = 0 /\ runs'[f] # 0),
         \A i \in 1 .. Len(stack) - 1 : Beside(stack[i], Top) => Beside(stack[i], e),
         OfFrame(Top, vec, conv, rows, err, runs) => OfFrame(e, vec, conv, rows, err, runs')
  PROVE  FInv'
<1>. DEFINE m == Len(stack) - 1
<1>1. Top = stack[m + 1] /\ m \in Nat /\ m + 1 = Len(stack) /\ Len(stack) \in Nat
  BY StackFacts DEF HInv, Top, Stepped
<1>2. /\ Len(stack') = m + 1 /\ stack'[m + 1] = e
      /\ \A i \in 1 .. m : stack'[i] = stack[i]
  <2>1. Len(stack') = Len(stack) /\ stack'[Len(stack)] = e
    BY StepStack DEF HInv
  <2>2. ASSUME NEW i \in 1 .. m PROVE stack'[i] = stack[i]
    <3>0. Len(stack) \in Nat /\ i \in 1 .. Len(stack) - 1
      BY <1>1
    <3>1. i \in 1 .. Len(stack) /\ i # Len(stack)
      BY <3>0
    <3>. QED
      BY <3>1, StepStack DEF HInv
  <2>. QED
    BY <1>1, <2>1, <2>2
<1>3. Grows /\ \A i \in 1 .. Len(stack) : Spares(stack[i])
  BY Sparing DEF FInv
<1>4. \A i \in 1 .. m : Beside(stack[i], e)
  BY <1>1 DEF FInv, Calls
<1>5. OfFrame(e, vec', conv', rows', err', runs')
  BY <1>1 DEF FInv, Calls
<1>. HIDE DEF m
<1>6. Calls' /\ Stays(m)
  BY <1>1, <1>2, <1>3, <1>4, <1>5, CallsBelow DEF FInv
<1>7. \A f \in Frame, k \in Cols, i \in 1 .. Len(stack) : FillOf(i, f, k) => i <= m
  BY <1>1 DEF FillOf
<1>8. Explained'
  BY <1>1, <1>2, <1>3, <1>6, <1>7, ExplainedAgain DEF FInv
<1>9. \A f \in Frame : FrameData(f)' /\ Held(f)'
  BY DEF FInv, FrameData, Held
<1>. QED
  BY <1>6, <1>8, <1>9 DEF FInv

\* A call that fills no column starts, and leaves the data alone.
LEMMA PushSame ==
  ASSUME HInv, FInv, NEW e \in WellFormed, Push(e), DataSame,
         \A i \in 1 .. Len(stack) : OfFrame(stack[i], vec, conv, rows, err, runs) => Beside(stack[i], e),
         OfFrame(e, vec, conv, rows, err, runs)
  PROVE  FInv'
<1>1. Len(stack) \in Nat
  BY StackFacts DEF HInv
<1>2. /\ Len(stack') = Len(stack) + 1 /\ stack'[Len(stack) + 1] = e
      /\ \A i \in 1 .. Len(stack) : stack'[i] = stack[i]
  BY PushStack DEF HInv
<1>3. Grows /\ \A i \in 1 .. Len(stack) : Spares(stack[i])
  BY Sparing DEF FInv, DataSame
<1>4. Calls' /\ Stays(Len(stack))
  BY <1>1, <1>2, <1>3, CallsBelow DEF FInv, Calls, DataSame
<1>5. Explained'
  BY <1>1, <1>2, <1>3, <1>4, ExplainedAgain DEF FInv, DataSame
<1>. QED
  BY <1>4, <1>5, FramesSame DEF FInv

-----------------------------------------------------------------------------
(***************************************************************************)
(* Each action, for R code that keeps off the frame in question.           *)
(***************************************************************************)

\* A call fails where it is.
LEMMA Failing ==
  ASSUME HInv, FInv, Pc \in {"bind", "run"}, Op # "read", Step("failed"), DataSame
  PROVE  FInv'
<1>. DEFINE e == [Top EXCEPT !.pc = "failed"]
<1>1. stack # <<>> /\ Top \in WellFormed /\ Top.pc \in {"bind", "run"} /\ Top.op # "read"
  BY OpPc, StackFacts DEF HInv
<1>2. /\ e \in WellFormed /\ Stepped(e) /\ e.pc = "failed"
      /\ e.op = Top.op /\ e.conn = Top.conn /\ e.frame = Top.frame /\ e.scans = Top.scans
  BY <1>1, StepIsStepped DEF WellFormed, Call
<1>. HIDE DEF e
<1>3. \A x : Beside(x, Top) => Beside(x, e)
  BY <1>1, <1>2 DEF Beside, Locks
<1>4. OfFrame(Top, vec, conv, rows, err, runs) => OfFrame(e, vec, conv, rows, err, runs')
  BY <1>1, <1>2 DEF OfFrame
<1>. QED
  BY <1>1, <1>2, <1>3, <1>4, StepSame DEF DataSame

\* No callback of the frame is under way.
NoCallback(f) ==
  \A i \in 1 .. Len(stack) : stack[i].pc = "callback" => stack[i].frame # f

\* A read starts: its query is still to run, or its column is set and being filled.
LEMMA EnterFrames ==
  ASSUME HInv, FInv, NEW f \in Frame, NEW k \in Cols \cup {0}, Enter(f, k), NoCallback(f),
         k # 0 => vec[f][k] = 0, k = 0 => rows[f] = 0
  PROVE  FInv'
<1>1. CASE /\ IF Pc = "bind" THEN Step("failed") ELSE UNCHANGED stack
           /\ UNCHANGED <<frameVars, deep, slot>>
  <2>1. CASE Pc = "bind"
    <3>1. Op # "read"
      BY <2>1, OpPc, StackFacts DEF HInv, WellFormed
    <3>. QED
      BY <1>1, <2>1, <3>1, Failing DEF DataSame, frameVars
  <2>2. CASE Pc # "bind"
    BY <1>1, <2>2 DEF FInv, Calls, Explained, FillOf, FrameData, Held, frameVars
  <2>. QED
    BY <2>1, <2>2
<1>2. CASE /\ ~err[f] /\ mat[f] = 0 /\ rows[f] = 0
           /\ Push(NewCall("read", Home[f], f, k, "callback"))
           /\ UNCHANGED <<frameVars, deep, slot, answer>>
  <2>. DEFINE e == NewCall("read", Home[f], f, k, "callback")
  <2>1. e \in WellFormed /\ e.op = "read" /\ e.pc = "callback" /\ e.frame = f /\ e.scans = {}
    BY NewReadType DEF NewCall
  <2>2. Push(e)
    BY <1>2
  <2>. HIDE DEF e
  <2>3. \A i \in 1 .. Len(stack) : Beside(stack[i], e)
    BY <2>1 DEF Beside, Locks, NoCallback
  <2>4. OfFrame(e, vec, conv, rows, err, runs)
    BY <1>2, <2>1 DEF OfFrame
  <2>. QED
    BY <1>2, <2>1, <2>2, <2>3, <2>4, PushSame DEF DataSame, frameVars
<1>3. CASE /\ ~err[f] /\ mat[f] # 0
           /\ Push(NewCall("read", Home[f], f, k, "fill"))
           /\ vec' = [vec EXCEPT ![f][k] = mat[f]]
           /\ whole' = [whole EXCEPT ![f] = @ \ {k}]
           /\ UNCHANGED <<mat, rows, err, runs, conv, marks, deep, slot, answer>>
  <2>. DEFINE e == NewCall("read", Home[f], f, k, "fill")
  <2>1. k \in Cols /\ k # 0 /\ rows[f] = mat[f]
    BY <1>3 DEF HInv, DataType
  <2>2. e \in WellFormed /\ e.op = "read" /\ e.pc = "fill" /\ e.frame = f /\ e.col = k /\ e.scans = {}
    BY <2>1, NewReadType DEF NewCall
  <2>3. Push(e)
    BY <1>3
  <2>. HIDE DEF e
  <2>4. /\ Len(stack) \in Nat /\ Len(stack') = Len(stack) + 1 /\ stack'[Len(stack) + 1] = e
        /\ \A i \in 1 .. Len(stack) : stack'[i] = stack[i]
    BY <2>2, <2>3, PushStack, StackFacts DEF HInv
  <2>5. k \notin conv[f] /\ conv[f] = whole[f]
    BY <2>1 DEF FInv, FrameData
  <2>6. /\ vec'[f][k] = mat[f] /\ vec \in [Frame -> [Cols -> 0 .. MaxRuns]]
        /\ \A g \in Frame, j \in Cols : (g # f \/ j # k) => vec'[g][j] = vec[g][j]
        /\ whole' = whole
    BY <1>3, <2>1, <2>5 DEF HInv, DataType
  <2>7. Grows
    BY <1>3 DEF Grows, HInv, DataType
  <2>8. ASSUME NEW i \in 1 .. Len(stack) PROVE Spares(stack[i]) /\ Beside(stack[i], e)
    <3>1. stack[i] \in WellFormed /\ OfFrame(stack[i], vec, conv, rows, err, runs)
      BY StackFacts DEF HInv, FInv, Calls
    <3>2. /\ stack[i].op = "read" => stack[i].frame \in Frame
          /\ stack[i].pc = "fill" => stack[i].op = "read" /\ stack[i].col \in Cols
      BY <3>1, CallbackIsRead DEF WellFormed, Call
    <3>3. Spares(stack[i])
      BY <1>3, <2>6, <3>1, <3>2, <2>1 DEF OfFrame, Spares
    <3>4. Beside(stack[i], e)
      BY <2>1, <2>2, <3>1 DEF OfFrame, Beside, Locks
    <3>. QED
      BY <3>3, <3>4
  <2>9. OfFrame(e, vec', conv', rows', err', runs')
    BY <1>3, <2>2, <2>5, <2>6 DEF OfFrame
  <2>10. Calls' /\ Stays(Len(stack))
    BY <2>2, <2>4, <2>7, <2>8, <2>9, CallsBelow DEF FInv
  <2>11. \E i \in 1 .. Len(stack') : FillOf(i, f, k)'
    <3>1. Len(stack) + 1 \in 1 .. Len(stack')
      BY <2>4
    <3>. QED
      BY <2>2, <2>4, <3>1 DEF FillOf
  <2>12. ASSUME NEW g \in Frame, NEW j \in Cols, vec'[g][j] # 0
         PROVE  \/ \E i \in 1 .. Len(stack') : FillOf(i, g, j)'
                \/ vec[g][j] # 0 /\ \A i \in 1 .. Len(stack) : FillOf(i, g, j) => i <= Len(stack)
    <3>1. CASE g = f /\ j = k
      BY <2>11, <3>1
    <3>2. CASE g # f \/ j # k
      BY <2>6, <2>12, <3>2
    <3>. QED
      BY <3>1, <3>2
  <2>13. Explained'
    BY <2>4, <2>7, <2>10, <2>12, ExplainedAgain DEF FInv
  <2>14. ASSUME NEW g \in Frame PROVE FrameData(g)' /\ Held(g)'
    BY <1>3, <2>1, <2>5, <2>6 DEF FInv, FrameData, Held
  <2>. QED
    BY <2>10, <2>13, <2>14 DEF FInv
<1>. QED
  BY <1>1, <1>2, <1>3 DEF Enter

LEMMA ReadFrames ==
  ASSUME KeepsOffFrames, HInv, FInv, NEW f \in Frame, ReadLength(f) \/ \E k \in Cols : ReadColumn(f, k)
  PROVE  FInv'
<1>1. NoCallback(f)
  BY StackFacts, CallbackIsRead DEF KeepsOffFrames, KeepsOff, NoCallback, ReadLength, ReadColumn, HInv
<1>2. CASE ReadLength(f)
  BY <1>1, <1>2, EnterFrames DEF ReadLength
<1>3. ASSUME NEW k \in Cols, ReadColumn(f, k) PROVE FInv'
  <2>1. k # 0
    BY DEF Cols
  <2>. QED
    BY <1>1, <1>3, <2>1, EnterFrames DEF ReadColumn
<1>. QED
  BY <1>2, <1>3

\* A bind touches a frame that no call below materializes or converts.
LEMMA BindTouchesFrames ==
  ASSUME HInv, FInv, BindTouches
  PROVE  FInv'
<1>. DEFINE f == Top.frame
            n == Len(stack)
<1>1. stack # <<>> /\ Top.pc = "bind" /\ f # NoFrame /\ Top \in WellFormed /\ Top = stack[n] /\ n \in Nat \ {0}
  BY OpPc, StackFacts DEF BindTouches, HInv, Top
<1>2. f \in Frame
  BY <1>1 DEF WellFormed, Call
<1>3. NoCallback(f)
  <2>. SUFFICES ASSUME NEW i \in 1 .. n, stack[i].pc = "callback", stack[i].frame = f PROVE FALSE
    BY DEF NoCallback
  <2>1. i # n
    BY <1>1
  <2>2. Beside(stack[i], Top)
    BY <1>1, <2>1 DEF FInv, Calls
  <2>. QED
    BY <1>1, <2>2 DEF Beside
<1>4. PICK k \in Untouched(f) : Enter(f, k)
  BY DEF BindTouches
<1>5. k \in Cols /\ k # 0 /\ vec[f][k] = 0
  BY DEF Untouched, Cols
<1>. QED
  BY <1>2, <1>3, <1>4, <1>5, EnterFrames

\* The query starts: the lock of its connection is free of the calls below.
LEMMA RunQueryFrames ==
  ASSUME HInv, FInv, RunQuery
  PROVE  FInv'
<1>. DEFINE f == Top.frame
            c == Home[f]
            n == Len(stack)
<1>1. /\ stack # <<>> /\ Top.pc = "callback" /\ Top.op = "read" /\ Top \in WellFormed /\ Top.conn = c
      /\ f \in Frame /\ c \in Conn /\ Pc = "callback"
  <2>1. stack # <<>> /\ Top.pc = "callback" /\ Pc = "callback"
    BY OpPc DEF RunQuery
  <2>. QED
    BY <2>1, StackFacts, CallbackIsRead, TopRead DEF HInv
<1>2. CASE Refused(c)
  <2>1. Return("error") /\ DataSame
    BY <1>1, <1>2 DEF RunQuery, DataSame, frameVars
  <2>. QED
    BY <1>1, <2>1, ReturnSame
<1>3. CASE ~Refused(c) /\ Locked(c)
  <2>. DEFINE e == [Top EXCEPT !.pc = "waiting"]
  <2>1. Step("waiting") /\ DataSame
    BY <1>1, <1>3 DEF RunQuery, DataSame
  <2>2. /\ e \in WellFormed /\ Stepped(e) /\ e.pc = "waiting"
        /\ e.op = Top.op /\ e.conn = Top.conn /\ e.frame = Top.frame /\ e.scans = Top.scans
    BY <1>1, <2>1, StepIsStepped DEF WellFormed, Call
  <2>. HIDE DEF e
  <2>3. \A x : Beside(x, Top) => Beside(x, e)
    BY <1>1, <2>2 DEF Beside, Locks
  <2>4. OfFrame(Top, vec, conv, rows, err, runs) => OfFrame(e, vec, conv, rows, err, runs')
    BY <1>1, <2>2 DEF OfFrame
  <2>. QED
    BY <1>1, <2>1, <2>2, <2>3, <2>4, StepSame DEF DataSame
<1>4. CASE ~Refused(c) /\ ~Locked(c)
  <2>. DEFINE e == [Top EXCEPT !.pc = "run", !.old = deep[c]]
  <2>1. /\ Stepped(e) /\ runs' = [runs EXCEPT ![f] = @ + 1]
        /\ UNCHANGED <<vec, conv, whole, rows, err, marks, mat>>
    BY <1>1, <1>4 DEF RunQuery, Stepped, Top
  <2>2. /\ e \in WellFormed /\ e.pc = "run"
        /\ e.op = "read" /\ e.conn = c /\ e.frame = f /\ e.scans = Top.scans
    BY <1>1 DEF WellFormed, Call, HInv, DataType
  <2>. HIDE DEF e
  <2>3. OfFrame(Top, vec, conv, rows, err, runs)
    BY <1>1, StackFacts DEF HInv, FInv, Calls, Top
  <2>4. runs'[f] # 0 /\ rows[f] = 0 /\ \A g \in Frame : g # f => runs'[g] = runs[g]
    BY <1>1, <2>1, <2>3 DEF HInv, DataType, OfFrame
  <2>5. ASSUME NEW i \in 1 .. n - 1, Beside(stack[i], Top) PROVE Beside(stack[i], e)
    <3>1. i \in 1 .. n /\ i \in DOMAIN stack
      BY <2>5, StackFacts DEF HInv
    <3>2. ~(Locks(stack[i]) /\ stack[i].conn = c)
      BY <1>4, <3>1 DEF Locked, Locks
    <3>. QED
      BY <1>1, <2>2, <2>5, <3>2 DEF Beside
  <2>6. OfFrame(e, vec, conv, rows, err, runs')
    BY <1>1, <2>2, <2>3, <2>4 DEF OfFrame
  <2>. QED
    BY <1>1, <2>1, <2>2, <2>4, <2>5, <2>6, StepSame
<1>. QED
  BY <1>2, <1>3, <1>4

\* While a frame's query runs at the top, no call below materializes it.
LEMMA RunsAlone ==
  ASSUME HInv, FInv, Op = "read", Pc = "run", NEW i \in 1 .. Len(stack) - 1
  PROVE  (stack[i].pc = "callback" \/ (stack[i].op = "read" /\ stack[i].pc = "run")) => stack[i].frame # Top.frame
<1>1. /\ stack # <<>> /\ Top.pc = "run" /\ Top.op = "read" /\ Top = stack[Len(stack)] /\ Len(stack) \in Nat \ {0}
      /\ Top.conn = Home[Top.frame]
  BY OpPc, StackFacts, TopRead DEF HInv, Top
<1>2. i \in 1 .. Len(stack) /\ i < Len(stack) /\ Len(stack) \in 1 .. Len(stack)
  BY <1>1
<1>3. Beside(stack[i], Top) /\ stack[i] \in WellFormed
  BY <1>1, <1>2, StackFacts DEF FInv, Calls, HInv
<1>. QED
  BY <1>1, <1>3 DEF Beside, Locks, WellFormed

\* Nor does any when it has run; what is set is of another frame.
LEMMA RunSpares ==
  ASSUME HInv, FInv, Op = "read", Pc = "run", NEW i \in 1 .. Len(stack) - 1, conv' = conv,
         \A g \in Frame, k \in Cols : vec[g][k] # 0 => vec'[g][k] # 0,
         \A g \in Frame : g # Top.frame => rows'[g] = rows[g] /\ err'[g] = err[g] /\ runs'[g] = runs[g]
  PROVE  Spares(stack[i])
<1>1. i \in 1 .. Len(stack)
  BY StackFacts DEF HInv
<1>2. stack[i] \in WellFormed /\ OfFrame(stack[i], vec, conv, rows, err, runs)
  BY <1>1, StackFacts DEF HInv, FInv, Calls
<1>3. /\ stack[i].op = "read" => stack[i].frame \in Frame
      /\ stack[i].pc \in {"callback", "fill"} => stack[i].op = "read"
      /\ stack[i].pc = "fill" => stack[i].col \in Cols
  BY <1>2, CallbackIsRead DEF WellFormed, Call
<1>. QED
  BY <1>2, <1>3, RunsAlone DEF OfFrame, Spares

LEMMA TopRuns ==
  ASSUME HInv, FInv, Op = "read", Pc = "run"
  PROVE  /\ stack # <<>> /\ Top.op = "read" /\ Top.pc = "run" /\ Top.frame \in Frame /\ Top.col \in Cols \cup {0}
         /\ Top \in WellFormed /\ Top = stack[Len(stack)] /\ Len(stack) \in Nat \ {0}
         /\ rows[Top.frame] = 0 /\ ~err[Top.frame] /\ runs[Top.frame] # 0 /\ Top.scans = {}
         /\ conv[Top.frame] = {} /\ \A k \in Cols : vec[Top.frame][k] = 0
<1>1. /\ stack # <<>> /\ Top.pc = "run" /\ Top.op = "read" /\ Top = stack[Len(stack)] /\ Len(stack) \in Nat \ {0}
      /\ Top.frame \in Frame /\ Top.col \in Cols \cup {0} /\ Top \in WellFormed
  BY OpPc, StackFacts, TopRead DEF HInv, Top
<1>2. OfFrame(Top, vec, conv, rows, err, runs)
  BY <1>1 DEF FInv, Calls
<1>. QED
  BY <1>1, <1>2 DEF OfFrame, FInv, FrameData

LEMMA QueryFailsFrames ==
  ASSUME HInv, FInv, QueryFails
  PROVE  FInv'
<1>. DEFINE f == Top.frame
<1>1. /\ Op = "read" /\ Pc = "run" /\ Return("error") /\ err' = [err EXCEPT ![f] = TRUE]
      /\ UNCHANGED <<mat, rows, runs, vec, whole, conv, marks>>
  BY DEF QueryFails, StoresError
<1>2. /\ stack # <<>> /\ f \in Frame /\ Top.pc = "run" /\ Top = stack[Len(stack)] /\ Len(stack) \in Nat \ {0}
      /\ rows[f] = 0
  BY <1>1, TopRuns
<1>3. Grows /\ \A i \in 1 .. Len(stack) - 1 : Spares(stack[i])
  BY <1>1, <1>2, RunSpares DEF Grows, HInv, DataType
<1>4. Calls' /\ Len(stack') = Len(stack) - 1 /\ Stays(Len(stack) - 1)
  BY <1>1, <1>2, <1>3, CallsAfterReturn DEF FInv
<1>5. \A g \in Frame, k \in Cols, i \in 1 .. Len(stack) : FillOf(i, g, k) => i <= Len(stack) - 1
  BY <1>2 DEF FillOf
<1>6. Explained'
  BY <1>1, <1>2, <1>3, <1>4, <1>5, ExplainedAgain DEF FInv
<1>7. \A g \in Frame : FrameData(g)' /\ Held(g)'
  BY <1>1, <1>2 DEF FInv, FrameData, Held, HInv, DataType
<1>. QED
  BY <1>4, <1>6, <1>7 DEF FInv

LEMMA QueryDoneFrames ==
  ASSUME HInv, FInv, QueryDone, NEW f, NEW k, f = Top.frame, k = Top.col
  PROVE  FInv'
<1>. DEFINE m == Len(stack) - 1
<1>1. Op = "read" /\ Pc = "run"
  BY DEF QueryDone
<1>2. /\ stack # <<>> /\ Top.op = "read" /\ Top.pc = "run" /\ f \in Frame /\ k \in Cols \cup {0}
      /\ Top \in WellFormed /\ Top = stack[Len(stack)] /\ Len(stack) \in Nat \ {0} /\ m \in Nat
      /\ rows[f] = 0 /\ ~err[f] /\ runs[f] # 0 /\ Top.scans = {}
      /\ conv[f] = {} /\ \A j \in Cols : vec[f][j] = 0
  BY <1>1, TopRuns
<1>3. /\ mat' = [mat EXCEPT ![f] = runs[f]] /\ rows' = [rows EXCEPT ![f] = runs[f]]
      /\ UNCHANGED <<err, runs, conv, marks>>
  BY DEF QueryDone
<1>4. \/ (\E a : Return(a)) /\ UNCHANGED <<vec, whole>>
      \/ /\ k # 0 /\ Step("fill")
         /\ vec' = [vec EXCEPT ![f][k] = runs[f]] /\ whole' = [whole EXCEPT ![f] = @ \ {k}]
  BY DEF QueryDone
<1>5. \A g \in Frame, j \in Cols : vec[g][j] # 0 => vec'[g][j] # 0
  <2>1. CASE vec' = vec
    BY <2>1
  <2>2. CASE vec' = [vec EXCEPT ![f][k] = runs[f]]
    BY <1>2, <2>2 DEF HInv, DataType
  <2>. QED
    BY <1>4, <2>1, <2>2
<1>6. Grows
  BY <1>3 DEF Grows, HInv, DataType
<1>7. ASSUME NEW i \in 1 .. Len(stack) - 1 PROVE Spares(stack[i])
  BY <1>1, <1>2, <1>3, <1>5, RunSpares DEF HInv, DataType
<1>8. \A g \in Frame, j \in Cols, i \in 1 .. Len(stack) : FillOf(i, g, j) => i <= m
  BY <1>2 DEF FillOf
<1>9. \A g \in Frame : FrameData(g)' /\ Held(g)'
  <2>1. whole' = whole
    <3>1. whole[f] = {} /\ whole \in [Frame -> SUBSET Cols]
      BY <1>2 DEF FInv, FrameData, HInv, DataType
    <3>2. [whole EXCEPT ![f] = @ \ {k}] = whole
      BY <3>1
    <3>. QED
      BY <1>4, <3>2
  <2>2. 1 \in Cols
    BY ColsAssumption DEF Cols
  <2>3. \A g \in Frame : g # f => rows'[g] = rows[g] /\ mat'[g] = mat[g] /\ vec'[g] = vec[g]
    BY <1>2, <1>3, <1>4 DEF HInv, DataType
  <2>4. rows'[f] = runs[f] /\ mat'[f] = runs[f]
    BY <1>2, <1>3 DEF HInv, DataType
  <2>5. \A j \in Cols : vec'[f][j] \in {0, runs[f]}
    <3>1. CASE vec' = vec
      BY <1>2, <3>1
    <3>2. CASE vec' = [vec EXCEPT ![f][k] = runs[f]]
      BY <1>2, <3>2 DEF HInv, DataType
    <3>. QED
      BY <1>4, <3>1, <3>2
  <2>6. FrameData(f)' /\ Held(f)'
    BY <1>2, <1>3, <2>1, <2>2, <2>4, <2>5 DEF FInv, FrameData, Held
  <2>7. ASSUME NEW g \in Frame, g # f PROVE FrameData(g)' /\ Held(g)'
    BY <1>3, <2>1, <2>3, <2>7 DEF FInv, FrameData, Held
  <2>. QED
    BY <2>6, <2>7
<1>10. CASE (\E a : Return(a)) /\ UNCHANGED <<vec, whole>>
  <2>1. Calls' /\ Len(stack') = m /\ Stays(m)
    BY <1>2, <1>6, <1>7, <1>10, CallsAfterReturn DEF FInv
  <2>2. Explained'
    BY <1>2, <1>6, <1>8, <1>10, <2>1, ExplainedAgain DEF FInv
  <2>. QED
    BY <1>9, <2>1, <2>2 DEF FInv
<1>11. CASE /\ k # 0 /\ Step("fill")
            /\ vec' = [vec EXCEPT ![f][k] = runs[f]] /\ whole' = [whole EXCEPT ![f] = @ \ {k}]
  <2>. DEFINE e == [Top EXCEPT !.pc = "fill"]
  <2>1. /\ Stepped(e) /\ e \in WellFormed /\ e.op = "read" /\ e.pc = "fill" /\ e.frame = f /\ e.col = k
        /\ e.scans = {} /\ k \in Cols
    BY <1>2, <1>11, StepIsStepped DEF WellFormed, Call
  <2>. HIDE DEF e
  <2>2. /\ Len(stack') = Len(stack) /\ stack'[Len(stack)] = e
        /\ \A i \in 1 .. Len(stack) : i # Len(stack) => stack'[i] = stack[i]
    BY <2>1, StepStack DEF HInv
  <2>3. ASSUME NEW i \in 1 .. m
        PROVE  stack'[i] = stack[i] /\ Beside(stack[i], e)
    <3>0. i \in 1 .. Len(stack) - 1 /\ Len(stack) \in Nat
      BY <1>2
    <3>1. i \in 1 .. Len(stack) /\ i # Len(stack)
      BY <3>0
    <3>2. OfFrame(stack[i], vec, conv, rows, err, runs)
      BY <3>1 DEF FInv, Calls
    <3>. QED
      BY <1>2, <2>1, <2>2, <3>1, <3>2 DEF OfFrame, Beside, Locks
  <2>4. vec'[f][k] = runs[f]
    BY <1>2, <1>11, <2>1 DEF HInv, DataType
  <2>5. OfFrame(e, vec', conv', rows', err', runs')
    BY <1>2, <1>3, <2>1, <2>4 DEF OfFrame
  <2>6. m <= Len(stack) /\ Len(stack') = m + 1 /\ stack'[m + 1] = e
    BY <1>2, <2>2
  <2>7. Calls' /\ Stays(m)
    <3>. HIDE DEF m
    <3>1. \A i \in 1 .. m : Spares(stack[i])
      BY <1>7 DEF m
    <3>. QED
      BY <1>2, <1>6, <2>1, <2>3, <2>5, <2>6, <3>1, CallsBelow DEF FInv
  <2>8. \E i \in 1 .. Len(stack') : FillOf(i, f, k)'
    <3>1. Len(stack) \in 1 .. Len(stack')
      BY <1>2, <2>2
    <3>. QED
      BY <2>1, <2>2, <3>1 DEF FillOf
  <2>9. \A g \in Frame, j \in Cols : g # f \/ j # k => vec'[g][j] = vec[g][j]
    BY <1>2, <1>11, <2>1 DEF HInv, DataType
  <2>10. Explained'
    BY <1>2, <1>6, <1>8, <2>6, <2>7, <2>8, <2>9, ExplainedAgain DEF FInv
  <2>. QED
    BY <1>9, <2>7, <2>10 DEF FInv
<1>. QED
  BY <1>4, <1>10, <1>11

\* The column being filled: no other call fills it, and its frame's result is held.
LEMMA TopFills ==
  ASSUME HInv, FInv, Pc = "fill"
  PROVE  /\ stack # <<>> /\ Top \in WellFormed /\ Top.op = "read" /\ Top.pc = "fill"
         /\ Top.frame \in Frame /\ Top.col \in Cols /\ Top = stack[Len(stack)] /\ Len(stack) \in Nat \ {0}
         /\ vec[Top.frame][Top.col] # 0 /\ Top.col \notin conv[Top.frame] /\ rows[Top.frame] # 0
         /\ \A i \in 1 .. Len(stack) - 1 : stack[i].pc = "fill" => stack[i].frame # Top.frame \/ stack[i].col # Top.col
<1>1. /\ stack # <<>> /\ Top.pc = "fill" /\ Top.op = "read" /\ Top = stack[Len(stack)] /\ Len(stack) \in Nat \ {0}
      /\ Top \in WellFormed
  BY OpPc, StackFacts, CallbackIsRead DEF HInv, Top
<1>2. Top.frame \in Frame /\ Top.col \in Cols
  BY <1>1, TopRead DEF WellFormed
<1>3. OfFrame(Top, vec, conv, rows, err, runs)
  BY <1>1 DEF FInv, Calls
<1>4. \A i \in 1 .. Len(stack) - 1 : Beside(stack[i], Top)
  BY <1>1 DEF FInv, Calls
<1>. QED
  BY <1>1, <1>2, <1>3, <1>4 DEF OfFrame, Beside, FInv, FrameData

\* The column is as good as not read.
LEMMA FillFailsFrames ==
  ASSUME HInv, FInv, FillFails, NEW f, NEW k, f = Top.frame, k = Top.col
  PROVE  FInv'
<1>. DEFINE m == Len(stack) - 1
<1>1. /\ Pc = "fill" /\ Return("error") /\ vec' = [vec EXCEPT ![f][k] = 0]
      /\ UNCHANGED <<mat, rows, err, runs, whole, conv, marks>>
  BY DEF FillFails, Dropped
<1>2. /\ stack # <<>> /\ Top.pc = "fill" /\ f \in Frame /\ k \in Cols /\ Top = stack[Len(stack)] /\ Len(stack) \in Nat \ {0}
      /\ vec[f][k] # 0 /\ k \notin conv[f] /\ rows[f] # 0 /\ m \in Nat
      /\ \A i \in 1 .. m : stack[i].pc = "fill" => stack[i].frame # f \/ stack[i].col # k
  BY <1>1, TopFills
<1>3. /\ vec'[f][k] = 0 /\ \A g \in Frame, j \in Cols : g # f \/ j # k => vec'[g][j] = vec[g][j]
  BY <1>1, <1>2 DEF HInv, DataType
<1>4. Grows
  BY <1>1 DEF Grows, HInv, DataType
<1>5. ASSUME NEW i \in 1 .. m PROVE Spares(stack[i])
  <2>1. i \in 1 .. Len(stack)
    BY <1>2
  <2>2. stack[i] \in WellFormed /\ OfFrame(stack[i], vec, conv, rows, err, runs)
    BY <2>1, StackFacts DEF HInv, FInv, Calls
  <2>3. stack[i].pc = "fill" => stack[i].frame \in Frame /\ stack[i].col \in Cols
    BY <2>2, CallbackIsRead DEF WellFormed, Call
  <2>. QED
    BY <1>1, <1>2, <1>3, <2>2, <2>3 DEF OfFrame, Spares
<1>6. Calls' /\ Len(stack') = m /\ Stays(m)
  BY <1>2, <1>4, <1>5, <1>1, CallsAfterReturn DEF FInv
<1>7. ASSUME NEW g \in Frame, NEW j \in Cols, vec'[g][j] # 0
      PROVE  vec[g][j] # 0 /\ \A i \in 1 .. Len(stack) : FillOf(i, g, j) => i <= m
  BY <1>2, <1>3, <1>7 DEF FillOf
<1>8. Explained'
  BY <1>2, <1>4, <1>6, <1>7, ExplainedAgain DEF FInv
<1>9. \A g \in Frame : FrameData(g)' /\ Held(g)'
  BY <1>1, <1>2, <1>3 DEF FInv, FrameData, Held
<1>. QED
  BY <1>6, <1>8, <1>9 DEF FInv

LEMMA ColsFinite == IsFiniteSet(Cols) /\ Cardinality(Cols) = NCols
  BY FS_Interval, ColsAssumption DEF Cols

\* The columns marked are counted, so that the result goes with the last.
LEMMA Marking ==
  ASSUME HInv, NEW f \in Frame, NEW k \in Cols, k \notin conv[f], marks[f] = Cardinality(conv[f])
  PROVE  /\ marks[f] + 1 = Cardinality(conv[f] \cup {k})
         /\ AllMarked(f) <=> conv[f] \cup {k} = Cols
<1>1. conv[f] \in SUBSET Cols /\ conv[f] \cup {k} \in SUBSET Cols
  BY DEF HInv, DataType
<1>2. IsFiniteSet(conv[f]) /\ IsFiniteSet(conv[f] \cup {k})
  BY <1>1, ColsFinite, FS_Subset
<1>3. marks[f] + 1 = Cardinality(conv[f] \cup {k})
  BY <1>2, FS_AddElement
<1>4. Cardinality(conv[f] \cup {k}) = NCols <=> conv[f] \cup {k} = Cols
  BY <1>1, <1>2, ColsFinite, FS_Subset
<1>. QED
  BY <1>3, <1>4 DEF AllMarked

LEMMA FillDoneFrames ==
  ASSUME HInv, FInv, FillDone, NEW f, NEW k, f = Top.frame, k = Top.col
  PROVE  FInv'
<1>. DEFINE m == Len(stack) - 1
<1>1. /\ Pc = "fill" /\ Return("ok")
      /\ whole' = [whole EXCEPT ![f] = @ \cup {k}] /\ conv' = [conv EXCEPT ![f] = @ \cup {k}]
      /\ marks' = [marks EXCEPT ![f] = @ + 1]
      /\ mat' = IF AllMarked(f) THEN [mat EXCEPT ![f] = 0] ELSE mat
      /\ UNCHANGED <<rows, err, runs, vec>>
  BY DEF FillDone
<1>2. /\ stack # <<>> /\ Top.pc = "fill" /\ f \in Frame /\ k \in Cols /\ Top = stack[Len(stack)] /\ Len(stack) \in Nat \ {0}
      /\ vec[f][k] # 0 /\ k \notin conv[f] /\ rows[f] # 0 /\ m \in Nat
      /\ \A i \in 1 .. m : stack[i].pc = "fill" => stack[i].frame # f \/ stack[i].col # k
  BY <1>1, TopFills
<1>3. /\ conv'[f] = conv[f] \cup {k} /\ whole'[f] = whole[f] \cup {k} /\ marks'[f] = marks[f] + 1
      /\ \A g \in Frame : g # f => conv'[g] = conv[g] /\ whole'[g] = whole[g] /\ marks'[g] = marks[g] /\ mat'[g] = mat[g]
      /\ \A g \in Frame : conv[g] \in SUBSET Cols
  BY <1>1, <1>2 DEF HInv, DataType
<1>4. Grows
  BY <1>2, <1>3 DEF Grows
<1>5. ASSUME NEW i \in 1 .. m PROVE Spares(stack[i])
  <2>1. i \in 1 .. Len(stack)
    BY <1>2
  <2>2. stack[i] \in WellFormed /\ OfFrame(stack[i], vec, conv, rows, err, runs)
    BY <2>1, StackFacts DEF HInv, FInv, Calls
  <2>3. stack[i].pc = "fill" => stack[i].frame \in Frame /\ stack[i].col \in Cols
    BY <2>2, CallbackIsRead DEF WellFormed, Call
  <2>. QED
    BY <1>1, <1>2, <1>3, <2>2, <2>3 DEF OfFrame, Spares
<1>6. Calls' /\ Len(stack') = m /\ Stays(m)
  BY <1>2, <1>4, <1>5, <1>1, CallsAfterReturn DEF FInv
<1>7. ASSUME NEW g \in Frame, NEW j \in Cols, vec'[g][j] # 0
      PROVE  j \in conv'[g] \/ (vec[g][j] # 0 /\ \A i \in 1 .. Len(stack) : FillOf(i, g, j) => i <= m)
  <2>1. CASE g = f /\ j = k
    BY <1>3, <2>1
  <2>2. CASE g # f \/ j # k
    BY <1>1, <1>2, <1>7, <2>2 DEF FillOf
  <2>. QED
    BY <2>1, <2>2
<1>8. Explained'
  BY <1>2, <1>4, <1>6, <1>7, ExplainedAgain DEF FInv
<1>9. ASSUME NEW g \in Frame PROVE FrameData(g)'
  <2>1. FrameData(g) /\ UNCHANGED <<rows, err, runs, vec>>
    BY <1>1 DEF FInv
  <2>2. CASE g = f
    BY <1>2, <1>3, <2>1, <2>2 DEF FrameData
  <2>3. CASE g # f
    BY <1>3, <2>1, <2>3 DEF FrameData
  <2>. QED
    BY <2>2, <2>3
<1>10. Held(f)'
  <2>1. /\ marks[f] + 1 = Cardinality(conv[f] \cup {k})
        /\ AllMarked(f) <=> conv[f] \cup {k} = Cols
    BY <1>2, Marking DEF FInv, Held
  <2>2. mat[f] # 0
    BY <1>2 DEF FInv, Held
  <2>3. mat'[f] = IF AllMarked(f) THEN 0 ELSE mat[f]
    BY <1>1, <1>2 DEF HInv, DataType
  <2>. QED
    BY <1>3, <2>1, <2>2, <2>3 DEF Held
<1>11. \A g \in Frame : Held(g)'
  BY <1>1, <1>3, <1>10 DEF FInv, Held
<1>. QED
  BY <1>6, <1>8, <1>9, <1>11 DEF FInv

\* A statement or a relation starts its bind: no call below converts or materializes what it scans.
LEMMA ScanStarts ==
  ASSUME KeepsOffFrames, HInv, FInv, NEW c \in Conn, NEW f \in Frame \cup {NoFrame}, NEW o \in {"statement", "relation"},
         Push(NewCall(o, c, f, 0, IF Locked(c) THEN "waiting" ELSE "bind")), f # NoFrame => KeepsOff(f, Cols),
         DataSame
  PROVE  FInv'
<1>. DEFINE e == NewCall(o, c, f, 0, IF Locked(c) THEN "waiting" ELSE "bind")
<1>1. /\ e \in WellFormed /\ e.op \in {"statement", "relation"} /\ e.conn = c /\ e.frame = f
      /\ e.pc \in {"waiting", "bind"} /\ (e.pc = "bind" => ~Locked(c))
  BY DEF NewCall, WellFormed, Call
<1>2. Push(e)
  OBVIOUS
<1>. HIDE DEF e
<1>3. ASSUME NEW i \in 1 .. Len(stack) PROVE Beside(stack[i], e)
  <2>1. stack[i] \in WellFormed /\ i \in DOMAIN stack
    BY StackFacts DEF HInv
  <2>2. stack[i].pc \in {"callback", "fill"} => stack[i].frame # f
    <3>1. /\ stack[i].pc \in {"callback", "fill"} => stack[i].op = "read"
          /\ stack[i].pc = "fill" => stack[i].col \in Cols
          /\ stack[i].op = "read" => stack[i].frame # NoFrame
      BY <2>1, CallbackIsRead, NoneAssumption DEF WellFormed, Call
    <3>. QED
      BY <2>1, <3>1 DEF KeepsOff, KeepsOffFrames
  <2>3. e.pc = "bind" => ~(Locks(stack[i]) /\ stack[i].conn = c)
    BY <1>1, <2>1 DEF Locked, Locks
  <2>. QED
    BY <1>1, <2>2, <2>3 DEF Beside, Locks
<1>4. OfFrame(e, vec, conv, rows, err, runs)
  BY <1>1 DEF OfFrame
<1>. QED
  BY <1>1, <1>2, <1>3, <1>4, PushSame

LEMMA ExecuteFrames ==
  ASSUME KeepsOffFrames, HInv, FInv, NEW c \in Conn, NEW f \in Frame \cup {NoFrame}, Execute(c, f)
  PROVE  FInv'
<1>1. DataSame
  BY DEF Execute, frameVars, DataSame
<1>2. CASE IsActive
  BY <1>1, <1>2 DEF Execute, DataSame, FInv, Calls, Explained, FillOf, FrameData, Held
<1>3. CASE ~IsActive
  BY <1>1, <1>3, ScanStarts DEF Execute
<1>. QED
  BY <1>2, <1>3

LEMMA RelFromDfFrames ==
  ASSUME KeepsOffFrames, HInv, FInv, NEW c \in Conn, NEW f \in Frame, RelFromDf(c, f)
  PROVE  FInv'
<1>1. DataSame
  BY DEF RelFromDf, frameVars, DataSame
<1>. QED
  BY <1>1, ScanStarts DEF RelFromDf

\* What the bind touched is complete: no conversion of its frame is under way below it.
LEMMA BoundComplete ==
  ASSUME HInv, FInv, Pc = "bind", NEW f \in Frame, f = Top.frame, Untouched(f) = {}
  PROVE  conv[f] = Cols
<1>1. /\ stack # <<>> /\ Top.pc = "bind" /\ Top = stack[Len(stack)] /\ Len(stack) \in Nat \ {0}
      /\ conv[f] \in SUBSET Cols
  BY OpPc, StackFacts DEF HInv, DataType, Top
<1>. SUFFICES ASSUME NEW k \in Cols, k \notin conv[f] PROVE FALSE
  BY <1>1
<1>2. vec[f][k] # 0
  BY DEF Untouched
<1>3. PICK i \in 1 .. Len(stack) : FillOf(i, f, k)
  BY <1>2 DEF FInv, Explained
<1>4. i # Len(stack)
  BY <1>1, <1>3 DEF FillOf
<1>5. i < Len(stack) /\ Len(stack) \in 1 .. Len(stack)
  BY <1>1, <1>3, <1>4
<1>6. Beside(stack[i], Top)
  BY <1>1, <1>5 DEF FInv, Calls
<1>. QED
  BY <1>1, <1>3, <1>6 DEF FillOf, Beside

LEMMA BindDoneFrames ==
  ASSUME HInv, FInv, BindDone
  PROVE  FInv'
<1>1. /\ stack # <<>> /\ Top.pc = "bind" /\ Pc = "bind" /\ Top \in WellFormed /\ Top.op # "read" /\ DataSame
  BY OpPc, StackFacts DEF BindDone, DataSame, frameVars, HInv, WellFormed
<1>2. CASE Top.op = "relation"
  BY <1>1, <1>2, ReturnSame DEF BindDone
<1>3. CASE Top.op # "relation"
  <2>. DEFINE e == [Top EXCEPT !.pc = "run", !.scans = IF Top.frame = NoFrame THEN {} ELSE {Top.frame}]
  <2>1. Stepped(e)
    BY <1>1, <1>3 DEF BindDone, Stepped, Top
  <2>2. /\ e \in WellFormed /\ e.pc = "run" /\ e.op = Top.op /\ e.conn = Top.conn /\ e.frame = Top.frame
        /\ e.scans = IF Top.frame = NoFrame THEN {} ELSE {Top.frame}
    BY <1>1, <1>3 DEF WellFormed, Call
  <2>. HIDE DEF e
  <2>3. \A x : Beside(x, Top) => Beside(x, e)
    BY <1>1, <2>2 DEF Beside, Locks
  <2>4. ASSUME NEW g \in e.scans PROVE conv[g] = Cols
    <3>1. g = Top.frame /\ Top.frame # NoFrame /\ g \in Frame
      BY <1>1, <2>2, <2>4 DEF WellFormed, Call
    <3>2. Untouched(g) = {}
      BY <3>1 DEF BindDone
    <3>. QED
      BY <1>1, <3>1, <3>2, BoundComplete
  <2>5. OfFrame(e, vec, conv, rows, err, runs')
    BY <1>1, <2>2, <2>4 DEF OfFrame
  <2>. QED
    BY <1>1, <2>1, <2>2, <2>3, <2>5, StepSame DEF DataSame
<1>. QED
  BY <1>2, <1>3

LEMMA StatementDoneFrames ==
  ASSUME HInv, FInv, NEW ok \in BOOLEAN, StatementDone(ok)
  PROVE  FInv'
<1>1. /\ stack # <<>> /\ Top.op = "statement" /\ Top.pc \in {"run", "failed"} /\ Pc = Top.pc /\ Top \in WellFormed
      /\ DataSame
  BY OpPc, StackFacts DEF StatementDone, DataSame, frameVars, HInv
<1>2. CASE \E a \in {"interrupt", "error"} : Return(a)
  BY <1>1, <1>2, ReturnSame
<1>3. CASE Step("convert")
  <2>. DEFINE e == [Top EXCEPT !.pc = "convert"]
  <2>1. /\ e \in WellFormed /\ Stepped(e) /\ e.pc = "convert"
        /\ e.op = Top.op /\ e.conn = Top.conn /\ e.frame = Top.frame /\ e.scans = Top.scans
    BY <1>1, <1>3, StepIsStepped DEF WellFormed, Call
  <2>. HIDE DEF e
  <2>2. \A x : Beside(x, Top) => Beside(x, e)
    BY <1>1, <2>1 DEF Beside, Locks
  <2>3. OfFrame(Top, vec, conv, rows, err, runs) => OfFrame(e, vec, conv, rows, err, runs')
    BY <1>1, <2>1 DEF OfFrame
  <2>. QED
    BY <1>1, <2>1, <2>2, <2>3, StepSame DEF DataSame
<1>. QED
  BY <1>2, <1>3 DEF StatementDone

\* A task that binds takes what is in memory.
LEMMA TaskBindsFrames ==
  ASSUME HInv, FInv, NEW i \in DOMAIN stack, NEW f \in Frame, TaskBinds(i, f)
  PROVE  FInv'
<1>. DEFINE e == [stack[i] EXCEPT !.scans = @ \cup {f}]
<1>1. i \in 1 .. Len(stack) /\ stack[i] \in WellFormed /\ stack[i].op = "statement" /\ DataSame
  BY StackFacts DEF HInv, TaskBinds, DataSame, frameVars
<1>2. /\ e \in WellFormed /\ e.scans = stack[i].scans \cup {f}
      /\ e.op = stack[i].op /\ e.conn = stack[i].conn /\ e.frame = stack[i].frame /\ e.pc = stack[i].pc /\ e.col = stack[i].col
  BY <1>1 DEF WellFormed, Call
<1>3. stack' = [stack EXCEPT ![i] = e]
  BY DEF TaskBinds
<1>4. conv[f] = Cols
  BY DEF TaskBinds, InMemory, HInv, DataType
<1>. HIDE DEF e
<1>5. /\ Len(stack') = Len(stack)
      /\ \A j \in 1 .. Len(stack) : stack'[j] = IF j = i THEN e ELSE stack[j]
  BY <1>1, <1>2, <1>3, ExceptSeq, StackFacts DEF HInv
<1>6. \A j \in 1 .. Len(stack) :
        /\ stack'[j].op = stack[j].op /\ stack'[j].conn = stack[j].conn /\ stack'[j].frame = stack[j].frame
        /\ stack'[j].pc = stack[j].pc /\ stack'[j].col = stack[j].col
  BY <1>2, <1>5
<1>7. ASSUME NEW j \in 1 .. Len(stack) PROVE OfFrame(stack'[j], vec', conv', rows', err', runs')
  <2>1. OfFrame(stack[j], vec, conv, rows, err, runs) /\ UNCHANGED <<vec, conv, rows, err, runs>>
    BY <1>1 DEF FInv, Calls, DataSame
  <2>2. CASE j = i
    BY <1>1, <1>2, <1>4, <1>5, <2>1, <2>2 DEF OfFrame
  <2>3. CASE j # i
    BY <1>5, <2>1, <2>3
  <2>. QED
    BY <2>2, <2>3
<1>8. \A j, l \in 1 .. Len(stack) : Beside(stack[j], stack[l]) => Beside(stack'[j], stack'[l])
  BY <1>6 DEF Beside, Locks
<1>9. Calls'
  BY <1>5, <1>7, <1>8 DEF FInv, Calls
<1>10. Explained'
  BY <1>1, <1>5, <1>6 DEF FInv, Explained, FillOf, DataSame
<1>. QED
  BY <1>1, <1>9, <1>10, FramesSame DEF FInv

LEMMA InitialFrames == Init => FInv
<1>. SUFFICES ASSUME Init PROVE FInv
  OBVIOUS
<1>1. Len(stack) = 0
  BY EmptySeq DEF Init
<1>2. 1 \in Cols
  BY ColsAssumption DEF Cols
<1>3. \A f \in Frame : FrameData(f) /\ Held(f)
  BY FS_EmptySet DEF Init, FrameData, Held
<1>. QED
  BY <1>1, <1>3 DEF FInv, Calls, Explained, Init

LEMMA FrameStep == KeepsOffFrames /\ HInv /\ FInv /\ [Next]_vars => FInv'
<1>. SUFFICES ASSUME KeepsOffFrames, HInv, FInv, [Next]_vars PROVE FInv'
  OBVIOUS
<1>1. CASE \E f \in Frame : ReadLength(f) \/ \E k \in Cols : ReadColumn(f, k)
  BY <1>1, ReadFrames
<1>2. CASE RunQuery \/ BindTouches \/ QueryFails \/ BindDone
  BY <1>2, RunQueryFrames, BindTouchesFrames, QueryFailsFrames, BindDoneFrames
<1>3. CASE QueryDone \/ FillFails \/ FillDone
  BY <1>3, QueryDoneFrames, FillFailsFrames, FillDoneFrames
<1>4. CASE CallbackFails \/ RelationFails \/ ConvertDone
  <2>1. Pc # "R" /\ Pc # "fill" /\ DataSame /\ \E a : Return(a)
    BY <1>4 DEF CallbackFails, RelationFails, ConvertDone, frameVars, DataSame
  <2>. QED
    BY <2>1, ReturnSame
<1>5. CASE BindFails \/ StatementFails
  <2>1. Pc \in {"bind", "run"} /\ Op # "read" /\ DataSame /\ Step("failed")
    BY <1>5, OpPc, StackFacts DEF BindFails, StatementFails, frameVars, DataSame, HInv, WellFormed
  <2>. QED
    BY <2>1, Failing
<1>6. CASE \E c \in Conn : \E f \in Frame : RelFromDf(c, f)
  BY <1>6, RelFromDfFrames
<1>7. CASE \E c \in Conn : \E f \in Frame \cup {NoFrame} : Execute(c, f)
  BY <1>7, ExecuteFrames
<1>8. CASE \E i \in DOMAIN stack : \E f \in Frame : TaskBinds(i, f)
  BY <1>8, TaskBindsFrames
<1>9. CASE \E ok \in BOOLEAN : StatementDone(ok)
  BY <1>9, StatementDoneFrames
<1>10. CASE Interrupt \/ UNCHANGED vars
  BY <1>10 DEF Interrupt, vars, frameVars, FInv, Calls, Explained, FillOf, FrameData, Held
<1>. QED
  BY <1>1, <1>2, <1>3, <1>4, <1>5, <1>6, <1>7, <1>8, <1>9, <1>10 DEF Next

LEMMA FrameInvariant ==
  ASSUME KeepsOffFrames
  PROVE  Spec => []FInv
<1>1. HInv /\ FInv /\ [Next]_vars => FInv'
  BY FrameStep
<1>. QED
  BY <1>1, InitialFrames, AltrepInvariant, PTL DEF Spec

\* A result is held exactly while a column may still need it (MarkColumnAsTransformed(),
\* src/src/reltoaltrep.cpp), whatever conversions fail or are under way inside others.
THEOREM ResultsHeld ==
  ASSUME KeepsOffFrames
  PROVE  Spec => []HeldWhileNeeded
<1>1. HInv /\ FInv => HeldWhileNeeded
  BY DEF HInv, DataType, FInv, Held, HeldWhileNeeded
<1>. QED
  BY <1>1, FrameInvariant, AltrepInvariant, PTL

\* A running statement reads complete columns only: its bind finds none half filled, and no later conversion
\* touches one of them (TouchColumnsOrThrow() and the scan's bind, src/src/scan.cpp).
THEOREM ScansComplete ==
  ASSUME KeepsOffFrames
  PROVE  Spec => []ScansWhole
<1>1. HInv /\ FInv => ScansWhole
  <2>. SUFFICES ASSUME HInv, FInv, NEW i \in 1 .. Len(stack), stack[i].pc = "run", NEW f \in stack[i].scans
                PROVE  whole[f] = Cols
    BY StackFacts DEF HInv, ScansWhole
  <2>1. f \in Frame
    BY StackFacts DEF HInv, WellFormed, Call
  <2>. QED
    BY <2>1 DEF FInv, Calls, OfFrame, FrameData
<1>. QED
  BY <1>1, FrameInvariant, AltrepInvariant, PTL

-----------------------------------------------------------------------------
(***************************************************************************)
(* A query runs once: whoever ran it has left a result or an error, or is  *)
(* under way still and keeps any other from running it by its lock.        *)
(***************************************************************************)

RunsFor(call, f) == call.op = "read" /\ call.pc = "run" /\ call.frame = f

Once(f) ==
  /\ runs[f] <= 1
  /\ runs[f] # 0 => rows[f] # 0 \/ err[f] \/ \E i \in 1 .. Len(stack) : RunsFor(stack[i], f)

\* The step leaves the materializations under way where they are.
RunnersStay == \A f \in Frame, i \in 1 .. Len(stack) : RunsFor(stack[i], f) => i \in 1 .. Len(stack') /\ RunsFor(stack'[i], f)

LEMMA ReturnRunners ==
  ASSUME HInv, stack # <<>>, NEW a, Return(a), ~(Top.op = "read" /\ Top.pc = "run")
  PROVE  RunnersStay
<1>1. Len(stack) \in Nat \ {0} /\ Top = stack[Len(stack)]
  BY StackFacts DEF HInv, Top
<1>2. ASSUME NEW f \in Frame, NEW i \in 1 .. Len(stack), RunsFor(stack[i], f)
      PROVE  i \in 1 .. Len(stack') /\ RunsFor(stack'[i], f)
  <2>1. i \in 1 .. Len(stack) - 1
    BY <1>1, <1>2 DEF RunsFor
  <2>2. Len(stack') = Len(stack) - 1 /\ stack'[i] = stack[i]
    BY <1>2, <2>1, ReturnStack DEF HInv, RunsFor
  <2>. QED
    BY <1>2, <2>1, <2>2
<1>. QED
  BY <1>2 DEF RunnersStay

LEMMA StepRunners ==
  ASSUME HInv, HInv', stack # <<>>, NEW e, stack' = [stack EXCEPT ![Len(stack)] = e],
         ~(Top.op = "read" /\ Top.pc = "run")
  PROVE  RunnersStay
<1>1. /\ Len(stack) \in Nat \ {0} /\ Top = stack[Len(stack)] /\ DOMAIN stack = 1 .. Len(stack)
      /\ Len(stack') \in Nat /\ DOMAIN stack' = 1 .. Len(stack')
  BY StackFacts, LenProperties DEF HInv, Top
<1>2. DOMAIN stack' = DOMAIN stack
  OBVIOUS
<1>3. \A i \in 1 .. Len(stack) : i # Len(stack) => stack'[i] = stack[i]
  BY <1>1
<1>. QED
  BY <1>1, <1>2, <1>3 DEF RunnersStay, RunsFor

LEMMA PushRunners ==
  ASSUME HInv, HInv', NEW e, Push(e)
  PROVE  RunnersStay
<1>1. /\ Len(stack) \in Nat /\ Len(stack') = Len(stack) + 1
      /\ \A i \in 1 .. Len(stack) : stack'[i] = stack[i]
  <2>. SUFFICES ASSUME stack \in Seq(WellFormed), stack' = Append(stack, e)
                PROVE  /\ Len(stack) \in Nat /\ Len(stack') = Len(stack) + 1
                       /\ \A i \in 1 .. Len(stack) : stack'[i] = stack[i]
    BY DEF HInv, Push
  <2>. QED
    BY AppendProperties
<1>. QED
  BY <1>1 DEF RunnersStay

LEMMA SameRunners ==
  ASSUME UNCHANGED stack
  PROVE  RunnersStay
  BY DEF RunnersStay

LEMMA OnceKept ==
  ASSUME RunnersStay, UNCHANGED <<runs, rows, err>>, NEW f \in Frame, Once(f)
  PROVE  Once(f)'
  BY DEF RunnersStay, Once

\* Every step but the start and the end of a query leaves the queries alone.
LEMMA EnterQuiet ==
  ASSUME HInv, HInv', Op # "read" \/ Pc # "run", NEW f \in Frame, NEW k, Enter(f, k)
  PROVE  RunnersStay /\ UNCHANGED <<runs, rows, err>>
<1>1. CASE UNCHANGED stack /\ UNCHANGED frameVars
  BY <1>1, SameRunners DEF frameVars
<1>2. CASE Pc = "bind" /\ Step("failed") /\ UNCHANGED frameVars
  <2>1. stack # <<>> /\ Top.pc = "bind"
    BY <1>2, OpPc
  <2>2. stack' = [stack EXCEPT ![Len(stack)] = [Top EXCEPT !.pc = "failed"]]
    BY <1>2 DEF Step, Top
  <2>. QED
    BY <1>2, <2>1, <2>2, StepRunners DEF frameVars
<1>3. CASE (\E e : Push(e)) /\ UNCHANGED <<runs, rows, err>>
  BY <1>3, PushRunners
<1>. QED
  BY <1>1, <1>2, <1>3 DEF Enter, frameVars

LEMMA QuietSteps ==
  ASSUME HInv, HInv', [Next]_vars, ~RunQuery, ~QueryFails, ~QueryDone
  PROVE  RunnersStay /\ UNCHANGED <<runs, rows, err>>
<1>0. ASSUME NEW p, Step(p), stack # <<>>, Top.op # "read" \/ Top.pc # "run" PROVE RunnersStay
  <2>1. stack' = [stack EXCEPT ![Len(stack)] = [Top EXCEPT !.pc = p]]
    BY <1>0 DEF Step, Top
  <2>. QED
    BY <1>0, <2>1, StepRunners
<1>1. ASSUME NEW f \in Frame, ReadLength(f) \/ \E k \in Cols : ReadColumn(f, k)
      PROVE  RunnersStay /\ UNCHANGED <<runs, rows, err>>
  <2>1. CASE Op # "read" \/ Pc # "run"
    BY <1>1, <2>1, EnterQuiet DEF ReadLength, ReadColumn
  <2>2. CASE Pc = "run"
    <3>1. UNCHANGED stack \/ \E e : Push(e)
      BY <1>1, <2>2 DEF ReadLength, ReadColumn, Enter
    <3>2. UNCHANGED <<runs, rows, err>>
      BY <1>1 DEF ReadLength, ReadColumn, Enter, frameVars
    <3>. QED
      BY <3>1, <3>2, SameRunners, PushRunners
  <2>. QED
    BY <2>1, <2>2
<1>2. CASE BindTouches
  <2>1. stack # <<>> /\ Top.pc = "bind" /\ Pc = "bind" /\ Top.frame \in Frame
    <3>1. stack # <<>> /\ Top.pc = "bind" /\ Pc = "bind" /\ Top.frame # NoFrame
      BY <1>2, OpPc DEF BindTouches
    <3>. QED
      BY <3>1, StackFacts DEF HInv, WellFormed, Call
  <2>. QED
    BY <1>2, <2>1, EnterQuiet DEF BindTouches
<1>3. CASE CallbackFails \/ RelationFails \/ ConvertDone \/ FillFails \/ FillDone
  <2>1. Pc \in {"callback", "failed", "convert", "fill"} \/ Op = "relation"
    BY <1>3 DEF CallbackFails, RelationFails, ConvertDone, FillFails, FillDone, frameVars
  <2>2. UNCHANGED <<runs, rows, err>> /\ \E a : Return(a)
    BY <1>3 DEF CallbackFails, RelationFails, ConvertDone, FillFails, FillDone, frameVars
  <2>3. stack # <<>> /\ ~(Top.op = "read" /\ Top.pc = "run")
    BY <2>1, OpPc
  <2>. QED
    BY <2>2, <2>3, ReturnRunners
<1>4. CASE BindFails \/ StatementFails
  <2>1. Step("failed") /\ UNCHANGED <<runs, rows, err>> /\ (Pc = "bind" \/ Op = "statement")
    BY <1>4 DEF BindFails, StatementFails, frameVars
  <2>. QED
    BY <1>0, <2>1, OpPc
<1>5. ASSUME NEW c \in Conn, NEW f \in Frame, RelFromDf(c, f)
      PROVE  RunnersStay /\ UNCHANGED <<runs, rows, err>>
  BY <1>5, PushRunners DEF RelFromDf, frameVars
<1>6. ASSUME NEW c \in Conn, NEW f \in Frame \cup {NoFrame}, Execute(c, f)
      PROVE  RunnersStay /\ UNCHANGED <<runs, rows, err>>
  BY <1>6, PushRunners, SameRunners DEF Execute, frameVars
<1>7. ASSUME NEW i \in DOMAIN stack, NEW f \in Frame, TaskBinds(i, f)
      PROVE  RunnersStay /\ UNCHANGED <<runs, rows, err>>
  <2>1. DOMAIN stack = 1 .. Len(stack) /\ DOMAIN stack' = 1 .. Len(stack')
    BY StackFacts, LenProperties DEF HInv
  <2>2. DOMAIN stack' = DOMAIN stack /\ \A j \in DOMAIN stack : j # i => stack'[j] = stack[j]
    BY <1>7 DEF TaskBinds
  <2>. QED
    BY <1>7, <2>1, <2>2 DEF TaskBinds, RunnersStay, RunsFor, frameVars
<1>8. CASE BindDone
  <2>1. stack # <<>> /\ Top.pc = "bind" /\ UNCHANGED <<runs, rows, err>>
    BY <1>8, OpPc DEF BindDone, frameVars
  <2>2. (\E a : Return(a)) \/ \E e : stack' = [stack EXCEPT ![Len(stack)] = e]
    BY <1>8 DEF BindDone
  <2>. QED
    BY <2>1, <2>2, ReturnRunners, StepRunners
<1>9. ASSUME NEW ok \in BOOLEAN, StatementDone(ok)
      PROVE  RunnersStay /\ UNCHANGED <<runs, rows, err>>
  <2>1. stack # <<>> /\ Top.op # "read" /\ UNCHANGED <<runs, rows, err>>
    BY <1>9, OpPc DEF StatementDone, frameVars
  <2>2. (\E a : Return(a)) \/ Step("convert")
    BY <1>9 DEF StatementDone
  <2>. QED
    BY <1>0, <2>1, <2>2, ReturnRunners
<1>10. CASE Interrupt \/ UNCHANGED vars
  BY <1>10, SameRunners DEF Interrupt, vars, frameVars
<1>. QED
  BY <1>1, <1>2, <1>3, <1>4, <1>5, <1>6, <1>7, <1>8, <1>9, <1>10 DEF Next

\* A query that starts finds no other of its frame: the lock would be held.
LEMMA RunQueryOnce ==
  ASSUME HInv, HInv', FInv, RunQuery, \A g \in Frame : Once(g)
  PROVE  \A g \in Frame : Once(g)'
<1>. DEFINE f == Top.frame
            c == Home[f]
            n == Len(stack)
<1>1. /\ stack # <<>> /\ Top.pc = "callback" /\ Top.op = "read" /\ Top.conn = c /\ f \in Frame
      /\ n \in Nat \ {0} /\ Top = stack[n] /\ UNCHANGED <<rows, err>>
  <2>1. stack # <<>> /\ Top.pc = "callback"
    BY OpPc DEF RunQuery
  <2>2. UNCHANGED <<rows, err>>
    BY DEF RunQuery, frameVars
  <2>. QED
    BY <2>1, <2>2, StackFacts, CallbackIsRead, TopRead DEF HInv, Top
<1>2. RunnersStay
  <2>1. (\E a : Return(a)) \/ \E e : stack' = [stack EXCEPT ![Len(stack)] = e]
    BY DEF RunQuery, Step
  <2>. QED
    BY <1>1, <2>1, ReturnRunners, StepRunners
<1>3. CASE runs' = runs
  BY <1>1, <1>2, <1>3, OnceKept
<1>4. CASE runs' # runs
  <2>1. /\ ~Locked(c) /\ runs' = [runs EXCEPT ![f] = @ + 1]
        /\ Stepped([Top EXCEPT !.pc = "run", !.old = deep[c]])
    BY <1>1, <1>4 DEF RunQuery, Stepped, Top, frameVars
  <2>2. OfFrame(Top, vec, conv, rows, err, runs)
    BY <1>1 DEF FInv, Calls
  <2>3. \A i \in 1 .. n : ~RunsFor(stack[i], f)
    <3>. SUFFICES ASSUME NEW i \in 1 .. n, RunsFor(stack[i], f) PROVE FALSE
      OBVIOUS
    <3>1. stack[i] \in WellFormed /\ i \in DOMAIN stack
      BY StackFacts DEF HInv
    <3>2. stack[i].conn = c
      BY <3>1 DEF WellFormed, RunsFor
    <3>. QED
      BY <2>1, <3>1, <3>2 DEF Locked, RunsFor
  <2>4. runs[f] = 0
    BY <1>1, <2>2, <2>3 DEF OfFrame, Once
  <2>5. RunsFor(stack'[n], f) /\ n \in 1 .. Len(stack')
    <3>. DEFINE e == [Top EXCEPT !.pc = "run", !.old = deep[c]]
    <3>1. e \in WellFormed /\ RunsFor(e, f)
      BY <1>1, StackFacts DEF WellFormed, Call, HInv, DataType, RunsFor
    <3>2. Stepped(e)
      BY <2>1
    <3>. HIDE DEF e
    <3>. QED
      BY <1>1, <3>1, <3>2, StepStack DEF HInv
  <2>6. runs'[f] = 1 /\ \A g \in Frame : g # f => runs'[g] = runs[g]
    BY <1>1, <2>1, <2>4 DEF HInv, DataType
  <2>7. ASSUME NEW g \in Frame, g = f PROVE Once(g)'
    BY <2>5, <2>6, <2>7 DEF Once
  <2>8. ASSUME NEW g \in Frame, g # f PROVE Once(g)'
    BY <1>1, <1>2, <2>6, <2>8 DEF Once, RunnersStay
  <2>. QED
    BY <2>7, <2>8
<1>. QED
  BY <1>3, <1>4

\* A query that ends leaves a result or an error.
LEMMA QueryEndsOnce ==
  ASSUME HInv, HInv', FInv, QueryFails \/ QueryDone, \A g \in Frame : Once(g)
  PROVE  \A g \in Frame : Once(g)'
<1>. DEFINE f == Top.frame
            n == Len(stack)
<1>1. Op = "read" /\ Pc = "run" /\ runs' = runs
  BY DEF QueryFails, QueryDone
<1>2. stack # <<>> /\ f \in Frame /\ runs[f] # 0 /\ n \in Nat \ {0} /\ Top = stack[n]
  BY <1>1, TopRuns
<1>3. /\ rows'[f] # 0 \/ err'[f]
      /\ \A g \in Frame : g # f => rows'[g] = rows[g] /\ err'[g] = err[g]
  BY <1>2 DEF QueryFails, QueryDone, StoresError, HInv, DataType
<1>4. ASSUME NEW i \in 1 .. n, NEW g \in Frame, g # f, RunsFor(stack[i], g)
      PROVE  i \in 1 .. Len(stack') /\ RunsFor(stack'[i], g)
  <2>1. i \in 1 .. n - 1
    BY <1>2, <1>4 DEF RunsFor
  <2>2. CASE \E a : Return(a)
    BY <1>2, <1>4, <2>1, <2>2, ReturnStack DEF HInv, RunsFor
  <2>3. CASE Step("fill")
    <3>1. DOMAIN stack = 1 .. n /\ DOMAIN stack' = 1 .. Len(stack')
      BY StackFacts, LenProperties DEF HInv
    <3>2. DOMAIN stack' = DOMAIN stack /\ stack'[i] = stack[i]
      BY <1>2, <2>1, <2>3, <3>1 DEF Step
    <3>. QED
      BY <1>4, <3>1, <3>2
  <2>. QED
    BY <2>2, <2>3 DEF QueryFails, QueryDone
<1>5. ASSUME NEW g \in Frame, g = f PROVE Once(g)'
  BY <1>1, <1>2, <1>3, <1>5 DEF Once
<1>6. ASSUME NEW g \in Frame, g # f PROVE Once(g)'
  BY <1>1, <1>3, <1>4, <1>6 DEF Once
<1>. QED
  BY <1>5, <1>6

\* A frame's query runs at most once, whatever fails, is interrupted or nests (GetQueryResult() and
\* Materialize(), src/src/reltoaltrep.cpp): a result or an error is left by the first run, and the lock
\* of the connection keeps a second out while it lasts.
THEOREM QueriesRunOnce ==
  ASSUME KeepsOffFrames
  PROVE  Spec => []RunsOnce
<1>. DEFINE Each == \A g \in Frame : Once(g)
<1>1. Init => Each
  BY DEF Init, Once
<1>2. HInv /\ HInv' /\ FInv /\ [Next]_vars /\ Each => Each'
  <2>. SUFFICES ASSUME HInv, HInv', FInv, [Next]_vars, Each PROVE Each'
    OBVIOUS
  <2>1. CASE RunQuery
    BY <2>1, RunQueryOnce
  <2>2. CASE QueryFails \/ QueryDone
    BY <2>2, QueryEndsOnce
  <2>3. CASE ~RunQuery /\ ~QueryFails /\ ~QueryDone
    BY <2>3, QuietSteps, OnceKept
  <2>. QED
    BY <2>1, <2>2, <2>3
<1>3. Each => RunsOnce
  BY DEF Once, RunsOnce
<1>. HIDE DEF Each
<1>. QED
  BY <1>1, <1>2, <1>3, FrameInvariant, AltrepInvariant, PTL DEF Spec

-----------------------------------------------------------------------------
(***************************************************************************)
(* A frame is a lazy data frame: its query settles or breaks it, a         *)
(* conversion gives a column out, and nothing else shows.                  *)
(***************************************************************************)

\* What R sees of a column.
Seen(c, r) == [f \in Frame |-> [k \in Cols |-> IF k \in c[f] THEN r[f] ELSE 0]]

Given == [f \in Frame |-> [k \in Cols |-> Shown(f, k)]] = Seen(conv, rows)

LEMMA ShownIsSeen ==
  ASSUME HInv, FInv
  PROVE  Given
<1>. SUFFICES ASSUME NEW f \in Frame, NEW k \in Cols
              PROVE  Shown(f, k) = IF k \in conv[f] THEN rows[f] ELSE 0
  BY DEF Given, Seen
<1>1. Filling(f, k) = {i \in 1 .. Len(stack) : FillOf(i, f, k)}
  BY StackFacts DEF HInv, Filling, FillOf
<1>2. CASE k \in conv[f]
  <2>1. Filling(f, k) = {}
    BY <1>1, <1>2 DEF FInv, Calls, OfFrame, FillOf
  <2>2. vec[f][k] # 0 /\ vec[f][k] = rows[f] /\ k \in whole[f]
    BY <1>2 DEF FInv, FrameData
  <2>. QED
    BY <1>2, <2>1, <2>2 DEF Shown
<1>3. CASE k \notin conv[f]
  <2>1. vec[f][k] = 0 \/ Filling(f, k) # {}
    BY <1>1, <1>3 DEF FInv, Explained
  <2>. QED
    BY <1>3, <2>1 DEF Shown
<1>. QED
  BY <1>2, <1>3

\* What the steps of the queries and of the conversions do to what is shown; no other step shows.
LEMMA Showing ==
  ASSUME HInv, FInv, [Next]_vars
  PROVE  \/ UNCHANGED <<rows, err, conv>>
         \/ \E f \in Frame :
              \/ /\ rows[f] = 0 /\ ~err[f] /\ conv[f] = {} /\ UNCHANGED <<err, conv>>
                 /\ \E v \in 1 .. MaxRuns : rows' = [rows EXCEPT ![f] = v]
              \/ /\ rows[f] = 0 /\ ~err[f] /\ UNCHANGED <<rows, conv>>
                 /\ err' = [err EXCEPT ![f] = TRUE]
              \/ /\ rows[f] # 0 /\ UNCHANGED <<rows, err>>
                 /\ \E k \in Cols : k \notin conv[f] /\ conv' = [conv EXCEPT ![f] = @ \cup {k}]
<1>1. CASE QueryDone
  <2>1. Op = "read" /\ Pc = "run"
    BY <1>1 DEF QueryDone
  <2>2. /\ Top.frame \in Frame /\ rows[Top.frame] = 0 /\ ~err[Top.frame] /\ conv[Top.frame] = {}
        /\ runs[Top.frame] \in 1 .. MaxRuns
    BY <2>1, TopRuns DEF HInv, DataType
  <2>3. UNCHANGED <<err, conv>> /\ rows' = [rows EXCEPT ![Top.frame] = runs[Top.frame]]
    BY <1>1 DEF QueryDone
  <2>. QED
    BY <2>2, <2>3
<1>2. CASE QueryFails
  <2>1. Op = "read" /\ Pc = "run" /\ UNCHANGED <<rows, conv>> /\ err' = [err EXCEPT ![Top.frame] = TRUE]
    BY <1>2 DEF QueryFails, StoresError
  <2>2. Top.frame \in Frame /\ rows[Top.frame] = 0 /\ ~err[Top.frame]
    BY <2>1, TopRuns
  <2>. QED
    BY <2>1, <2>2
<1>3. CASE FillDone
  <2>1. Pc = "fill" /\ UNCHANGED <<rows, err>> /\ conv' = [conv EXCEPT ![Top.frame] = @ \cup {Top.col}]
    BY <1>3 DEF FillDone
  <2>2. Top.frame \in Frame /\ Top.col \in Cols /\ rows[Top.frame] # 0 /\ Top.col \notin conv[Top.frame]
    BY <2>1, TopFills
  <2>. QED
    BY <2>1, <2>2
<1>4. CASE ~(QueryDone \/ QueryFails \/ FillDone)
  <2>1. ASSUME NEW f \in Frame, NEW k, Enter(f, k) PROVE UNCHANGED <<rows, err, conv>>
    BY <2>1 DEF Enter, frameVars
  <2>2. CASE \E f \in Frame : ReadLength(f) \/ \E k \in Cols : ReadColumn(f, k)
    BY <2>1, <2>2 DEF ReadLength, ReadColumn
  <2>3. CASE BindTouches
    BY <2>1, <2>3, OpPc, StackFacts DEF BindTouches, HInv, WellFormed, Call
  <2>4. CASE RunQuery \/ CallbackFails \/ FillFails \/ BindDone \/ BindFails \/ RelationFails \/ ConvertDone
    BY <2>4 DEF RunQuery, CallbackFails, FillFails, BindDone, BindFails, RelationFails, ConvertDone, frameVars
  <2>5. CASE \/ \E c \in Conn : \E f \in Frame : RelFromDf(c, f)
             \/ \E c \in Conn : \E f \in Frame \cup {NoFrame} : Execute(c, f)
             \/ \E i \in DOMAIN stack : \E f \in Frame : TaskBinds(i, f)
    BY <2>5 DEF RelFromDf, Execute, TaskBinds, frameVars
  <2>6. CASE \/ \E ok \in BOOLEAN : StatementDone(ok)
             \/ StatementFails \/ Interrupt \/ UNCHANGED vars
    BY <2>6 DEF StatementDone, StatementFails, Interrupt, vars, frameVars
  <2>. QED
    BY <1>4, <2>2, <2>3, <2>4, <2>5, <2>6 DEF Next
<1>. QED
  BY <1>1, <1>2, <1>3, <1>4

LEMMA LazyStep ==
  ASSUME HInv, FInv, Given, Given', [Next]_vars
  PROVE  [Lazy!Next]_Lazy!lazyVars
<1>. DEFINE given == [f \in Frame |-> [k \in Cols |-> Shown(f, k)]]
<1>1. given = Seen(conv, rows) /\ given' = Seen(conv', rows')
  BY DEF Given, Seen
<1>2. /\ rows \in [Frame -> 0 .. MaxRuns] /\ conv \in [Frame -> SUBSET Cols] /\ err \in [Frame -> BOOLEAN]
  BY DEF HInv, DataType
<1>3. CASE UNCHANGED <<rows, err, conv>>
  BY <1>1, <1>3 DEF Lazy!lazyVars, Seen
<1>4. ASSUME NEW f \in Frame, rows[f] = 0, ~err[f], conv[f] = {}, UNCHANGED <<err, conv>>,
             NEW v \in 1 .. MaxRuns, rows' = [rows EXCEPT ![f] = v]
      PROVE  Lazy!Settle(f)
  <2>1. Seen(conv', rows') = Seen(conv, rows)
    BY <1>2, <1>4 DEF Seen
  <2>. QED
    BY <1>1, <1>4, <2>1 DEF Lazy!Settle, Lazy!Undecided
<1>5. ASSUME NEW f \in Frame, rows[f] = 0, ~err[f], UNCHANGED <<rows, conv>>, err' = [err EXCEPT ![f] = TRUE]
      PROVE  Lazy!Break(f)
  BY <1>1, <1>5 DEF Lazy!Break, Lazy!Undecided, Seen
<1>6. ASSUME NEW f \in Frame, rows[f] # 0, UNCHANGED <<rows, err>>,
             NEW k \in Cols, k \notin conv[f], conv' = [conv EXCEPT ![f] = @ \cup {k}]
      PROVE  Lazy!Give(f, k)
  <2>1. Seen(conv', rows') = [Seen(conv, rows) EXCEPT ![f][k] = rows[f]]
    BY <1>2, <1>6 DEF Seen
  <2>2. Seen(conv, rows)[f][k] = 0
    BY <1>6 DEF Seen
  <2>. QED
    BY <1>1, <1>6, <2>1, <2>2 DEF Lazy!Give
<1>. QED
  BY <1>3, <1>4, <1>5, <1>6, Showing DEF Lazy!Next

\* A data frame is undecided, then one run of its query for good or an error for good, and the columns it gives out
\* are whole columns of that run: materialization, errors, nested reads and failed conversions show nothing else
\* (LazyFrame).
THEOREM FramesAreLazy ==
  ASSUME KeepsOffFrames
  PROVE  Spec => ImplementsLazyFrame
<1>1. HInv /\ FInv => Given
  BY ShownIsSeen
<1>2. Init => Lazy!Init
  <2>. SUFFICES ASSUME Init PROVE Lazy!Init
    OBVIOUS
  <2>1. \A f \in Frame, k \in Cols : Shown(f, k) = 0
    BY DEF Init, Shown
  <2>. QED
    BY <2>1 DEF Init, Lazy!Init
<1>3. HInv /\ FInv /\ Given /\ Given' /\ [Next]_vars => [Lazy!Next]_Lazy!lazyVars
  BY LazyStep
<1>. QED
  BY <1>1, <1>2, <1>3, FrameInvariant, AltrepInvariant, PTL DEF Spec, ImplementsLazyFrame, Lazy!Spec
=============================================================================
