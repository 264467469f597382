------------------------- MODULE RegistrationProofs -------------------------
(***************************************************************************)
(* Proofs about Registration: its invariants hold for any names, data      *)
(* frames, tables and bound.                                               *)
(***************************************************************************)
EXTENDS Registration, TLAPS

USE ConstantsAssumption

-----------------------------------------------------------------------------
(***************************************************************************)
(* What the operators of the module do, for the steps that share them.     *)
(***************************************************************************)

\* A statement that fails ends no transaction, and changes nothing that can be read.
LEMMA Failing ==
  ASSUME TypeOK, NEW error \in Errors, StatementFails(error)
  PROVE  /\ UNCHANGED <<view, rows, saved>>
         /\ txn' \in {"none", "open", "failed"} /\ (txn' = "none" <=> txn = "none")
BY DEF TypeOK, StatementFails

\* No call is a call.
LEMMA NoCallIsCall == NoCall \in Calls
<1>1. (CHOOSE t \in Table : TRUE) \in Table
  OBVIOUS
<1> QED BY <1>1 DEF NoCall, Calls

\* Nothing registered and no table.
LEMMA EmptyType == Empty \in [view : [View -> Frames], rows : [Table -> Counts]]
BY DEF Empty, View, Frames, Counts

\* The calls that R code makes are calls, and their data frame is one it has.
LEMMA CallType ==
  ASSUME TypeOK, NEW c \in {"exists", "csv", "append", "write"}, NEW t \in Table, NEW f \in held \cup {NoFrame},
         NEW mode, NEW begins \in BOOLEAN
  PROVE  /\ Call(c, t, f, mode, begins) \in Calls
         /\ Call(c, t, f, mode, begins).frame = f /\ Call(c, t, f, mode, begins).before = rows
         /\ Call(c, t, f, mode, begins).begins = begins /\ Call(c, t, f, mode, begins).call = c
<1>1. rows \in [Table -> {Absent} \cup 0..MaxFills] /\ held \subseteq Frame
  BY DEF TypeOK, Counts
<1> QED BY <1>1 DEF Call, Calls

-----------------------------------------------------------------------------
\* The initial state satisfies the invariant.
LEMMA Initially == Init => IInv
<1> SUFFICES ASSUME Init PROVE IInv
  OBVIOUS
<1>1. TypeOK
  BY NoCallIsCall, EmptyType DEF Init, TypeOK, Empty, Policies, Steps, Answers, View, Frames, Counts
<1>2. LiveOK
  BY DEF Init, LiveOK, Idle
<1>3. KeptOK
  BY DEF Init, KeptOK, Empty
<1>4. WriteOK
  BY DEF Init, WriteOK, View
<1>5. PolicyOK
  BY DEF Init, PolicyOK, PolicyIsOwn, Probing
<1>6. CsvOK
  BY DEF Init, CsvOK, NoCall
<1> QED BY <1>1, <1>2, <1>3, <1>4, <1>5, <1>6 DEF IInv

-----------------------------------------------------------------------------
(***************************************************************************)
(* Each conjunct, for the steps that leave its variables alone.            *)
(***************************************************************************)

\* A step that neither registers nor ends or begins a transaction.
LEMMA KeptStays ==
  ASSUME KeptOK, UNCHANGED <<view, kept, history>>, saved' = saved, txn' = "none" <=> txn = "none"
  PROVE  KeptOK'
BY DEF KeptOK, history

\* A step that collects nothing and keeps at most what it was called with.
LEMMA LiveStays ==
  ASSUME LiveOK, live' = live, arg'.frame \in {arg.frame, NoFrame}, at' # "idle" => at # "idle",
         \A n \in View : kept'[n] \in {kept[n], NoFrame}
  PROVE  LiveOK'
BY DEF LiveOK, Idle

\* A step outside of a probe that leaves the policy alone.
LEMMA PolicyStays ==
  ASSUME PolicyOK, UNCHANGED policyVars, previous' = previous, txn' # "none" => txn # "none",
         ~Probing, ~Probing'
  PROVE  PolicyOK'
BY DEF PolicyOK, PolicyIsOwn, Probing, policyVars

\* A call goes on or is over.
LEMMA GoesOn ==
  ASSUME TypeOK, NEW from, NEW to \in Steps, Goes(from, to)
  PROVE  /\ at = from /\ at' = to /\ at' \in Steps
         /\ arg' \in Calls /\ found' \in Answers /\ second' \in BOOLEAN /\ previous' = previous
         /\ arg' = (IF to = "idle" THEN NoCall ELSE arg)
         /\ arg'.frame \in {arg.frame, NoFrame}
<1>1. NoCall.frame = NoFrame
  BY DEF NoCall
<1>2. CASE to = "idle"
  BY <1>1, <1>2, NoCallIsCall DEF Goes, TypeOK, Answers
<1>3. CASE to # "idle"
  BY <1>3 DEF Goes, TypeOK
<1> QED BY <1>2, <1>3

\* The invariant of duckdb_read_csv() when a call that began no transaction goes on.
LEMMA CsvForeign ==
  ASSUME TypeOK, CsvOK, NEW from, NEW to \in Steps, Goes(from, to), to # "begin",
         arg.begins => to = "idle",
         arg.call = "csv" => to \notin {"remove", "fields", "register", "fill", "unregister"}
  PROVE  CsvOK'
<1>1. NoCall.begins = FALSE /\ NoCall.call = "exists"
  BY DEF NoCall
<1> QED BY <1>1, GoesOn DEF CsvOK

\* A step that runs a statement, and neither begins nor ends a transaction.
LEMMA Running ==
  ASSUME IInv, NEW from, NEW to \in Steps, Runs(from, to),
         UNCHANGED <<view, saved>>, rows' \in [Table -> Counts],
         txn' \in {"none", "open", "failed"}, txn' = "none" <=> txn = "none",
         {from, to} \cap {"look", "answer"} = {},
         from # "idle",
         from \in {"fill", "unregister"} => to \in {"fill", "unregister"},
         CsvOK'
  PROVE  IInv'
<1> USE DEF IInv
<1>1. /\ Goes(from, to) /\ UNCHANGED <<policyVars, kept, frames, history>>
  BY DEF Runs
<1>2. at = from /\ at' = to /\ arg' \in Calls /\ found' \in Answers /\ second' \in BOOLEAN /\ previous' = previous
      /\ arg'.frame \in {arg.frame, NoFrame}
  BY <1>1, GoesOn
<1>3. TypeOK'
  BY <1>1, <1>2 DEF TypeOK, policyVars, frames, history
<1>4. LiveOK'
  BY <1>1, <1>2, LiveStays DEF frames
<1>5. KeptOK'
  BY <1>1, KeptStays
<1>6. WriteOK'
  BY <1>1, <1>2 DEF WriteOK
<1>7. PolicyOK'
  BY <1>1, <1>2, PolicyStays DEF Probing
<1> QED BY <1>3, <1>4, <1>5, <1>6, <1>7
-----------------------------------------------------------------------------
(***************************************************************************)
(* R code between the calls.                                               *)
(***************************************************************************)

\* dbBegin() outside of a transaction, also from duckdb_read_csv().
LEMMA Beginning ==
  ASSUME IInv, Begins, UNCHANGED <<kept, history>>, txn = "none", ~Probing, ~Probing', previous' = previous
  PROVE  KeptOK' /\ PolicyOK'
<1>1. KeptOK'
  BY DEF IInv, KeptOK, Begins, history
<1>2. PolicyOK'
  BY DEF IInv, PolicyOK, PolicyIsOwn, Begins, Probing
<1> QED BY <1>1, <1>2

\* The end of a transaction, by whoever.
LEMMA Ending ==
  ASSUME IInv, Commits \/ RollsBack, kept' = kept
  PROVE  /\ KeptOK' /\ txn' = "none" /\ touched' \subseteq View /\ undone' \subseteq View
         /\ view' \in [View -> Frames] /\ rows' \in [Table -> Counts]
         /\ saved' \in [view : [View -> Frames], rows : [Table -> Counts]]
<1>1. CASE Commits
  BY <1>1, EmptyType DEF IInv, TypeOK, KeptOK, Commits
<1>2. CASE RollsBack
  BY <1>2, EmptyType DEF IInv, TypeOK, KeptOK, RollsBack
<1> QED BY <1>1, <1>2

\* A step between calls leaves what is said of calls alone.
LEMMA IdleStep ==
  ASSUME IInv, Idle, UNCHANGED callVars
  PROVE  /\ CsvOK' /\ ~Probing /\ ~Probing' /\ at' = at /\ arg' = arg /\ previous' = previous
         /\ arg' \in Calls /\ at' \in Steps /\ found' \in Answers /\ second' \in BOOLEAN
         /\ previous' \in Policies \cup {"none"}
BY DEF IInv, TypeOK, CsvOK, Idle, Probing, callVars

LEMMA BeginStep == IInv /\ Begin => IInv'
<1> SUFFICES ASSUME IInv, Begin PROVE IInv'
  OBVIOUS
<1> USE DEF IInv
<1>1. /\ Idle /\ UNCHANGED callVars /\ UNCHANGED <<kept, frames, history>>
  BY DEF Begin
<1>2. WriteOK' /\ LiveOK'
  BY <1>1, LiveStays, IdleStep DEF WriteOK, frames
<1>3. CASE txn = "none"
  <2>1. Begins
    BY <1>3 DEF Begin
  <2>2. KeptOK' /\ PolicyOK'
    BY <1>1, <1>3, <2>1, IdleStep, Beginning
  <2>3. TypeOK'
    BY <1>1, <2>1, IdleStep DEF TypeOK, Begins, frames, history, Policies
  <2> QED BY <1>1, <1>2, <2>2, <2>3, IdleStep
<1>4. CASE txn # "none"
  <2>1. StatementFails("other") /\ UNCHANGED policyVars
    BY <1>4 DEF Begin
  <2>2. UNCHANGED <<view, rows, saved>> /\ txn' \in {"none", "open", "failed"} /\ txn' # "none"
    BY <1>4, <2>1, Failing DEF Errors, EngineErrors
  <2>3. TypeOK'
    BY <1>1, <2>1, <2>2, IdleStep DEF TypeOK, frames, history, policyVars
  <2>4. KeptOK' /\ PolicyOK'
    BY <1>1, <1>4, <2>1, <2>2, IdleStep, KeptStays, PolicyStays
  <2> QED BY <1>1, <1>2, <2>3, <2>4, IdleStep
<1> QED BY <1>3, <1>4

LEMMA EndStep ==
  ASSUME IInv, Idle, Commits \/ RollsBack, UNCHANGED <<policyVars, kept, frames, callVars>>
  PROVE  IInv'
<1> USE DEF IInv
<1>1. TypeOK'
  BY Ending, IdleStep DEF TypeOK, frames, policyVars
<1>2. WriteOK' /\ LiveOK'
  BY LiveStays, IdleStep DEF WriteOK, frames
<1>3. PolicyOK'
  BY Ending, IdleStep, PolicyStays
<1> QED BY <1>1, <1>2, <1>3, Ending, IdleStep

LEMMA UserErrorStep == IInv /\ UserError => IInv'
<1> SUFFICES ASSUME IInv, UserError PROVE IInv'
  OBVIOUS
<1> USE DEF IInv
<1>1. /\ Idle /\ UNCHANGED callVars /\ UNCHANGED <<kept, frames, history>> /\ UNCHANGED policyVars
      /\ UNCHANGED <<view, rows, saved>> /\ txn' \in {"none", "open", "failed"} /\ (txn' = "none" <=> txn = "none")
  BY Failing DEF UserError
<1>2. TypeOK'
  BY <1>1, IdleStep DEF TypeOK, frames, history, policyVars
<1>3. WriteOK' /\ LiveOK' /\ KeptOK' /\ PolicyOK'
  BY <1>1, LiveStays, KeptStays, PolicyStays, IdleStep DEF WriteOK, frames
<1> QED BY <1>1, <1>2, <1>3, IdleStep

LEMMA SetPolicyStep == \A p \in Policies : IInv /\ SetPolicy(p) => IInv'
<1> SUFFICES ASSUME NEW p \in Policies, IInv, SetPolicy(p) PROVE IInv'
  OBVIOUS
<1> USE DEF IInv
<1>1. /\ Idle /\ UNCHANGED callVars /\ UNCHANGED <<kept, frames, history>> /\ policy' = p /\ own' = p
      /\ UNCHANGED <<view, rows, saved, txn>>
  BY DEF SetPolicy, engineVars
<1>2. TypeOK'
  BY <1>1, IdleStep DEF TypeOK, frames, history
<1>3. WriteOK' /\ LiveOK' /\ KeptOK'
  BY <1>1, LiveStays, KeptStays, IdleStep DEF WriteOK, frames
<1>4. PolicyOK'
  BY <1>1, IdleStep DEF PolicyOK, PolicyIsOwn, Probing
<1> QED BY <1>1, <1>2, <1>3, <1>4, IdleStep

LEMMA DropFrameStep == \A f \in Frame : IInv /\ DropFrame(f) => IInv'
<1> SUFFICES ASSUME NEW f \in Frame, IInv, DropFrame(f) PROVE IInv'
  OBVIOUS
<1>1. /\ held' = held \ {f} /\ UNCHANGED <<view, rows, saved, txn, policy, own, kept, live, at, arg, found, second>>
      /\ UNCHANGED <<previous, touched, undone>>
  BY DEF DropFrame, engineVars, policyVars, callVars, history
<1> QED BY <1>1 DEF IInv, TypeOK, LiveOK, KeptOK, WriteOK, PolicyOK, PolicyIsOwn, CsvOK, Idle, Probing

LEMMA CollectStep == \A f \in Frame : IInv /\ Collect(f) => IInv'
<1> SUFFICES ASSUME NEW f \in Frame, IInv, Collect(f) PROVE IInv'
  OBVIOUS
<1>1. /\ live' = live \ {f} /\ UNCHANGED <<view, rows, saved, txn, policy, own, kept, held, at, arg, found, second>>
      /\ UNCHANGED <<previous, touched, undone>>
      /\ f \notin held /\ (\A n \in View : kept[n] # f) /\ (~Idle => arg.frame # f)
  BY DEF Collect, engineVars, policyVars, callVars, history
<1>2. LiveOK'
  BY <1>1 DEF IInv, LiveOK, Idle
<1> QED BY <1>1, <1>2 DEF IInv, TypeOK, KeptOK, WriteOK, PolicyOK, PolicyIsOwn, CsvOK, Probing

LEMMA NewFrameStep == \A f \in Frame : IInv /\ NewFrame(f) => IInv'
<1> SUFFICES ASSUME NEW f \in Frame, IInv, NewFrame(f) PROVE IInv'
  OBVIOUS
<1>1. /\ live' = live \cup {f} /\ held' = held \cup {f}
      /\ UNCHANGED <<view, rows, saved, txn, policy, own, kept, at, arg, found, second>>
      /\ UNCHANGED <<previous, touched, undone>>
  BY DEF NewFrame, engineVars, policyVars, callVars, history
<1>2. LiveOK'
  BY <1>1 DEF IInv, LiveOK, Idle
<1> QED BY <1>1, <1>2 DEF IInv, TypeOK, KeptOK, WriteOK, PolicyOK, PolicyIsOwn, CsvOK, Probing

-----------------------------------------------------------------------------
(***************************************************************************)
(* Registering and unregistering.                                          *)
(***************************************************************************)

\* Registering a data frame that is not collected, whatever comes of it.
LEMMA Registering ==
  ASSUME IInv, NEW n \in View, NEW f \in live \cup {NoFrame}, NEW overwrite \in BOOLEAN, NEW ok \in BOOLEAN,
         Registers(n, f, overwrite, ok)
  PROVE  /\ KeptOK'
         /\ view' \in [View -> Frames] /\ kept' \in [View -> Frames]
         /\ touched' \subseteq View /\ undone' \subseteq View
         /\ rows' = rows /\ saved' = saved
         /\ txn' \in {"none", "open", "failed"} /\ (txn' = "none" <=> txn = "none")
         /\ \A m \in View : kept'[m] = kept[m] \/ (ok /\ m = n /\ kept'[m] = f)
<1> USE DEF IInv
<1>0. f \in Frames
  BY DEF TypeOK, Frames
<1>1. CASE ViewBecomes(n, f) /\ Touch(n) /\ ok /\ kept' = [kept EXCEPT ![n] = f] /\ undone' = undone \ {n}
  BY <1>0, <1>1 DEF TypeOK, KeptOK, ViewBecomes, Touch, Frames
<1>2. CASE ViewBecomes(n, f) /\ Touch(n) /\ undone' = undone \cup {n} /\ kept' = kept
  BY <1>0, <1>2 DEF TypeOK, KeptOK, ViewBecomes, Touch, Frames
<1>3. CASE (\E error \in Errors : StatementFails(error)) /\ kept' = kept /\ UNCHANGED history
  <2>1. UNCHANGED <<view, rows, saved>> /\ txn' \in {"none", "open", "failed"} /\ (txn' = "none" <=> txn = "none")
    BY <1>3, Failing
  <2> QED BY <1>3, <2>1, KeptStays DEF TypeOK, history
<1> QED BY <1>1, <1>2, <1>3 DEF Registers, KeptAfterRefusal

\* Unregistering, whatever comes of it.
LEMMA Unregistering ==
  ASSUME IInv, NEW n \in View, NEW ok \in BOOLEAN, Unregisters(n, ok)
  PROVE  /\ KeptOK'
         /\ view' \in [View -> Frames] /\ kept' = [kept EXCEPT ![n] = NoFrame]
         /\ touched' \subseteq View /\ undone' \subseteq View
         /\ rows' = rows /\ saved' = saved
         /\ txn' \in {"none", "open", "failed"} /\ (txn' = "none" <=> txn = "none")
<1> USE DEF IInv
<1>1. CASE ViewBecomes(n, NoFrame) /\ Touch(n) /\ kept' = [kept EXCEPT ![n] = NoFrame] /\ undone' = undone \ {n}
  BY <1>1 DEF TypeOK, KeptOK, ViewBecomes, Touch, Frames
<1>2. CASE /\ \E error \in EngineErrors : StatementFails(error)
           /\ kept' = [kept EXCEPT ![n] = NoFrame] /\ touched' = touched
           /\ undone' = IF view[n] = NoFrame THEN undone ELSE undone \cup {n}
  <2>1. UNCHANGED <<view, rows, saved>> /\ txn' \in {"none", "open", "failed"} /\ (txn' = "none" <=> txn = "none")
    BY <1>2, Failing DEF Errors
  <2>2. KeptOK'
    BY <1>2, <2>1 DEF TypeOK, KeptOK
  <2> QED BY <1>2, <2>1, <2>2 DEF TypeOK
<1> QED BY <1>1, <1>2 DEF Unregisters, KeptWhenDropFails

LEMMA RegisterStep ==
  \A n \in Name, f \in Frame, overwrite \in BOOLEAN, ok \in BOOLEAN : IInv /\ Register(n, f, overwrite, ok) => IInv'
<1> SUFFICES ASSUME NEW n \in Name, NEW f \in Frame, NEW overwrite \in BOOLEAN, NEW ok \in BOOLEAN,
                    IInv, Register(n, f, overwrite, ok)
             PROVE  IInv'
  OBVIOUS
<1> USE DEF IInv
<1>1. /\ Idle /\ UNCHANGED callVars /\ UNCHANGED frames /\ UNCHANGED policyVars
      /\ f \in live /\ n \in View /\ n # WriteView /\ Registers(n, f, overwrite, ok)
  BY DEF Register, TypeOK, View
<1>2. TypeOK'
  BY <1>1, Registering, IdleStep DEF TypeOK, frames, policyVars
<1>3. KeptOK' /\ WriteOK'
  BY <1>1, Registering, IdleStep DEF WriteOK, View
<1>4. LiveOK'
  BY <1>1, Registering, IdleStep DEF LiveOK, Idle, frames
<1>5. PolicyOK'
  BY <1>1, Registering, IdleStep, PolicyStays
<1> QED BY <1>1, <1>2, <1>3, <1>4, <1>5, IdleStep

LEMMA UnregisterStep == \A n \in Name, ok \in BOOLEAN : IInv /\ Unregister(n, ok) => IInv'
<1> SUFFICES ASSUME NEW n \in Name, NEW ok \in BOOLEAN, IInv, Unregister(n, ok) PROVE IInv'
  OBVIOUS
<1> USE DEF IInv
<1>1. /\ Idle /\ UNCHANGED callVars /\ UNCHANGED frames /\ UNCHANGED policyVars
      /\ n \in View /\ n # WriteView /\ Unregisters(n, ok)
  BY DEF Unregister, View
<1>2. TypeOK'
  BY <1>1, Unregistering, IdleStep DEF TypeOK, frames, policyVars, Frames
<1>3. KeptOK' /\ WriteOK'
  BY <1>1, Unregistering, IdleStep DEF WriteOK, View, TypeOK
<1>4. LiveOK'
  BY <1>1, Unregistering, IdleStep, LiveStays DEF TypeOK, frames, Idle
<1>5. PolicyOK'
  BY <1>1, Unregistering, IdleStep, PolicyStays
<1> QED BY <1>1, <1>2, <1>3, <1>4, <1>5, IdleStep
-----------------------------------------------------------------------------
(***************************************************************************)
(* The steps of a call.                                                    *)
(***************************************************************************)

\* A call begins with what R code has.
LEMMA Starting ==
  ASSUME IInv, NEW c \in {"exists", "csv", "append", "write"}, NEW t \in Table, NEW f \in held \cup {NoFrame},
         NEW mode, NEW begins \in BOOLEAN, begins => c = "csv", Start(Call(c, t, f, mode, begins))
  PROVE  IInv'
<1> DEFINE call == Call(c, t, f, mode, begins)
<1> USE DEF IInv
<1>1. call \in Calls /\ call.frame = f /\ call.before = rows /\ call.begins = begins /\ call.call = c
  BY CallType
<1> HIDE DEF call
<1>2. /\ at = "idle" /\ arg' = call /\ second' = FALSE
      /\ at' = (CASE c = "append" -> "fields" [] c = "csv" /\ begins -> "begin" [] OTHER -> "ask")
      /\ UNCHANGED <<view, rows, saved, txn, policy, own, kept, live, held, found, previous, touched, undone>>
  BY <1>1 DEF Start, call, Idle, engineVars, policyVars, frames, history
<1>3. at' \in {"fields", "begin", "ask"} /\ (at' = "begin" <=> begins) /\ (c = "csv" => at' # "fields")
  BY <1>2
<1>4. TypeOK'
  BY <1>1, <1>2, <1>3 DEF TypeOK, Steps
<1>5. LiveOK'
  BY <1>1, <1>2 DEF LiveOK, TypeOK
<1>6. KeptOK' /\ WriteOK'
  BY <1>2, <1>3 DEF KeptOK, WriteOK
<1>7. PolicyOK'
  BY <1>2, <1>3 DEF PolicyOK, PolicyIsOwn, Probing
<1>8. CsvOK'
  BY <1>1, <1>2, <1>3 DEF CsvOK
<1> QED BY <1>4, <1>5, <1>6, <1>7, <1>8

LEMMA StartStep == \A t \in Table : IInv /\ StartOf(t) => IInv'
<1> SUFFICES ASSUME NEW t \in Table, IInv, StartOf(t) PROVE IInv'
  OBVIOUS
<1>1. CASE Start(Call("exists", t, NoFrame, "create", FALSE))
  BY <1>1, Starting
<1>2. CASE \E begins \in BOOLEAN : Start(Call("csv", t, NoFrame, "create", begins))
  BY <1>2, Starting
<1>3. CASE \E f \in held : Start(Call("append", t, f, "append", FALSE))
  BY <1>3, Starting
<1>4. CASE \E f \in held, mode \in Modes : Start(Call("write", t, f, mode, FALSE))
  BY <1>4, Starting
<1> QED BY <1>1, <1>2, <1>3, <1>4 DEF StartOf

\* The probe relaxes the policy of a transaction, and of nothing else.
LEMMA AskStep == IInv /\ Ask => IInv'
<1> SUFFICES ASSUME IInv, Ask PROVE IInv'
  OBVIOUS
<1>1. /\ at = "ask" /\ at' = "look"
      /\ UNCHANGED <<view, rows, saved, txn, own, kept, live, held, arg, found, second, touched, undone>>
      /\ txn = "none" => previous' = "none" /\ policy' = policy
      /\ txn # "none" => previous' = policy /\ policy' = "lenient"
  BY DEF Ask, Relaxed, engineVars, frames, history
<1>2. TypeOK'
  BY <1>1 DEF IInv, TypeOK, Steps, Policies
<1>3. PolicyOK'
  BY <1>1 DEF IInv, PolicyOK, PolicyIsOwn, Probing
<1>4. CsvOK'
  BY <1>1 DEF IInv, CsvOK
<1> QED BY <1>1, <1>2, <1>3, <1>4 DEF IInv, LiveOK, KeptOK, WriteOK, Idle

\* It looks.
LEMMA LookStep == \A answer \in Answers : IInv /\ Look(answer) => IInv'
<1> SUFFICES ASSUME NEW answer \in Answers, IInv, Look(answer) PROVE IInv'
  OBVIOUS
<1>1. /\ at = "look" /\ at' = "answer" /\ found' = answer
      /\ UNCHANGED <<policy, own, kept, live, held, arg, second, previous, touched, undone>>
      /\ UNCHANGED <<view, rows, saved>> /\ txn' \in {"none", "open", "failed"} /\ (txn' = "none" <=> txn = "none")
  BY Failing DEF IInv, TypeOK, Look, Errors, EngineErrors, Reads, engineVars, policyVars, frames, history
<1>2. TypeOK'
  BY <1>1 DEF IInv, TypeOK, Steps
<1>3. PolicyOK'
  BY <1>1 DEF IInv, PolicyOK, PolicyIsOwn, Probing
<1>4. CsvOK'
  BY <1>1 DEF IInv, CsvOK
<1> QED BY <1>1, <1>2, <1>3, <1>4 DEF IInv, LiveOK, KeptOK, WriteOK, Idle

\* And puts the policy back as it was.
LEMMA AnswerStep == IInv /\ Answer => IInv'
<1> SUFFICES ASSUME IInv, Answer PROVE IInv'
  OBVIOUS
<1> USE DEF IInv
<1>1. /\ at = "answer" /\ previous' = "none" /\ found' \in {"no", found} /\ second' \in BOOLEAN
      /\ policy' = (IF previous = "none" THEN policy ELSE previous)
      /\ arg' = (IF at' = "idle" THEN NoCall ELSE arg)
      /\ UNCHANGED <<view, rows, saved, txn, own, kept, live, held, touched, undone>>
  BY DEF Answer, PutBack, engineVars, frames, history
<1>2. /\ arg.call = "write" => at' \in {"idle", "fields", "remove", "ask", "register"}
      /\ arg.call = "csv" => at' \in {"exit", "copy", "create"}
      /\ arg.call \notin {"write", "csv"} => at' = "idle"
  <2>1. arg.call = "write" => at' = AfterWriteAsked
    BY DEF Answer
  <2>2. arg.call = "csv" => at' = AfterCsvAsked
    BY DEF Answer
  <2>3. arg.call \notin {"write", "csv"} => at' = "idle"
    BY DEF Answer
  <2>4. found \in Answers /\ second \in BOOLEAN /\ arg.overwrite \in BOOLEAN /\ arg.append \in BOOLEAN
    BY DEF TypeOK, Calls
  <2>5. AfterWriteAsked \in {"idle", "fields", "remove", "ask", "register"}
    BY <2>4 DEF AfterWriteAsked, Answers
  <2>6. AfterCsvAsked \in {"exit", "copy", "create"}
    BY <2>4 DEF AfterCsvAsked, Answers
  <2> QED BY <2>1, <2>2, <2>3, <2>5, <2>6
<1>3. at' \in {"idle", "fields", "remove", "ask", "register", "exit", "copy", "create"}
  BY <1>2 DEF TypeOK, Calls
<1>4. NoCall.frame = NoFrame /\ NoCall.begins = FALSE /\ NoCall.call = "exists"
  BY DEF NoCall
<1>5. TypeOK'
  BY <1>1, <1>3, NoCallIsCall DEF TypeOK, Steps, Answers
<1>6. LiveOK'
  BY <1>1, <1>4 DEF LiveOK, Idle
<1>7. PolicyOK'
  BY <1>1, <1>3 DEF PolicyOK, PolicyIsOwn, Probing, TypeOK, Policies
<1>8. CsvOK'
  BY <1>1, <1>2, <1>3, <1>4 DEF CsvOK, TypeOK
<1>9. KeptOK' /\ WriteOK'
  BY <1>1, <1>3 DEF KeptOK, WriteOK
<1> QED BY <1>5, <1>6, <1>7, <1>8, <1>9
\* What a statement does to the tables.
LEMMA TableStep ==
  ASSUME TypeOK, NEW t \in Table, NEW count \in Counts, TableBecomes(t, count)
  PROVE  /\ UNCHANGED <<view, saved, txn>> /\ rows' \in [Table -> Counts]
         /\ txn' \in {"none", "open", "failed"}
BY DEF TypeOK, TableBecomes

LEMMA RemoveStep == IInv /\ Remove => IInv'
<1> SUFFICES ASSUME IInv, Remove PROVE IInv'
  OBVIOUS
<1> USE DEF IInv
<1>1. PICK to \in {"ask", "idle"} :
        /\ Runs("remove", to)
        /\ TableBecomes(arg.table, Absent) \/ \E error \in Errors : StatementFails(error)
  BY DEF Remove
<1>2. arg.table \in Table /\ Absent \in Counts
  BY DEF TypeOK, Calls, Counts
<1>3. /\ UNCHANGED <<view, saved>> /\ rows' \in [Table -> Counts]
      /\ txn' \in {"none", "open", "failed"} /\ (txn' = "none" <=> txn = "none")
  BY <1>1, <1>2, TableStep, Failing DEF TypeOK
<1>4. Goes("remove", to) /\ to \in Steps /\ at = "remove"
  BY <1>1 DEF Runs, Goes, Steps
<1>5. CsvOK'
  BY <1>4, CsvForeign DEF CsvOK
<1> QED BY <1>1, <1>3, <1>4, <1>5, Running

LEMMA FieldsStep == IInv /\ Fields => IInv'
<1> SUFFICES ASSUME IInv, Fields PROVE IInv'
  OBVIOUS
<1> USE DEF IInv
<1>1. PICK to \in {"register", "idle"} :
        Runs("fields", to) /\ (Reads \/ \E error \in Errors : StatementFails(error))
  BY DEF Fields
<1>2. /\ UNCHANGED <<view, saved>> /\ rows' \in [Table -> Counts]
      /\ txn' \in {"none", "open", "failed"} /\ (txn' = "none" <=> txn = "none")
  BY <1>1, Failing DEF TypeOK, Reads, engineVars
<1>3. Goes("fields", to) /\ to \in Steps /\ at = "fields"
  BY <1>1 DEF Runs, Goes, Steps
<1>4. CsvOK'
  BY <1>3, CsvForeign DEF CsvOK
<1> QED BY <1>1, <1>2, <1>3, <1>4, Running

LEMMA FillStep == IInv /\ Fill => IInv'
<1> SUFFICES ASSUME IInv, Fill PROVE IInv'
  OBVIOUS
<1> USE DEF IInv
<1>1. arg.table \in Table /\ rows \in [Table -> Counts]
  BY DEF TypeOK, Calls
<1>2. /\ UNCHANGED <<view, saved>> /\ rows' \in [Table -> Counts]
      /\ txn' \in {"none", "open", "failed"} /\ (txn' = "none" <=> txn = "none")
  <2>1. CASE TableBecomes(arg.table, 1)
    BY <1>1, <2>1, TableStep DEF Counts
  <2>2. CASE rows[arg.table] \in 0..(MaxFills - 1) /\ TableBecomes(arg.table, rows[arg.table] + 1)
    <3>1. rows[arg.table] + 1 \in Counts
      BY <2>2 DEF Counts
    <3> QED BY <1>1, <2>2, <3>1, TableStep
  <2>3. CASE \E error \in Errors : StatementFails(error)
    BY <1>1, <2>3, Failing
  <2> QED BY <2>1, <2>2, <2>3 DEF Fill
<1>3. Runs("fill", "unregister") /\ Goes("fill", "unregister") /\ at = "fill"
  BY DEF Fill, Runs, Goes
<1>4. CsvOK'
  BY <1>3, CsvForeign DEF CsvOK, Steps
<1> QED BY <1>2, <1>3, <1>4, Running DEF Steps

LEMMA RegisterForWriteStep == \A ok \in BOOLEAN : IInv /\ RegisterForWrite(ok) => IInv'
<1> SUFFICES ASSUME NEW ok \in BOOLEAN, IInv, RegisterForWrite(ok) PROVE IInv'
  OBVIOUS
<1> DEFINE to == IF ok THEN "fill" ELSE "unregister"
<1> USE DEF IInv
<1>1. /\ Goes("register", to) /\ at = "register" /\ to \in Steps /\ UNCHANGED policyVars /\ UNCHANGED frames
      /\ Registers(WriteView, arg.frame, TRUE, ok) /\ WriteView \in View
  BY DEF RegisterForWrite, Goes, Steps, View
<1>2. /\ at' = to /\ arg' = arg /\ found' \in Answers /\ second' \in BOOLEAN /\ previous' = previous
  BY <1>1, GoesOn
<1>3. arg.frame \in live \cup {NoFrame}
  BY <1>1 DEF LiveOK, Idle
<1>4. /\ KeptOK'
      /\ view' \in [View -> Frames] /\ kept' \in [View -> Frames]
      /\ touched' \subseteq View /\ undone' \subseteq View
      /\ rows' = rows /\ saved' = saved
      /\ txn' \in {"none", "open", "failed"} /\ (txn' = "none" <=> txn = "none")
      /\ \A m \in View : kept'[m] = kept[m] \/ kept'[m] = arg.frame
  <2> DEFINE frame == arg.frame
             overwrite == TRUE
  <2>1. frame \in live \cup {NoFrame} /\ WriteView \in View /\ overwrite \in BOOLEAN /\ ok \in BOOLEAN
    BY <1>1, <1>3
  <2>2. Registers(WriteView, frame, overwrite, ok)
    BY <1>1
  <2> HIDE DEF frame, overwrite, IInv
  <2>3. /\ KeptOK'
        /\ view' \in [View -> Frames] /\ kept' \in [View -> Frames]
        /\ touched' \subseteq View /\ undone' \subseteq View
        /\ rows' = rows /\ saved' = saved
        /\ txn' \in {"none", "open", "failed"} /\ (txn' = "none" <=> txn = "none")
        /\ \A m \in View : kept'[m] = kept[m] \/ kept'[m] = frame
    BY <2>1, <2>2, Registering
  <2> QED BY <2>3 DEF frame
<1>5. TypeOK'
  BY <1>1, <1>2, <1>4 DEF TypeOK, frames, policyVars
<1>6. LiveOK'
  BY <1>1, <1>2, <1>3, <1>4 DEF LiveOK, frames
<1>7. PolicyOK'
  BY <1>1, <1>2, <1>4, PolicyStays DEF Probing
<1>8. CsvOK'
  BY <1>1, CsvForeign DEF CsvOK
<1>9. WriteOK'
  BY <1>2 DEF WriteOK
<1> QED BY <1>4, <1>5, <1>6, <1>7, <1>8, <1>9

LEMMA UnregisterOnExitStep == \A ok \in BOOLEAN : IInv /\ UnregisterOnExit(ok) => IInv'
<1> SUFFICES ASSUME NEW ok \in BOOLEAN, IInv, UnregisterOnExit(ok) PROVE IInv'
  OBVIOUS
<1> USE DEF IInv
<1>1. /\ Goes("unregister", "idle") /\ at = "unregister" /\ UNCHANGED policyVars /\ UNCHANGED frames
      /\ Unregisters(WriteView, ok) /\ WriteView \in View
  BY DEF UnregisterOnExit, Goes, View
<1>2. /\ at' = "idle" /\ arg' \in Calls /\ found' \in Answers /\ second' \in BOOLEAN /\ previous' = previous
      /\ arg'.frame \in {arg.frame, NoFrame}
  BY <1>1, GoesOn DEF Steps
<1>3. TypeOK'
  BY <1>1, <1>2, Unregistering DEF TypeOK, frames, policyVars, Frames, Steps
<1>4. LiveOK'
  BY <1>1, <1>2, Unregistering, LiveStays DEF TypeOK, frames
<1>5. PolicyOK'
  BY <1>1, <1>2, Unregistering, PolicyStays DEF Probing
<1>6. CsvOK'
  BY <1>1, CsvForeign DEF CsvOK, Steps
<1>7. WriteOK'
  BY <1>1, Unregistering DEF WriteOK, TypeOK
<1> QED BY <1>1, <1>3, <1>4, <1>5, <1>6, <1>7, Unregistering

-----------------------------------------------------------------------------
(***************************************************************************)
(* duckdb_read_csv().                                                      *)
(***************************************************************************)

LEMMA CsvBeginStep == IInv /\ CsvBegin => IInv'
<1> SUFFICES ASSUME IInv, CsvBegin PROVE IInv'
  OBVIOUS
<1> USE DEF IInv
<1>1. CASE Goes("begin", "ask") /\ txn = "none" /\ Begins /\ UNCHANGED <<kept, frames, history>>
  <2>1. /\ at = "begin" /\ at' = "ask" /\ UNCHANGED <<arg, found, second, previous>>
    BY <1>1 DEF Goes
  <2>2. KeptOK' /\ PolicyOK'
    BY <1>1, <2>1, Beginning DEF Probing
  <2>3. TypeOK'
    BY <1>1, <2>1 DEF TypeOK, Begins, frames, history, Policies, Steps
  <2>4. CsvOK'
    BY <1>1, <2>1 DEF CsvOK, Begins
  <2>5. LiveOK' /\ WriteOK'
    BY <1>1, <2>1 DEF LiveOK, WriteOK, Idle, frames
  <2> QED BY <2>2, <2>3, <2>4, <2>5
<1>2. CASE Runs("begin", "idle") /\ StatementFails("other")
  <2>1. /\ UNCHANGED <<view, saved>> /\ rows' \in [Table -> Counts]
        /\ txn' \in {"none", "open", "failed"} /\ (txn' = "none" <=> txn = "none")
    BY <1>2, Failing DEF TypeOK, Errors, EngineErrors
  <2>2. Goes("begin", "idle") /\ at = "begin"
    BY <1>2 DEF Runs, Goes
  <2>3. CsvOK'
    BY <2>2, CsvForeign DEF CsvOK, Steps
  <2> QED BY <1>2, <2>1, <2>3, Running DEF Steps
<1> QED BY <1>1, <1>2 DEF CsvBegin

\* A statement of the call, in its own transaction or without one.
LEMMA CsvStatement ==
  ASSUME IInv, NEW from \in {"create", "copy"}, NEW to \in {"copy", "commit", "exit"}, Runs(from, to),
         UNCHANGED <<view, saved>>, rows' \in [Table -> Counts],
         txn' \in {"none", "open", "failed"}, txn' = "none" <=> txn = "none"
  PROVE  IInv'
<1>1. Goes(from, to) /\ at = from /\ at' = to /\ arg' = arg /\ to \in Steps
  BY DEF Runs, Goes, Steps
<1>2. CsvOK'
  BY <1>1 DEF IInv, CsvOK
<1> QED BY <1>1, <1>2, Running

LEMMA CsvCreateStep == IInv /\ CsvCreate => IInv'
<1> SUFFICES ASSUME IInv, CsvCreate PROVE IInv'
  OBVIOUS
<1>1. TypeOK /\ arg.table \in Table /\ 0 \in Counts
  BY DEF IInv, TypeOK, Calls, Counts
<1>2. PICK to \in {"copy", "exit"} :
        /\ Runs("create", to)
        /\ TableBecomes(arg.table, 0) \/ \E error \in Errors : StatementFails(error)
  BY DEF CsvCreate
<1>3. /\ UNCHANGED <<view, saved>> /\ rows' \in [Table -> Counts]
      /\ txn' \in {"none", "open", "failed"} /\ (txn' = "none" <=> txn = "none")
  BY <1>1, <1>2, TableStep, Failing DEF TypeOK
<1> QED BY <1>2, <1>3, CsvStatement

LEMMA CsvCopyStep == IInv /\ CsvCopy => IInv'
<1> SUFFICES ASSUME IInv, CsvCopy PROVE IInv'
  OBVIOUS
<1>1. TypeOK /\ arg.table \in Table /\ rows \in [Table -> Counts]
  BY DEF IInv, TypeOK, Calls
<1>2. PICK to \in {"copy", "commit", "exit"} :
        /\ Runs("copy", to)
        /\ \/ rows[arg.table] \in 0..(MaxFills - 1) /\ TableBecomes(arg.table, rows[arg.table] + 1)
           \/ \E error \in Errors : StatementFails(error)
  BY DEF CsvCopy
<1>3. rows[arg.table] \in 0..(MaxFills - 1) => rows[arg.table] + 1 \in Counts
  BY DEF Counts
<1>4. /\ UNCHANGED <<view, saved>> /\ rows' \in [Table -> Counts]
      /\ txn' \in {"none", "open", "failed"} /\ (txn' = "none" <=> txn = "none")
  BY <1>1, <1>2, <1>3, TableStep, Failing DEF TypeOK
<1> QED BY <1>2, <1>4, CsvStatement

\* The transaction ends, or there is none of its own.
LEMMA CsvEnding ==
  ASSUME IInv, NEW from \in {"commit", "exit"}, NEW to \in {"idle", "exit"}, Goes(from, to),
         UNCHANGED <<policyVars, kept, frames>>,
         \/ Commits \/ RollsBack
         \/ UNCHANGED <<engineVars, history>>,
         CsvOK'
  PROVE  IInv'
<1> USE DEF IInv
<1>1. /\ at = from /\ at' = to /\ arg' \in Calls /\ found' \in Answers /\ second' \in BOOLEAN /\ previous' = previous
      /\ arg'.frame \in {arg.frame, NoFrame} /\ to \in Steps
  BY GoesOn DEF Steps
<1>2. /\ KeptOK' /\ (txn' = txn \/ txn' = "none") /\ touched' \subseteq View /\ undone' \subseteq View
      /\ view' \in [View -> Frames] /\ rows' \in [Table -> Counts]
      /\ saved' \in [view : [View -> Frames], rows : [Table -> Counts]]
  <2>1. CASE Commits \/ RollsBack
    BY <2>1, Ending
  <2>2. CASE UNCHANGED <<engineVars, history>>
    BY <2>2 DEF TypeOK, KeptOK, engineVars, history
  <2> QED BY <2>1, <2>2
<1>3. TypeOK'
  BY <1>1, <1>2 DEF TypeOK, frames, policyVars
<1>4. LiveOK' /\ WriteOK'
  BY <1>1, LiveStays DEF WriteOK, frames
<1>5. PolicyOK'
  BY <1>1, <1>2, PolicyStays DEF Probing
<1> QED BY <1>2, <1>3, <1>4, <1>5

LEMMA CsvCommitStep == IInv /\ CsvCommit => IInv'
<1> SUFFICES ASSUME IInv, CsvCommit PROVE IInv'
  OBVIOUS
<1>1. CASE Goes("commit", "idle") /\ (IF arg.begins THEN Commits ELSE UNCHANGED <<engineVars, history>>)
  <2>1. CsvOK'
    BY <1>1, CsvForeign DEF IInv, Steps
  <2> QED BY <1>1, <2>1, CsvEnding DEF CsvCommit
<1>2. CASE Goes("commit", "exit") /\ arg.begins /\ RollsBack
  <2>1. CsvOK'
    BY <1>2 DEF IInv, CsvOK, Goes, RollsBack
  <2> QED BY <1>2, <2>1, CsvEnding DEF CsvCommit
<1> QED BY <1>1, <1>2 DEF CsvCommit

LEMMA CsvExitStep == IInv /\ CsvExit => IInv'
<1> SUFFICES ASSUME IInv, CsvExit PROVE IInv'
  OBVIOUS
<1>1. Goes("exit", "idle")
  BY DEF CsvExit
<1>2. CsvOK'
  BY <1>1, CsvForeign DEF IInv, Steps
<1> QED BY <1>1, <1>2, CsvEnding DEF CsvExit, RollsBackOnExit

-----------------------------------------------------------------------------
\* The invariant is inductive.
LEMMA Inductive == IInv /\ [Next]_vars => IInv'
<1> SUFFICES ASSUME IInv, [Next]_vars PROVE IInv'
  OBVIOUS
<1>1. CASE CallStep
  BY <1>1, AskStep, AnswerStep, RemoveStep, FieldsStep, FillStep, LookStep, RegisterForWriteStep, UnregisterOnExitStep,
     CsvBeginStep, CsvCreateStep, CsvCopyStep, CsvCommitStep, CsvExitStep DEF CallStep
<1>2. CASE Commit \/ Rollback
  BY <1>2, EndStep DEF Commit, Rollback
<1>3. CASE Begin \/ UserError \/ \E p \in Policies : SetPolicy(p)
  BY <1>3, BeginStep, UserErrorStep, SetPolicyStep
<1>4. CASE \E n \in Name, ok \in BOOLEAN :
             Unregister(n, ok) \/ \E f \in Frame, overwrite \in BOOLEAN : Register(n, f, overwrite, ok)
  BY <1>4, RegisterStep, UnregisterStep
<1>5. CASE \E f \in Frame : DropFrame(f) \/ Collect(f) \/ NewFrame(f)
  BY <1>5, DropFrameStep, CollectStep, NewFrameStep
<1>6. CASE \E t \in Table : StartOf(t)
  BY <1>6, StartStep
<1>7. CASE UNCHANGED vars
  BY <1>7 DEF vars, IInv, TypeOK, LiveOK, KeptOK, WriteOK, PolicyOK, PolicyIsOwn, CsvOK, Idle, Probing
<1> QED BY <1>1, <1>2, <1>3, <1>4, <1>5, <1>6, <1>7 DEF Next

-----------------------------------------------------------------------------
(***************************************************************************)
(* The theorems.                                                           *)
(***************************************************************************)

\* The inductive invariant always holds.
THEOREM RegistrationInvariant == Spec => []IInv
<1> QED BY Initially, Inductive, PTL DEF Spec

\* The variables have their types.
THEOREM RegistrationTypeCorrect == Spec => []TypeOK
<1>1. IInv => TypeOK
  BY DEF IInv
<1> QED BY <1>1, RegistrationInvariant, PTL

\* src/register.cpp: a view has its data frame, unless its last (un)registration was cut short or rolled back.
THEOREM ViewsLive == Spec => []ViewIsLive
<1>1. IInv => ViewIsLive
  BY DEF IInv, TypeOK, LiveOK, KeptOK, ViewIsLive
<1> QED BY <1>1, RegistrationInvariant, PTL

\* dbWriteTable() and dbAppendTable() leave no view, and keep no data frame.
THEOREM WritesCleanUp == Spec => []WriteCleansUp
<1>1. IInv => WriteCleansUp
  BY DEF IInv, KeptOK, WriteOK, WriteCleansUp, Idle, View
<1> QED BY <1>1, RegistrationInvariant, PTL

\* dbExistsTable() puts the transaction's policy back.
THEOREM PolicyRestored == Spec => []PolicyIsOwn
<1>1. IInv => PolicyIsOwn
  BY DEF IInv, PolicyOK
<1> QED BY <1>1, RegistrationInvariant, PTL

\* dbExistsTable() leaves the transaction usable when there is no such table.
THEOREM ProbesSpare == Spec => ProbeSparesTransaction
<1>1. IInv /\ [Next]_vars => [at = "look" /\ found' = "no" => txn' = txn]_vars
  <2> SUFFICES ASSUME IInv, Next, at = "look", found' = "no" PROVE txn' = txn
    BY DEF vars
  <2>1. CASE \E answer \in Answers : Look(answer)
    BY <2>1 DEF Look, StatementFails, Invalidates, IInv, PolicyOK, Probing, Answers
  <2>2. CASE \E f \in Frame : DropFrame(f) \/ Collect(f) \/ NewFrame(f)
    BY <2>2 DEF DropFrame, Collect, NewFrame, engineVars
  <2>3. CASE CallStep /\ ~\E answer \in Answers : Look(answer)
    <3>1. ~Answer /\ ~Ask
      BY DEF Answer, Ask
    <3>2. ~CsvBegin /\ ~CsvCreate /\ ~CsvCopy /\ ~CsvCommit /\ ~CsvExit
      BY DEF CsvBegin, CsvCreate, CsvCopy, CsvCommit, CsvExit, Runs, Goes
    <3>3. ~Remove /\ ~Fields /\ ~Fill /\ \A ok \in BOOLEAN : ~RegisterForWrite(ok) /\ ~UnregisterOnExit(ok)
      BY DEF Remove, Fields, Fill, RegisterForWrite, UnregisterOnExit, Runs, Goes
    <3> QED BY <2>3, <3>1, <3>2, <3>3 DEF CallStep
  <2>4. ~Idle
    BY DEF Idle
  <2>5. CASE \/ Begin \/ Commit \/ Rollback \/ UserError \/ \E p \in Policies : SetPolicy(p)
             \/ \E t \in Table : StartOf(t)
    BY <2>4, <2>5 DEF Begin, Commit, Rollback, UserError, SetPolicy, StartOf, Start
  <2>6. CASE \E n \in Name, ok \in BOOLEAN :
               Unregister(n, ok) \/ \E f \in Frame, overwrite \in BOOLEAN : Register(n, f, overwrite, ok)
    BY <2>4, <2>6 DEF Unregister, Register
  <2> QED BY <2>1, <2>2, <2>3, <2>5, <2>6 DEF Next
<1> QED BY <1>1, RegistrationInvariant, PTL DEF Spec, ProbeSparesTransaction

\* duckdb_read_csv() in its own transaction is all or nothing.
THEOREM CsvAtomic == Spec => CsvAllOrNothing
<1>1. IInv /\ [Next]_vars => [at = "exit" /\ at' = "idle" /\ arg.begins => txn' = "none" /\ rows' = arg.before]_vars
  <2> SUFFICES ASSUME IInv, Next, at = "exit", at' = "idle", arg.begins PROVE txn' = "none" /\ rows' = arg.before
    BY DEF vars
  <2>1. CsvExit
    BY DEF Next, CallStep, Idle, Begin, Commit, Rollback, UserError, SetPolicy, Register, Unregister, DropFrame, Collect,
       NewFrame, StartOf, Start, Ask, Answer, Look, Remove, Fields, Fill, RegisterForWrite, UnregisterOnExit, CsvBegin,
       CsvCreate, CsvCopy, CsvCommit, Runs, Goes, callVars
  <2> QED BY <2>1 DEF CsvExit, RollsBackOnExit, RollsBack, engineVars, IInv, CsvOK
<1> QED BY <1>1, RegistrationInvariant, PTL DEF Spec, CsvAllOrNothing
=============================================================================
