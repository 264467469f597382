--------------------------- MODULE DriversProofs ---------------------------
(***************************************************************************)
(* Proofs about Drivers, for any number of drivers, connections, files,    *)
(* spellings of their names and settings; last, that they implement        *)
(* SharedFiles.                                                            *)
(*                                                                         *)
(* R code that shuts a driver down while its instance has connections      *)
(* loses OneWriter (the run drivers_onewriter), and settings passed to     *)
(* dbConnect() for the driver's own database are dropped (the run          *)
(* drivers_settings), so the theorems assume neither.                      *)
(***************************************************************************)
EXTENDS Drivers, TLAPS

USE ConstantsAssumption

LEMMA InitInvariant == Init => IInv
  BY DEF Init, IInv, TypeOK, RegistryUsable, Unborn, Named, Keyed, Known, Alive, InUse, InHand, Reachable,
         NoAnswer

\* What Canonical() and Key() return, and what Registered() finds, under the invariant.
LEMMA KeyIsTarget ==
  ASSUME TypeOK, NEW p \in Name
  PROVE  Key(p) = Target[p] /\ Target[p] \in Name
  BY DEF Key, Canonical, TypeOK

LEMMA UnlockedType ==
  ASSUME TypeOK, NEW ds
  PROVE  /\ Unlocked(ds) \in [Drv -> BOOLEAN]
         /\ \A d \in Drv : Unlocked(ds)[d] => lock[d] /\ d \notin ds
  BY DEF Unlocked, TypeOK

\* A live instance of a file is found under every spelling of its name.
LEMMA LiveIsRegistered ==
  ASSUME IInv, NEW d \in Drv, Alive(d), file[d] # Mem, NEW p \in Name, Target[p] = file[d]
  PROVE  Registered(p) = d
<1>1. file[d] \in onDisk /\ registry[file[d]] = d
  BY DEF IInv, Known
<1>2. p # Mem
  OBVIOUS
<1>. QED
  BY <1>1, <1>2 DEF Registered, Canonical

-----------------------------------------------------------------------------
(***************************************************************************)
(* Two kinds of steps preserve the invariant.  A step after which no more  *)
(* instances live than before:                                             *)
(***************************************************************************)

LEMMA WaningStep ==
  ASSUME IInv, TypeOK',
         UNCHANGED <<ref, dbdir, file, registry>>,
         \A d \in Drv : Alive(d)' => Alive(d),
         \A d \in Drv : InHand(d)' => ref[d] # "none",
         \A d \in Drv : (Alive(d) /\ file[d] \in onDisk) => file[d] \in onDisk'
  PROVE  IInv'
<1>1. RegistryUsable'
  BY DEF IInv, RegistryUsable
<1>2. Unborn'
  BY DEF IInv, Unborn, Reachable
<1>3. Named' /\ Keyed'
  BY DEF IInv, Named, Keyed
<1>4. Known'
  BY DEF IInv, Known
<1>. QED
  BY <1>1, <1>2, <1>3, <1>4 DEF IInv

(***************************************************************************)
(* and duckdb(p, s) answering with d, whoever calls it.                    *)
(***************************************************************************)

LEMMA ReusingStep ==
  ASSUME IInv, TypeOK',
         NEW p \in Name, NEW s \in Setting, NEW d \in Drv, NEW ds \in SUBSET Drv,
         Reuses(p, s, d, ds),
         \A c \in Conn : conn'[c] \in {conn[c], d},
         \A e \in Drv : e \in held' => e \in held \/ e = d
  PROVE  IInv'
<1>1. Alive(d) /\ ref[d] = "valid"
  BY DEF Reuses
<1>2. \A e \in Drv : Alive(e)' => Alive(e)
  BY <1>1, UnlockedType DEF Reuses, Alive, InUse, IInv, TypeOK
<1>3. \A e \in Drv : InHand(e)' => ref[e] # "none"
  BY <1>1 DEF InHand, InUse, IInv, Unborn, Reachable
<1>. QED
  BY <1>2, <1>3, WaningStep DEF Reuses, instances

LEMMA CreatingStep ==
  ASSUME IInv, TypeOK',
         NEW p \in Name, NEW s \in Setting, NEW d \in Drv, NEW ds \in SUBSET Drv,
         Creates(p, s, d, ds),
         \A c \in Conn : conn'[c] \in {conn[c], d},
         \A e \in Drv : e \in held' => e \in held \/ e = d
  PROVE  IInv'
<1>. USE DEF IInv
<1>1. ref[d] = "none" /\ ref' = [ref EXCEPT ![d] = "valid"]
  BY DEF Creates
<1>2. dbdir' = [dbdir EXCEPT ![d] = Target[p]] /\ file' = [file EXCEPT ![d] = Target[p]]
  BY KeyIsTarget DEF Creates
<1>3. /\ p = Mem => UNCHANGED <<onDisk, registry>>
      /\ p # Mem => /\ onDisk' = onDisk \cup {Target[p]}
                    /\ registry' = [registry EXCEPT ![Target[p]] = d]
  BY KeyIsTarget DEF Creates
<1>4. ~Reachable(d)
  BY <1>1 DEF Unborn
<1>5. ASSUME NEW e \in Drv, e # d, Alive(e)' PROVE Alive(e)
  BY <1>5, UnlockedType DEF Creates, Alive, InUse, TypeOK
<1>6. \A q \in Name : registry'[q] # None => registry'[q] = d \/ (registry'[q] = registry[q] /\ registry[q] # d)
  BY <1>3, <1>4 DEF TypeOK, Reachable
<1>7. RegistryUsable'
  BY <1>1, <1>6 DEF RegistryUsable, TypeOK
<1>8. Unborn'
  BY <1>1, <1>6 DEF Unborn, Reachable, InHand, InUse, TypeOK
<1>9. Named'
  BY <1>1, <1>2 DEF Named, TypeOK
<1>10. Keyed'
  <2>. SUFFICES ASSUME NEW q \in Name, registry'[q] # None
                PROVE  q # Mem /\ dbdir'[registry'[q]] = q
    BY DEF Keyed
  <2>1. CASE registry'[q] = registry[q] /\ registry[q] # d
    BY <2>1, <1>2 DEF Keyed, TypeOK
  <2>2. CASE registry'[q] = d
    <3>1. p # Mem /\ q = Target[p]
      BY <2>2, <1>3, <1>4 DEF Reachable, TypeOK
    <3>. QED
      BY <3>1, <2>2, <1>2 DEF TypeOK
  <2>. QED
    BY <2>1, <2>2, <1>6
<1>11. Known'
  <2>. SUFFICES ASSUME NEW e \in Drv, Alive(e)', file'[e] # Mem
                PROVE  file'[e] \in onDisk' /\ registry'[file'[e]] = e
    BY DEF Known
  <2>1. CASE e = d
    BY <2>1, <1>2, <1>3 DEF TypeOK
  <2>2. CASE e # d
    <3>1. Alive(e) /\ file'[e] = file[e]
      BY <2>2, <1>2, <1>5 DEF TypeOK
    <3>2. file[e] \in onDisk /\ registry[file[e]] = e
      BY <3>1 DEF Known
    <3>3. p # Mem => Target[p] # file[e]
      <4>. SUFFICES ASSUME p # Mem, Target[p] = file[e] PROVE FALSE
        OBVIOUS
      <4>1. Registered(p) = e
        BY <3>1, LiveIsRegistered
      <4>. QED
        BY <4>1, <3>1 DEF Creates
    <3>. QED
      BY <3>1, <3>2, <3>3, <1>3 DEF TypeOK
  <2>. QED
    BY <2>1, <2>2
<1>. QED
  BY <1>7, <1>8, <1>9, <1>10, <1>11

-----------------------------------------------------------------------------
(***************************************************************************)
(* Types.                                                                  *)
(***************************************************************************)

LEMMA AnswerType ==
  ASSUME TypeOK,
         NEW p \in Name, NEW s \in Setting, NEW d \in Drv, NEW ds \in SUBSET Drv,
         Reuses(p, s, d, ds) \/ Creates(p, s, d, ds)
  PROVE  /\ ref' \in [Drv -> {"none", "valid", "released"}]
         /\ lock' \in [Drv -> BOOLEAN]
         /\ dbdir' \in [Drv -> Name] /\ file' \in [Drv -> Name]
         /\ setting' \in [Drv -> Setting]
         /\ registry' \in [Name -> Drv \cup {None}]
         /\ onDisk' \subseteq Name
         /\ \A e \in Drv : lock'[e] => ref'[e] = "valid"
<1>1. Key(p) = Target[p] /\ Target[p] \in Name
  BY KeyIsTarget
<1>2. CASE Reuses(p, s, d, ds)
  BY <1>2, UnlockedType DEF Reuses, TypeOK, instances
<1>3. CASE Creates(p, s, d, ds)
  <2>1. /\ lock' \in [Drv -> BOOLEAN]
        /\ \A e \in Drv : lock'[e] => e = d \/ lock[e]
    BY <1>3, UnlockedType DEF Creates, TypeOK
  <2>2. registry' \in [Name -> Drv \cup {None}] /\ onDisk' \subseteq Name
    BY <1>1, <1>3 DEF Creates, TypeOK
  <2>. QED
    BY <1>1, <1>3, <2>1, <2>2 DEF Creates, TypeOK
<1>. QED
  BY <1>2, <1>3

LEMMA TypeStep ==
  ASSUME TypeOK, [Next]_vars
  PROVE  TypeOK'
<1>1. ASSUME NEW p \in Name, NEW s \in Setting, NEW d \in Drv, Duckdb(p, s, d)
      PROVE  TypeOK'
  <2>1. {} \in SUBSET Drv /\ (Reuses(p, s, d, {}) \/ Creates(p, s, d, {}))
    BY <1>1 DEF Duckdb
  <2>2. /\ conn' \in [Conn -> Drv \cup {None}] /\ held' \subseteq Drv /\ claimed' \subseteq Drv
        /\ answer' \in [drv : Drv \cup {None}, asked : Setting \cup {None}]
    BY <1>1 DEF Duckdb, TypeOK
  <2>. QED
    BY <2>1, <2>2, AnswerType DEF TypeOK
<1>2. ASSUME NEW p \in Name, NEW s \in Setting, NEW ds \in SUBSET Drv, Refuses(p, s, ds)
      PROVE  TypeOK'
  <2>1. Registered(p) \in Drv /\ ref[Registered(p)] = "valid"
    BY <1>2 DEF Refuses, Registered, Canonical, TypeOK
  <2>2. lock' \in [Drv -> BOOLEAN] /\ \A e \in Drv : lock'[e] => ref[e] = "valid"
    BY <1>2, <2>1, UnlockedType DEF Refuses, TypeOK
  <2>. QED
    BY <1>2, <2>2 DEF Refuses, NoAnswer, instances, TypeOK
<1>3. ASSUME NEW p \in Name, NEW s \in Setting, NEW d \in Drv, ConnectFails(d, p, s)
      PROVE  TypeOK'
  BY <1>3, UnlockedType DEF ConnectFails, NoAnswer, instances, TypeOK
<1>4. ASSUME NEW p \in Name, NEW s \in Setting, NEW d \in Drv, NEW e \in Drv, NEW c \in Conn,
             ConnectVia(d, p, s, c, e)
      PROVE  TypeOK'
  <2>1. {d, e} \in SUBSET Drv /\ (Reuses(p, s, e, {d, e}) \/ Creates(p, s, e, {d, e}))
    BY <1>4 DEF ConnectVia
  <2>2. /\ conn' \in [Conn -> Drv \cup {None}] /\ held' \subseteq Drv /\ claimed' \subseteq Drv
        /\ answer' \in [drv : Drv \cup {None}, asked : Setting \cup {None}]
    BY <1>4 DEF ConnectVia, Opens, TypeOK
  <2>. QED
    BY <2>1, <2>2, AnswerType DEF TypeOK
<1>5. ASSUME NEW d \in Drv, NEW c \in Conn, NEW s \in Setting, Connect(d, c, s)
      PROVE  TypeOK'
  BY <1>5, UnlockedType DEF Connect, Opens, instances, TypeOK
<1>6. ASSUME NEW c \in Conn, Disconnect(c)
      PROVE  TypeOK'
  BY <1>6 DEF Disconnect, instances, TypeOK
<1>7. ASSUME NEW d \in Drv, Shutdown(d)
      PROVE  TypeOK'
  BY <1>7, UnlockedType DEF Shutdown, RegistryWithout, TypeOK
<1>8. ASSUME NEW d \in Drv, Drop(d)
      PROVE  TypeOK'
  BY <1>8 DEF Drop, instances, TypeOK
<1>9. ASSUME NEW d \in Drv, Collect(d)
      PROVE  TypeOK'
  BY <1>9, UnlockedType DEF Collect, NoAnswer, TypeOK
<1>10. ASSUME NEW f \in Name, Remove(f)
       PROVE  TypeOK'
  BY <1>10 DEF Remove, TypeOK
<1>11. CASE UNCHANGED vars
  BY <1>11 DEF vars, TypeOK
<1>12. \A d \in Drv : {} \in SUBSET Drv /\ {d} \in SUBSET Drv
  OBVIOUS
<1>. QED
  BY <1>1, <1>2, <1>3, <1>4, <1>5, <1>6, <1>7, <1>8, <1>9, <1>10, <1>11, <1>12
     DEF Next, DuckdbRefused, ConnectRefused

-----------------------------------------------------------------------------
(***************************************************************************)
(* The invariant.                                                          *)
(***************************************************************************)

LEMMA RefusedStep ==
  ASSUME IInv, TypeOK', NEW p \in Name, NEW s \in Setting, NEW ds \in SUBSET Drv, Refuses(p, s, ds)
  PROVE  IInv'
<1>1. \A d \in Drv : Alive(d)' => Alive(d)
  BY UnlockedType DEF Refuses, Alive, InUse, IInv, TypeOK
<1>2. \A d \in Drv : InHand(d)' => ref[d] # "none"
  BY DEF Refuses, InHand, InUse, IInv, Unborn, Reachable
<1>. QED
  BY <1>1, <1>2, WaningStep DEF Refuses, instances

LEMMA ShutdownStep ==
  ASSUME IInv, TypeOK', ~ShutsDownInUse, NEW d \in Drv, Shutdown(d)
  PROVE  IInv'
<1>. USE DEF IInv
<1>1. ref' = [ref EXCEPT ![d] = "released"] /\ registry' = RegistryWithout(d)
  BY DEF Shutdown
<1>2. \A p \in Name : registry'[p] # None => registry'[p] = registry[p] /\ registry[p] # d
  BY <1>1 DEF RegistryWithout, TypeOK
<1>3. \A e \in Drv : Alive(e)' => Alive(e) /\ e # d
  BY UnlockedType DEF Shutdown, Alive, InUse
<1>4. RegistryUsable'
  BY <1>1, <1>2 DEF RegistryUsable, TypeOK
<1>5. Unborn'
  BY <1>1, <1>2 DEF Shutdown, Unborn, Reachable, InHand, InUse, TypeOK
<1>6. Named'
  BY <1>1, UNCHANGED <<dbdir, file>> DEF Shutdown, Named, Unborn, Reachable, TypeOK
<1>7. Keyed'
  BY <1>2 DEF Shutdown, Keyed
<1>8. Known'
  BY <1>1, <1>3 DEF Shutdown, RegistryWithout, Known, TypeOK
<1>. QED
  BY <1>4, <1>5, <1>6, <1>7, <1>8

LEMMA CollectStep ==
  ASSUME IInv, TypeOK', NEW d \in Drv, Collect(d)
  PROVE  IInv'
<1>. USE DEF IInv
<1>1. ref' = [ref EXCEPT ![d] = "none"] /\ ~Reachable(d)
  BY DEF Collect
<1>2. \A e \in Drv : Alive(e)' => Alive(e)
  BY UnlockedType DEF Collect, Alive, InUse
<1>3. RegistryUsable'
  BY <1>1 DEF Collect, RegistryUsable, Reachable, TypeOK
<1>4. Unborn'
  BY <1>1 DEF Collect, Unborn, Reachable, InHand, InUse, TypeOK
<1>5. Named'
  BY <1>1 DEF Collect, Named, TypeOK
<1>6. Keyed'
  BY DEF Collect, Keyed
<1>7. Known'
  BY <1>2 DEF Collect, Known
<1>. QED
  BY <1>3, <1>4, <1>5, <1>6, <1>7

LEMMA InvariantStep ==
  ASSUME IInv, ~ShutsDownInUse, [Next]_vars
  PROVE  IInv'
<1>1. TypeOK'
  BY TypeStep DEF IInv
<1>2. ASSUME NEW p \in Name, NEW s \in Setting, NEW d \in Drv, Duckdb(p, s, d)
      PROVE  IInv'
  <2>1. \A c \in Conn : conn'[c] \in {conn[c], d}
    BY <1>2 DEF Duckdb
  <2>2. \A e \in Drv : e \in held' => e \in held \/ e = d
    BY <1>2 DEF Duckdb
  <2>3. {} \in SUBSET Drv /\ (Reuses(p, s, d, {}) \/ Creates(p, s, d, {}))
    BY <1>2 DEF Duckdb
  <2>. QED
    BY <1>1, <2>1, <2>2, <2>3, ReusingStep, CreatingStep
<1>3. ASSUME NEW p \in Name, NEW s \in Setting, NEW d \in Drv, NEW e \in Drv, NEW c \in Conn,
             ConnectVia(d, p, s, c, e)
      PROVE  IInv'
  <2>1. \A x \in Conn : conn'[x] \in {conn[x], e}
    BY <1>3 DEF ConnectVia, Opens, IInv, TypeOK
  <2>2. held' = held
    BY <1>3 DEF ConnectVia
  <2>3. {d, e} \in SUBSET Drv /\ (Reuses(p, s, e, {d, e}) \/ Creates(p, s, e, {d, e}))
    BY <1>3 DEF ConnectVia
  <2>. QED
    BY <1>1, <2>1, <2>2, <2>3, ReusingStep, CreatingStep
<1>4. ASSUME NEW p \in Name, NEW s \in Setting, NEW d \in Drv, ConnectFails(d, p, s)
      PROVE  IInv'
  <2>1. \A e \in Drv : Alive(e)' => Alive(e)
    BY <1>4, UnlockedType DEF ConnectFails, Alive, InUse, IInv
  <2>2. \A e \in Drv : InHand(e)' => ref[e] # "none"
    BY <1>4 DEF ConnectFails, InHand, InUse, IInv, Unborn, Reachable
  <2>. QED
    BY <1>1, <1>4, <2>1, <2>2, WaningStep DEF ConnectFails, instances
<1>5. ASSUME NEW d \in Drv, NEW c \in Conn, NEW s \in Setting, Connect(d, c, s)
      PROVE  IInv'
  <2>1. \A e \in Drv : Alive(e)' => Alive(e)
    BY <1>5, UnlockedType DEF Connect, Opens, Alive, InUse, IInv, TypeOK
  <2>2. \A e \in Drv : InHand(e)' => ref[e] # "none"
    BY <1>5 DEF Connect, Opens, InHand, InUse, IInv, Unborn, Reachable, TypeOK
  <2>. QED
    BY <1>1, <1>5, <2>1, <2>2, WaningStep DEF Connect, instances
<1>6. ASSUME NEW c \in Conn, Disconnect(c)
      PROVE  IInv'
  <2>1. conn[c] \in Drv /\ \A x \in Conn : conn'[x] \in {conn[x], None}
    BY <1>6 DEF Disconnect, IInv, TypeOK
  <2>2. \A e \in Drv : Alive(e)' => Alive(e)
    BY <1>6, <2>1 DEF Disconnect, Alive, InUse
  <2>3. \A e \in Drv : InHand(e)' => InHand(e)
    BY <1>6, <2>1 DEF Disconnect, InHand, InUse
  <2>4. \A e \in Drv : InHand(e)' => ref[e] # "none"
    BY <2>3 DEF IInv, Unborn, Reachable
  <2>. QED
    BY <1>1, <1>6, <2>2, <2>4, WaningStep DEF Disconnect, instances
<1>7. ASSUME NEW d \in Drv, Drop(d)
      PROVE  IInv'
  <2>1. \A e \in Drv : (Alive(e)' => Alive(e)) /\ (InHand(e)' => InHand(e))
    BY <1>7 DEF Drop, Alive, InUse, InHand
  <2>2. \A e \in Drv : InHand(e)' => ref[e] # "none"
    BY <2>1 DEF IInv, Unborn, Reachable
  <2>. QED
    BY <1>1, <1>7, <2>1, <2>2, WaningStep DEF Drop, instances
<1>8. ASSUME NEW f \in Name, Remove(f)
      PROVE  IInv'
  <2>1. \A e \in Drv : (Alive(e)' => Alive(e)) /\ (InHand(e)' => InHand(e))
    BY <1>8 DEF Remove, Alive, InUse, InHand
  <2>2. \A e \in Drv : InHand(e)' => ref[e] # "none"
    BY <2>1 DEF IInv, Unborn, Reachable
  <2>3. \A e \in Drv : (Alive(e) /\ file[e] \in onDisk) => file[e] \in onDisk'
    BY <1>8 DEF Remove
  <2>. QED
    BY <1>1, <1>8, <2>1, <2>2, <2>3, WaningStep DEF Remove
<1>9. CASE UNCHANGED vars
  <2>1. \A e \in Drv : (Alive(e)' => Alive(e)) /\ (InHand(e)' => InHand(e))
    BY <1>9 DEF vars, Alive, InUse, InHand
  <2>2. \A e \in Drv : InHand(e)' => ref[e] # "none"
    BY <2>1 DEF IInv, Unborn, Reachable
  <2>. QED
    BY <1>1, <1>9, <2>1, <2>2, WaningStep DEF vars
<1>10. \A d \in Drv : {} \in SUBSET Drv /\ {d} \in SUBSET Drv
  OBVIOUS
<1>11. ASSUME NEW p \in Name, NEW s \in Setting, NEW d \in Drv, DuckdbRefused(p, s) \/ ConnectRefused(d, p, s)
       PROVE  IInv'
  BY <1>1, <1>10, <1>11, RefusedStep DEF DuckdbRefused, ConnectRefused
<1>12. ASSUME NEW p \in Name, NEW s \in Setting, DuckdbRefused(p, s)
       PROVE  IInv'
  BY <1>1, <1>12, RefusedStep, {} \in SUBSET Drv DEF DuckdbRefused
<1>13. ASSUME NEW d \in Drv, Shutdown(d) \/ Collect(d)
       PROVE  IInv'
  BY <1>1, <1>13, ShutdownStep, CollectStep
<1>. QED
  BY <1>2, <1>3, <1>4, <1>5, <1>6, <1>7, <1>8, <1>9, <1>11, <1>12, <1>13 DEF Next

-----------------------------------------------------------------------------
\* The registry and the instances agree whatever calls, failures and collections come, in every state.
THEOREM DriversInvariant ==
  ASSUME ShutsDownInUse = FALSE
  PROVE  Spec => []IInv
<1>1. Init => IInv
  BY InitInvariant
<1>2. IInv /\ [Next]_vars => IInv'
  BY InvariantStep
<1>. QED
  BY <1>1, <1>2, PTL DEF Spec

\* Every variable keeps its type, however R code uses the drivers.
THEOREM DriversTypeCorrect == Spec => []TypeOK
<1>1. Init => TypeOK
  BY InitInvariant DEF IInv
<1>2. TypeOK /\ [Next]_vars => TypeOK'
  BY TypeStep
<1>. QED
  BY <1>1, <1>2, PTL DEF Spec

\* duckdb() finds every live instance of a file under every spelling of its name.
THEOREM KnowsLive ==
  ASSUME ShutsDownInUse = FALSE
  PROVE  Spec => []RegistryKnowsLive
<1>1. IInv => RegistryKnowsLive
  BY LiveIsRegistered DEF RegistryKnowsLive
<1>. QED
  BY <1>1, DriversInvariant, PTL

\* One R session has at most one live instance of a database file.
THEOREM SingleWriter ==
  ASSUME ShutsDownInUse = FALSE
  PROVE  Spec => []OneWriter
<1>1. IInv => OneWriter
  BY DEF IInv, Known, OneWriter
<1>. QED
  BY <1>1, DriversInvariant, PTL

\* duckdb() never comes upon a released reference in the registry, however R code uses the drivers: a shutdown
\* removes the driver's entry, and the collector keeps what the registry holds.
THEOREM UsableRegistry == Spec => []RegistryUsable
<1>1. Init => RegistryUsable
  BY DEF Init, RegistryUsable
<1>2. ASSUME TypeOK, RegistryUsable, [Next]_vars
      PROVE  RegistryUsable'
  <2>1. ASSUME NEW p \in Name, NEW s \in Setting, NEW d \in Drv, NEW ds \in SUBSET Drv,
               Reuses(p, s, d, ds) \/ Creates(p, s, d, ds)
        PROVE  RegistryUsable'
    BY <1>2, <2>1 DEF Reuses, Creates, instances, RegistryUsable, TypeOK, Key, Canonical
  <2>2. ASSUME NEW p \in Name, NEW s \in Setting, NEW d \in Drv, Duckdb(p, s, d)
        PROVE  RegistryUsable'
    BY <2>1, <2>2, {} \in SUBSET Drv DEF Duckdb
  <2>3. ASSUME NEW p \in Name, NEW s \in Setting, NEW d \in Drv, NEW e \in Drv, NEW c \in Conn,
               ConnectVia(d, p, s, c, e)
        PROVE  RegistryUsable'
    BY <2>1, <2>3, {d, e} \in SUBSET Drv DEF ConnectVia
  <2>4. ASSUME NEW d \in Drv, Shutdown(d)
        PROVE  RegistryUsable'
    BY <1>2, <2>4 DEF Shutdown, RegistryWithout, RegistryUsable, TypeOK
  <2>5. ASSUME NEW d \in Drv, Collect(d)
        PROVE  RegistryUsable'
    BY <1>2, <2>5 DEF Collect, Reachable, RegistryUsable, TypeOK
  <2>6. ASSUME UNCHANGED <<ref, registry>>
        PROVE  RegistryUsable'
    BY <1>2, <2>6 DEF RegistryUsable
  <2>. QED
    BY <1>2, <2>2, <2>3, <2>4, <2>5, <2>6
    DEF Next, vars, DuckdbRefused, ConnectRefused, ConnectFails, Refuses, Connect, Disconnect, Drop, Remove, instances
<1>. QED
  BY <1>1, <1>2, DriversTypeCorrect, PTL DEF Spec

\* A call that succeeds has got an instance with the settings it asked for, if none passes settings to dbConnect()
\* for a driver's own database.
THEOREM SettingsHonoured ==
  ASSUME SettingsAtConnect = FALSE
  PROVE  Spec => []SettingsApply
<1>1. Init => SettingsApply
  BY DEF Init, SettingsApply, NoAnswer
<1>2. ASSUME TypeOK, SettingsApply, [Next]_vars
      PROVE  SettingsApply'
  <2>1. ASSUME NEW p \in Name, NEW s \in Setting, NEW d \in Drv, NEW ds \in SUBSET Drv,
               Reuses(p, s, d, ds) \/ Creates(p, s, d, ds)
        PROVE  setting'[d] = s
    BY <1>2, <2>1 DEF Reuses, Creates, SettingsAgree, instances, TypeOK
  <2>2. ASSUME NEW p \in Name, NEW s \in Setting, NEW d \in Drv, Duckdb(p, s, d)
        PROVE  SettingsApply'
    BY <2>1, <2>2, {} \in SUBSET Drv DEF Duckdb, SettingsApply
  <2>3. ASSUME NEW p \in Name, NEW s \in Setting, NEW d \in Drv, NEW e \in Drv, NEW c \in Conn,
               ConnectVia(d, p, s, c, e)
        PROVE  SettingsApply'
    BY <2>1, <2>3, {d, e} \in SUBSET Drv DEF ConnectVia, Opens, SettingsApply
  <2>4. ASSUME NEW d \in Drv, NEW c \in Conn, NEW s \in Setting, Connect(d, c, s)
        PROVE  SettingsApply'
    BY <2>4 DEF Connect, Opens, SettingsApply, instances
  <2>5. ASSUME NEW p \in Name, NEW s \in Setting, NEW d \in Drv,
               ConnectRefused(d, p, s) \/ ConnectFails(d, p, s)
        PROVE  SettingsApply'
    BY <2>5 DEF ConnectRefused, ConnectFails, Refuses, SettingsApply, NoAnswer
  <2>6. ASSUME NEW p \in Name, NEW s \in Setting, DuckdbRefused(p, s)
        PROVE  SettingsApply'
    BY <2>6 DEF DuckdbRefused, Refuses, SettingsApply, NoAnswer
  <2>7. ASSUME NEW d \in Drv, Shutdown(d) \/ Drop(d) \/ Collect(d)
        PROVE  SettingsApply'
    BY <1>2, <2>7 DEF Shutdown, Drop, Collect, SettingsApply, NoAnswer, instances
  <2>8. ASSUME UNCHANGED <<answer, setting>>
        PROVE  SettingsApply'
    BY <1>2, <2>8 DEF SettingsApply
  <2>. QED
    BY <1>2, <2>2, <2>3, <2>4, <2>5, <2>6, <2>7, <2>8 DEF Next, vars, Disconnect, Remove, instances
<1>. QED
  BY <1>1, <1>2, DriversTypeCorrect, PTL DEF Spec

\* However drivers are used, only a call that fails for the settings leaves a driver locked that nobody was given.
THEOREM OnlyRefusals == Spec => OnlyRefusalKeeps
<1>1. ASSUME TypeOK, [Next]_vars, NEW x \in KeptForNobody' \ KeptForNobody
      PROVE  answer' = NoAnswer /\ Alive(x)
  <2>1. x \in Drv /\ lock'[x] /\ x \notin claimed' /\ (lock[x] => x \in claimed)
    BY DEF KeptForNobody
  <2>2. ASSUME NEW p \in Name, NEW s \in Setting, NEW d \in Drv, NEW ds \in SUBSET Drv,
               Reuses(p, s, d, ds) \/ Creates(p, s, d, ds)
        PROVE  /\ lock'[d] => d \notin ds
               /\ x # d => lock[x]
    BY <1>1, <2>1, <2>2 DEF Reuses, Creates, Unlocked, TypeOK
  <2>3. ASSUME NEW p \in Name, NEW s \in Setting, NEW d \in Drv, Duckdb(p, s, d)
        PROVE  FALSE
    BY <2>1, <2>2, <2>3, {} \in SUBSET Drv DEF Duckdb
  <2>4. ASSUME NEW p \in Name, NEW s \in Setting, NEW d \in Drv, NEW e \in Drv, NEW c \in Conn,
               ConnectVia(d, p, s, c, e)
        PROVE  FALSE
    BY <2>1, <2>2, <2>4, {d, e} \in SUBSET Drv DEF ConnectVia, Opens
  <2>5. ASSUME NEW p \in Name, NEW s \in Setting, NEW ds \in SUBSET Drv, Refuses(p, s, ds)
        PROVE  answer' = NoAnswer /\ Alive(x)
    BY <1>1, <2>1, <2>5 DEF Refuses, Unlocked, TypeOK
  <2>6. ASSUME NEW d \in Drv, lock' = Unlocked({d}), claimed' \in {claimed, claimed \ {d}}
        PROVE  FALSE
    BY <1>1, <2>1, <2>6 DEF Unlocked, TypeOK
  <2>7. ASSUME UNCHANGED <<lock, claimed>>
        PROVE  FALSE
    BY <2>1, <2>7
  <2>8. ASSUME NEW p \in Name, NEW s \in Setting, NEW d \in Drv,
               DuckdbRefused(p, s) \/ ConnectRefused(d, p, s)
        PROVE  answer' = NoAnswer /\ Alive(x)
    BY <2>5, <2>8, {} \in SUBSET Drv, {d} \in SUBSET Drv DEF DuckdbRefused, ConnectRefused
  <2>9. ASSUME NEW p \in Name, NEW s \in Setting, NEW d \in Drv, ConnectFails(d, p, s)
        PROVE  FALSE
    BY <2>6, <2>9 DEF ConnectFails
  <2>10. ASSUME NEW d \in Drv, NEW c \in Conn, NEW s \in Setting, Connect(d, c, s)
         PROVE  FALSE
    BY <2>6, <2>10 DEF Connect, Opens
  <2>11. ASSUME NEW d \in Drv, Shutdown(d) \/ Collect(d)
         PROVE  FALSE
    BY <2>6, <2>11 DEF Shutdown, Collect
  <2>12. ASSUME NEW d \in Drv, Drop(d)
         PROVE  FALSE
    BY <2>7, <2>12 DEF Drop
  <2>13. ASSUME (\E c \in Conn : Disconnect(c)) \/ (\E f \in Name : Remove(f)) \/ UNCHANGED vars
         PROVE  FALSE
    BY <2>7, <2>13 DEF Disconnect, Remove, vars
  <2>. QED
    BY <1>1, <2>1, <2>3, <2>4, <2>5, <2>8, <2>9, <2>10, <2>11, <2>12, <2>13, {} \in SUBSET Drv
    DEF Next, DuckdbRefused
<1>2. TypeOK /\ [Next]_vars => [\A d \in KeptForNobody' \ KeptForNobody : answer' = NoAnswer /\ Alive(d)]_vars
  BY <1>1
<1>. QED
  BY <1>2, DriversTypeCorrect, PTL DEF Spec, OnlyRefusalKeeps

-----------------------------------------------------------------------------
(***************************************************************************)
(* Files are opened and closed as SharedFiles says.  First, what the       *)
(* abstract state is and when it stays.                                    *)
(***************************************************************************)

LEMMA OpenedIs ==
  ASSUME IInv, NEW d \in Drv, Alive(d), file[d] # Mem
  PROVE  OpenedBy(file[d]) = {<<d, setting[d]>>}
<1>1. \A e \in Drv : Alive(e) /\ file[e] = file[d] => e = d
  BY DEF IInv, Known
<1>. QED
  BY <1>1 DEF OpenedBy

LEMMA OpenedNothing ==
  ASSUME NEW f, \A e \in Drv : ~(Alive(e) /\ file[e] = f)
  PROVE  OpenedBy(f) = {}
  BY DEF OpenedBy

LEMMA OpenedStays ==
  ASSUME NEW f,
         \A e \in Drv : (Alive(e)' /\ file'[e] = f) <=> (Alive(e) /\ file[e] = f),
         \A e \in Drv : Alive(e) /\ file[e] = f => setting'[e] = setting[e]
  PROVE  OpenedBy(f)' = OpenedBy(f)
<1>1. {e \in Drv : Alive(e)' /\ file'[e] = f} = {e \in Drv : Alive(e) /\ file[e] = f}
  OBVIOUS
<1>. QED
  BY <1>1 DEF OpenedBy

LEMMA UsedIs ==
  ASSUME NEW c \in Conn
  PROVE  /\ conn[c] = None => UsedBy(c) = {}
         /\ \A d \in Drv : conn[c] = d =>
              UsedBy(c) = IF file[d] = Mem THEN {} ELSE {<<d, setting[d]>>}
  BY DEF UsedBy

LEMMA UsedStays ==
  ASSUME NEW c \in Conn, conn'[c] = conn[c],
         \A d \in Drv : conn[c] = d => file'[d] = file[d] /\ setting'[d] = setting[d]
  PROVE  UsedBy(c)' = UsedBy(c)
<1>1. {e \in Drv : conn'[c] = e /\ file'[e] # Mem} = {e \in Drv : conn[c] = e /\ file[e] # Mem}
  OBVIOUS
<1>. QED
  BY <1>1 DEF UsedBy

\* A call that works on the instance of d leaves the other instances of files alive or not, as they were.
LEMMA OthersLive ==
  ASSUME NEW d \in Drv,
         \A c \in Conn : conn'[c] = conn[c] \/ (conn[c] = None /\ conn'[c] = d),
         NEW e \in Drv, e # d,
         (lock'[e] <=> lock[e]) \/ (~Alive(e) /\ ~lock'[e])
  PROVE  Alive(e)' <=> Alive(e)
  BY DEF Alive, InUse

\* If the instances of files live on as they were, no file is opened or closed.
LEMMA QuietFiles ==
  ASSUME TypeOK, UNCHANGED <<file, setting>>,
         \A e \in Drv : file[e] # Mem => (Alive(e)' <=> Alive(e))
  PROVE  \A f \in File : OpenedBy(f)' = OpenedBy(f)
<1>. SUFFICES ASSUME NEW f \in File
              PROVE  OpenedBy(f)' = OpenedBy(f)
  OBVIOUS
<1>. QED
  BY OpenedStays DEF File

-----------------------------------------------------------------------------
(***************************************************************************)
(* Each kind of step of SharedFiles, by what it does to the mapped state.  *)
(***************************************************************************)

FilesKept == \A f \in File : OpenedBy(f)' = OpenedBy(f)
UsesKept  == \A c \in Conn : UsedBy(c)' = UsedBy(c)

FilesKeptBut(f) == \A g \in File : g # f => OpenedBy(g)' = OpenedBy(g)
UsesKeptBut(c)  == \A b \in Conn : b # c => UsedBy(b)' = UsedBy(b)

LEMMA AbstractStutter ==
  ASSUME FilesKept, UsesKept
  PROVE  [Files!Next]_(Files!filesVars)
  BY DEF FilesKept, UsesKept, Files!filesVars

LEMMA AbstractOpen ==
  ASSUME NEW f \in File, NEW i \in Drv \X Setting, OpenedBy(f) = {}, OpenedBy(f)' = {i}, FilesKeptBut(f), UsesKept
  PROVE  [Files!Next]_(Files!filesVars)
<1>1. Files!Open(f, i)
  BY DEF Files!Open, Files!Opened, FilesKeptBut, UsesKept
<1>. QED
  BY <1>1 DEF Files!Next

LEMMA AbstractClose ==
  ASSUME NEW f \in File, NEW i \in Drv \X Setting, OpenedBy(f) = {i}, OpenedBy(f)' = {}, FilesKeptBut(f), UsesKept,
         \A c \in Conn : i \notin UsedBy(c)
  PROVE  [Files!Next]_(Files!filesVars)
<1>1. Files!Close(f, i)
  BY DEF Files!Close, Files!Closed, Files!Users, FilesKeptBut, UsesKept
<1>. QED
  BY <1>1 DEF Files!Next

LEMMA AbstractConnect ==
  ASSUME NEW c \in Conn, NEW f \in File, NEW i \in Drv \X Setting,
         UsedBy(c) = {}, UsedBy(c)' = {i}, UsesKeptBut(c),
         \/ OpenedBy(f) = {i} /\ FilesKept
         \/ OpenedBy(f) = {} /\ OpenedBy(f)' = {i} /\ FilesKeptBut(f)
  PROVE  [Files!Next]_(Files!filesVars)
<1>1. Files!Connect(c, f, i)
  BY DEF Files!Connect, Files!Opened, FilesKept, FilesKeptBut, UsesKeptBut
<1>. QED
  BY <1>1 DEF Files!Next

LEMMA AbstractDisconnect ==
  ASSUME NEW c \in Conn, NEW f \in File, NEW i \in Drv \X Setting,
         UsedBy(c) = {i}, UsedBy(c)' = {}, UsesKeptBut(c), OpenedBy(f) = {i},
         \/ FilesKept
         \/ /\ OpenedBy(f)' = {} /\ FilesKeptBut(f)
            /\ \A b \in Conn : b # c => i \notin UsedBy(b)
  PROVE  [Files!Next]_(Files!filesVars)
<1>1. Files!Disconnect(c, f, i)
  BY DEF Files!Disconnect, Files!Closed, Files!Users, FilesKept, FilesKeptBut, UsesKeptBut
<1>. QED
  BY <1>1 DEF Files!Next

-----------------------------------------------------------------------------
(***************************************************************************)
(* The steps of drivers.                                                   *)
(***************************************************************************)

\* A connection that is on d uses a driver that exists.
LEMMA OnConnection ==
  ASSUME IInv, NEW c \in Conn, NEW d \in Drv, conn[c] = d
  PROVE  Alive(d) /\ ref[d] # "none"
  BY DEF Alive, InUse, IInv, Unborn, Reachable, InHand

LEMMA IsFile ==
  ASSUME IInv, NEW d \in Drv, ref[d] # "none", file[d] # Mem
  PROVE  file[d] \in File
  BY DEF IInv, TypeOK, Named, File

\* Steps that change neither which instances live nor who is connected.
LEMMA QuietStep ==
  ASSUME IInv, UNCHANGED <<file, setting, conn>>,
         \A e \in Drv : file[e] # Mem => (lock'[e] <=> lock[e]) \/ (~Alive(e) /\ ~lock'[e])
  PROVE  FilesKept /\ UsesKept
<1>1. \A e \in Drv : file[e] # Mem => (Alive(e)' <=> Alive(e))
  BY DEF Alive, InUse
<1>2. FilesKept
  BY <1>1, QuietFiles DEF FilesKept, IInv
<1>3. UsesKept
  BY UsedStays DEF UsesKept
<1>. QED
  BY <1>2, <1>3

\* The instance of d, once it is alive and has its file open, and a connection to it.
LEMMA ConnectedTo ==
  ASSUME IInv, NEW c \in Conn, NEW d \in Drv, conn[c] = None, conn'[c] = d,
         \A b \in Conn : b # c => conn'[b] = conn[b],
         \A e \in Drv : e # d \/ ref[d] # "none" => file'[e] = file[e] /\ setting'[e] = setting[e]
  PROVE  /\ UsedBy(c) = {} /\ UsesKeptBut(c)
         /\ file'[d] # Mem => UsedBy(c)' = {<<d, setting'[d]>>}
         /\ file'[d] = Mem => UsesKept
<1>1. UsedBy(c) = {}
  BY UsedIs
<1>2. UsesKeptBut(c)
  BY UsedStays, OnConnection DEF UsesKeptBut
<1>3. UsedBy(c)' = IF file'[d] = Mem THEN {} ELSE {<<d, setting'[d]>>}
  BY DEF UsedBy
<1>. QED
  BY <1>1, <1>2, <1>3 DEF UsesKept, UsesKeptBut

\* duckdb() answers with an instance that is alive: no file is opened or closed.
LEMMA ReusedFiles ==
  ASSUME IInv, NEW p \in Name, NEW s \in Setting, NEW d \in Drv, NEW ds \in SUBSET Drv,
         Reuses(p, s, d, ds), Alive(d)',
         \A e \in ds : e # d => ~Alive(e) \/ file[e] = Mem,
         \A c \in Conn : conn'[c] = conn[c] \/ (conn[c] = None /\ conn'[c] = d)
  PROVE  FilesKept
<1>1. ASSUME NEW e \in Drv, file[e] # Mem, e # d
      PROVE  Alive(e)' <=> Alive(e)
  <2>1. lock'[e] <=> lock[e] /\ e \notin ds
    BY <1>1 DEF Reuses, Unlocked, IInv, TypeOK
  <2>. QED
    BY <1>1, <2>1, OthersLive
<1>2. Alive(d)
  BY DEF Reuses
<1>3. UNCHANGED <<file, setting>>
  BY DEF Reuses, instances
<1>. QED
  BY <1>1, <1>2, <1>3, QuietFiles DEF FilesKept, IInv

\* duckdb() creates an instance: it opens its file, which was closed.
LEMMA CreatedFiles ==
  ASSUME IInv, IInv', NEW p \in Name, NEW s \in Setting, NEW d \in Drv, NEW ds \in SUBSET Drv,
         Creates(p, s, d, ds), Alive(d)',
         \A e \in ds : e # d => ~Alive(e) \/ file[e] = Mem,
         \A c \in Conn : conn'[c] = conn[c] \/ (conn[c] = None /\ conn'[c] = d)
  PROVE  /\ file'[d] = Target[p] /\ setting'[d] = s /\ ref[d] = "none"
         /\ \A e \in Drv : e # d => file'[e] = file[e] /\ setting'[e] = setting[e]
         /\ p = Mem => FilesKept
         /\ p # Mem => /\ Target[p] \in File
                       /\ OpenedBy(Target[p]) = {} /\ OpenedBy(Target[p])' = {<<d, s>>}
                       /\ FilesKeptBut(Target[p])
<1>1. /\ file' = [file EXCEPT ![d] = Target[p]]
      /\ setting' = [setting EXCEPT ![d] = s]
      /\ ref[d] = "none"
  BY DEF Creates
<1>2. file'[d] = Target[p] /\ setting'[d] = s
  BY <1>1 DEF IInv, TypeOK
<1>3. \A e \in Drv : e # d => file'[e] = file[e] /\ setting'[e] = setting[e]
  BY <1>1 DEF IInv, TypeOK
<1>4. ~Alive(d)
  BY <1>1 DEF IInv, Unborn, Reachable, InHand, Alive, TypeOK
<1>5. ASSUME NEW e \in Drv, file[e] # Mem, e # d
      PROVE  Alive(e)' <=> Alive(e)
  <2>1. lock'[e] <=> lock[e] /\ e \notin ds
    BY <1>5 DEF Creates, Unlocked, IInv, TypeOK
  <2>. QED
    BY <1>5, <2>1, OthersLive
<1>6. ASSUME NEW f \in File, f # Target[p]
      PROVE  OpenedBy(f)' = OpenedBy(f)
  <2>1. f # Mem
    BY DEF File
  <2>. QED
    BY <1>2, <1>3, <1>4, <1>5, <1>6, <2>1, OpenedStays
<1>7. CASE p = Mem
  <2>1. \A f \in File : f # Target[p]
    BY <1>7 DEF File
  <2>. QED
    BY <1>1, <1>2, <1>3, <1>6, <1>7, <2>1 DEF FilesKept
<1>8. CASE p # Mem
  <2>1. Target[p] \in File /\ Target[p] # Mem
    BY <1>8 DEF File
  <2>2. ASSUME NEW e \in Drv, Alive(e), file[e] = Target[p]
        PROVE  FALSE
    <3>1. Registered(p) = e
      BY <2>1, <2>2, LiveIsRegistered
    <3>. QED
      BY <2>2, <3>1 DEF Creates
  <2>3. OpenedBy(Target[p]) = {}
    BY <2>2, OpenedNothing
  <2>4. \A e \in Drv : Alive(e)' /\ file'[e] = Target[p] => e = d
    BY <1>2, <2>1 DEF IInv, Known
  <2>5. OpenedBy(Target[p])' = {<<d, s>>}
    BY <1>2, <2>4 DEF OpenedBy
  <2>. QED
    BY <1>1, <1>2, <1>3, <1>6, <1>8, <2>1, <2>3, <2>5 DEF FilesKeptBut
<1>. QED
  BY <1>7, <1>8

LEMMA DuckdbFiles ==
  ASSUME IInv, IInv', NEW p \in Name, NEW s \in Setting, NEW d \in Drv, Duckdb(p, s, d)
  PROVE  [Files!Next]_(Files!filesVars)
<1>. DEFINE none == {}
<1>0. none \in SUBSET Drv /\ UNCHANGED conn
  BY DEF Duckdb
<1>1. CASE Reuses(p, s, d, none)
  <2>1. lock'[d]
    BY <1>1 DEF Reuses, Unlocked, IInv, TypeOK
  <2>2. FilesKept
    BY <1>0, <1>1, <2>1, ReusedFiles DEF Alive
  <2>3. UsesKept
    BY <1>0, <1>1, UsedStays DEF UsesKept, Reuses, instances
  <2>. QED
    BY <2>2, <2>3, AbstractStutter
<1>2. CASE Creates(p, s, d, none)
  <2>1. lock'[d]
    BY <1>2 DEF Creates, Unlocked, IInv, TypeOK
  <2>2. /\ ref[d] = "none"
        /\ \A e \in Drv : e # d => file'[e] = file[e] /\ setting'[e] = setting[e]
        /\ p = Mem => FilesKept
        /\ p # Mem => /\ Target[p] \in File
                      /\ OpenedBy(Target[p]) = {} /\ OpenedBy(Target[p])' = {<<d, s>>}
                      /\ FilesKeptBut(Target[p])
    BY <1>0, <1>2, <2>1, CreatedFiles DEF Alive
  <2>3. UsesKept
    BY <1>0, <2>2, UsedStays, OnConnection DEF UsesKept
  <2>4. CASE p = Mem
    BY <2>2, <2>3, <2>4, AbstractStutter
  <2>5. CASE p # Mem
    <3>1. PICK i \in Drv \X Setting : i = <<d, s>>
      OBVIOUS
    <3>. QED
      BY <2>2, <2>3, <2>5, <3>1, AbstractOpen
  <2>. QED
    BY <2>4, <2>5
<1>. QED
  BY <1>1, <1>2 DEF Duckdb

\* What a late comer goes to duckdb() from has no file open.
LEMMA GoesFromNoFile ==
  ASSUME IInv, NEW d \in Drv, NEW p \in Name, NEW s \in Setting, GoesTo(d, p, s)
  PROVE  ~Alive(d) \/ file[d] = Mem
  BY DEF GoesTo, IInv, Named

LEMMA ConnectViaFiles ==
  ASSUME IInv, IInv', NEW d \in Drv, NEW p \in Name, NEW s \in Setting, NEW c \in Conn, NEW e \in Drv,
         ConnectVia(d, p, s, c, e)
  PROVE  [Files!Next]_(Files!filesVars)
<1>1. /\ conn[c] = None /\ conn'[c] = e
      /\ \A b \in Conn : b # c => conn'[b] = conn[b]
  BY DEF ConnectVia, Opens, IInv, TypeOK
<1>2. Alive(e)'
  BY <1>1 DEF Alive, InUse
<1>3. \A x \in {d, e} : x # e => ~Alive(x) \/ file[x] = Mem
  BY GoesFromNoFile DEF ConnectVia
<1>4. {d, e} \in SUBSET Drv /\ \A b \in Conn : conn'[b] = conn[b] \/ (conn[b] = None /\ conn'[b] = e)
  BY <1>1
<1>5. CASE Reuses(p, s, e, {d, e})
  <2>1. FilesKept
    BY <1>2, <1>3, <1>4, <1>5, ReusedFiles
  <2>2. UNCHANGED <<file, setting>> /\ Alive(e) /\ ref[e] = "valid"
    BY <1>5 DEF Reuses, instances
  <2>3. /\ UsedBy(c) = {} /\ UsesKeptBut(c)
        /\ file[e] # Mem => UsedBy(c)' = {<<e, setting[e]>>}
        /\ file[e] = Mem => UsesKept
    BY <1>1, <2>2, ConnectedTo
  <2>4. CASE file[e] = Mem
    BY <2>1, <2>3, <2>4, AbstractStutter
  <2>5. CASE file[e] # Mem
    <3>1. file[e] \in File /\ <<e, setting[e]>> \in Drv \X Setting
      BY <2>2, <2>5, IsFile DEF IInv, TypeOK
    <3>2. OpenedBy(file[e]) = {<<e, setting[e]>>}
      BY <2>2, <2>5, OpenedIs
    <3>. QED
      BY <2>1, <2>3, <2>5, <3>1, <3>2, AbstractConnect
  <2>. QED
    BY <2>4, <2>5
<1>6. CASE Creates(p, s, e, {d, e})
  <2>1. /\ file'[e] = Target[p] /\ setting'[e] = s /\ ref[e] = "none"
        /\ \A x \in Drv : x # e => file'[x] = file[x] /\ setting'[x] = setting[x]
        /\ p = Mem => FilesKept
        /\ p # Mem => /\ Target[p] \in File
                      /\ OpenedBy(Target[p]) = {} /\ OpenedBy(Target[p])' = {<<e, s>>}
                      /\ FilesKeptBut(Target[p])
    BY <1>2, <1>3, <1>4, <1>6, CreatedFiles
  <2>2. /\ UsedBy(c) = {} /\ UsesKeptBut(c)
        /\ file'[e] # Mem => UsedBy(c)' = {<<e, setting'[e]>>}
        /\ file'[e] = Mem => UsesKept
    BY <1>1, <2>1, ConnectedTo
  <2>3. Target[p] = Mem <=> p = Mem
    OBVIOUS
  <2>4. CASE p = Mem
    BY <2>1, <2>2, <2>3, <2>4, AbstractStutter
  <2>5. CASE p # Mem
    BY <2>1, <2>2, <2>3, <2>5, AbstractConnect
  <2>. QED
    BY <2>4, <2>5
<1>. QED
  BY <1>5, <1>6 DEF ConnectVia

LEMMA ConnectFiles ==
  ASSUME IInv, NEW d \in Drv, NEW c \in Conn, NEW s \in Setting, Connect(d, c, s)
  PROVE  [Files!Next]_(Files!filesVars)
<1>1. /\ conn[c] = None /\ conn'[c] = d
      /\ \A b \in Conn : b # c => conn'[b] = conn[b]
  BY DEF Connect, Opens, IInv, TypeOK
<1>2. UNCHANGED <<file, setting>> /\ Alive(d) /\ ref[d] = "valid"
  BY DEF Connect, instances
<1>3. Alive(d)'
  BY <1>1 DEF Alive, InUse
<1>4. ASSUME NEW e \in Drv, e # d
      PROVE  Alive(e)' <=> Alive(e)
  <2>1. lock'[e] <=> lock[e]
    BY <1>4 DEF Connect, Unlocked, IInv, TypeOK
  <2>. QED
    BY <1>1, <1>4, <2>1, OthersLive
<1>5. FilesKept
  BY <1>2, <1>3, <1>4, QuietFiles DEF FilesKept, IInv
<1>6. /\ UsedBy(c) = {} /\ UsesKeptBut(c)
      /\ file[d] # Mem => UsedBy(c)' = {<<d, setting[d]>>}
      /\ file[d] = Mem => UsesKept
  BY <1>1, <1>2, ConnectedTo
<1>7. CASE file[d] = Mem
  BY <1>5, <1>6, <1>7, AbstractStutter
<1>8. CASE file[d] # Mem
  <2>1. file[d] \in File /\ <<d, setting[d]>> \in Drv \X Setting
    BY <1>2, <1>8, IsFile DEF IInv, TypeOK
  <2>2. OpenedBy(file[d]) = {<<d, setting[d]>>}
    BY <1>2, <1>8, OpenedIs
  <2>. QED
    BY <1>5, <1>6, <1>8, <2>1, <2>2, AbstractConnect
<1>. QED
  BY <1>7, <1>8

LEMMA DisconnectFiles ==
  ASSUME IInv, NEW c \in Conn, Disconnect(c)
  PROVE  [Files!Next]_(Files!filesVars)
<1>0. PICK d \in Drv : conn[c] = d
  BY DEF Disconnect, IInv, TypeOK
<1>1. /\ conn'[c] = None
      /\ \A b \in Conn : b # c => conn'[b] = conn[b]
      /\ UNCHANGED <<file, setting, lock>>
  BY <1>0 DEF Disconnect, instances, IInv, TypeOK
<1>2. Alive(d) /\ ref[d] # "none"
  BY <1>0, OnConnection
<1>3. \A e \in Drv : e # d => (Alive(e)' <=> Alive(e))
  BY <1>0, <1>1 DEF Alive, InUse
<1>4. UsesKeptBut(c) /\ UsedBy(c)' = {}
  <2>1. UsesKeptBut(c)
    BY <1>0, <1>1, UsedStays DEF UsesKeptBut
  <2>. QED
    BY <1>0, <1>1, <2>1 DEF UsedBy
<1>5. CASE file[d] = Mem
  <2>1. UsedBy(c) = {}
    BY <1>0, <1>1, <1>5, UsedIs
  <2>2. UsesKept
    BY <1>4, <2>1 DEF UsesKept, UsesKeptBut
  <2>3. FilesKept
    BY <1>0, <1>1, <1>3, <1>5, QuietFiles DEF FilesKept, IInv
  <2>. QED
    BY <2>2, <2>3, AbstractStutter
<1>6. CASE file[d] # Mem
  <2>1. PICK f \in File : f = file[d]
    BY <1>2, <1>6, IsFile
  <2>2. PICK i \in Drv \X Setting : i = <<d, setting[d]>>
    BY DEF IInv, TypeOK
  <2>3. OpenedBy(f) = {i}
    BY <1>2, <1>6, <2>1, <2>2, OpenedIs
  <2>4. UsedBy(c) = {i}
    BY <1>0, <1>6, <2>2, UsedIs
  <2>5. CASE Alive(d)'
    <3>1. FilesKept
      BY <1>0, <1>1, <1>2, <1>3, <2>5, QuietFiles DEF FilesKept, IInv
    <3>. QED
      BY <1>4, <2>4, <2>3, <3>1, AbstractDisconnect
  <2>6. CASE ~Alive(d)'
    <3>1. OpenedBy(f)' = {}
      <4>1. \A e \in Drv : ~(Alive(e)' /\ file'[e] = f)
        <5>1. \A e \in Drv : Alive(e) /\ file[e] = f => e = d
          BY <1>2, <1>6, <2>1 DEF IInv, Known
        <5>. QED
          BY <1>1, <1>3, <2>6, <5>1
      <4>. QED
        BY <4>1 DEF OpenedBy
    <3>2. FilesKeptBut(f)
      <4>1. \A g \in File : g # f => \A e \in Drv : (Alive(e)' /\ file'[e] = g) <=> (Alive(e) /\ file[e] = g)
        BY <1>1, <1>3, <2>1
      <4>. QED
        BY <1>0, <1>1, <4>1, OpenedStays DEF FilesKeptBut
    <3>3. \A b \in Conn : b # c => conn[b] # d
      BY <1>0, <1>1, <2>6 DEF Alive, InUse
    <3>4. \A b \in Conn : b # c => i \notin UsedBy(b)
      BY <2>2, <3>3 DEF UsedBy
    <3>. QED
      BY <1>4, <2>4, <2>3, <3>1, <3>2, <3>4, AbstractDisconnect
  <2>. QED
    BY <2>5, <2>6
<1>. QED
  BY <1>5, <1>6

LEMMA ShutdownFiles ==
  ASSUME IInv, ShutsDownInUse = FALSE, NEW d \in Drv, Shutdown(d)
  PROVE  [Files!Next]_(Files!filesVars)
<1>1. UNCHANGED <<file, setting, conn>> /\ ~InUse(d)
  BY DEF Shutdown
<1>2. ~lock'[d] /\ \A e \in Drv : e # d => (lock'[e] <=> lock[e])
  BY DEF Shutdown, Unlocked, IInv, TypeOK
<1>3. CASE ~Alive(d) \/ file[d] = Mem
  BY <1>1, <1>2, <1>3, QuietStep, AbstractStutter
<1>4. CASE Alive(d) /\ file[d] # Mem
  <2>1. PICK f \in File : f = file[d]
    <3>1. ref[d] # "none"
      BY <1>1, <1>4 DEF Alive, IInv, TypeOK
    <3>. QED
      BY <1>4, <3>1, IsFile
  <2>2. PICK i \in Drv \X Setting : i = <<d, setting[d]>>
    BY DEF IInv, TypeOK
  <2>3. OpenedBy(f) = {i}
    BY <1>4, <2>2, <2>1, OpenedIs
  <2>4. ~Alive(d)' /\ \A e \in Drv : e # d => (Alive(e)' <=> Alive(e))
    BY <1>1, <1>2 DEF Alive, InUse
  <2>5. OpenedBy(f)' = {}
    <3>1. \A e \in Drv : ~(Alive(e)' /\ file'[e] = f)
      BY <1>1, <1>4, <2>1, <2>4 DEF IInv, Known
    <3>. QED
      BY <3>1 DEF OpenedBy
  <2>6. FilesKeptBut(f)
    <3>1. \A g \in File : g # f => \A e \in Drv : (Alive(e)' /\ file'[e] = g) <=> (Alive(e) /\ file[e] = g)
      BY <1>1, <2>1, <2>4
    <3>. QED
      BY <1>1, <3>1, OpenedStays DEF FilesKeptBut
  <2>7. \A c \in Conn : i \notin UsedBy(c)
    BY <1>1, <2>2 DEF UsedBy, InUse
  <2>8. UsesKept
    BY <1>1, UsedStays DEF UsesKept
  <2>. QED
    BY <2>3, <2>5, <2>6, <2>7, <2>8, AbstractClose
<1>. QED
  BY <1>3, <1>4

LEMMA StepFiles ==
  ASSUME IInv, IInv', ShutsDownInUse = FALSE, [Next]_vars
  PROVE  [Files!Next]_(Files!filesVars)
<1>1. ASSUME NEW p \in Name, NEW s \in Setting, NEW ds \in SUBSET Drv, Refuses(p, s, ds),
             \A e \in ds : ~Alive(e) \/ file[e] = Mem
      PROVE  [Files!Next]_(Files!filesVars)
  <2>. DEFINE d == Registered(p)
  <2>1. d \in Drv /\ Alive(d)
    BY <1>1 DEF Refuses, Registered, IInv, TypeOK, Canonical
  <2>2. lock' = [Unlocked(ds) EXCEPT ![d] = TRUE] /\ UNCHANGED <<file, setting, conn>>
    BY <1>1 DEF Refuses, instances
  <2>3. lock'[d] /\ \A e \in Drv : e # d => (lock'[e] <=> lock[e] /\ e \notin ds)
    BY <2>1, <2>2 DEF Unlocked
  <2>4. \A e \in Drv : file[e] # Mem => (Alive(e)' <=> Alive(e))
    BY <1>1, <2>1, <2>2, <2>3 DEF Alive, InUse
  <2>5. FilesKept
    BY <2>2, <2>4, QuietFiles DEF FilesKept, IInv
  <2>6. UsesKept
    BY <2>2, UsedStays DEF UsesKept
  <2>. QED
    BY <2>5, <2>6, AbstractStutter
<1>2. ASSUME NEW p \in Name, NEW s \in Setting, DuckdbRefused(p, s)
      PROVE  [Files!Next]_(Files!filesVars)
  <2>1. {} \in SUBSET Drv /\ Refuses(p, s, {})
    BY <1>2 DEF DuckdbRefused
  <2>. QED
    BY <1>1, <2>1
<1>3. ASSUME NEW d \in Drv, NEW p \in Name, NEW s \in Setting, ConnectRefused(d, p, s)
      PROVE  [Files!Next]_(Files!filesVars)
  <2>1. {d} \in SUBSET Drv /\ Refuses(p, s, {d}) /\ \A e \in {d} : ~Alive(e) \/ file[e] = Mem
    BY <1>3, GoesFromNoFile DEF ConnectRefused
  <2>. QED
    BY <1>1, <2>1
<1>4. ASSUME NEW d \in Drv, UNCHANGED <<file, setting, conn>>, lock' = Unlocked({d}),
             ~Alive(d) \/ file[d] = Mem
      PROVE  [Files!Next]_(Files!filesVars)
  <2>1. ~lock'[d] /\ \A e \in Drv : e # d => (lock'[e] <=> lock[e])
    BY <1>4 DEF Unlocked
  <2>. QED
    BY <1>4, <2>1, QuietStep, AbstractStutter
<1>5. ASSUME NEW d \in Drv, NEW p \in Name, NEW s \in Setting, ConnectFails(d, p, s)
      PROVE  [Files!Next]_(Files!filesVars)
  BY <1>4, <1>5, GoesFromNoFile DEF ConnectFails, instances
<1>6. ASSUME NEW d \in Drv, Collect(d)
      PROVE  [Files!Next]_(Files!filesVars)
  <2>1. ~Alive(d) \/ file[d] = Mem
    BY <1>6 DEF Collect, Reachable, IInv, TypeOK, Known
  <2>. QED
    BY <1>4, <1>6, <2>1 DEF Collect
<1>7. ASSUME UNCHANGED <<file, setting, conn, lock>>
      PROVE  [Files!Next]_(Files!filesVars)
  BY <1>7, QuietStep, AbstractStutter
<1>8. ASSUME NEW d \in Drv, Drop(d)
      PROVE  [Files!Next]_(Files!filesVars)
  BY <1>7, <1>8 DEF Drop, instances
<1>9. ASSUME NEW f \in Name, Remove(f)
      PROVE  [Files!Next]_(Files!filesVars)
  BY <1>7, <1>9 DEF Remove
<1>10. CASE UNCHANGED vars
  BY <1>7, <1>10 DEF vars
<1>. QED
  BY <1>2, <1>3, <1>5, <1>6, <1>8, <1>9, <1>10,
     DuckdbFiles, ConnectViaFiles, ConnectFiles, DisconnectFiles, ShutdownFiles
  DEF Next

\* The drivers implement SharedFiles if none in use is shut down: one instance has a file open, connections to the
\* file share it, and it is closed only when none uses it.
THEOREM FilesAreShared ==
  ASSUME ShutsDownInUse = FALSE
  PROVE  Spec => ImplementsSharedFiles
<1>1. Init => Files!Init
  <2>. SUFFICES ASSUME Init
                PROVE  Files!Init
    OBVIOUS
  <2>1. \A f \in File : OpenedBy(f) = {}
    BY OpenedNothing DEF Init, Alive, InUse
  <2>2. \A c \in Conn : UsedBy(c) = {}
    BY UsedIs DEF Init
  <2>. QED
    BY <2>1, <2>2 DEF Files!Init
<1>2. IInv /\ IInv' /\ [Next]_vars => [Files!Next]_(Files!filesVars)
  BY StepFiles
<1>. QED
  BY <1>1, <1>2, DriversInvariant, PTL DEF Spec, ImplementsSharedFiles, Files!Spec
=============================================================================
