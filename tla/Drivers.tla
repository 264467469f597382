------------------------------ MODULE Drivers ------------------------------
(***************************************************************************)
(* Drivers, the database instances they reach and the registry that makes  *)
(* one R session open a database file once: R/Driver.R,                    *)
(* R/dbConnect__duckdb_driver.R, src/src/database.cpp,                     *)
(* src/src/connection.cpp and DualWrapper of src/src/include/rapi.hpp.     *)
(*                                                                         *)
(* A driver reaches its instance through a DualWrapper, which is locked (it *)
(* keeps the instance) or not (connections do, and it only observes).      *)
(* duckdb() answers for a file with the registered driver if its instance  *)
(* is alive, and otherwise creates and registers one.  What makes this     *)
(* hard is that the last connection ends an instance behind the registry's *)
(* back, that a refused call has already locked, that a symlink resolves   *)
(* only once its target exists, and that collections come at any time.     *)
(*                                                                         *)
(* R calls are atomic here: one thread runs them and none of these calls   *)
(* runs R code of the user's.                                              *)
(*                                                                         *)
(* KeyAsPassed, EvictsAny, KeepsEntry, AnySettings and StillLocked are     *)
(* faulty twins of the definition that follows each; no action uses one.   *)
(***************************************************************************)
EXTENDS FiniteSets, TLC

CONSTANTS
  Drv,               \* driver objects; one that is collected may be created again
  Conn,              \* connection objects
  Name,              \* spellings of `dbdir`
  Mem,               \* the one of the in-memory database
  Target,            \* the file that each spelling leads to once that file exists
  Setting,           \* settings that bind when an instance is created
  SettingsAtConnect, \* does R code pass settings to dbConnect() for a driver's own database?
  ShutsDownInUse,    \* does R code shut down drivers whose instance has connections?
  None

ASSUME ConstantsAssumption ==
  /\ None \notin Drv /\ Mem \in Name
  /\ Target \in [Name -> Name]
  /\ \A p \in Name : Target[Target[p]] = Target[p]
  /\ \A p \in Name : Target[p] = Mem <=> p = Mem
  /\ SettingsAtConnect \in BOOLEAN /\ ShutsDownInUse \in BOOLEAN

VARIABLES
  ref,       \* a driver's external pointer
  lock,      \* DualWrapper::precious_: the driver keeps its instance
  dbdir,     \* a driver's dbdir slot, the key it is registered under
  file,      \* the file that its instance has opened
  setting,   \* the settings that its instance was created with
  registry,  \* driver_registry
  conn,      \* the driver whose instance an open connection holds
  held,      \* drivers that R code holds, apart from those of its open connections
  onDisk,    \* database files that exist
  answer,    \* what the last call of duckdb() or dbConnect() was asked for and answered
  claimed    \* history: drivers that duckdb() has answered with since they were last connected to

vars == <<ref, lock, dbdir, file, setting, registry, conn, held, onDisk, answer, claimed>>
instances == <<ref, dbdir, file, setting, onDisk>>

-----------------------------------------------------------------------------
NoAnswer == [drv |-> None, asked |-> None]

\* An instance lives while its driver locks it or a connection holds it.
InUse(d) == \E c \in Conn : conn[c] = d
Alive(d) == lock[d] \/ InUse(d)

\* What R code can pass to a call, and what the collector must keep.
InHand(d)    == d \in held \/ InUse(d)
Reachable(d) == InHand(d) \/ \E p \in Name : registry[p] = d

\* path_normalize(): a path resolves only as far as it exists.
Canonical(p, existing) == IF Target[p] \in existing THEN Target[p] ELSE p

\* The key of a new instance: resolved again once the engine has created the file.
KeyAsPassed(p) == Canonical(p, onDisk)
Key(p) == Canonical(p, onDisk \cup {Target[p]})

Registered(p) == IF p = Mem THEN None ELSE registry[Canonical(p, onDisk)]

\* duckdb_shutdown() removes the driver's own entry, and only it.
KeepsEntry(d) == registry
EvictsAny(d) == [registry EXCEPT ![dbdir[d]] = None]
RegistryWithout(d) == [p \in Name |-> IF registry[p] = d THEN None ELSE registry[p]]

\* warn_instance_settings_ignored() compares what is asked with what the instance has.
AnySettings(d, s) == TRUE
SettingsAgree(d, s) == setting[d] = s

StillLocked(ds) == lock
Unlocked(ds) == [d \in Drv |-> lock[d] /\ d \notin ds]

Init ==
  /\ ref = [d \in Drv |-> "none"]
  /\ lock = [d \in Drv |-> FALSE]
  /\ dbdir = [d \in Drv |-> Mem] /\ file = [d \in Drv |-> Mem]
  /\ setting \in [Drv -> Setting]
  /\ registry = [p \in Name |-> None]
  /\ conn = [c \in Conn |-> None]
  /\ held = {} /\ onDisk = {}
  /\ answer = NoAnswer /\ claimed = {}

-----------------------------------------------------------------------------
(***************************************************************************)
(* duckdb(p, s), on its own and underneath dbConnect().  `ds` are the      *)
(* drivers that the whole call leaves unlocked.                            *)
(***************************************************************************)

\* The registered driver's instance is alive: rapi_lock() locks it and the call answers with it.
Reuses(p, s, d, ds) ==
  /\ d = Registered(p) /\ d # None
  /\ ref[d] = "valid" /\ Alive(d)
  /\ SettingsAgree(d, s)
  /\ lock' = [Unlocked(ds) EXCEPT ![d] = d \notin ds]
  /\ UNCHANGED <<instances, registry>>

\* There is none, or its instance is gone: a new instance, registered unless it is in memory.
Creates(p, s, d, ds) ==
  /\ ref[d] = "none"
  /\ Registered(p) # None => ref[Registered(p)] = "valid" /\ ~Alive(Registered(p))
  /\ ref' = [ref EXCEPT ![d] = "valid"]
  /\ lock' = [Unlocked(ds) EXCEPT ![d] = d \notin ds]
  /\ dbdir' = [dbdir EXCEPT ![d] = Key(p)]
  /\ file' = [file EXCEPT ![d] = Target[p]]
  /\ setting' = [setting EXCEPT ![d] = s]
  /\ IF p = Mem
     THEN UNCHANGED <<onDisk, registry>>
     ELSE /\ onDisk' = onDisk \cup {Target[p]}
          /\ registry' = [registry EXCEPT ![Key(p)] = d]

\* The settings differ from the instance's: the call fails, and leaves the driver locked.
Refuses(p, s, ds) ==
  LET d == Registered(p)
  IN /\ d # None /\ ref[d] = "valid" /\ Alive(d)
     /\ ~SettingsAgree(d, s)
     /\ lock' = [Unlocked(ds) EXCEPT ![d] = TRUE]
     /\ answer' = NoAnswer
     /\ UNCHANGED <<instances, registry, conn, held, claimed>>

Duckdb(p, s, d) ==
  /\ Reuses(p, s, d, {}) \/ Creates(p, s, d, {})
  /\ held' = held \cup {d}
  /\ claimed' = claimed \cup {d}
  /\ answer' = [drv |-> d, asked |-> s]
  /\ UNCHANGED conn

DuckdbRefused(p, s) == Refuses(p, s, {})

-----------------------------------------------------------------------------
(***************************************************************************)
(* dbConnect(d, p, s).                                                     *)
(***************************************************************************)

\* rapi_connect(): the connection holds the instance of d, and the driver is unlocked.
Opens(c, d, s) ==
  /\ conn[c] = None
  /\ conn' = [conn EXCEPT ![c] = d]
  /\ claimed' = claimed \ {d}
  /\ answer' = [drv |-> d, asked |-> s]

\* The driver's own database, whose instance is alive.
Connect(d, c, s) ==
  /\ InHand(d) /\ ref[d] = "valid" /\ Alive(d)
  /\ s = setting[d] \/ SettingsAtConnect
  /\ lock' = Unlocked({d})
  /\ Opens(c, d, s)
  /\ UNCHANGED <<instances, registry, held>>

\* "A late comer": the driver's instance is gone, or an in-memory driver is asked for a file.  Its lock is given
\* up and duckdb() answers for p.  A file driver that is asked for another file is refused before that.
GoesTo(d, p, s) ==
  /\ InHand(d) /\ ref[d] = "valid"
  /\ \/ Canonical(p, onDisk) = dbdir[d] /\ ~Alive(d) /\ (s = setting[d] \/ SettingsAtConnect)
     \/ dbdir[d] = Mem /\ p # Mem

ConnectVia(d, p, s, c, e) ==
  /\ GoesTo(d, p, s)
  /\ Reuses(p, s, e, {d, e}) \/ Creates(p, s, e, {d, e})
  /\ Opens(c, e, s)
  /\ UNCHANGED held

ConnectRefused(d, p, s) == GoesTo(d, p, s) /\ Refuses(p, s, {d})

\* rapi_startup() fails: another process has the file, or it cannot be opened as asked.
ConnectFails(d, p, s) ==
  /\ GoesTo(d, p, s)
  /\ Registered(p) # None => ~Alive(Registered(p))
  /\ lock' = Unlocked({d})
  /\ answer' = NoAnswer
  /\ UNCHANGED <<instances, registry, conn, held, claimed>>

-----------------------------------------------------------------------------
\* rapi_disconnect(), called or as a finalizer; R code may go on holding the driver in the closed connection.
Disconnect(c) ==
  /\ conn[c] # None
  /\ conn' = [conn EXCEPT ![c] = None]
  /\ held' \in {held, held \cup {conn[c]}}
  /\ UNCHANGED <<instances, lock, registry, answer, claimed>>

\* duckdb_shutdown(): the reference is released, whatever still uses the instance.
Shutdown(d) ==
  /\ InHand(d) /\ (InUse(d) => ShutsDownInUse)
  /\ ref' = [ref EXCEPT ![d] = "released"]
  /\ lock' = Unlocked({d})
  /\ registry' = RegistryWithout(d)
  /\ UNCHANGED <<dbdir, file, setting, onDisk, conn, held, answer, claimed>>

\* R code lets go of a driver.
Drop(d) ==
  /\ d \in held /\ held' = held \ {d}
  /\ UNCHANGED <<instances, lock, registry, conn, answer, claimed>>

\* The collector: rapi_shutdown() as the finalizer of an unreachable reference.
Collect(d) ==
  /\ ref[d] # "none" /\ ~Reachable(d)
  /\ ref' = [ref EXCEPT ![d] = "none"]
  /\ lock' = Unlocked({d})
  /\ claimed' = claimed \ {d}
  /\ answer' = IF answer.drv = d THEN NoAnswer ELSE answer
  /\ UNCHANGED <<dbdir, file, setting, registry, conn, held, onDisk>>

\* Somebody deletes a database file that is not open.
Remove(f) ==
  /\ f \in onDisk /\ \A d \in Drv : Alive(d) => file[d] # f
  /\ onDisk' = onDisk \ {f}
  /\ UNCHANGED <<ref, lock, dbdir, file, setting, registry, conn, held, answer, claimed>>

-----------------------------------------------------------------------------
Next ==
  \/ \E p \in Name, s \in Setting :
       \/ DuckdbRefused(p, s)
       \/ \E d \in Drv : Duckdb(p, s, d) \/ ConnectRefused(d, p, s) \/ ConnectFails(d, p, s)
       \/ \E d, e \in Drv, c \in Conn : ConnectVia(d, p, s, c, e)
  \/ \E d \in Drv, c \in Conn, s \in Setting : Connect(d, c, s)
  \/ \E c \in Conn : Disconnect(c)
  \/ \E d \in Drv : Shutdown(d) \/ Drop(d) \/ Collect(d)
  \/ \E f \in Name : Remove(f)

Spec == Init /\ [][Next]_vars

-----------------------------------------------------------------------------
(***************************************************************************)
(* Properties.                                                             *)
(***************************************************************************)

\* Every variable has its type, and a DualWrapper that locks an instance is one that R still refers to.
TypeOK ==
  /\ ref \in [Drv -> {"none", "valid", "released"}]
  /\ lock \in [Drv -> BOOLEAN]
  /\ dbdir \in [Drv -> Name] /\ file \in [Drv -> Name]
  /\ setting \in [Drv -> Setting]
  /\ registry \in [Name -> Drv \cup {None}]
  /\ conn \in [Conn -> Drv \cup {None}]
  /\ held \subseteq Drv /\ claimed \subseteq Drv /\ onDisk \subseteq Name
  /\ answer \in [drv : Drv \cup {None}, asked : Setting \cup {None}]
  /\ \A d \in Drv : lock[d] => ref[d] = "valid"

\* One R session opens a file at most once: two live instances of one file would each miss what the other writes.
OneWriter ==
  \A d, e \in Drv : Alive(d) /\ Alive(e) /\ file[d] = file[e] /\ file[d] # Mem => d = e

\* The registry knows every live instance of a file, so that the next duckdb() finds it under any spelling.
RegistryKnowsLive ==
  \A d \in Drv : Alive(d) /\ file[d] # Mem =>
    \A p \in Name : Target[p] = file[d] => Registered(p) = d

\* duckdb() never comes upon a released reference, which would make every later call for that file fail.
RegistryUsable ==
  \A p \in Name : registry[p] # None => ref[registry[p]] = "valid"

\* A call that succeeds has got an instance with the settings that it asked for.
SettingsApply ==
  answer.drv # None => setting[answer.drv] = answer.asked

\* The locked drivers that no call of duckdb() has answered with: each keeps its instance open for nobody.
KeptForNobody == {d \in Drv : lock[d] /\ d \notin claimed}

\* A driver comes to be one of them only in a call that fails, on an instance that was alive. A call that
\* succeeds, an end of a connection, a shutdown or a collection leaves none behind.
OnlyRefusalKeeps ==
  [][\A d \in KeptForNobody' \ KeptForNobody : answer' = NoAnswer /\ Alive(d)]_vars

(***************************************************************************)
(* The abstract specification: one instance per file, shared by the        *)
(* connections to it.  An instance is a driver with the settings of its    *)
(* creation; those of in-memory databases open no file.                    *)
(***************************************************************************)

OpenedBy(f) == {<<d, setting[d]>> : d \in {e \in Drv : Alive(e) /\ file[e] = f}}
UsedBy(c)   == {<<d, setting[d]>> : d \in {e \in Drv : conn[c] = e /\ file[e] # Mem}}

\* A file goes by the spelling that leads to itself.
File == {p \in Name : Target[p] = p /\ p # Mem}

Files == INSTANCE SharedFiles WITH
  Instance <- Drv \X Setting,
  opened <- [f \in File |-> OpenedBy(f)], uses <- [c \in Conn |-> UsedBy(c)]

\* Whatever R code and the collector do with drivers, files are opened and closed as SharedFiles says: a connection
\* never keeps an instance whose file another has opened, and no file is closed under a connection.
ImplementsSharedFiles == Files!Spec

(***************************************************************************)
(* The inductive invariant.                                                *)
(***************************************************************************)

\* Nothing refers to a driver that does not exist.
Unborn == \A d \in Drv : ref[d] = "none" => ~Reachable(d)

\* A driver goes by the name of the file that its instance has opened.
Named == \A d \in Drv : ref[d] # "none" => dbdir[d] = file[d] /\ Target[file[d]] = file[d]

\* Drivers are registered under that name, those of in-memory databases never.
Keyed == \A p \in Name : registry[p] # None => p # Mem /\ dbdir[registry[p]] = p

\* The file of a live instance exists, so that its name resolves, and is registered.
Known == \A d \in Drv : Alive(d) /\ file[d] # Mem => file[d] \in onDisk /\ registry[file[d]] = d

IInv == TypeOK /\ RegistryUsable /\ Unborn /\ Named /\ Keyed /\ Known

=============================================================================
