---------------------------- MODULE SharedFiles -----------------------------
(***************************************************************************)
(* What the drivers of one R session promise about database files: a file  *)
(* is opened by one instance at a time, connections to it share that one,  *)
(* and it is closed only when no connection uses it.                       *)
(***************************************************************************)
CONSTANTS File, Conn, Instance

VARIABLES
  opened,  \* the instances that have a file open
  uses     \* the instance that a connection is on

filesVars == <<opened, uses>>

Init ==
  /\ opened = [f \in File |-> {}]
  /\ uses = [c \in Conn |-> {}]

Users(i) == {c \in Conn : i \in uses[c]}

\* A new instance opens a file that is closed.
Opened(f, i) ==
  /\ opened[f] = {}
  /\ opened' = [opened EXCEPT ![f] = {i}]

Open(f, i) == Opened(f, i) /\ UNCHANGED uses

\* A connection is made to the instance that has its file open, or to one that opens it now.
Connect(c, f, i) ==
  /\ uses[c] = {}
  /\ uses' = [uses EXCEPT ![c] = {i}]
  /\ (opened[f] = {i} /\ UNCHANGED opened) \/ Opened(f, i)

\* The file is closed; `cs` are the connections that end in this step.
Closed(f, i, cs) ==
  /\ opened[f] = {i} /\ Users(i) \subseteq cs
  /\ opened' = [opened EXCEPT ![f] = {}]

Close(f, i) == Closed(f, i, {}) /\ UNCHANGED uses

Disconnect(c, f, i) ==
  /\ uses[c] = {i} /\ opened[f] = {i}
  /\ uses' = [uses EXCEPT ![c] = {}]
  /\ UNCHANGED opened \/ Closed(f, i, {c})

Next ==
  \E f \in File, i \in Instance :
    \/ Open(f, i) \/ Close(f, i)
    \/ \E c \in Conn : Connect(c, f, i) \/ Disconnect(c, f, i)

Spec == Init /\ [][Next]_filesVars
=============================================================================
