------------------------------ MODULE SystemRecord ------------------------------
(***************************************************************************)
(* What first-time setup promises its admins, with the statements of the   *)
(* database, the migration and the boot of processes left out: the record  *)
(* of system_state is claimed once and stands; a process knows of it       *)
(* afterwards, until it restarts; and what an admin is told of a request   *)
(* is true of it.                                                          *)
(***************************************************************************)

CONSTANTS
  Replica,    \* application processes
  Attempt,    \* initialize requests
  Key,        \* fingerprints an initializer may record
  None        \* no record

VARIABLES
  record,     \* who initialized the system with what key, or None
  told,       \* what each admin was told
  aware       \* the processes that take the system for initialized

vars == <<record, told, aware>>

Replies == {"none", "initialized", "conflict", "clash", "failed"}

TypeOK ==
  /\ record \in [by : Attempt, key : Key] \union {None}
  /\ told \in [Attempt -> Replies]
  /\ aware \subseteq Replica

Init ==
  /\ record = None
  /\ told = [a \in Attempt |-> "none"]
  /\ aware = {}

\* The record is committed; the response to that may be lost.
Claim(a, f) ==
  /\ told[a] = "none"
  /\ record = None
  /\ record' = [by |-> a, key |-> f]
  /\ told' \in {told, [told EXCEPT ![a] = "failed"]}
  /\ UNCHANGED aware

\* The process that served the claim knows of it when its admin does.
Confirm(a, r) ==
  /\ told[a] = "none"
  /\ record # None
  /\ record.by = a
  /\ told' = [told EXCEPT ![a] = "initialized"]
  /\ aware' = aware \union {r}
  /\ UNCHANGED record

\* 409, an error of a unique key or a table that exists (500), or another failure.
Decline(a, s) ==
  /\ told[a] = "none"
  /\ s = "conflict" => record # None
  /\ s \in {"conflict", "clash"} /\ record # None => record.by # a
  /\ told' = [told EXCEPT ![a] = s]
  /\ UNCHANGED <<record, aware>>

\* A process boots on an initialized system, or anew.
Learn(r) == record # None /\ aware' = aware \union {r} /\ UNCHANGED <<record, told>>
Forget(r) == aware' = aware \ {r} /\ UNCHANGED <<record, told>>

\* A process dies with its requests.
Drop(A) ==
  /\ \A a \in A : told[a] = "none"
  /\ told' = [a \in Attempt |-> IF a \in A THEN "failed" ELSE told[a]]
  /\ UNCHANGED <<record, aware>>

Next ==
  \/ \E a \in Attempt, f \in Key : Claim(a, f)
  \/ \E a \in Attempt, r \in Replica : Confirm(a, r)
  \/ \E a \in Attempt, s \in {"conflict", "clash", "failed"} : Decline(a, s)
  \/ \E r \in Replica : Learn(r) \/ Forget(r)
  \/ \E A \in SUBSET Attempt : Drop(A)

Spec == Init /\ [][Next]_vars

-----------------------------------------------------------------------------

\* The admin who is told so initialized the system, no other did, and whoever was
\* told of a conflict or a clash did not, then or later: the error hides no success.
ToldTruly ==
  /\ \A a \in Attempt :
       /\ told[a] = "initialized" => record # None /\ record.by = a
       /\ told[a] = "conflict" => record # None
       /\ told[a] \in {"conflict", "clash"} /\ record # None => record.by # a
  /\ aware # {} => record # None

\* The record and every answer stand.
Stands ==
  [][/\ record # None => record' = record
     /\ \A a \in Attempt : told[a] # "none" => told'[a] = told[a]]_vars

Promises == []ToldTruly /\ Stands
===============================================================================
