---------------------------- MODULE IdTableSpec ----------------------------
(***************************************************************************)
(* What an IDPool used through id_handle promises its clients, with no     *)
(* bitmap, log or handle in sight: a durable table from ids to values,     *)
(* whose rows appear, change and disappear in single steps, and a volatile *)
(* set of ids that some client has reserved and not yet published.         *)
(*                                                                         *)
(* Abstract specification: IdPool is shown to implement it.  No definition *)
(* here is a translation of code.                                          *)
(***************************************************************************)
CONSTANTS
  Ids,    \* the offsets of the pool
  Vals,   \* what a row holds
  None    \* no row; not in Vals

VARIABLES
  table,  \* Ids -> Vals, None where there is no row; survives a restart
  held    \* ids reserved by a client; forgotten at a restart

vars == <<table, held>>

TypeOK ==
  /\ table \in [Ids -> Vals \cup {None}]
  /\ held \subseteq Ids

Init ==
  /\ table = [i \in Ids |-> None]
  /\ held = {}

(* An id nobody has is reserved... *)
Reserve(i) ==
  /\ table[i] = None
  /\ i \notin held
  /\ held' = held \cup {i}
  /\ UNCHANGED table

(* ...and either becomes a row, *)
Publish(i, v) ==
  /\ i \in held
  /\ table' = [table EXCEPT ![i] = v]
  /\ held' = held \ {i}

(* or is given back. *)
Abandon(i) ==
  /\ i \in held
  /\ held' = held \ {i}
  /\ UNCHANGED table

Revise(i, v) ==
  /\ table[i] # None
  /\ table' = [table EXCEPT ![i] = v]
  /\ UNCHANGED held

Drop(i) ==
  /\ table[i] # None
  /\ table' = [table EXCEPT ![i] = None]
  /\ UNCHANGED held

(* A restart forgets the reservations and nothing else. *)
Restart ==
  /\ held' = {}
  /\ UNCHANGED table

Next ==
  \/ \E i \in Ids : Reserve(i) \/ Abandon(i) \/ Drop(i)
  \/ \E i \in Ids, v \in Vals : Publish(i, v) \/ Revise(i, v)
  \/ Restart

Spec == Init /\ [][Next]_vars
=============================================================================
