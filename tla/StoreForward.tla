----------------------------- MODULE StoreForward -----------------------------
(***************************************************************************)
(* What the measurement pipeline of sensormgr promises, without its tasks, *)
(* locks and marks: readings are taken one after the other, kept in memory *)
(* or on disk while there is no connection, and sent in batches through a  *)
(* queue of bounded length. Nothing is sent twice. Memory loses nothing:   *)
(* only what is on disk can be erased, and what was erased is never sent.  *)
(***************************************************************************)
EXTENDS Integers, FiniteSets

CONSTANTS
  BatchMax,      (* readings per message                                     *)
  QueueSlots     (* capacity of the message queue, in messages               *)

VARIABLES
  taken,         (* how many readings were taken: they are 1 .. taken        *)
  memory,        (* the readings kept in memory                              *)
  disk,          (* the readings kept on disk                                *)
  sent,          (* the readings handed to the message queue                 *)
  queued         (* messages waiting in that queue                           *)

vars == <<taken, memory, disk, sent, queued>>

(* An earlier boot may have left readings on the disk *)
Init ==
  /\ taken \in Nat
  /\ memory = {}
  /\ disk = 1 .. taken
  /\ sent = {}
  /\ queued = 0

Take ==
  /\ taken' = taken + 1
  /\ memory' = memory \cup {taken + 1}
  /\ UNCHANGED <<disk, sent, queued>>

Spill(r) ==
  /\ r \in memory
  /\ memory' = memory \ {r}
  /\ disk' = disk \cup {r}
  /\ UNCHANGED <<taken, sent, queued>>

Load(r) ==
  /\ r \in disk
  /\ disk' = disk \ {r}
  /\ memory' = memory \cup {r}
  /\ UNCHANGED <<taken, sent, queued>>

Erase ==
  /\ disk' \subseteq disk
  /\ UNCHANGED <<taken, memory, sent, queued>>

Send(B) ==
  /\ queued < QueueSlots
  /\ queued' = queued + 1
  /\ B # {} /\ Cardinality(B) <= BatchMax
  /\ memory' = memory \ B
  /\ sent' = sent \cup B
  /\ UNCHANGED <<taken, disk>>

Publish ==
  /\ queued > 0
  /\ queued' = queued - 1
  /\ UNCHANGED <<taken, memory, disk, sent>>

Next ==
  \/ Erase
  \/ Take
  \/ \E r \in memory : Spill(r)
  \/ \E r \in disk : Load(r)
  \/ \E B \in SUBSET memory : Send(B)
  \/ Publish

Spec == Init /\ [][Next]_vars

(* A reading is in one place: in memory, on disk or sent, so none is sent twice *)
(* and none that was sent is still kept.                                        *)
InOnePlace ==
  /\ memory \cup disk \cup sent \subseteq 1 .. taken
  /\ memory \cap disk = {}
  /\ (memory \cup disk) \cap sent = {}
==============================================================================
