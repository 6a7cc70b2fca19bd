------------------------------ MODULE Replica ------------------------------
(***************************************************************************)
(* What a watch subscription promises its client, apart from how it is     *)
(* carried: a source of rows, a replica of it, and the states captured on  *)
(* the way.  While the stream is open the replica only ever moves to a     *)
(* state the source really was in, and visits them in the source's order;  *)
(* states may be skipped (captures coalesce updates), never invented.      *)
(* Once the stream is ending captures may be lost, and nothing is promised *)
(* about what the replica shows until it is told that the stream is over.  *)
(***************************************************************************)
EXTENDS Naturals, Sequences

CONSTANTS
  Keys,     \* object keys
  Vals,     \* object contents (versions)
  Absent    \* the row is not there

VARIABLES
  source,   \* the rows as fed to the stream
  replica,  \* the rows as the client holds them
  inflight, \* captured states on their way, oldest first
  ending    \* the stream is being closed

vars == <<source, replica, inflight, ending>>

Rows == [Keys -> Vals \cup {Absent}]

Init ==
  /\ source = [k \in Keys |-> Absent]
  /\ replica = [k \in Keys |-> Absent]
  /\ inflight = <<>>
  /\ ending = FALSE

(* One row changes, appears or goes. *)
Update(k, v) ==
  /\ source' = [source EXCEPT ![k] = v]
  /\ UNCHANGED <<replica, inflight, ending>>

Capture ==
  /\ inflight' = Append(inflight, source)
  /\ UNCHANGED <<source, replica, ending>>

Deliver ==
  /\ inflight # <<>>
  /\ inflight' = Tail(inflight)
  /\ \/ replica' = Head(inflight)
     \/ ending /\ replica' \in Rows
  /\ UNCHANGED <<source, ending>>

End ==
  /\ ~ending
  /\ ending' = TRUE
  /\ UNCHANGED <<source, replica, inflight>>

(* The newest capture is lost: only while the stream is ending. *)
Lose ==
  /\ ending
  /\ inflight # <<>>
  /\ inflight' = SubSeq(inflight, 1, Len(inflight) - 1)
  /\ UNCHANGED <<source, replica, ending>>

Next ==
  \/ \E k \in Keys, v \in Vals \cup {Absent} : Update(k, v)
  \/ Capture
  \/ Deliver
  \/ End
  \/ Lose

Spec == Init /\ [][Next]_vars

(* The replica catches up with the source again and again, or the stream
   is ending. *)
CatchesUp == []<>(replica = source \/ ending)
=============================================================================
