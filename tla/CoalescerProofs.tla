--------------------------- MODULE CoalescerProofs --------------------------
(***************************************************************************)
(* Proofs about Coalescer, for every set of pushers, keys and contents and *)
(* every channel capacity and number of pushes; and about PolicyBuilder,   *)
(* for every clusters, pods, forms and policies.                           *)
(***************************************************************************)
EXTENDS Coalescer, PolicyBuilder, SequenceTheorems, FiniteSetTheorems, TLAPS

-----------------------------------------------------------------------------
(* Facts about Apply.  All are about batches with one op for a key, which   *)
(* is what Push makes.                                                      *)

UniqueKeys(ops) ==
  \A i, j \in DOMAIN ops : ops[i].key = ops[j].key => i = j

LEMMA ResultType ==
  ASSUME NEW op \in Op
  PROVE  Result(op) \in Vals \cup {Absent}
BY DEF Result, Op

(* An op of the batch decides its key's row. *)
LEMMA ApplyAt ==
  ASSUME NEW rows \in Rows, NEW ops \in Seq(Op), UniqueKeys(ops),
         NEW i \in DOMAIN ops
  PROVE  Apply(rows, ops)[ops[i].key] = Result(ops[i])
<1> DEFINE k    == ops[i].key
           at   == {j \in DOMAIN ops : ops[j].key = k}
           last == CHOOSE j \in at : \A m \in at : m <= j
<1>a. ops[i] \in Op /\ i \in Nat
  OBVIOUS
<1>1. k \in Keys /\ i \in Nat
  BY <1>a DEF Op
<1>2. at = {i}
  BY DEF UniqueKeys
<1>3. last = i
  BY <1>1, <1>2
<1>4. Apply(rows, ops)[k] = Result(ops[last])
  BY <1>1, <1>2 DEF Apply
<1> QED BY <1>3, <1>4

(* A key with no op keeps its row. *)
LEMMA ApplyOff ==
  ASSUME NEW rows \in Rows, NEW ops \in Seq(Op), NEW k \in Keys,
         \A j \in DOMAIN ops : ops[j].key # k
  PROVE  Apply(rows, ops)[k] = rows[k]
BY DEF Apply

LEMMA ApplyType ==
  ASSUME NEW rows \in Rows, NEW ops \in Seq(Op), UniqueKeys(ops)
  PROVE  Apply(rows, ops) \in Rows
<1>1. SUFFICES ASSUME NEW k \in Keys
               PROVE  Apply(rows, ops)[k] \in Vals \cup {Absent}
  BY DEF Apply, Rows
<1>2. CASE \E i \in DOMAIN ops : ops[i].key = k
  <2>1. PICK i \in DOMAIN ops : ops[i].key = k
    BY <1>2
  <2>2. ops[i] \in Op
    OBVIOUS
  <2> QED BY <2>1, <2>2, ApplyAt, ResultType
<1>3. CASE \A i \in DOMAIN ops : ops[i].key # k
  BY <1>3, ApplyOff DEF Rows
<1> QED BY <1>2, <1>3

LEMMA ApplyEmpty ==
  ASSUME NEW rows \in Rows
  PROVE  Apply(rows, <<>>) = rows
BY DEF Apply, Rows

(* Push on a pending key: the op takes its place. *)
LEMMA ApplyReplace ==
  ASSUME NEW rows \in Rows, NEW ops \in Seq(Op), UniqueKeys(ops),
         NEW i \in DOMAIN ops, NEW op \in Op, op.key = ops[i].key
  PROVE  LET new == [ops EXCEPT ![i] = op]
         IN  /\ new \in Seq(Op)
             /\ UniqueKeys(new)
             /\ Apply(rows, new) = [Apply(rows, ops) EXCEPT ![op.key] = Result(op)]
<1> DEFINE new == [ops EXCEPT ![i] = op]
<1>1. /\ new \in Seq(Op)
      /\ DOMAIN new = DOMAIN ops
      /\ new[i] = op
      /\ \A j \in DOMAIN ops : new[j].key = ops[j].key
      /\ \A j \in DOMAIN ops \ {i} : new[j] = ops[j]
  OBVIOUS
<1> HIDE DEF new
<1>2. UniqueKeys(new)
  BY <1>1 DEF UniqueKeys
<1>3. Apply(rows, ops) \in Rows /\ Apply(rows, new) \in Rows
  BY <1>1, <1>2, ApplyType
<1>4. ASSUME NEW k \in Keys
      PROVE  Apply(rows, new)[k] = [Apply(rows, ops) EXCEPT ![op.key] = Result(op)][k]
  <2>1. CASE k = op.key
    BY <1>1, <1>2, <1>3, <2>1, ApplyAt DEF Rows
  <2>2. CASE k # op.key /\ \E j \in DOMAIN ops : ops[j].key = k
    <3>1. PICK j \in DOMAIN ops : ops[j].key = k
      BY <2>2
    <3>2. j # i /\ new[j] = ops[j] /\ new[j].key = k /\ j \in DOMAIN new
      BY <1>1, <2>2, <3>1
    <3>3. Apply(rows, new)[k] = Result(ops[j]) /\ Apply(rows, ops)[k] = Result(ops[j])
      BY <1>1, <1>2, <3>1, <3>2, ApplyAt
    <3> QED BY <1>3, <2>2, <3>3 DEF Rows
  <2>3. CASE k # op.key /\ \A j \in DOMAIN ops : ops[j].key # k
    <3>1. Apply(rows, new)[k] = rows[k] /\ Apply(rows, ops)[k] = rows[k]
      BY <1>1, <2>3, ApplyOff
    <3> QED BY <1>3, <2>3, <3>1 DEF Rows
  <2> QED BY <2>1, <2>2, <2>3
<1>5. Apply(rows, new) = [Apply(rows, ops) EXCEPT ![op.key] = Result(op)]
  BY <1>3, <1>4 DEF Rows
<1> QED BY <1>1, <1>2, <1>5 DEF new

(* Push on a key not pending: the op goes last. *)
LEMMA ApplyAppend ==
  ASSUME NEW rows \in Rows, NEW ops \in Seq(Op), UniqueKeys(ops),
         NEW op \in Op, \A i \in DOMAIN ops : ops[i].key # op.key
  PROVE  LET new == Append(ops, op)
         IN  /\ new \in Seq(Op)
             /\ UniqueKeys(new)
             /\ Apply(rows, new) = [Apply(rows, ops) EXCEPT ![op.key] = Result(op)]
<1> DEFINE new == Append(ops, op)
           n   == Len(ops) + 1
<1>1. /\ new \in Seq(Op)
      /\ DOMAIN ops = 1 .. Len(ops)
      /\ DOMAIN new = 1 .. n
      /\ Len(ops) \in Nat
      /\ new[n] = op
      /\ \A j \in DOMAIN ops : new[j] = ops[j]
  OBVIOUS
<1> HIDE DEF new
<1>2. UniqueKeys(new)
  BY <1>1 DEF UniqueKeys
<1>3. Apply(rows, ops) \in Rows /\ Apply(rows, new) \in Rows
  BY <1>1, <1>2, ApplyType
<1>4. ASSUME NEW k \in Keys
      PROVE  Apply(rows, new)[k] = [Apply(rows, ops) EXCEPT ![op.key] = Result(op)][k]
  <2>1. CASE k = op.key
    <3>1. n \in DOMAIN new /\ new[n].key = k
      BY <1>1, <2>1
    <3> QED BY <1>1, <1>2, <1>3, <2>1, <3>1, ApplyAt DEF Rows
  <2>2. CASE k # op.key /\ \E j \in DOMAIN ops : ops[j].key = k
    <3>1. PICK j \in DOMAIN ops : ops[j].key = k
      BY <2>2
    <3>2. new[j] = ops[j] /\ new[j].key = k /\ j \in DOMAIN new
      BY <1>1, <3>1
    <3>3. Apply(rows, new)[k] = Result(ops[j]) /\ Apply(rows, ops)[k] = Result(ops[j])
      BY <1>1, <1>2, <3>1, <3>2, ApplyAt
    <3> QED BY <1>3, <2>2, <3>3 DEF Rows
  <2>3. CASE k # op.key /\ \A j \in DOMAIN ops : ops[j].key # k
    <3>1. \A j \in DOMAIN new : new[j].key # k
      BY <1>1, <2>3
    <3>2. Apply(rows, new)[k] = rows[k] /\ Apply(rows, ops)[k] = rows[k]
      BY <1>1, <2>3, <3>1, ApplyOff
    <3> QED BY <1>3, <2>3, <3>2 DEF Rows
  <2> QED BY <2>1, <2>2, <2>3
<1>5. Apply(rows, new) = [Apply(rows, ops) EXCEPT ![op.key] = Result(op)]
  BY <1>3, <1>4 DEF Rows
<1> QED BY <1>1, <1>2, <1>5 DEF new

-----------------------------------------------------------------------------
(* The basic invariant: types, the index, and one op for a key in every     *)
(* batch.  The three need each other: view stays a function of rows because *)
(* batches have unique keys, they do because pending does, and that is what *)
(* the index is for.                                                        *)

BatchesUnique ==
  /\ UniqueKeys(held.ops)
  /\ \A i \in DOMAIN out : UniqueKeys(out[i].ops)

Basic == TypeOK /\ IndexExact /\ BatchesUnique

LEMMA PendingUnique ==
  ASSUME IndexExact
  PROVE  UniqueKeys(pending)
BY DEF IndexExact, UniqueKeys

LEMMA InitBasic == Init => Basic
<1> SUFFICES ASSUME Init PROVE Basic
  OBVIOUS
<1>1. Empty \in Rows
  BY DEF Empty, Rows
<1>2. NoBatch \in Batch
  BY <1>1 DEF NoBatch, Batch
<1>3. TypeOK
  <2>1. pending \in Seq(Op) /\ out \in Seq(Batch)
    BY DEF Init
  <2>2. index \in [DOMAIN index -> Nat] /\ DOMAIN index \subseteq Keys
    BY DEF Init
  <2>3. pusher \in [Pushers -> [pc : {"idle", "kick"}] \cup [pc : {"lock"}, op : Op]]
    BY DEF Init, Idle
  <2> QED BY <1>1, <1>2, <2>1, <2>2, <2>3 DEF Init, TypeOK
<1>4. IndexExact
  BY DEF Init, IndexExact
<1>5. BatchesUnique
  BY DEF Init, BatchesUnique, UniqueKeys, NoBatch
<1> QED BY <1>3, <1>4, <1>5 DEF Basic

(* What Push does to pending, in the terms of Apply. *)
LEMMA PushEffect ==
  ASSUME Basic, NEW op \in Op, Replacing(op) \/ Appending(op)
  PROVE  /\ pending' \in Seq(Op)
         /\ pending' # <<>>
         /\ index' \in [DOMAIN index' -> Nat] /\ DOMAIN index' \subseteq Keys
         /\ IndexExact'
         /\ \A rows \in Rows :
              Apply(rows, pending') = [Apply(rows, pending) EXCEPT ![op.key] = Result(op)]
<1> USE DEF Basic
<1>1. /\ pending \in Seq(Op)
      /\ UniqueKeys(pending)
      /\ op.key \in Keys
      /\ view \in Rows
  BY PendingUnique DEF TypeOK, Op
<1>2. CASE Replacing(op)
  <2> DEFINE i   == index[op.key]
             put == IF op.op = OpDelete THEN op ELSE [op EXCEPT !.op = OpModify]
  <2>1. i \in DOMAIN pending /\ pending[i].key = op.key
    BY <1>2 DEF Replacing, IndexExact
  <2>2. put \in Op /\ put.key = op.key /\ Result(put) = Result(op)
    BY DEF Op, Result, OpDelete, OpModify, OpAdd
  <2>3. pending' = [pending EXCEPT ![i] = put] /\ index' = index
    BY <1>2 DEF Replacing
  <2> HIDE DEF i, put
  <2>4. /\ pending' \in Seq(Op)
        /\ \A rows \in Rows :
             Apply(rows, pending') = [Apply(rows, pending) EXCEPT ![op.key] = Result(op)]
    <3>1. ASSUME NEW rows \in Rows
          PROVE  /\ pending' \in Seq(Op)
                 /\ Apply(rows, pending') = [Apply(rows, pending) EXCEPT ![put.key] = Result(put)]
      <4> DEFINE new == [pending EXCEPT ![i] = put]
      <4>1. put \in Op /\ put.key = pending[i].key /\ i \in DOMAIN pending
        BY <2>1, <2>2
      <4>2. /\ new \in Seq(Op)
            /\ Apply(rows, new) = [Apply(rows, pending) EXCEPT ![put.key] = Result(put)]
        BY ONLY <1>1, <4>1, rows \in Rows, ApplyReplace, SMTT(30)
      <4> QED BY <2>3, <4>2
    <3> QED BY <1>1, <2>2, <3>1
  <2>5. /\ DOMAIN pending' = DOMAIN pending
        /\ \A j \in DOMAIN pending : pending'[j].key = pending[j].key
    BY <1>1, <2>1, <2>2, <2>3
  <2>6. IndexExact'
    BY <2>3, <2>5 DEF IndexExact
  <2>7. pending' # <<>>
    BY <2>1, <2>5
  <2> QED BY <2>3, <2>4, <2>6, <2>7 DEF TypeOK
<1>3. CASE Appending(op)
  <2> DEFINE n == Len(pending) + 1
  <2>1. /\ op.key \notin DOMAIN index
        /\ index' = [k \in DOMAIN index \cup {op.key} |->
                       IF k = op.key THEN n ELSE index[k]]
        /\ pending' = Append(pending, op)
    BY <1>3 DEF Appending
  <2>2. \A i \in DOMAIN pending : pending[i].key # op.key
    BY <2>1 DEF IndexExact
  <2>3. /\ pending' \in Seq(Op)
        /\ \A rows \in Rows :
             Apply(rows, pending') = [Apply(rows, pending) EXCEPT ![op.key] = Result(op)]
    BY <1>1, <2>1, <2>2, ApplyAppend
  <2>4. /\ DOMAIN pending = 1 .. Len(pending)
        /\ Len(pending) \in Nat
        /\ DOMAIN pending' = 1 .. n
        /\ pending'[n] = op
        /\ \A i \in DOMAIN pending : pending'[i] = pending[i]
    BY <1>1, <2>1
  <2> HIDE DEF n
  <2>5. DOMAIN pending' = DOMAIN pending \cup {n}
    BY <2>4 DEF n
  <2>6. DOMAIN index' = {pending'[i].key : i \in DOMAIN pending'}
    BY <2>1, <2>4, <2>5 DEF IndexExact
  <2>7. \A i \in DOMAIN pending' : index'[pending'[i].key] = i
    BY <2>1, <2>2, <2>4, <2>5 DEF IndexExact
  <2>8. IndexExact'
    BY <2>6, <2>7 DEF IndexExact
  <2>9. pending' # <<>>
    BY <2>4 DEF n
  <2>10. index' \in [DOMAIN index' -> Nat] /\ DOMAIN index' \subseteq Keys
    BY <1>1, <2>1, <2>4 DEF TypeOK, n
  <2> QED BY <2>3, <2>8, <2>9, <2>10
<1> QED BY <1>2, <1>3

LEMMA StepBasic == Basic /\ [Next]_vars => Basic'
<1> SUFFICES ASSUME Basic, [Next]_vars PROVE Basic'
  OBVIOUS
<1> USE DEF Basic
<1>1. ASSUME NEW p \in Pushers, PushCheck(p) PROVE Basic'
  <2>1. pusher' \in [Pushers -> [pc : {"idle", "kick"}] \cup [pc : {"lock"}, op : Op]]
    BY <1>1 DEF PushCheck, TypeOK
  <2>2. TypeOK'
    BY <1>1, <2>1 DEF PushCheck, TypeOK, mem, loop
  <2> QED BY <1>1, <2>2 DEF PushCheck, IndexExact, BatchesUnique, mem, loop
<1>2. ASSUME NEW p \in Pushers, PushLocked(p) PROVE Basic'
  <2>1. pusher[p].op \in Op
    BY <1>2 DEF PushLocked, TypeOK
  <2>2. /\ pending' \in Seq(Op)
        /\ index' \in [DOMAIN index' -> Nat] /\ DOMAIN index' \subseteq Keys
        /\ IndexExact'
    BY <1>2, <2>1, PushEffect DEF PushLocked
  <2>3. fed' \in Rows
    BY <1>2, <2>1, ResultType DEF PushLocked, TypeOK, Rows
  <2>4. pusher' \in [Pushers -> [pc : {"idle", "kick"}] \cup [pc : {"lock"}, op : Op]]
    BY <1>2 DEF PushLocked, TypeOK, Idle
  <2>5. TypeOK'
    BY <1>2, <2>2, <2>3, <2>4 DEF PushLocked, TypeOK, loop
  <2> QED BY <1>2, <2>2, <2>5 DEF PushLocked, BatchesUnique, loop
<1>3. ASSUME NEW p \in Pushers, PushKick(p) PROVE Basic'
  <2>1. pusher' \in [Pushers -> [pc : {"idle", "kick"}] \cup [pc : {"lock"}, op : Op]]
    BY <1>3 DEF PushKick, TypeOK, Idle
  <2>2. TypeOK'
    BY <1>3, <2>1 DEF PushKick, TypeOK, mem, loop, ghost
  <2> QED BY <1>3, <2>2 DEF PushKick, IndexExact, BatchesUnique, mem, loop
<1>4. CASE RunKick \/ RunTimer \/ RunClosed \/ FlushEmpty \/ RunReturn
  <2>1. run' \in {"select", "flush", "send", "lastFlush", "lastSend", "close", "done"}
    BY <1>4 DEF TypeOK, RunKick, RunTimer, RunClosed, FlushEmpty, RunReturn, AfterFlush, loop
  <2>2. UNCHANGED <<pending, index, held, out, view, fed, pushes, pusher, closed, listening>>
    BY <1>4 DEF RunKick, RunTimer, RunClosed, FlushEmpty, RunReturn, mem, loop, ghost
  <2>3. kick' \in BOOLEAN /\ armed' \in BOOLEAN /\ outClosed' \in BOOLEAN
    BY <1>4 DEF TypeOK, RunKick, RunTimer, RunClosed, FlushEmpty, RunReturn
  <2>4. TypeOK'
    BY <2>1, <2>2, <2>3 DEF TypeOK
  <2> QED BY <2>2, <2>4 DEF IndexExact, BatchesUnique
<1>5. CASE FlushTake
  <2>1. held' \in Batch /\ held'.ops = pending
    BY <1>5 DEF FlushTake, TypeOK, Batch
  <2>2. pending' \in Seq(Op) /\ pending' = <<>> /\ index' = <<>>
    BY <1>5 DEF FlushTake
  <2>3. index' \in [DOMAIN index' -> Nat] /\ DOMAIN index' \subseteq Keys
    BY <2>2
  <2>4. TypeOK'
    BY <1>5, <2>1, <2>2, <2>3 DEF FlushTake, TypeOK, ghost
  <2>5. IndexExact'
    BY <2>2 DEF IndexExact
  <2>6. BatchesUnique'
    BY <1>5, <2>1, PendingUnique DEF FlushTake, BatchesUnique
  <2> QED BY <2>4, <2>5, <2>6
<1>6. CASE FlushSend \/ FlushDrop
  <2>1. /\ held' = NoBatch
        /\ run' = AfterFlush
        /\ out' = Append(out, held) \/ out' = out
        /\ UNCHANGED <<pending, index, kick, armed, closed, outClosed, pusher, listening, view, fed, pushes>>
    BY <1>6 DEF FlushSend, FlushDrop, mem, ghost
  <2>2. held' \in Batch
    BY <2>1 DEF NoBatch, Batch, Empty, Rows
  <2>3. /\ out' \in Seq(Batch)
        /\ \A i \in DOMAIN out' : UniqueKeys(out'[i].ops)
    <3>1. CASE out' = out
      BY <3>1 DEF TypeOK, BatchesUnique
    <3>2. CASE out' = Append(out, held)
      <4>1. /\ out' \in Seq(Batch)
            /\ DOMAIN out' = DOMAIN out \cup {Len(out) + 1}
            /\ out'[Len(out) + 1] = held
            /\ \A i \in DOMAIN out : out'[i] = out[i]
        BY <3>2 DEF TypeOK
      <4> QED BY <4>1 DEF BatchesUnique
    <3> QED BY <2>1, <3>1, <3>2
  <2>4. TypeOK'
    BY <2>1, <2>2, <2>3 DEF TypeOK, AfterFlush
  <2>5. BatchesUnique'
    BY <2>1, <2>3 DEF BatchesUnique, NoBatch, UniqueKeys
  <2> QED BY <2>1, <2>4, <2>5 DEF IndexExact
<1>7. CASE Close \/ StopListening
  <2>1. UNCHANGED <<pending, index, kick, armed, run, held, out, outClosed, pusher, view, fed, pushes>>
    BY <1>7 DEF Close, StopListening, mem, loop, ghost
  <2>2. closed' \in BOOLEAN /\ listening' \in BOOLEAN
    BY <1>7 DEF Close, StopListening, TypeOK
  <2> QED BY <2>1, <2>2 DEF TypeOK, IndexExact, BatchesUnique
<1>8. CASE Receive
  <2>1. /\ out # <<>>
        /\ view' = Apply(view, out[1].ops)
        /\ out' = Tail(out)
        /\ UNCHANGED <<pending, index, kick, armed, closed, run, held, outClosed, pusher, listening, fed, pushes>>
    BY <1>8 DEF Receive, mem, loop, ghost, TypeOK
  <2>2. /\ out[1] \in Batch /\ 1 \in DOMAIN out
        /\ out' \in Seq(Batch)
        /\ \A i \in DOMAIN out' : i + 1 \in DOMAIN out /\ out'[i] = out[i + 1]
    BY <2>1 DEF TypeOK
  <2>3. view' \in Rows
    BY <2>1, <2>2, ApplyType DEF TypeOK, BatchesUnique, Batch
  <2>4. TypeOK'
    BY <2>1, <2>2, <2>3 DEF TypeOK
  <2>5. BatchesUnique'
    BY <2>1, <2>2 DEF BatchesUnique
  <2> QED BY <2>1, <2>4, <2>5 DEF IndexExact
<1>9. CASE UNCHANGED vars
  BY <1>9 DEF vars, TypeOK, IndexExact, BatchesUnique
<1> QED BY <1>1, <1>2, <1>3, <1>4, <1>5, <1>6, <1>7, <1>8, <1>9 DEF Next, Run

LEMMA AlwaysBasic == Spec => []Basic
BY InitBasic, StepBasic, PTL DEF Spec

(* Every variable keeps its type, for any pushers and channel capacity. *)
THEOREM TypeCorrect == Spec => []TypeOK
BY AlwaysBasic, PTL DEF Basic

(* Push keeps the index exact and with it every batch to one op for a key. *)
THEOREM IndexCorrect == Spec => []IndexExact
BY AlwaysBasic, PTL DEF Basic

-----------------------------------------------------------------------------
(* Wakeups. *)

LEMMA StepWakeup == Basic /\ NoLostWakeup /\ [Next]_vars => NoLostWakeup'
<1> SUFFICES ASSUME Basic, NoLostWakeup, [Next]_vars,
                    pending' # <<>>, ~closed'
             PROVE  \/ \E p \in Pushers : pusher'[p].pc = "kick"
                    \/ kick'
                    \/ armed'
                    \/ run' = "flush"
  BY DEF NoLostWakeup
<1> DEFINE Woken == \/ \E p \in Pushers : pusher[p].pc = "kick"
                    \/ kick
                    \/ armed
                    \/ run = "flush"
<1>t. pusher \in [Pushers -> [pc : {"idle", "kick"}] \cup [pc : {"lock"}, op : Op]]
  BY DEF Basic, TypeOK
<1>1. ASSUME NEW p \in Pushers, PushCheck(p) PROVE Woken'
  <2>1. Woken
    BY <1>1 DEF PushCheck, NoLostWakeup, mem
  <2>2. \A q \in Pushers : pusher[q].pc = "kick" => pusher'[q].pc = "kick"
    BY <1>1, <1>t DEF PushCheck
  <2> QED BY <1>1, <2>1, <2>2 DEF PushCheck, loop
<1>2. ASSUME NEW p \in Pushers, PushLocked(p) PROVE Woken'
  <2>1. CASE pending = <<>>
    <3>1. pusher'[p].pc = "kick"
      BY <1>2, <1>t, <2>1 DEF PushLocked
    <3> QED BY <3>1
  <2>2. CASE pending # <<>>
    <3>1. Woken
      BY <1>2, <2>2 DEF PushLocked, NoLostWakeup
    <3>2. \A q \in Pushers : pusher[q].pc = "kick" => pusher'[q].pc = "kick"
      BY <1>2, <1>t DEF PushLocked
    <3> QED BY <1>2, <3>1, <3>2 DEF PushLocked, loop
  <2> QED BY <2>1, <2>2
<1>3. ASSUME NEW p \in Pushers, PushKick(p) PROVE Woken'
  BY <1>3 DEF PushKick
<1>4. CASE Run
  BY <1>4 DEF Run, RunKick, RunTimer, RunClosed, FlushEmpty, FlushTake, FlushSend,
    FlushDrop, RunReturn, NoLostWakeup, AfterFlush, mem, loop
<1>5. CASE Close \/ Receive \/ StopListening
  BY <1>5 DEF Close, Receive, StopListening, NoLostWakeup, mem, loop
<1>6. CASE UNCHANGED vars
  BY <1>6 DEF vars, NoLostWakeup
<1> QED BY <1>1, <1>2, <1>3, <1>4, <1>5, <1>6 DEF Next

(* Ops waiting in an open coalescer always have somebody on the way to
   flush them: the kick outside the lock loses no wakeup. *)
THEOREM WakeupSafe == Spec => []NoLostWakeup
<1>1. Init => NoLostWakeup
  BY DEF Init, NoLostWakeup
<1> QED BY <1>1, StepWakeup, AlwaysBasic, PTL DEF Spec

-----------------------------------------------------------------------------
(* Nothing is lost while the coalescer is open. *)

LastClosed == run \in {"lastFlush", "lastSend", "close", "done"} => closed

Lossless == Basic /\ LastClosed /\ NothingLost

LEMMA StepLastClosed == LastClosed /\ [Next]_vars => LastClosed'
BY DEF LastClosed, Next, vars, PushCheck, PushLocked, PushKick, Run, RunKick, RunTimer,
  RunClosed, FlushEmpty, FlushTake, FlushSend, FlushDrop, RunReturn, AfterFlush,
  Close, Receive, StopListening, loop

(* The state downstream of flush. *)
Behind == IF out = <<>> THEN view ELSE out[Len(out)].at

LEMMA BehindType == Basic => Behind \in Rows /\ Ahead \in Rows
<1> SUFFICES ASSUME Basic PROVE Behind \in Rows /\ Ahead \in Rows
  OBVIOUS
<1>1. out \in Seq(Batch) /\ view \in Rows /\ held \in Batch
  BY DEF Basic, TypeOK
<1>2. out # <<>> => out[Len(out)] \in Batch
  BY <1>1
<1> QED BY <1>1, <1>2 DEF Behind, Ahead, Batch

(* The chain of batches in `out`, from the client's rows on. *)
Chain ==
  \A i \in DOMAIN out :
    out[i].at = Apply(IF i = 1 THEN view ELSE out[i - 1].at, out[i].ops)

LEMMA StepNothingLost == Lossless /\ [Next]_vars => NothingLost'
<1> SUFFICES ASSUME Lossless, [Next]_vars, ~closed'
             PROVE  /\ Chain'
                    /\ (run = "send" => held.at = Apply(Behind, held.ops))'
                    /\ (fed = Apply(Ahead, pending))'
  BY DEF NothingLost, Chain, Behind
<1>o. ~closed
  BY DEF Next, vars, PushCheck, PushLocked, PushKick, Run, RunKick, RunTimer, RunClosed,
    FlushEmpty, FlushTake, FlushSend, FlushDrop, RunReturn, Close, Receive, StopListening
<1>i. /\ Chain
      /\ run = "send" => held.at = Apply(Behind, held.ops)
      /\ fed = Apply(Ahead, pending)
  BY <1>o DEF Lossless, NothingLost, Chain, Behind
<1>t. /\ Basic /\ TypeOK
      /\ Behind \in Rows /\ Ahead \in Rows
  BY BehindType DEF Lossless, Basic
<1>r. run \in {"select", "flush", "send"}
  BY <1>o DEF Lossless, LastClosed, Basic, TypeOK
<1>1. ASSUME NEW p \in Pushers, PushLocked(p) PROVE NothingLost'
  <2>1. UNCHANGED <<run, held, out, view, closed>>
    BY <1>1 DEF PushLocked, loop
  <2>2. pusher[p].op \in Op
    BY <1>1, <1>t DEF PushLocked, TypeOK
  <2>3. Apply(Ahead, pending') = fed'
    BY <1>1, <1>t, <1>i, <2>2, PushEffect DEF PushLocked
  <2> QED BY <1>i, <2>1, <2>3 DEF NothingLost, Chain, Behind, Ahead
<1>2. CASE FlushTake
  <2>1. run = "flush" /\ run' = "send"
    BY <1>2, <1>r DEF FlushTake
  <2>2. Ahead = Behind
    BY <2>1, <1>t DEF Ahead, Behind, TypeOK
  <2>3. /\ held'.at = Apply(Behind, held'.ops)
        /\ held'.at = fed
    BY <1>2, <1>i, <2>2 DEF FlushTake
  <2>4. fed' = Apply(Ahead', pending')
    BY <1>2, <1>t, <2>1, <2>3, ApplyEmpty DEF FlushTake, Ahead, ghost, TypeOK
  <2> QED BY <1>2, <1>i, <2>1, <2>3, <2>4 DEF FlushTake, Chain, Behind, NothingLost
<1>3. CASE FlushSend
  <2>1. /\ run = "send" /\ run' = "select"
        /\ out' = Append(out, held)
        /\ UNCHANGED <<pending, view, fed>>
    BY <1>3, <1>r DEF FlushSend, AfterFlush, mem, ghost
  <2>2. /\ Len(out') = Len(out) + 1 /\ Len(out) \in Nat
        /\ DOMAIN out' = 1 .. Len(out) + 1 /\ DOMAIN out = 1 .. Len(out)
        /\ out'[Len(out')] = held
        /\ \A i \in DOMAIN out : out'[i] = out[i]
        /\ out' # <<>>
        /\ out = <<>> <=> Len(out) = 0
    BY <2>1, <1>t DEF TypeOK
  <2>3. held.at = Apply(Behind, held.ops)
    BY <1>i, <2>1
  <2>4. ASSUME NEW i \in DOMAIN out'
        PROVE  out'[i].at = Apply(IF i = 1 THEN view ELSE out'[i - 1].at, out'[i].ops)
    <3>1. CASE i \in DOMAIN out
      <4>1. i # 1 => i - 1 \in DOMAIN out
        BY <2>2, <3>1
      <4> QED BY <1>i, <2>2, <3>1, <4>1 DEF Chain
    <3>2. CASE i = Len(out')
      <4>1. Behind = IF i = 1 THEN view ELSE out'[i - 1].at
        BY <2>2, <3>2 DEF Behind
      <4> QED BY <2>2, <2>3, <3>2, <4>1
    <3> QED BY <2>2, <3>1, <3>2
  <2>5. Chain'
    BY <2>1, <2>4 DEF Chain
  <2>6. Ahead' = Ahead
    BY <2>1, <2>2 DEF Ahead
  <2> QED BY <1>i, <2>1, <2>5, <2>6 DEF NothingLost, Chain
<1>4. CASE Receive
  <2>1. /\ out # <<>>
        /\ out' = Tail(out)
        /\ view' = Apply(view, out[1].ops)
        /\ UNCHANGED <<run, held, pending, fed>>
    BY <1>4, <1>t DEF Receive, TypeOK, mem, loop, ghost
  <2>2. /\ Len(out) \in Nat \ {0}
        /\ DOMAIN out = 1 .. Len(out)
        /\ Len(out') = Len(out) - 1
        /\ DOMAIN out' = 1 .. Len(out) - 1
        /\ \A i \in DOMAIN out' : i + 1 \in DOMAIN out /\ out'[i] = out[i + 1]
        /\ out' = <<>> <=> Len(out) = 1
    <3>1. out \in Seq(Batch) /\ out # <<>> /\ out' = Tail(out)
      BY <2>1, <1>t DEF TypeOK
    <3>2. /\ Len(out) \in Nat \ {0}
          /\ DOMAIN out = 1 .. Len(out)
          /\ out' \in Seq(Batch)
          /\ Len(out') = Len(out) - 1
      BY ONLY <3>1
    <3>3. \A i \in DOMAIN out' : i + 1 \in DOMAIN out /\ out'[i] = out[i + 1]
      BY ONLY <3>1, <3>2
    <3>4. out' = <<>> <=> Len(out') = 0
      BY <3>2, EmptySeq
    <3> QED BY <3>2, <3>3, <3>4
  <2>3. view' = out[1].at
    BY <1>i, <2>1, <2>2 DEF Chain
  <2>4. ASSUME NEW i \in DOMAIN out'
        PROVE  out'[i].at = Apply(IF i = 1 THEN view' ELSE out'[i - 1].at, out'[i].ops)
    <3>1. /\ i \in Nat /\ i \geq 1
          /\ i + 1 \in DOMAIN out /\ i + 1 # 1 /\ (i + 1) - 1 = i
          /\ out'[i] = out[i + 1]
          /\ i # 1 => i - 1 \in DOMAIN out' /\ out'[i - 1] = out[i]
      BY <2>2
    <3>2. out[i + 1].at = Apply(out[i].at, out[i + 1].ops)
      BY <1>i, <3>1 DEF Chain
    <3> QED BY <2>3, <3>1, <3>2
  <2>5. Chain'
    BY <2>4 DEF Chain
  <2>6. Behind' = Behind
    <3>1. CASE Len(out) = 1
      BY <2>1, <2>2, <2>3, <3>1 DEF Behind
    <3>2. CASE Len(out) # 1
      <4>1. Len(out') \in DOMAIN out' /\ Len(out') + 1 = Len(out)
        BY <2>2, <3>2
      <4> QED BY <2>1, <2>2, <3>2, <4>1 DEF Behind
    <3> QED BY <3>1, <3>2
  <2>7. Ahead' = Ahead
    BY <1>r, <2>1, <2>6 DEF Ahead, Behind
  <2> QED BY <1>i, <2>1, <2>5, <2>6, <2>7 DEF NothingLost, Chain, Behind
<1>5. CASE \/ \E p \in Pushers : PushCheck(p) \/ PushKick(p)
           \/ RunKick \/ RunTimer \/ FlushEmpty
           \/ StopListening \/ UNCHANGED vars
  <2>1. UNCHANGED <<pending, held, out, view, fed>>
    BY <1>5 DEF PushCheck, PushKick, RunKick, RunTimer, FlushEmpty, StopListening, vars,
      mem, loop, ghost
  <2>2. run' = run \/ (run # "send" /\ run' \in {"select", "flush"})
    BY <1>5, <1>r DEF PushCheck, PushKick, RunKick, RunTimer, FlushEmpty, StopListening,
      vars, AfterFlush, loop
  <2> QED BY <1>i, <1>r, <2>1, <2>2 DEF NothingLost, Chain, Behind, Ahead
<1>6. ~FlushDrop /\ ~RunClosed /\ ~RunReturn /\ ~Close
  BY <1>o, <1>r DEF FlushDrop, RunClosed, RunReturn, Close
<1> QED BY <1>1, <1>2, <1>3, <1>4, <1>5, <1>6 DEF Next, Run, NothingLost, Chain, Behind

LEMMA AlwaysLossless == Spec => []Lossless
<1>1. Init => Lossless
  <2> SUFFICES ASSUME Init PROVE LastClosed /\ NothingLost
    BY InitBasic DEF Lossless
  <2>1. Empty \in Rows
    BY DEF Empty, Rows
  <2> QED BY <2>1, ApplyEmpty DEF Init, LastClosed, NothingLost, Ahead
<1>2. Lossless /\ [Next]_vars => Lossless'
  BY StepBasic, StepLastClosed, StepNothingLost DEF Lossless
<1> QED BY <1>1, <1>2, PTL DEF Spec

(* An open subscription loses nothing: the client's rows and the batches on
   their way add up to every op pushed. *)
THEOREM LosslessUntilClosed == Spec => []NothingLost
BY AlwaysLossless, PTL DEF Lossless

-----------------------------------------------------------------------------
(* The coalescer implements Replica.                                        *)

(* States is the contents of the channel, then of the batch being sent. *)
StatesShaped ==
  /\ States \in Seq(Rows)
  /\ run \in {"send", "lastSend"} =>
       /\ Len(States) = Len(out) + 1
       /\ States[Len(out) + 1] = held.at
  /\ run \notin {"send", "lastSend"} => Len(States) = Len(out)
  /\ \A i \in 1 .. Len(out) : States[i] = out[i].at

LEMMA StatesShape == Basic => StatesShaped
<1> SUFFICES ASSUME Basic PROVE StatesShaped
  OBVIOUS
<1> USE DEF StatesShaped
<1> DEFINE chan == [i \in 1 .. Len(out) |-> out[i].at]
           last == IF run \in {"send", "lastSend"} THEN <<held.at>> ELSE <<>>
<1>1. out \in Seq(Batch) /\ held \in Batch
  BY DEF Basic, TypeOK
<1>2. chan \in Seq(Rows) /\ Len(chan) = Len(out) /\ Len(out) \in Nat
  <2>1. Len(out) \in Nat /\ \A i \in 1 .. Len(out) : out[i] \in Batch
    BY <1>1
  <2>2. chan \in [1 .. Len(out) -> Rows]
    BY <2>1 DEF Batch
  <2> HIDE DEF chan
  <2>3. chan \in Seq(Rows)
    BY <2>1, <2>2, SeqDef
  <2> QED BY <2>1, <2>2, <2>3
<1>3. last \in Seq(Rows) /\ Len(last) \in Nat
  BY <1>1 DEF Batch
<1>4. \A i \in 1 .. Len(out) : chan[i] = out[i].at
  OBVIOUS
<1>5. States = chan \o last
  BY DEF States
<1> HIDE DEF chan
<1>6. States \in Seq(Rows) /\ Len(States) = Len(chan) + Len(last)
  BY <1>2, <1>3, <1>5
<1>7. \A i \in 1 .. Len(out) : States[i] = out[i].at
  BY <1>2, <1>3, <1>4, <1>5
<1>8. CASE run \in {"send", "lastSend"}
  <2>1. last = <<held.at>>
    BY <1>8
  <2>2. States[Len(chan) + 1] = held.at
    BY <1>2, <1>3, <1>5, <2>1
  <2> QED BY <1>2, <1>6, <1>7, <1>8, <2>1, <2>2
<1>9. CASE run \notin {"send", "lastSend"}
  <2>1. last = <<>>
    BY <1>9
  <2> QED BY <1>2, <1>6, <1>7, <1>9, <2>1
<1> QED BY <1>8, <1>9

LEMMA InitReplica == Init => R!Init
<1> SUFFICES ASSUME Init PROVE R!Init
  OBVIOUS
<1>1. States = <<>>
  BY DEF Init, States
<1> QED BY <1>1 DEF Init, R!Init, Empty

LEMMA StepReplica == Lossless /\ Basic' /\ [Next]_vars => [R!Next]_(R!vars)
<1> SUFFICES ASSUME Lossless, Basic', [Next]_vars PROVE [R!Next]_(R!vars)
  OBVIOUS
<1>t. /\ Basic /\ TypeOK
      /\ out \in Seq(Batch) /\ out' \in Seq(Batch)
      /\ Len(out) \in Nat /\ Len(out') \in Nat
  BY DEF Lossless, Basic, TypeOK
<1> DEFINE Sending == run \in {"send", "lastSend"}
<1>s. /\ States \in Seq(Rows)
      /\ Sending => Len(States) = Len(out) + 1 /\ States[Len(out) + 1] = held.at
      /\ ~Sending => Len(States) = Len(out)
      /\ \A i \in 1 .. Len(out) : States[i] = out[i].at
  BY <1>t, StatesShape DEF StatesShaped
<1>p. /\ States' \in Seq(Rows)
      /\ Sending' => Len(States') = Len(out') + 1 /\ States'[Len(out') + 1] = held'.at
      /\ ~Sending' => Len(States') = Len(out')
      /\ \A i \in 1 .. Len(out') : States'[i] = out'[i].at
  <2>1. StatesShaped'
    BY StatesShape, PTL
  <2> QED BY <2>1 DEF StatesShaped
<1>1. ASSUME NEW p \in Pushers, PushLocked(p) PROVE R!Next
  <2>1. pusher[p].op \in Op
    BY <1>1, <1>t DEF PushLocked, TypeOK
  <2>2. R!Update(pusher[p].op.key, Result(pusher[p].op))
    BY <1>1 DEF PushLocked, R!Update, States, loop
  <2>3. pusher[p].op.key \in Keys
    BY <2>1 DEF Op
  <2> QED BY <2>1, <2>2, <2>3, ResultType DEF R!Next
<1>2. CASE FlushTake
  <2>1. /\ ~Sending /\ Sending'
        /\ UNCHANGED <<out, fed, view, closed>>
        /\ held'.at = fed
    BY <1>2 DEF FlushTake, ghost
  <2>2. fed \in Rows
    BY <1>t DEF TypeOK
  <2>3. States' = Append(States, fed)
    <3>1. /\ Append(States, fed) \in Seq(Rows)
          /\ Len(Append(States, fed)) = Len(States')
          /\ \A i \in 1 .. Len(States') : Append(States, fed)[i] = States'[i]
      BY <1>t, <1>s, <1>p, <2>1, <2>2
    <3> QED BY <3>1, <1>p, SeqEqual
  <2> QED BY <2>1, <2>3 DEF R!Capture, R!Next
<1>3. CASE FlushSend
  <2>1. /\ Sending /\ ~Sending'
        /\ out' = Append(out, held)
        /\ UNCHANGED <<fed, view, closed>>
    BY <1>3 DEF FlushSend, AfterFlush, ghost
  <2>2. /\ Len(out') = Len(out) + 1
        /\ out'[Len(out) + 1] = held
        /\ \A i \in 1 .. Len(out) : out'[i] = out[i]
    BY <1>t, <2>1
  <2>3. Len(States') = Len(States) /\ \A i \in 1 .. Len(States') : States'[i] = States[i]
    BY <1>t, <1>s, <1>p, <2>1, <2>2
  <2>4. States' = States
    BY <1>s, <1>p, <2>3, SeqEqual
  <2> QED BY <2>1, <2>4 DEF R!vars
<1>4. CASE FlushDrop
  <2>1. /\ closed
        /\ Sending /\ ~Sending'
        /\ UNCHANGED <<out, fed, view, closed>>
    BY <1>4 DEF FlushDrop, AfterFlush, ghost
  <2>2. Len(States) = Len(out) + 1 /\ States # <<>>
    BY <1>t, <1>s, <2>1
  <2>3. States' = SubSeq(States, 1, Len(States) - 1)
    <3> DEFINE front == SubSeq(States, 1, Len(States) - 1)
    <3>1. front \in Seq(Rows) /\ Len(front) = Len(out)
      BY <1>t, <1>s, <2>2
    <3>2. \A i \in 1 .. Len(out) : front[i] = States[i]
      BY <1>t, <1>s, <2>2
    <3> HIDE DEF front
    <3>3. Len(States') = Len(out) /\ \A i \in 1 .. Len(out) : States'[i] = States[i]
      BY <1>s, <1>p, <2>1
    <3>4. States' = front
      BY <1>p, <3>1, <3>2, <3>3, SeqEqual
    <3> QED BY <3>4 DEF front
  <2> QED BY <2>1, <2>2, <2>3 DEF R!Lose, R!Next
<1>5. CASE Receive
  <2>1. /\ out # <<>>
        /\ out' = Tail(out)
        /\ view' = Apply(view, out[1].ops)
        /\ UNCHANGED <<run, held, fed, closed>>
    BY <1>5, <1>t DEF Receive, loop, ghost
  <2>2. /\ Len(out) # 0
        /\ Len(out') = Len(out) - 1
        /\ \A i \in 1 .. Len(out') : out'[i] = out[i + 1]
    BY <1>t, <2>1
  <2>3. States # <<>> /\ Len(States) \in Nat \ {0} /\ Head(States) = out[1].at
    BY <1>t, <1>s, <2>2
  <2>4. States' = Tail(States)
    <3>1. Tail(States) \in Seq(Rows) /\ Len(Tail(States)) = Len(States) - 1
      BY <1>s, <2>3
    <3>2. \A i \in 1 .. Len(States) - 1 : Tail(States)[i] = States[i + 1]
      BY <1>s, <2>3
    <3>e. Sending' <=> Sending
      BY <2>1
    <3>n. Len(out) \in Nat \ {0} /\ Len(out') = Len(out) - 1
      BY <1>t, <2>2
    <3>3. Len(States') = Len(States) - 1
      BY <1>s, <1>p, <3>e, <3>n
    <3>4. ASSUME NEW i \in 1 .. Len(States) - 1 PROVE States'[i] = States[i + 1]
      <4>1. CASE i \in 1 .. Len(out')
        <5>1. i + 1 \in 1 .. Len(out) /\ out'[i] = out[i + 1]
          BY <2>2, <3>n, <4>1
        <5> QED BY <1>s, <1>p, <4>1, <5>1
      <4>2. CASE i \notin 1 .. Len(out')
        <5>1. Sending /\ i = Len(out)
          BY <1>s, <3>n, <4>2
        <5>2. States'[i] = held'.at /\ States[i + 1] = held.at
          BY <1>s, <1>p, <3>e, <3>n, <5>1
        <5> QED BY <2>1, <5>2
      <4> QED BY <4>1, <4>2
    <3> QED BY <1>p, <3>1, <3>2, <3>3, <3>4, SeqEqual
  <2>5. view' = out[1].at \/ (closed /\ view' \in Rows)
    <3>1. CASE closed
      BY <3>1 DEF Basic, TypeOK
    <3>2. CASE ~closed
      <4>1. 1 \in DOMAIN out
        BY <1>t, <2>2
      <4>2. out[1].at = Apply(view, out[1].ops)
        BY <3>2, <4>1 DEF Lossless, NothingLost
      <4> QED BY <2>1, <4>2
    <3> QED BY <3>1, <3>2
  <2>6. R!Deliver
    BY <2>1, <2>3, <2>4, <2>5 DEF R!Deliver, R!Rows, Rows
  <2> QED BY <2>6 DEF R!Next
<1>6. CASE Close
  BY <1>6 DEF Close, R!End, R!Next, States, loop, ghost
<1>7. CASE \/ \E p \in Pushers : PushCheck(p) \/ PushKick(p)
           \/ RunKick \/ RunTimer \/ RunClosed \/ FlushEmpty \/ RunReturn
           \/ StopListening \/ UNCHANGED vars
  <2>1. UNCHANGED <<out, held, fed, view, closed>> /\ (Sending' <=> Sending)
    BY <1>7 DEF PushCheck, PushKick, RunKick, RunTimer, RunClosed, FlushEmpty, RunReturn,
      StopListening, vars, loop, ghost, AfterFlush
  <2>2. States' = States
    BY <2>1 DEF States
  <2> QED BY <2>1, <2>2 DEF R!vars
<1> QED BY <1>1, <1>2, <1>3, <1>4, <1>5, <1>6, <1>7 DEF Next, Run

(* The coalescer implements Replica: while the subscription is open the
   client's rows only move to states the pushed ops went through, in order. *)
THEOREM CoalescerImplementsReplica == Spec => ReplicaSpec
<1>1. Spec => R!Spec
  BY InitReplica, StepReplica, AlwaysLossless, AlwaysBasic, PTL DEF Spec, R!Spec
<1> QED BY <1>1 DEF ReplicaSpec

-----------------------------------------------------------------------------
(* PolicyBuilder: what the evaluator says of a connection *)

(* A rule that admits a port admits the connection, and one that names no port
   admits each. *)
LEMMA AdmitsAny ==
  ASSUME NEW rule, NEW ns, NEW peer, NEW dst, NEW port
  PROVE  /\ Admits(rule, ns, peer, dst, {port}) => Admits(rule, ns, peer, dst, {})
         /\ (rule.ports = {} /\ Admits(rule, ns, peer, dst, {})) => Admits(rule, ns, peer, dst, {port})
         /\ (rule.ports # {} /\ Admits(rule, ns, peer, dst, {port})) =>
              \E q \in rule.ports : PortMatches(q, dst, {port})
<1>1. \A q : PortMatches(q, dst, {})
  BY DEF PortMatches
<1> QED
  BY <1>1 DEF Admits

(* One side of a connection, asked about a port and asked about any. *)
LEMMA SideSpeaks ==
  ASSUME NEW dir, NEW src, NEW dst, NEW port, NEW policies
  PROVE  LET any == Side(dir, src, dst, {}, policies)
             one == Side(dir, src, dst, {port}, policies)
         IN  /\ one.allowed => any.allowed
             /\ (any.allowed /\ any.ports = {}) => one.allowed
             /\ (any.ports # {} /\ one.allowed) => \E q \in any.ports : PortMatches(q, dst, {port})
             /\ ~any.isolated => any.allowed /\ any.ports = {} /\ one.allowed
<1> DEFINE self == IF dir = "Ingress" THEN dst ELSE src
           peer == IF dir = "Ingress" THEN src ELSE dst
           selecting == Selecting(dir, self, policies)
           Letting(ask) == {p \in selecting : Admitting(dir, p, peer, dst, ask) # {}}
           Admitted(ask) == UNION {Admitting(dir, p, peer, dst, ask) : p \in Letting(ask)}
           isolated == selecting # {}
           one == Side(dir, src, dst, {port}, policies)
           any == Side(dir, src, dst, {}, policies)
           anyPorts == IF isolated /\ \A r \in Admitted({}) : r.ports # {}
                       THEN UNION {r.ports : r \in Admitted({})} ELSE {}
<1>1. /\ any.allowed = (~isolated \/ Letting({}) # {}) /\ any.isolated = isolated
      /\ any.ports = anyPorts
  BY DEF Side
<1>2. one.allowed = (~isolated \/ Letting({port}) # {})
  BY DEF Side
<1>3. ASSUME NEW p \in Letting({port})
      PROVE  \E r \in Admitted({}) : Admits(r, p.ns, peer, dst, {port}) /\ p \in Letting({})
  <2>1. PICK r \in Rules(p, dir) : Admits(r, p.ns, peer, dst, {port})
    BY DEF Admitting
  <2>2. Admits(r, p.ns, peer, dst, {})
    BY <2>1, AdmitsAny
  <2>3. r \in Admitting(dir, p, peer, dst, {})
    BY <2>2 DEF Admitting
  <2>4. p \in Letting({})
    BY <2>3
  <2> QED
    BY <2>1, <2>3, <2>4
<1>4. ASSUME NEW r \in Admitted({})
      PROVE  r.ports = {} => Letting({port}) # {}
  <2>1. PICK p \in Letting({}) : r \in Admitting(dir, p, peer, dst, {})
    OBVIOUS
  <2>2. r.ports = {} => r \in Admitting(dir, p, peer, dst, {port})
    BY <2>1, AdmitsAny DEF Admitting
  <2> QED
    BY <2>1, <2>2
<1>5. \A p \in Letting({}) : \E r \in Admitted({}) : TRUE
  OBVIOUS
<1>6. Letting({port}) # {} => Letting({}) # {}
  BY <1>3
<1>7. ASSUME isolated, \A r \in Admitted({}) : r.ports # {}, Letting({port}) # {}
      PROVE  \E q \in anyPorts : PortMatches(q, dst, {port})
  <2>1. PICK p \in Letting({port}) : TRUE
    BY <1>7
  <2>2. PICK r \in Admitted({}) : Admits(r, p.ns, peer, dst, {port})
    BY <1>3, <2>1
  <2>3. PICK q \in r.ports : PortMatches(q, dst, {port})
    BY <1>7, <2>2, AdmitsAny
  <2> QED
    BY <1>7, <2>2, <2>3
<1>8. (anyPorts = {} /\ isolated /\ Letting({}) # {}) => Letting({port}) # {}
  <2> SUFFICES ASSUME anyPorts = {}, isolated, Letting({}) # {} PROVE Letting({port}) # {}
    OBVIOUS
  <2>1. PICK r \in Admitted({}) : TRUE
    BY <1>5
  <2>2. \E x \in Admitted({}) : x.ports = {}
    BY <2>1
  <2> QED
    BY <1>4, <2>2
<1>9. ~isolated => anyPorts = {}
  OBVIOUS
<1>10. anyPorts # {} => isolated /\ \A r \in Admitted({}) : r.ports # {}
  OBVIOUS
<1> HIDE DEF anyPorts, isolated, Letting, Admitted, any, one, selecting
<1>11. /\ one.allowed => any.allowed
       /\ (any.allowed /\ any.ports = {}) => one.allowed
       /\ (any.ports # {} /\ one.allowed) => \E q \in any.ports : PortMatches(q, dst, {port})
       /\ ~any.isolated => any.allowed /\ any.ports = {} /\ one.allowed
  BY <1>1, <1>2, <1>6, <1>7, <1>8, <1>9, <1>10
<1> QED
  BY <1>11 DEF any, one

(* A cell of the matrix speaks for every port, of whatever policies. *)
LEMMA CellSpeaks ==
  ASSUME NEW src, NEW dst, NEW port, NEW policies
  PROVE  LET cell == MatrixCell(src, dst, policies)
             passes == Allowed(src, dst, {port}, policies)
         IN  /\ cell.status = "blocked" => ~passes
             /\ (cell.status # "blocked" /\ cell.ports = {}) => passes
             /\ (cell.ports # {} /\ passes) => \E q \in cell.ports : PortMatches(q, dst, {port})
<1> DEFINE any(dir) == Side(dir, src, dst, {}, policies)
           one(dir) == Side(dir, src, dst, {port}, policies)
           cell == MatrixCell(src, dst, policies)
           both == any("Egress").allowed /\ any("Ingress").allowed
           free == ~any("Egress").isolated /\ ~any("Ingress").isolated
<1>1. /\ cell.status = IF free THEN "open" ELSE IF both THEN "allowed" ELSE "blocked"
      /\ cell.ports = IF both THEN any("Egress").ports \cup any("Ingress").ports ELSE {}
  BY DEF MatrixCell, EvaluateConnection
<1>2. Allowed(src, dst, {port}, policies) = (one("Egress").allowed /\ one("Ingress").allowed)
  BY DEF Allowed, EvaluateConnection
<1>3. \A dir : /\ one(dir).allowed => any(dir).allowed
               /\ (any(dir).allowed /\ any(dir).ports = {}) => one(dir).allowed
               /\ (any(dir).ports # {} /\ one(dir).allowed)
                    => \E q \in any(dir).ports : PortMatches(q, dst, {port})
               /\ ~any(dir).isolated => any(dir).allowed /\ any(dir).ports = {} /\ one(dir).allowed
  BY SideSpeaks
<1> HIDE DEF any, one, cell
<1> QED
  BY <1>1, <1>2, <1>3 DEF cell

-----------------------------------------------------------------------------
(* What a preview compares *)

(* A side that no policy that comes or goes selects is evaluated as before. *)
LEMMA SideKeeps ==
  ASSUME NEW dir \in Directions, NEW pair, NEW policy, NEW policies,
         \A p \in Looked(policy, policies) : dir \notin Touched(p, pair)
  PROVE  Side(dir, pair[1], pair[2], {}, After(policy, policies)) = Side(dir, pair[1], pair[2], {}, policies)
<1> DEFINE self == IF dir = "Ingress" THEN pair[2] ELSE pair[1]
<1>1. \A p \in Looked(policy, policies) : ~Selects(p, dir, self)
  BY DEF Touched
<1>2. \A p : p \in Selecting(dir, self, policies) <=> p \in policies /\ Selects(p, dir, self)
  BY DEF Selecting, Selects
<1>3. \A p : p \in Selecting(dir, self, After(policy, policies))
             <=> p \in After(policy, policies) /\ Selects(p, dir, self)
  BY DEF Selecting, Selects
<1>4. Selecting(dir, self, After(policy, policies)) = Selecting(dir, self, policies)
  BY <1>1, <1>2, <1>3 DEF After, Looked, Named
<1> QED
  BY <1>4 DEF Side

(* A pair the preview passes over is as it was. *)
LEMMA OthersAreSame ==
  ASSUME NEW policy, NEW pods, NEW policies, NEW pair \in pods \X pods, pair[1] # pair[2],
         pair \notin Pairs(policy, pods, policies)
  PROVE  Allowed(pair[1], pair[2], {}, After(policy, policies)) = Allowed(pair[1], pair[2], {}, policies)
<1>1. \A p \in Looked(policy, policies) : Touched(p, pair) = {}
  BY DEF Pairs
<1>2. \A dir \in Directions :
        Side(dir, pair[1], pair[2], {}, After(policy, policies)) = Side(dir, pair[1], pair[2], {}, policies)
  BY <1>1, SideKeeps
<1> QED
  BY <1>2 DEF Allowed, EvaluateConnection, Directions

LEMMA PreviewTells ==
  ASSUME NEW policy, NEW pods, NEW policies, ~PolicyImpact(policy, pods, policies).truncated
  PROVE  LET impact == PolicyImpact(policy, pods, policies)
             open(ps) == {q \in pods \X pods : q[1] # q[2] /\ Allowed(q[1], q[2], {}, ps)}
             now  == open(policies)
             then == open(After(policy, policies))
         IN  impact.blocked = now \ then /\ impact.allowed = then \ now
<1> DEFINE pairs == Pairs(policy, pods, policies)
           before(q) == Allowed(q[1], q[2], {}, policies)
           after(q) == Allowed(q[1], q[2], {}, After(policy, policies))
           impact == PolicyImpact(policy, pods, policies)
<1>1. /\ impact.blocked = {q \in pairs : before(q) /\ ~after(q)}
      /\ impact.allowed = {q \in pairs : ~before(q) /\ after(q)}
  BY DEF PolicyImpact, Allowed
<1>2. \A q \in pairs : q \in pods \X pods /\ q[1] # q[2]
  BY DEF Pairs
<1>3. \A q \in pods \X pods : (q[1] # q[2] /\ q \notin pairs) => (before(q) <=> after(q))
  BY OthersAreSame
<1> HIDE DEF pairs, before, after, impact
<1>4. /\ impact.blocked = {q \in pods \X pods : q[1] # q[2] /\ before(q)}
                            \ {q \in pods \X pods : q[1] # q[2] /\ after(q)}
      /\ impact.allowed = {q \in pods \X pods : q[1] # q[2] /\ after(q)}
                            \ {q \in pods \X pods : q[1] # q[2] /\ before(q)}
  BY <1>1, <1>2, <1>3
<1> QED
  BY <1>4 DEF impact, before, after

-----------------------------------------------------------------------------
(* PolicyBuilder: the inductive invariant *)

(* A request carries one policy; what a dry run passed for has been tried. *)
Request == [cluster : Clusters, text : SUBSET Policy, dryRun : BOOLEAN, heard : BOOLEAN]
Carried == calls \subseteq Request /\ \A q \in calls : \E p \in Policy : q.text = {p}
Passes == dryOkFor = {} \/ dryOkFor \in {t[2] : t \in tried}
BuilderInv == BuilderTypeOK /\ Carried /\ Passes /\ TriedFirst

LEMMA AfterIsNamed ==
  ASSUME NEW policy, NEW policies, \A p \in policies : Named(p, policies) = {p}
  PROVE  \A p \in After(policy, policies) : Named(p, After(policy, policies)) = {p}
<1> SUFFICES ASSUME NEW p \in After(policy, policies), NEW x \in After(policy, policies)
             PROVE  (x.ns = p.ns /\ x.name = p.name) <=> x = p
  BY DEF Named
<1>1. CASE p = policy \/ x = policy
  BY <1>1 DEF After, Named
<1>2. CASE p # policy /\ x # policy
  <2>1. p \in policies /\ x \in policies
    BY <1>2 DEF After
  <2>2. x \in Named(p, policies) <=> x = p
    BY <2>1
  <2> QED
    BY <2>1, <2>2 DEF Named
<1> QED
  BY <1>1, <1>2

LEMMA TextIs ==
  ASSUME NEW d \in Drafts
  PROVE  Text(d) \subseteq Policy /\ (Text(d) # {} => \E p \in Policy : Text(d) = {p})
BY DEF Text, Policy

LEMMA AfterIs ==
  ASSUME NEW p \in Policy \cup Foreign, NEW ps \in SUBSET (Policy \cup Foreign)
  PROVE  After(p, ps) \in SUBSET (Policy \cup Foreign)
BY DEF After

(* Removing a policy leaves no two of one name either. *)
LEMMA LessIsNamed ==
  ASSUME NEW p, NEW policies, \A x \in policies : Named(x, policies) = {x}
  PROVE  \A x \in policies \ {p} : Named(x, policies \ {p}) = {x}
BY DEF Named

LEMMA InitBuilderInv == BuilderInit => BuilderInv
<1> SUFFICES ASSUME BuilderInit PROVE BuilderInv
  OBVIOUS
<1>1. PICK ps \in SUBSET (Policy \cup Foreign) :
        /\ \A p \in ps : Named(p, ps) = {p}
        /\ stored = [c \in Clusters |-> IF c = shown THEN ps ELSE {}]
  BY DEF BuilderInit
<1>2. BuilderTypeOK
  BY <1>1, BoundsAreNat DEF BuilderInit, BuilderTypeOK, Named
<1> QED
  BY <1>2 DEF BuilderInit, BuilderInv, Carried, Passes, TriedFirst

(* The form, the cluster on show and a new request touch no cluster's policies. *)
LEMMA FormInv ==
  ASSUME BuilderInv,
         \/ \E d \in Drafts : Edit(d)
         \/ \E c \in Clusters : Switch(c) \/ \E d \in Drafts : SwitchCold(c, d)
  PROVE  BuilderInv'
<1>1. BuilderTypeOK /\ Carried /\ Passes /\ TriedFirst
  BY DEF BuilderInv
<1>2. /\ stored' = stored /\ shown' \in Clusters /\ draft' \in Drafts /\ dryOkFor' \in {dryOkFor, {}}
      /\ made' = made /\ tried' = tried
      /\ \A q \in calls' : \E r \in calls : /\ q.cluster = r.cluster /\ q.text = r.text /\ q.dryRun = r.dryRun
                                          /\ q \in Request
  <2>1. CASE \E d \in Drafts : Edit(d)
    BY <1>1, <2>1 DEF Edit, BuilderTypeOK, Carried
  <2>2. CASE \E c \in Clusters : Switch(c)
    BY <1>1, <2>2 DEF Switch, BuilderTypeOK, Carried
  <2>3. CASE \E c \in Clusters, d \in Drafts : SwitchCold(c, d)
    <3>1. PICK c \in Clusters, d \in Drafts : SwitchCold(c, d)
      BY <2>3
    <3>2. \A r \in Request : LET q == [r EXCEPT !.heard = FALSE] IN
             q \in Request /\ q.cluster = r.cluster /\ q.text = r.text /\ q.dryRun = r.dryRun
      BY DEF Request
    <3>3. calls' = {[r EXCEPT !.heard = FALSE] : r \in calls} /\ calls \subseteq Request
      BY <1>1, <3>1 DEF SwitchCold, Carried
    <3>4. ASSUME NEW q \in calls'
          PROVE  \E r \in calls : /\ q.cluster = r.cluster /\ q.text = r.text
                                 /\ q.dryRun = r.dryRun /\ q \in Request
      <4>1. PICK r \in calls : q = [r EXCEPT !.heard = FALSE]
        BY <3>3
      <4> QED
        BY <3>2, <3>3, <4>1
    <3> QED
      BY <1>1, <3>1, <3>4 DEF SwitchCold, BuilderTypeOK
  <2> QED
    BY <2>1, <2>2, <2>3
<1>3. BuilderTypeOK'
  BY <1>1, <1>2 DEF BuilderTypeOK
<1> QED
  BY <1>1, <1>2, <1>3 DEF BuilderInv, Carried, Passes, TriedFirst

LEMMA CallInv ==
  ASSUME BuilderInv, NEW b \in BOOLEAN, Call(b)
  PROVE  BuilderInv'
<1> DEFINE new == [cluster |-> shown, text |-> Text(draft), dryRun |-> b, heard |-> TRUE]
<1>1. BuilderTypeOK /\ Carried /\ Passes /\ TriedFirst
  BY DEF BuilderInv
<1>2. Text(draft) \subseteq Policy /\ \E p \in Policy : Text(draft) = {p}
  BY <1>1, TextIs DEF BuilderTypeOK, Call
<1>3. calls' = calls \cup {new} /\ UNCHANGED <<stored, page, tried>> /\ made' = made + 1 /\ made < MaxMade
      /\ (b \/ dryOkFor = Text(draft)) /\ Text(draft) # {}
  BY DEF Call
<1>a. new \in Request
  BY <1>1, <1>2 DEF Request, BuilderTypeOK
<1>4. BuilderTypeOK'
  BY <1>1, <1>2, <1>3, BoundsAreNat DEF BuilderTypeOK, page
<1>5. Carried' /\ Passes'
  <2>1. calls' = calls \cup {new} /\ dryOkFor' = dryOkFor /\ tried' = tried
    BY <1>3 DEF page
  <2>2. \E p \in Policy : new.text = {p}
    BY <1>2
  <2> HIDE DEF new
  <2> QED
    BY <1>1, <1>a, <2>1, <2>2 DEF Carried, Passes
<1>6. TriedFirst'
  BY <1>1, <1>3 DEF TriedFirst, Passes, page
<1> QED
  BY <1>4, <1>5, <1>6 DEF BuilderInv

(* An answer takes its request away. *)
LEMMA AnswerInv ==
  ASSUME BuilderInv, NEW q \in calls, DryRun(q) \/ Fail(q)
  PROVE  BuilderInv'
<1>1. BuilderTypeOK /\ Carried /\ Passes /\ TriedFirst
  BY DEF BuilderInv
<1>2. /\ calls' = calls \ {q} /\ UNCHANGED <<stored, shown, draft, made>>
      /\ tried \subseteq tried'
      /\ dryOkFor' \in {dryOkFor, {}} \/ (dryOkFor' = q.text /\ <<q.cluster, q.text>> \in tried')
  BY DEF DryRun, Fail, Passed
<1>3. q.text \subseteq Policy
  BY <1>1 DEF BuilderTypeOK
<1>4. BuilderTypeOK'
  BY <1>1, <1>2, <1>3 DEF BuilderTypeOK
<1>5. Passes'
  <2>1. CASE dryOkFor' \in {dryOkFor, {}}
    BY <1>1, <1>2, <2>1 DEF Passes
  <2>2. CASE dryOkFor' = q.text /\ <<q.cluster, q.text>> \in tried'
    <3>1. <<q.cluster, q.text>>[2] = q.text
      OBVIOUS
    <3> QED
      BY <2>2, <3>1 DEF Passes
  <2> QED
    BY <1>2, <2>1, <2>2
<1> QED
  BY <1>1, <1>2, <1>4, <1>5 DEF BuilderInv, Carried, TriedFirst

LEMMA CreateInv ==
  ASSUME BuilderInv, NEW q \in calls, Create(q)
  PROVE  BuilderInv'
<1>1. BuilderTypeOK /\ Carried /\ Passes /\ TriedFirst
  BY DEF BuilderInv
<1>2. PICK p \in Policy : q.text = {p}
  BY <1>1 DEF Carried
<1>3. /\ calls' = calls \ {q} /\ UNCHANGED <<shown, draft, made, tried>> /\ dryOkFor' \in {dryOkFor, {}}
      /\ stored' \in {stored, [stored EXCEPT ![q.cluster] = After(p, stored[q.cluster])]}
  BY <1>2 DEF Create
<1>4. q.cluster \in Clusters /\ stored[q.cluster] \in SUBSET (Policy \cup Foreign)
      /\ \A x \in stored[q.cluster] : Named(x, stored[q.cluster]) = {x}
  BY <1>1 DEF BuilderTypeOK
<1>5. After(p, stored[q.cluster]) \in SUBSET (Policy \cup Foreign)
      /\ \A x \in After(p, stored[q.cluster]) : Named(x, After(p, stored[q.cluster])) = {x}
  BY <1>4, AfterIs, AfterIsNamed
<1>6. stored' \in [Clusters -> SUBSET (Policy \cup Foreign)]
      /\ \A c \in Clusters : \A x \in stored'[c] : Named(x, stored'[c]) = {x}
  BY <1>1, <1>3, <1>4, <1>5 DEF BuilderTypeOK
<1>7. BuilderTypeOK'
  BY <1>1, <1>3, <1>6 DEF BuilderTypeOK
<1> QED
  BY <1>1, <1>3, <1>7 DEF BuilderInv, Carried, Passes, TriedFirst

LEMMA OthersInv ==
  ASSUME BuilderInv, NEW c \in Clusters, Others(c)
  PROVE  BuilderInv'
<1>1. BuilderTypeOK /\ Carried /\ Passes /\ TriedFirst
  BY DEF BuilderInv
<1>2. PICK p \in Foreign :
        stored' = [stored EXCEPT ![c] = IF p \in stored[c] THEN stored[c] \ {p} ELSE After(p, stored[c])]
  BY DEF Others
<1>3. UNCHANGED <<page, calls, tried>> /\ made' = made + 1 /\ made < MaxMade
  BY DEF Others
<1> DEFINE new == IF p \in stored[c] THEN stored[c] \ {p} ELSE After(p, stored[c])
<1>4. stored[c] \in SUBSET (Policy \cup Foreign) /\ \A x \in stored[c] : Named(x, stored[c]) = {x}
  BY <1>1 DEF BuilderTypeOK
<1>5. new \in SUBSET (Policy \cup Foreign) /\ \A x \in new : Named(x, new) = {x}
  <2>1. CASE p \in stored[c]
    <3>1. new = stored[c] \ {p}
      BY <2>1
    <3> HIDE DEF new
    <3>2. \A x \in stored[c] \ {p} : Named(x, stored[c] \ {p}) = {x}
      BY <1>4, LessIsNamed
    <3> QED
      BY <1>4, <3>1, <3>2
  <2>2. CASE p \notin stored[c]
    <3>1. new = After(p, stored[c])
      BY <2>2
    <3> HIDE DEF new
    <3> QED
      BY <1>4, <3>1, AfterIs, AfterIsNamed
  <2> QED
    BY <2>1, <2>2
<1> HIDE DEF new
<1>6. stored' = [stored EXCEPT ![c] = new]
  BY <1>2 DEF new
<1>7. stored' \in [Clusters -> SUBSET (Policy \cup Foreign)]
      /\ \A d \in Clusters : \A x \in stored'[d] : Named(x, stored'[d]) = {x}
  BY <1>1, <1>5, <1>6 DEF BuilderTypeOK
<1>8. BuilderTypeOK'
  BY <1>1, <1>3, <1>7, BoundsAreNat DEF BuilderTypeOK, page
<1> QED
  BY <1>1, <1>3, <1>8 DEF BuilderInv, Carried, Passes, TriedFirst, page

LEMMA BuilderNextInv == BuilderInv /\ [BuilderNext]_builderVars => BuilderInv'
<1> SUFFICES ASSUME BuilderInv, [BuilderNext]_builderVars PROVE BuilderInv'
  OBVIOUS
<1>1. CASE UNCHANGED builderVars
  BY <1>1 DEF builderVars, page, BuilderInv, BuilderTypeOK, Carried, Passes, TriedFirst
<1> QED
  BY <1>1, FormInv, CallInv, AnswerInv, CreateInv, OthersInv DEF BuilderNext

LEMMA BuilderAlwaysInv == BuilderSpec => []BuilderInv
BY InitBuilderInv, BuilderNextInv, PTL DEF BuilderSpec

(* Of finitely many pods one is last in the list. *)
LEMMA OneIsLast ==
  ASSUME NEW S \in SUBSET Pods, S # {}
  PROVE  \E q \in S : \A r \in S : r.at <= q.at
<1> SUFFICES ASSUME \A q \in S : \E r \in S : q.at < r.at
             PROVE  FALSE
  <2>1. \A q \in S : q.at \in Nat
    BY PodsAreList
  <2> QED
    BY <2>1
<1> DEFINE A == {q.at : q \in S}
           f == [q \in S |-> q.at]
           below == [a \in A |-> {b \in A : b < a}]
           rank == [a \in A |-> Cardinality(below[a])]
           T == 0 .. (Cardinality(A) - 2)
<1>1. A \subseteq Nat /\ A # {}
  BY PodsAreList
<1>2. IsFiniteSet(A)
  <2>1. IsFiniteSet(S)
    BY PodsAreList, FS_Subset
  <2>2. f \in Surjection(S, A)
    BY DEF Surjection
  <2> QED
    BY <2>1, <2>2, FS_Surjection
<1>3. \A a \in A : \E b \in A : a < b
  OBVIOUS
<1> HIDE DEF A, f
<1>4. Cardinality(A) \in Nat \ {0}
  BY <1>1, <1>2, FS_CardinalityType, FS_EmptySet
<1>5. \A a \in A : below[a] \in SUBSET A /\ \A b \in A : b \in below[a] <=> b < a
  OBVIOUS
<1>6. \A a \in A : rank[a] = Cardinality(below[a])
  OBVIOUS
<1>7. DOMAIN rank = A /\ rank = [a \in A |-> rank[a]]
  OBVIOUS
<1> HIDE DEF below, rank
<1>8. \A a \in A : IsFiniteSet(below[a]) /\ rank[a] \in Nat
  BY <1>2, <1>5, <1>6, FS_Subset, FS_CardinalityType
<1>9. ASSUME NEW a \in A, NEW b \in A, a < b
      PROVE  rank[a] < rank[b]
  <2>1. below[a] \subseteq below[b]
    BY <1>1, <1>5, <1>9
  <2>2. a \in below[b] /\ a \notin below[a]
    BY <1>1, <1>5, <1>9
  <2>3. /\ Cardinality(below[a]) <= Cardinality(below[b])
        /\ Cardinality(below[b]) = Cardinality(below[a]) => below[b] = below[a]
    BY <1>8, <2>1, FS_Subset
  <2> QED
    BY <1>6, <1>8, <2>2, <2>3
<1>10. ASSUME NEW a \in A
       PROVE  rank[a] \in T
  <2>1. PICK b \in A : a < b
    BY <1>3
  <2>2. rank[a] < rank[b]
    BY <1>9, <2>1
  <2>3. below[b] \in SUBSET A /\ b \notin below[b]
    BY <1>1, <1>5
  <2>4. /\ Cardinality(below[b]) <= Cardinality(A)
        /\ Cardinality(A) = Cardinality(below[b]) => A = below[b]
    BY <1>2, <2>3, FS_Subset
  <2>5. rank[b] < Cardinality(A)
    BY <1>4, <1>6, <1>8, <2>3, <2>4
  <2> QED
    BY <1>4, <1>8, <2>2, <2>5
<1>11. IsFiniteSet(T) /\ Cardinality(T) < Cardinality(A)
  <2>1. Cardinality(A) - 2 \in Int /\ 0 \in Int
    BY <1>4
  <2>2. IsFiniteSet(T) /\ Cardinality(T) = IF 0 > Cardinality(A) - 2 THEN 0 ELSE Cardinality(A) - 2 - 0 + 1
    BY <2>1, FS_Interval
  <2> HIDE DEF T
  <2> QED
    BY <1>4, <2>2
<1> HIDE DEF T
<1>12. rank \in [A -> T]
  BY <1>7, <1>10
<1>13. \E a, b \in A : a # b /\ rank[a] = rank[b]
  BY <1>2, <1>11, <1>12, FS_PigeonHole
<1> QED
  BY <1>1, <1>8, <1>9, <1>13

(* Pods of the same labels are a group of these labels. *)
LEMMA SameLabels ==
  ASSUME NEW group \in SUBSET Pods, NEW pod \in group, \A q \in group : q.labels = pod.labels
  PROVE  /\ DOMAIN GroupLabels(group) = DOMAIN pod.labels
         /\ \A k \in DOMAIN pod.labels : GroupLabels(group)[k] = pod.labels[k]
<1> DEFINE with(k) == {q \in group : k \in DOMAIN q.labels}
           last(k) == CHOOSE q \in with(k) : \A r \in with(k) : r.at <= q.at
<1>1. UNION {DOMAIN q.labels : q \in group} = DOMAIN pod.labels
  OBVIOUS
<1>2. GroupLabels(group) = [k \in UNION {DOMAIN q.labels : q \in group} |-> last(k).labels[k]]
  BY DEF GroupLabels
<1>3. \A k \in DOMAIN pod.labels : last(k).labels = pod.labels
  <2> TAKE k \in DOMAIN pod.labels
  <2>1. with(k) \in SUBSET Pods /\ pod \in with(k)
    OBVIOUS
  <2>2. \A q \in with(k) : q.labels = pod.labels
    OBVIOUS
  <2> HIDE DEF with
  <2>3. \E q \in with(k) : \A r \in with(k) : r.at <= q.at
    BY <2>1, OneIsLast
  <2>4. last(k) \in with(k)
    BY <2>3
  <2> QED
    BY <2>2, <2>4
<1> HIDE DEF last
<1> QED
  BY <1>1, <1>2, <1>3

(* A policy selects ingress or egress, whatever types it names. *)
LEMMA HasType ==
  ASSUME NEW p \in Policy \cup Foreign
  PROVE  PolicyTypes(p) \cap Directions # {}
<1>1. p.types \subseteq Directions
  <2>1. CASE p \in Foreign
    BY <2>1, ForeignTypes
  <2>2. CASE p \in Policy
    <3>1. PICK d \in Drafts : p = DraftToPolicy(d)
      BY <2>2, TextIs DEF Policy, Text
    <3>2. p.types = {t \in Directions : IF t = "Ingress" THEN d.ingress # {} ELSE d.egress # {}}
      BY <3>1 DEF DraftToPolicy
    <3> QED
      BY <3>2
  <2> QED
    BY <2>1, <2>2
<1> QED
  BY <1>1 DEF PolicyTypes, Directions

LEMMA GapIs ==
  ASSUME NEW policies \in SUBSET (Policy \cup Foreign), NEW pod \in Pods,
         \A q \in Group(pod, Pods) : q.labels = pod.labels
  PROVE  Group(pod, Pods) \in CoverageGaps(Pods, policies)
           <=> \A dir \in Directions : Selecting(dir, pod, policies) = {}
<1> DEFINE group == Group(pod, Pods)
<1>1. group \in SUBSET Pods /\ pod \in group /\ \A q \in group : q.ns = pod.ns
  BY DEF Group
<1>2. group \in CoverageGaps(Pods, policies) <=> Uncovered(group, policies)
  BY DEF CoverageGaps
<1> HIDE DEF group
<1>3. {q.ns : q \in group} = {pod.ns}
  BY <1>1
<1>4. /\ DOMAIN GroupLabels(group) = DOMAIN pod.labels
      /\ \A k \in DOMAIN pod.labels : GroupLabels(group)[k] = pod.labels[k]
  BY <1>1, SameLabels DEF group
<1>5. \A sel : Matches(GroupLabels(group), sel) <=> Matches(pod.labels, sel)
  BY <1>4 DEF Matches
<1>6. Uncovered(group, policies) <=> \A p \in policies : p.ns = pod.ns => ~ Matches(pod.labels, p.pods)
  BY <1>3, <1>5 DEF Uncovered
<1>7. (\A dir \in Directions : Selecting(dir, pod, policies) = {})
        <=> \A p \in policies : p.ns = pod.ns => ~ Matches(pod.labels, p.pods)
  <2>1. \A p \in policies : \E dir \in Directions : dir \in PolicyTypes(p)
    BY HasType
  <2> QED
    BY <2>1 DEF Selecting
<1> QED
  BY <1>2, <1>6, <1>7 DEF group

-----------------------------------------------------------------------------
(* PolicyBuilder: the theorems *)

(* The type invariant, and that no cluster has two policies of one name. *)
THEOREM BuilderTypeCorrect == BuilderSpec => []BuilderTypeOK
<1>1. BuilderInv => BuilderTypeOK
  BY DEF BuilderInv
<1> QED
  BY <1>1, BuilderAlwaysInv, PTL

(* A policy is created only after a dry run of exactly this policy passed, whatever
   was edited meanwhile and whichever cluster is on show (NetpolEditor.tsx:111). *)
THEOREM NothingCreatedUntried == BuilderSpec => []TriedFirst
<1>1. BuilderInv => TriedFirst
  BY DEF BuilderInv
<1> QED
  BY <1>1, BuilderAlwaysInv, PTL

(* Of whatever pods and policies, the connections a preview names are those that
   creating the policy opens and blocks: it looks at every pair that a side selected
   by the new policy or the replaced one may change (policyImpact). *)
THEOREM PreviewTellsAll == BuilderSpec => []PreviewIsExact
<1>1. PreviewIsExact
  BY PreviewTells DEF PreviewIsExact
<1> QED
  BY <1>1, PTL

(* Both at every moment, whatever changes under a preview, a dry run or a create. *)
THEOREM CreatesOnlyWhatWasShown == BuilderSpec => []PreviewedAndTried
<1>1. BuilderInv => PreviewedAndTried
  BY PreviewTells DEF BuilderInv, PreviewedAndTried, PreviewIsExact
<1> QED
  BY <1>1, BuilderAlwaysInv, PTL

(* Of whatever pods, policies and ports, a cell of the matrix is right about each port
   (evaluateConnection, which is asked about none). *)
THEOREM MatrixSpeaksForPorts == BuilderSpec => []MatrixIsSound
<1>1. MatrixIsSound
  BY CellSpeaks DEF MatrixIsSound
<1> QED
  BY <1>1, PTL

(* Pods that carry the same labels are reported as a gap exactly when no policy
   selects them in either direction (findNetworkPolicyCoverageGaps): a group is
   tested by its labels put together, and these are each pod's own. *)
THEOREM GapsAreTheUncovered == BuilderSpec => []GapsAreExact
<1>1. BuilderInv => GapsAreExact
  <2> SUFFICES ASSUME BuilderInv, NEW pod \in Pods,
                      \A q \in Group(pod, Pods) : q.labels = pod.labels
               PROVE  Group(pod, Pods) \in CoverageGaps(Pods, stored[shown])
                        <=> \A dir \in Directions : Selecting(dir, pod, stored[shown]) = {}
    BY Zenon DEF GapsAreExact
  <2>1. stored[shown] \in SUBSET (Policy \cup Foreign)
    BY DEF BuilderInv, BuilderTypeOK
  <2> QED
    BY <2>1, GapIs
<1> QED
  BY <1>1, BuilderAlwaysInv, PTL
=============================================================================
