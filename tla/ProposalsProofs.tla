--------------------------- MODULE ProposalsProofs ---------------------------
(***************************************************************************)
(* Theorems about Proposals, for any finite set of requests and any        *)
(* handlers, fields, values and limits; and about RbacPage, for any        *)
(* clusters, whatever they hold and in whatever order it arrives.          *)
(***************************************************************************)
EXTENDS Proposals, RbacPage, SequenceTheorems, FiniteSetTheorems, TLAPS

-----------------------------------------------------------------------------
(* The inductive invariant *)

(* Handler h is to settle proposal r: it claimed r, alone or in a RejectAll. *)
Claims(h, r) ==
  \/ At(h, Claimed) /\ handler[h].target = r
  \/ At(h, {"finishAll"}) /\ r \in handler[h].todo

Undecided == OnItsWay \cup {"refused", "pending", "applying"}

(* A claimed proposal has one claimant, is not audited yet, and is in a status
   nobody else moves it from. *)
ClaimsHold ==
  /\ \A g, h \in Handlers, r \in Requests : Claims(g, r) /\ Claims(h, r) => g = h
  /\ \A h \in Handlers, r \in Requests :
       Claims(h, r) => Len(audit[r]) = 0 /\ prop[r].st \in {"applying", "rejected"}
  /\ \A r \in Requests :
       prop[r].st = "applying" => \E h \in Handlers : At(h, Claimed) /\ handler[h].target = r

(* What a claimant knows of its proposal, by where it is. *)
Knows ==
  \A h \in Handlers :
    /\ At(h, {"get", "patch", "backoff"}) =>
         prop[handler[h].target].st = "applying" /\ applied[handler[h].target] = 0
    /\ At(h, {"patch"}) /\ handler[h].fresh => object = prop[handler[h].target].reviewed
    /\ At(h, {"backoff"}) => handler[h].attempt < ApplyAttempts
    /\ At(h, {"finish"}) =>
         /\ handler[h].outcome # "expired"
         /\ handler[h].outcome = "rejected" <=> prop[handler[h].target].st = "rejected"
         /\ handler[h].outcome = "applied" => applied[handler[h].target] = 1
         /\ handler[h].outcome \in {"rejected", "stale"} => applied[handler[h].target] = 0
    /\ At(h, {"finishAll"}) => \A r \in handler[h].todo : prop[r].st = "rejected"

(* What the audit log has of a proposal, by its status and its place among the
   decided ones, of which it has at most one. *)
Logged ==
  /\ \A r \in Requests : prop[r].st \in Undecided => Len(audit[r]) = 0
  /\ \A r \in Requests : Len(audit[r]) <= 1
  /\ \A r \in Requests : prop[r].st = "pruned" => Len(audit[r]) = 1
  /\ \A i \in DOMAIN decided :
       Len(audit[decided[i]]) = 1 /\ audit[decided[i]][1] = prop[decided[i]].st
  /\ \A i, j \in DOMAIN decided : decided[i] = decided[j] => i = j

(* An approval that passed its check before proposals were turned off, or is
   about to be met by RejectAll, finds nothing to claim. *)
CheckStands ==
  \A h \in Handlers :
    At(h, {"approve"}) =>
      /\ prop[handler[h].target].st \notin OnItsWay \cup {"refused"}
      /\ \/ writes \/ prop[handler[h].target].st # "pending"
         \/ \E g \in Handlers : At(g, {"rejectAll"})

Inv ==
  /\ TypeOK /\ ClaimsHold /\ Knows /\ Logged /\ CheckStands
  /\ ToldTheTruth

LEMMA InitInv == Init => Inv
<1> SUFFICES ASSUME Init PROVE Inv
  OBVIOUS
<1> USE DEF Init, Idle
<1>1. PICK c \in Content, patch \in [Requests -> Patch] :
        /\ object = c
        /\ prop = [r \in Requests |->
                     [st |-> "new", patch |-> patch[r], reviewed |-> c, shown |-> c,
                      overdue |-> FALSE]]
  OBVIOUS
<1>2. decided \in Seq(Requests) /\ audit \in [Requests -> Seq(Final)]
  BY EmptySeq
<1>3. TypeOK
  BY <1>1, <1>2 DEF TypeOK, Proposal, Status, OnItsWay
<1>4. ClaimsHold /\ Knows /\ CheckStands
  BY <1>1 DEF ClaimsHold, Knows, CheckStands, Claims, At, Claimed
<1>5. Logged /\ ToldTheTruth
  BY <1>1 DEF Logged, ToldTheTruth, Undecided, OnItsWay
<1> QED
  BY <1>3, <1>4, <1>5 DEF Inv

(* What a handler refers to. *)
LEMMA HandlerTypes ==
  ASSUME TypeOK, NEW h \in Handlers
  PROVE  /\ At(h, {"approve", "reject", "get", "patch", "backoff", "finish"}) =>
              handler[h].target \in Requests
         /\ At(h, {"get", "patch", "backoff"}) => handler[h] \in Applying
         /\ At(h, {"finish"}) => handler[h] \in Finishing
         /\ At(h, {"finishAll"}) => handler[h] \in Saving /\ handler[h].todo \in SUBSET Requests
<1>1. handler[h] \in {Idle} \cup Deciding \cup Applying \cup Finishing \cup Saving
  BY DEF TypeOK
<1> QED
  BY <1>1 DEF At, Idle, Deciding, Applying, Finishing, Saving

-----------------------------------------------------------------------------
(* Expiry *)

(* Several proposals found overdue are decided once each. *)
LEMMA ExpiryOrder ==
  ASSUME TypeOK, NEW S \in SUBSET Requests, ExpiryLogged(S)
  PROVE  \E order \in Seq({r \in S : Lapsed(r)}) :
           /\ decided' = decided \o order
           /\ \A i, j \in DOMAIN order : order[i] = order[j] => i = j
<1> DEFINE L == {r \in S : Lapsed(r)}
<1>1. PICK order \in SetToSeqs(L) : decided' = decided \o order
  BY DEF ExpiryLogged
<1>2. Cardinality(L) \in Nat
  BY RequestsFinite, FS_Subset, FS_CardinalityType
<1>3. /\ order \in [1 .. Cardinality(L) -> L]
      /\ \A i, j \in 1 .. Cardinality(L) : i # j => order[i] # order[j]
  BY DEF SetToSeqs
<1>4. order \in Seq(L)
  BY <1>2, <1>3
<1> QED
  BY <1>1, <1>3, <1>4

(* What expiry does to the log: who was decided stays so, and who lapsed is. *)
LEMMA ExpiryEffect ==
  ASSUME TypeOK, Logged, NEW S \in SUBSET Requests, ExpiryLogged(S)
  PROVE  /\ decided' \in Seq(Requests)
         /\ audit' \in [Requests -> Seq(Final)]
         /\ \A i \in DOMAIN decided' :
              (\E j \in DOMAIN decided : decided'[i] = decided[j] /\ ~ Lapsed(decided[j]))
              \/ (decided'[i] \in S /\ Lapsed(decided'[i]))
         /\ \A r \in Requests : r \in S /\ Lapsed(r) => Len(audit'[r]) = 1 /\ audit'[r][1] = "expired"
         /\ \A r \in Requests : ~ (r \in S /\ Lapsed(r)) => audit'[r] = audit[r]
         /\ \A i, j \in DOMAIN decided' : decided'[i] = decided'[j] => i = j
<1> USE DEF TypeOK
<1>1. PICK order \in Seq({r \in S : Lapsed(r)}) :
        /\ decided' = decided \o order
        /\ \A i, j \in DOMAIN order : order[i] = order[j] => i = j
  BY ExpiryOrder
<1>2. \A i \in DOMAIN order : order[i] \in S /\ Lapsed(order[i])
  BY <1>1
<1>3. order \in Seq(Requests)
  BY <1>1, <1>2
<1>4. decided' \in Seq(Requests)
  BY <1>1, <1>3, ConcatProperties
<1>5. \A r \in Requests : Lapsed(r) => Len(audit[r]) = 0
  BY DEF Logged, Lapsed, Undecided
<1>6. audit' = [r \in Requests |->
                  IF r \in S /\ Lapsed(r) THEN Append(audit[r], "expired") ELSE audit[r]]
  BY DEF ExpiryLogged
<1>7. ASSUME NEW r \in Requests, r \in S, Lapsed(r)
      PROVE  Len(audit'[r]) = 1 /\ audit'[r][1] = "expired"
  <2>1. audit'[r] = Append(audit[r], "expired") /\ Len(audit[r]) = 0 /\ audit[r] \in Seq(Final)
    BY <1>5, <1>6, <1>7
  <2> QED
    BY <2>1, AppendProperties DEF Final
<1>8. \A r \in Requests : ~ (r \in S /\ Lapsed(r)) => audit'[r] = audit[r]
  BY <1>6
<1>9. audit' \in [Requests -> Seq(Final)]
  BY <1>6 DEF Final
<1>10. \A i \in DOMAIN decided' :
         \/ i \in DOMAIN decided /\ decided'[i] = decided[i]
         \/ i - Len(decided) \in DOMAIN order /\ decided'[i] = order[i - Len(decided)]
  BY <1>1, <1>3, ConcatProperties
<1>11. \A i \in DOMAIN decided : ~ Lapsed(decided[i])
  <2> SUFFICES ASSUME NEW i \in DOMAIN decided, Lapsed(decided[i]) PROVE FALSE
    OBVIOUS
  <2>1. decided[i] \in Requests /\ Len(audit[decided[i]]) = 1 /\ audit[decided[i]][1] = prop[decided[i]].st
    BY DEF Logged
  <2>2. Len(audit[decided[i]]) = 0
    BY <1>5, <2>1
  <2> QED
    BY <2>1, <2>2
<1>12. \A i \in DOMAIN decided' :
         (\E j \in DOMAIN decided : decided'[i] = decided[j] /\ ~ Lapsed(decided[j]))
         \/ (decided'[i] \in S /\ Lapsed(decided'[i]))
  BY <1>2, <1>10, <1>11
<1>13. \A i, j \in DOMAIN decided' : decided'[i] = decided'[j] => i = j
  <2> SUFFICES ASSUME NEW i \in DOMAIN decided', NEW j \in DOMAIN decided', decided'[i] = decided'[j]
               PROVE  i = j
    OBVIOUS
  <2>1. i \in Nat /\ j \in Nat /\ Len(decided) \in Nat
    BY <1>4
  <2>2. CASE i \in DOMAIN decided /\ decided'[i] = decided[i]
    BY <1>2, <1>10, <1>11, <2>1, <2>2 DEF Logged
  <2>3. CASE i - Len(decided) \in DOMAIN order /\ decided'[i] = order[i - Len(decided)]
    <3>1. CASE j \in DOMAIN decided /\ decided'[j] = decided[j]
      BY <1>2, <1>11, <2>3, <3>1
    <3>2. CASE j - Len(decided) \in DOMAIN order /\ decided'[j] = order[j - Len(decided)]
      BY <1>1, <2>1, <2>3, <3>2
    <3> QED
      BY <1>10, <3>1, <3>2
  <2> QED
    BY <1>10, <2>2, <2>3
<1> QED
  BY <1>4, <1>7, <1>8, <1>9, <1>12, <1>13

(* Expiry keeps what it finds, whatever else is done by a handler that has claimed
   nothing. *)
LEMMA ExpiryInv ==
  ASSUME Inv, NEW S \in SUBSET Requests, ExpiryLogged(S), prop' = Expired(S),
         UNCHANGED <<object, writes, applied>>,
         handler' \in [Handlers -> {Idle} \cup Deciding \cup Applying \cup Finishing \cup Saving],
         \A h \in Handlers :
           handler'[h] = handler[h] \/
           /\ handler[h].pc \in {"idle", "approve", "reject"}
           /\ \/ handler'[h].pc \in {"idle", "reject"}
              \/ /\ handler'[h].pc = "approve"
                 /\ handler'[h].target \in Requests
                 /\ Held(handler'[h].target) /\ writes
  PROVE  Inv'
<1> TypeOK /\ ClaimsHold /\ Knows /\ Logged /\ CheckStands /\ ToldTheTruth
  BY DEF Inv
<1> DEFINE E(r) == r \in S /\ Lapsed(r)
<1>1. /\ decided' \in Seq(Requests)
      /\ audit' \in [Requests -> Seq(Final)]
      /\ \A i \in DOMAIN decided' :
           (\E j \in DOMAIN decided : decided'[i] = decided[j] /\ ~ Lapsed(decided[j])) \/ E(decided'[i])
      /\ \A r \in Requests : E(r) => Len(audit'[r]) = 1 /\ audit'[r][1] = "expired"
      /\ \A r \in Requests : ~ E(r) => audit'[r] = audit[r]
      /\ \A i, j \in DOMAIN decided' : decided'[i] = decided'[j] => i = j
  BY ExpiryEffect
<1>1a. \A r \in Requests : E(r) => Len(audit'[r]) = 1
  BY <1>1
<1>1b. \A r \in Requests : ~ E(r) => audit'[r] = audit[r]
  BY <1>1
<1>2. \A r \in Requests : prop[r] \in Proposal
  BY DEF TypeOK
<1>3. \A r \in Requests : E(r) => /\ prop[r].st = "pending" /\ prop'[r].st = "expired"
                                  /\ prop'[r].reviewed = prop[r].reviewed
  BY <1>2 DEF Expired, Lapsed, Proposal
<1>4. \A r \in Requests : ~ E(r) => prop'[r] = prop[r]
  BY <1>2 DEF Expired, Lapsed, Proposal
<1>5. prop' \in [Requests -> Proposal]
  BY <1>2 DEF Expired, Proposal, Status, Final
<1> HIDE DEF E
<1>6. TypeOK'
  BY <1>1, <1>5 DEF TypeOK
<1>7. \A h \in Handlers, r \in Requests : Claims(h, r)' <=> Claims(h, r)
  BY DEF Claims, At, Claimed
<1>8. ClaimsHold'
  <2>1. \A g, h \in Handlers, r \in Requests : Claims(g, r)' /\ Claims(h, r)' => g = h
    BY <1>7 DEF ClaimsHold
  <2>2. \A h \in Handlers, r \in Requests :
          Claims(h, r)' => Len(audit'[r]) = 0 /\ prop'[r].st \in {"applying", "rejected"}
    BY <1>1b, <1>3, <1>4, <1>7 DEF ClaimsHold
  <2>3. \A r \in Requests :
          prop'[r].st = "applying" => \E h \in Handlers : At(h, Claimed)' /\ handler'[h].target = r
    BY <1>3, <1>4 DEF ClaimsHold, At, Claimed
  <2> QED
    BY <2>1, <2>2, <2>3 DEF ClaimsHold
<1>9. Knows'
  <2> SUFFICES ASSUME NEW h \in Handlers PROVE Knows!(h)'
    BY DEF Knows
  <2> QED
    BY <1>3, <1>4, HandlerTypes DEF Knows, At
<1>10. Logged'
  <2>1. \A r \in Requests : prop'[r].st \in Undecided => Len(audit'[r]) = 0
    BY <1>1a, <1>1b, <1>3, <1>4 DEF Logged, Undecided, OnItsWay
  <2>2. ASSUME NEW r \in Requests PROVE Len(audit'[r]) <= 1
    <3>1. CASE E(r)
      <4>1. Len(audit'[r]) = 1
        BY <1>1a, <3>1, Zenon
      <4> QED
        BY <4>1
    <3>2. CASE ~ E(r)
      BY <1>1b, <3>2 DEF Logged
    <3> QED
      BY <3>1, <3>2
  <2>3. \A r \in Requests : prop'[r].st = "pruned" => Len(audit'[r]) = 1
    BY <1>1a, <1>1b, <1>3, <1>4 DEF Logged
  <2>4. ASSUME NEW i \in DOMAIN decided' PROVE Len(audit'[decided'[i]]) = 1 /\ audit'[decided'[i]][1] = prop'[decided'[i]].st
    <3>1. decided'[i] \in Requests
      BY <1>1
    <3>2. CASE E(decided'[i])
      BY <1>1, <1>3, <3>1, <3>2
    <3>3. CASE \E j \in DOMAIN decided : decided'[i] = decided[j] /\ ~ Lapsed(decided[j])
      <4>1. ~ E(decided'[i])
        BY <3>3 DEF E
      <4> QED
        BY <1>1, <1>4, <3>1, <3>3, <4>1 DEF Logged
    <3> QED
      BY <1>1, <3>2, <3>3
  <2> QED
    BY <1>1, <2>1, <2>2, <2>3, <2>4 DEF Logged
<1>11. CheckStands'
  <2> SUFFICES ASSUME NEW h \in Handlers, At(h, {"approve"})' PROVE CheckStands!(h)!2'
    BY DEF CheckStands
  <2>1. CASE handler'[h] = handler[h]
    <3>1. \A g \in Handlers : At(g, {"rejectAll"}) => At(g, {"rejectAll"})'
      BY DEF At
    <3> QED
      BY <1>3, <1>4, <2>1, <3>1, HandlerTypes DEF CheckStands, At, OnItsWay
  <2>2. CASE handler'[h] # handler[h]
    BY <1>3, <1>4, <2>2 DEF At, Held, OnItsWay
  <2> QED
    BY <2>1, <2>2
<1>12. ToldTheTruth'
  BY <1>3, <1>4 DEF ToldTheTruth
<1> QED
  BY <1>6, <1>8, <1>9, <1>10, <1>11, <1>12 DEF Inv

-----------------------------------------------------------------------------
(* Requests on their way, and time *)

(* A proposal that nobody has claimed, and no decision has been made of, moves on. *)
LEMMA RequestInv ==
  ASSUME Inv, NEW r \in Requests, NEW p \in Proposal,
         prop' = [prop EXCEPT ![r] = p],
         UNCHANGED <<decided, handler, object, writes, audit, applied>>,
         \/ /\ prop[r].st \in OnItsWay
            /\ p.st \in (OnItsWay \cup {"refused", "pending"})
            /\ p.st \in OnItsWay \/ prop[r].st # "new"
         \/ prop[r].st = "pending" /\ p.st = "pending"
  PROVE  Inv'
<1> TypeOK /\ ClaimsHold /\ Knows /\ Logged /\ CheckStands /\ ToldTheTruth
  BY DEF Inv
<1>1. prop[r].st \in OnItsWay \cup {"pending"} /\ p.st \in OnItsWay \cup {"refused", "pending"}
  OBVIOUS
<1>2. prop'[r] = p /\ \A q \in Requests : q # r => prop'[q] = prop[q]
  BY DEF TypeOK
<1>3. TypeOK'
  BY DEF TypeOK
<1>4. \A h \in Handlers, q \in Requests : Claims(h, q)' <=> Claims(h, q)
  BY DEF Claims, At
<1>5. \A h \in Handlers : ~ Claims(h, r)
  BY <1>1 DEF ClaimsHold, OnItsWay
<1>6. ClaimsHold'
  BY <1>1, <1>2, <1>4, <1>5 DEF ClaimsHold, At, OnItsWay
<1>7. Knows'
  <2> SUFFICES ASSUME NEW h \in Handlers PROVE Knows!(h)'
    BY DEF Knows
  <2> QED
    BY <1>2, <1>5, HandlerTypes DEF Knows, At, Claims, Claimed
<1>8. Logged'
  <2>1. \A q \in Requests : audit'[q] = audit[q] /\ (q = r => Len(audit[q]) = 0)
    BY <1>1 DEF Logged, Undecided
  <2>2. \A i \in DOMAIN decided : decided[i] # r
    <3>1. \A i \in DOMAIN decided : Len(audit[decided[i]]) # 0
      BY DEF Logged
    <3> QED
      BY <2>1, <3>1
  <2>3. \A i \in DOMAIN decided : decided[i] \in Requests
    BY DEF TypeOK
  <2> QED
    BY <1>1, <1>2, <2>1, <2>2, <2>3 DEF Logged, OnItsWay
<1>9. CheckStands'
  <2> SUFFICES ASSUME NEW h \in Handlers, At(h, {"approve"}) PROVE CheckStands!(h)!2'
    BY DEF CheckStands, At
  <2>1. handler[h].target \in Requests
    BY HandlerTypes DEF At
  <2>2. CASE handler[h].target = r
    BY <1>2, <2>2 DEF CheckStands, At, OnItsWay
  <2>3. CASE handler[h].target # r
    BY <1>2, <2>1, <2>3 DEF CheckStands, At
  <2> QED
    BY <2>2, <2>3
<1>10. ToldTheTruth'
  BY <1>1, <1>2 DEF ToldTheTruth, OnItsWay
<1> QED
  BY <1>3, <1>6, <1>7, <1>8, <1>9, <1>10 DEF Inv

LEMMA RequestStepInv ==
  ASSUME Inv, NEW r \in Requests, Read(r) \/ DryRun(r) \/ GiveUp(r) \/ TimePasses(r)
  PROVE  Inv'
<1> TypeOK
  BY DEF Inv
<1>1. prop[r] \in Proposal /\ object \in Content
  BY DEF TypeOK
<1>2. CASE Read(r)
  <2> DEFINE p == [prop[r] EXCEPT !.st = "read", !.reviewed = object]
  <2>1. p \in Proposal /\ p.st = "read" /\ prop' = [prop EXCEPT ![r] = p]
    BY <1>1, <1>2 DEF Read, Proposal, Status, OnItsWay
  <2> QED
    BY <1>2, <2>1, RequestInv DEF Read, OnItsWay
<1>3. CASE DryRun(r)
  <2> DEFINE after == Patched(object, prop[r].patch)
             st    == IF after = prop[r].reviewed THEN "refused" ELSE "dryRun"
             p     == [prop[r] EXCEPT !.shown = after, !.st = st]
  <2>1. after \in Content
    BY <1>1 DEF Patched, Content, Proposal, Patch
  <2>2. p \in Proposal /\ p.st \in {"refused", "dryRun"} /\ prop' = [prop EXCEPT ![r] = p]
    BY <1>1, <1>3, <2>1 DEF DryRun, Proposal, Status, OnItsWay
  <2> QED
    BY <1>3, <2>2, RequestInv, ZenonT(60) DEF DryRun, OnItsWay
<1>4. CASE GiveUp(r)
  <2> DEFINE p == [prop[r] EXCEPT !.st = "refused"]
  <2>1. p \in Proposal /\ p.st = "refused" /\ prop' = [prop EXCEPT ![r] = p]
    BY <1>1, <1>4 DEF GiveUp, Proposal, Status, OnItsWay
  <2> QED
    BY <1>4, <2>1, RequestInv DEF GiveUp, OnItsWay
<1>5. CASE TimePasses(r)
  <2> DEFINE p == [prop[r] EXCEPT !.overdue = TRUE]
  <2>1. p \in Proposal /\ p.st = "pending" /\ prop' = [prop EXCEPT ![r] = p]
    BY <1>1, <1>5 DEF TimePasses, Proposal
  <2> QED
    BY <1>5, <2>1, RequestInv DEF TimePasses
<1> QED
  BY <1>2, <1>3, <1>4, <1>5

(* Count expires what is overdue, and moves its own request. *)
LEMMA CountInv ==
  ASSUME Inv, NEW r \in Requests, Count(r)
  PROVE  Inv'
<1> TypeOK /\ ClaimsHold /\ Knows /\ Logged /\ CheckStands /\ ToldTheTruth
  BY DEF Inv
<1> DEFINE E(q) == Lapsed(q)
<1>1. /\ decided' \in Seq(Requests)
      /\ audit' \in [Requests -> Seq(Final)]
      /\ \A i \in DOMAIN decided' :
           (\E j \in DOMAIN decided : decided'[i] = decided[j] /\ ~ Lapsed(decided[j])) \/ E(decided'[i])
      /\ \A q \in Requests : E(q) => Len(audit'[q]) = 1 /\ audit'[q][1] = "expired"
      /\ \A q \in Requests : ~ E(q) => audit'[q] = audit[q]
      /\ \A i, j \in DOMAIN decided' : decided'[i] = decided'[j] => i = j
  BY ExpiryEffect DEF Count
<1>1a. \A q \in Requests : E(q) => Len(audit'[q]) = 1
  BY <1>1
<1>1b. \A q \in Requests : ~ E(q) => audit'[q] = audit[q]
  BY <1>1
<1>2. \A q \in Requests : prop[q] \in Proposal
  BY DEF TypeOK
<1>3. \A q \in Requests : E(q) => /\ prop[q].st = "pending" /\ prop'[q].st = "expired"
                                  /\ prop'[q].reviewed = prop[q].reviewed
  BY <1>2 DEF Count, Expired, Lapsed, Proposal
<1>4. \A q \in Requests : ~ E(q) /\ q # r => prop'[q] = prop[q]
  BY <1>2 DEF Count, Expired, Lapsed, Proposal
<1>5. ~ E(r) /\ prop[r].st = "new" /\ prop'[r].st \in {"refused", "counted"}
  BY <1>2 DEF Count, Expired, Lapsed, Proposal
<1>6. prop' \in [Requests -> Proposal]
  BY <1>2 DEF Count, Expired, Proposal, Status, Final, OnItsWay
<1>7. UNCHANGED <<handler, object, writes, applied>>
  BY DEF Count
<1> HIDE DEF E
<1>8. TypeOK'
  BY <1>1, <1>6, <1>7 DEF TypeOK
<1>9. \A h \in Handlers, q \in Requests : Claims(h, q)' <=> Claims(h, q)
  BY <1>7 DEF Claims, At
<1>10. \A h \in Handlers : ~ Claims(h, r)
  BY <1>5 DEF ClaimsHold
<1>11. ClaimsHold'
  <2>1. \A g, h \in Handlers, q \in Requests : Claims(g, q)' /\ Claims(h, q)' => g = h
    BY <1>9 DEF ClaimsHold
  <2>2. \A h \in Handlers, q \in Requests :
          Claims(h, q)' => Len(audit'[q]) = 0 /\ prop'[q].st \in {"applying", "rejected"}
    BY <1>1b, <1>3, <1>4, <1>9, <1>10 DEF ClaimsHold
  <2>3. \A q \in Requests :
          prop'[q].st = "applying" => \E h \in Handlers : At(h, Claimed)' /\ handler'[h].target = q
    BY <1>3, <1>4, <1>5, <1>7 DEF ClaimsHold, At, Claimed
  <2> QED
    BY <2>1, <2>2, <2>3 DEF ClaimsHold
<1>12. Knows'
  <2> SUFFICES ASSUME NEW h \in Handlers PROVE Knows!(h)'
    BY DEF Knows
  <2> QED
    BY <1>3, <1>4, <1>7, <1>10, HandlerTypes DEF Knows, At, Claims, Claimed
<1>13. Logged'
  <2>1. \A q \in Requests : prop'[q].st \in Undecided => Len(audit'[q]) = 0
    BY <1>1a, <1>1b, <1>3, <1>4, <1>5 DEF Logged, Undecided, OnItsWay
  <2>2. ASSUME NEW q \in Requests PROVE Len(audit'[q]) <= 1
    <3>1. CASE E(q)
      <4>1. Len(audit'[q]) = 1
        BY <1>1a, <3>1, Zenon
      <4> QED
        BY <4>1
    <3>2. CASE ~ E(q)
      BY <1>1b, <3>2 DEF Logged
    <3> QED
      BY <3>1, <3>2
  <2>3. \A q \in Requests : prop'[q].st = "pruned" => Len(audit'[q]) = 1
    BY <1>1a, <1>1b, <1>3, <1>4, <1>5 DEF Logged
  <2>4. ASSUME NEW i \in DOMAIN decided' PROVE Len(audit'[decided'[i]]) = 1 /\ audit'[decided'[i]][1] = prop'[decided'[i]].st
    <3>1. decided'[i] \in Requests
      BY <1>1
    <3>2. CASE E(decided'[i])
      BY <1>1, <1>3, <3>1, <3>2
    <3>3. CASE \E j \in DOMAIN decided : decided'[i] = decided[j] /\ ~ Lapsed(decided[j])
      <4>1. ~ E(decided'[i])
        BY <3>3 DEF E
      <4>2. Len(audit[decided'[i]]) = 1 /\ audit[decided'[i]][1] = prop[decided'[i]].st
        BY <3>3 DEF Logged
      <4>3. Len(audit[r]) = 0
        BY <1>5 DEF Logged, Undecided, OnItsWay
      <4>4. decided'[i] # r
        BY <4>2, <4>3
      <4> QED
        BY <1>1, <1>4, <3>1, <4>1, <4>2, <4>4
    <3> QED
      BY <1>1, <3>2, <3>3
  <2> QED
    BY <1>1, <2>1, <2>2, <2>3, <2>4 DEF Logged
<1>14. CheckStands'
  <2> SUFFICES ASSUME NEW h \in Handlers, At(h, {"approve"}) PROVE CheckStands!(h)!2'
    BY <1>7 DEF CheckStands, At
  <2>1. handler[h].target \in Requests /\ handler[h].target # r
    BY <1>5, HandlerTypes DEF At, CheckStands, OnItsWay
  <2> QED
    BY <1>3, <1>4, <1>7, <2>1 DEF CheckStands, At, OnItsWay
<1>15. ToldTheTruth'
  BY <1>3, <1>4, <1>5, <1>7 DEF ToldTheTruth
<1> QED
  BY <1>8, <1>11, <1>12, <1>13, <1>14, <1>15 DEF Inv

(* Insert forgets only proposals that are decided and audited, and of the others
   keeps the order. *)
LEMMA InsertInv ==
  ASSUME Inv, NEW r \in Requests, Insert(r)
  PROVE  Inv'
<1> TypeOK /\ ClaimsHold /\ Knows /\ Logged /\ CheckStands /\ ToldTheTruth
  BY DEF Inv
<1>1. Len(decided) \in Nat /\ Surplus \in Nat /\ Surplus <= Len(decided)
  BY LimitsNat DEF TypeOK, Surplus
<1>2. /\ decided' \in Seq(Requests)
      /\ Len(decided') = Len(decided) - Surplus
      /\ \A i \in DOMAIN decided' : i + Surplus \in DOMAIN decided /\ decided'[i] = decided[i + Surplus]
  <2>1. \A i \in Surplus + 1 .. Len(decided) : decided[i] \in Requests
    BY <1>1 DEF TypeOK
  <2>2. decided' = SubSeq(decided, Surplus + 1, Len(decided))
    BY DEF Insert
  <2>3. Surplus + 1 \in Int /\ Len(decided) \in Int
    BY <1>1
  <2>4. /\ decided' \in Seq(Requests)
        /\ Len(decided') = IF Surplus + 1 <= Len(decided) THEN Len(decided) - (Surplus + 1) + 1 ELSE 0
        /\ \A i \in 1 .. Len(decided) - (Surplus + 1) + 1 : decided'[i] = decided[Surplus + 1 + i - 1]
    <3> DEFINE first == Surplus + 1
               last == Len(decided)
               rest == SubSeq(decided, first, last)
    <3>1. first \in Int /\ last \in Int
      BY <2>3
    <3>2. \A i \in first .. last : decided[i] \in Requests
      BY <2>1
    <3> HIDE DEF first, last
    <3>3. /\ rest \in Seq(Requests)
          /\ Len(rest) = IF first <= last THEN last - first + 1 ELSE 0
          /\ \A i \in 1 .. last - first + 1 : rest[i] = decided[first + i - 1]
      BY <3>1, <3>2, SubSeqProperties
    <3> QED
      BY <2>2, <3>3 DEF first, last
  <2>5. Len(decided') = Len(decided) - Surplus
    BY <1>1, <2>4
  <2>6. DOMAIN decided' = 1 .. Len(decided') /\ DOMAIN decided = 1 .. Len(decided)
    BY <2>4 DEF TypeOK
  <2>7. ASSUME NEW i \in DOMAIN decided'
        PROVE  i + Surplus \in DOMAIN decided /\ decided'[i] = decided[i + Surplus]
    <3>1. i \in 1 .. Len(decided) - (Surplus + 1) + 1 /\ Surplus + 1 + i - 1 = i + Surplus
      BY <1>1, <2>5, <2>6
    <3> QED
      BY <1>1, <2>4, <2>5, <2>6, <3>1
  <2> QED
    BY <2>4, <2>5, <2>7
<1>3. \A q \in Forgotten : q \in Requests /\ Len(audit[q]) = 1
  BY <1>1 DEF Forgotten, Logged, TypeOK
<1>4. \A i \in DOMAIN decided' : decided'[i] \in Requests /\ decided'[i] \notin Forgotten
  BY <1>1, <1>2 DEF Forgotten, Logged
<1>5. Len(audit[r]) = 0 /\ prop[r].st = "dryRun"
  BY DEF Insert, Logged, Undecided, OnItsWay
<1>6. \A q \in Forgotten : prop[q].st \notin Undecided /\ Len(audit[q]) = 1 /\ q # r
  <2> SUFFICES ASSUME NEW q \in Forgotten PROVE prop[q].st \notin Undecided /\ Len(audit[q]) = 1 /\ q # r
    OBVIOUS
  <2>1. Len(audit[q]) = 1
    BY <1>3
  <2> QED
    BY <1>3, <1>5, <2>1 DEF Logged
<1>7. prop[r] \in Proposal /\ \A q \in Requests : prop[q] \in Proposal
  BY DEF TypeOK
<1>8. prop'[r].st = "pending" /\ prop'[r].reviewed = prop[r].reviewed
  BY <1>7 DEF Insert, Proposal
<1>9. \A q \in Forgotten : prop'[q].st = "pruned" /\ prop'[q].reviewed = prop[q].reviewed
  BY <1>3, <1>6, <1>7 DEF Insert, Proposal
<1>10. \A q \in Requests : q # r /\ q \notin Forgotten => prop'[q] = prop[q]
  BY DEF Insert
<1>11. prop' \in [Requests -> Proposal]
  BY <1>7 DEF Insert, Proposal, Status
<1>12. UNCHANGED <<handler, object, writes, audit, applied>>
  BY DEF Insert
<1>13. TypeOK'
  BY <1>2, <1>11, <1>12 DEF TypeOK
<1>14. \A h \in Handlers, q \in Requests : Claims(h, q)' <=> Claims(h, q)
  BY <1>12 DEF Claims, At
<1>15. \A h \in Handlers, q \in Requests : Claims(h, q) => q # r /\ q \notin Forgotten
  <2> SUFFICES ASSUME NEW h \in Handlers, NEW q \in Requests, Claims(h, q) PROVE q # r /\ q \notin Forgotten
    OBVIOUS
  <2>1. Len(audit[q]) = 0 /\ prop[q].st \in {"applying", "rejected"}
    BY DEF ClaimsHold
  <2>2. Len(audit[q]) # 1
    BY <2>1
  <2>3. prop[r].st \notin {"applying", "rejected"}
    BY <1>5
  <2> QED
    BY <1>6, <2>1, <2>2, <2>3
<1>16. ClaimsHold'
  <2>1. \A g, h \in Handlers, q \in Requests : Claims(g, q)' /\ Claims(h, q)' => g = h
    BY <1>14 DEF ClaimsHold
  <2>2. \A h \in Handlers, q \in Requests :
          Claims(h, q)' => Len(audit'[q]) = 0 /\ prop'[q].st \in {"applying", "rejected"}
    BY <1>10, <1>12, <1>14, <1>15 DEF ClaimsHold
  <2>3. \A q \in Requests :
          prop'[q].st = "applying" => \E h \in Handlers : At(h, Claimed)' /\ handler'[h].target = q
    BY <1>8, <1>9, <1>10, <1>12 DEF ClaimsHold, At, Claimed
  <2> QED
    BY <2>1, <2>2, <2>3 DEF ClaimsHold
<1>17. Knows'
  <2> SUFFICES ASSUME NEW h \in Handlers PROVE Knows!(h)'
    BY DEF Knows
  <2> QED
    BY <1>10, <1>12, <1>15, HandlerTypes DEF Knows, At, Claims, Claimed
<1>18. Logged'
  <2>1. \A q \in Requests : prop'[q].st \in Undecided => Len(audit'[q]) = 0
    BY <1>5, <1>9, <1>10, <1>12 DEF Logged, Undecided, OnItsWay
  <2>2. \A q \in Requests : prop'[q].st = "pruned" => Len(audit'[q]) = 1
    BY <1>6, <1>8, <1>10, <1>12 DEF Logged
  <2>3. \A i \in DOMAIN decided' : Len(audit'[decided'[i]]) = 1 /\ audit'[decided'[i]][1] = prop'[decided'[i]].st
    <3> SUFFICES ASSUME NEW i \in DOMAIN decided'
                 PROVE  Len(audit'[decided'[i]]) = 1 /\ audit'[decided'[i]][1] = prop'[decided'[i]].st
      OBVIOUS
    <3>1. Len(audit[decided'[i]]) = 1 /\ audit[decided'[i]][1] = prop[decided'[i]].st
      BY <1>2 DEF Logged
    <3>2. decided'[i] # r
      BY <1>5, <3>1
    <3> QED
      BY <1>4, <1>10, <1>12, <3>1, <3>2
  <2>4. \A i, j \in DOMAIN decided' : decided'[i] = decided'[j] => i = j
    BY <1>1, <1>2 DEF Logged
  <2> QED
    BY <1>12, <2>1, <2>2, <2>3, <2>4 DEF Logged
<1>19. CheckStands'
  <2> SUFFICES ASSUME NEW h \in Handlers, At(h, {"approve"}) PROVE CheckStands!(h)!2'
    BY <1>12 DEF CheckStands, At
  <2>1. handler[h].target \in Requests /\ handler[h].target # r
    BY <1>5, HandlerTypes DEF At, CheckStands, OnItsWay
  <2> QED
    BY <1>9, <1>10, <1>12, <2>1 DEF CheckStands, At, OnItsWay
<1>20. ToldTheTruth'
  BY <1>5, <1>6, <1>8, <1>9, <1>10, <1>12 DEF ToldTheTruth, Undecided
<1> QED
  BY <1>13, <1>16, <1>17, <1>18, <1>19, <1>20 DEF Inv

-----------------------------------------------------------------------------
(* Handlers *)

Doings == {Idle} \cup Deciding \cup Applying \cup Finishing \cup Saving

(* An approval at work goes on, or has found how it ends. *)
LEMMA WorkInv ==
  ASSUME Inv, NEW h \in Handlers, NEW v \in Applying \cup Finishing,
         At(h, {"get", "patch", "backoff"}), v.target = handler[h].target, Goto(h, v),
         UNCHANGED <<prop, decided, object, writes, audit, applied>>,
         v.pc = "patch" /\ v.fresh => object = prop[v.target].reviewed,
         v.pc = "backoff" => v.attempt < ApplyAttempts,
         v.pc = "finish" => v.outcome \in {"stale", "failed"}
  PROVE  Inv'
<1> TypeOK /\ ClaimsHold /\ Knows /\ Logged /\ CheckStands /\ ToldTheTruth
  BY DEF Inv
<1>1. handler'[h] = v /\ \A g \in Handlers : g # h => handler'[g] = handler[g]
  BY DEF TypeOK, Goto
<1>2. v.pc \in Claimed /\ handler[h].pc \in Claimed
  BY DEF Applying, Finishing, Claimed, At
<1>3. TypeOK'
  BY DEF TypeOK, Goto
<1>4. \A g \in Handlers : At(g, Claimed)' <=> At(g, Claimed)
  BY <1>1, <1>2 DEF At
<1>5. \A g \in Handlers, r \in Requests : Claims(g, r)' <=> Claims(g, r)
  BY <1>1, <1>2 DEF Claims, At, Claimed
<1>6. ClaimsHold'
  <2>1. \A r \in Requests :
          prop[r].st = "applying" => \E g \in Handlers : At(g, Claimed)' /\ handler'[g].target = r
    BY <1>1, <1>4 DEF ClaimsHold
  <2> QED
    BY <1>5, <2>1 DEF ClaimsHold
<1>7. Knows'
  <2> SUFFICES ASSUME NEW g \in Handlers PROVE Knows!(g)'
    BY DEF Knows
  <2>1. CASE g = h
    BY <1>1, <1>2, <2>1 DEF Knows, At, Claimed
  <2>2. CASE g # h
    BY <1>1, <2>2 DEF Knows, At
  <2> QED
    BY <2>1, <2>2
<1>8. Logged' /\ ToldTheTruth'
  BY DEF Logged, ToldTheTruth
<1>9. CheckStands'
  <2>1. \A g \in Handlers : At(g, {"rejectAll"}) => At(g, {"rejectAll"})'
    BY <1>1 DEF At
  <2>2. \A g \in Handlers : At(g, {"approve"})' => At(g, {"approve"}) /\ handler'[g] = handler[g]
    BY <1>1, <1>2 DEF At, Claimed
  <2> QED
    BY <2>1, <2>2 DEF CheckStands
<1> QED
  BY <1>3, <1>6, <1>7, <1>8, <1>9 DEF Inv

LEMMA ApproveMovesInv ==
  ASSUME Inv, NEW h \in Handlers,
         GetLive(h) \/ CallFails(h) \/ PatchConflict(h) \/ BackoffOver(h) \/ Cancelled(h)
  PROVE  Inv'
<1> TypeOK
  BY DEF Inv
<1>1. At(h, {"get", "patch", "backoff"})
  BY DEF GetLive, CallFails, PatchConflict, BackoffOver, Cancelled, At
<1>2. handler[h] \in Applying /\ handler[h].target \in Requests
  BY <1>1, HandlerTypes DEF At
<1>3. \A outcome \in {"stale", "failed"} :
        /\ EndsAs(h, outcome) \in Finishing
        /\ EndsAs(h, outcome).pc = "finish"
        /\ EndsAs(h, outcome).target = handler[h].target
        /\ EndsAs(h, outcome).outcome = outcome
  BY <1>2 DEF EndsAs, Finishing, Final
<1>4. UNCHANGED <<prop, decided, object, writes, audit, applied>>
  BY DEF GetLive, CallFails, PatchConflict, BackoffOver, Cancelled
<1>5. ASSUME NEW outcome \in {"stale", "failed"}, Goto(h, EndsAs(h, outcome)) PROVE Inv'
  BY <1>1, <1>3, <1>4, <1>5, WorkInv
<1>6. CASE GetLive(h)
  <2> DEFINE v == [handler[h] EXCEPT !.pc = "patch", !.fresh = TRUE]
  <2>1. v \in Applying /\ v.pc = "patch" /\ v.target = handler[h].target
    BY <1>2 DEF Applying
  <2>2. CASE object = prop[handler[h].target].reviewed
    <3>1. Goto(h, v)
      BY <1>6, <2>2 DEF GetLive
    <3> HIDE DEF v
    <3> QED
      BY <1>1, <1>4, <2>1, <2>2, <3>1, WorkInv
  <2>3. CASE object # prop[handler[h].target].reviewed
    BY <1>5, <1>6, <2>3 DEF GetLive
  <2> QED
    BY <2>2, <2>3
<1>7. CASE PatchConflict(h)
  <2> DEFINE v == [handler[h] EXCEPT !.pc = "backoff"]
  <2>1. v \in Applying /\ v.pc = "backoff" /\ v.target = handler[h].target
        /\ v.attempt = handler[h].attempt
    BY <1>2 DEF Applying
  <2>2. CASE handler[h].attempt < ApplyAttempts
    <3>1. Goto(h, v)
      BY <1>7, <2>2 DEF PatchConflict
    <3> HIDE DEF v
    <3> QED
      BY <1>1, <1>4, <2>1, <2>2, <3>1, WorkInv
  <2>3. CASE ~ (handler[h].attempt < ApplyAttempts)
    BY <1>5, <1>7, <2>3 DEF PatchConflict
  <2> QED
    BY <2>2, <2>3
<1>8. CASE BackoffOver(h)
  <2> DEFINE v == [handler[h] EXCEPT !.pc = "get", !.attempt = @ + 1]
  <2>1. handler[h].attempt \in 1 .. ApplyAttempts /\ handler[h].attempt < ApplyAttempts
    BY <1>2, <1>8 DEF Inv, Knows, BackoffOver, Applying
  <2>2. handler[h].attempt + 1 \in 1 .. ApplyAttempts
    BY <2>1, ApplyAttemptsPos
  <2>3. v \in Applying /\ v.pc = "get" /\ v.target = handler[h].target
    BY <1>2, <2>2 DEF Applying
  <2>4. Goto(h, v)
    BY <1>8 DEF BackoffOver
  <2> HIDE DEF v
  <2> QED
    BY <1>1, <1>4, <2>3, <2>4, WorkInv
<1>9. CASE CallFails(h) \/ Cancelled(h)
  BY <1>5, <1>9 DEF CallFails, Cancelled
<1> QED
  BY <1>6, <1>7, <1>8, <1>9

(* Somebody else writes the object, or its status: what was read is outdated. *)
LEMMA OutdatedKeeps ==
  ASSUME NEW f \in [Handlers -> Doings], NEW h \in Handlers
  PROVE  /\ Outdated(f)[h] \in Doings
         /\ Outdated(f)[h].pc = f[h].pc
         /\ f[h].pc \notin {"patch", "backoff"} => Outdated(f)[h] = f[h]
         /\ f[h].pc \in {"patch", "backoff"} =>
              /\ Outdated(f)[h].target = f[h].target
              /\ Outdated(f)[h].attempt = f[h].attempt
              /\ Outdated(f)[h].fresh = FALSE
<1>1. f[h] \in Doings
  OBVIOUS
<1>2. CASE f[h].pc \notin {"patch", "backoff"}
  BY <1>1, <1>2 DEF Outdated
<1>3. CASE f[h].pc \in {"patch", "backoff"}
  <2>1. f[h] \in Applying
    BY <1>1, <1>3 DEF Doings, Idle, Deciding, Applying, Finishing, Saving
  <2>2. Outdated(f)[h] = [f[h] EXCEPT !.fresh = FALSE]
    BY <1>3 DEF Outdated
  <2>3. Outdated(f)[h] \in Applying
    BY <2>1, <2>2 DEF Applying
  <2> QED
    BY <1>3, <2>1, <2>2, <2>3 DEF Applying, Doings
<1> QED
  BY <1>2, <1>3

LEMMA OthersInv ==
  ASSUME Inv, Edit \/ StatusWrite
  PROVE  Inv'
<1> TypeOK /\ ClaimsHold /\ Knows /\ Logged /\ CheckStands /\ ToldTheTruth
  BY DEF Inv
<1>1. handler \in [Handlers -> Doings]
  BY DEF TypeOK, Doings
<1>2. handler' = Outdated(handler) /\ UNCHANGED <<prop, decided, writes, audit, applied>>
  BY DEF Edit, StatusWrite
<1>3. object' \in Content
  BY DEF Edit, StatusWrite, Patched, Content, Patch, TypeOK
<1>4. \A h \in Handlers :
        /\ handler'[h] \in Doings
        /\ handler'[h].pc = handler[h].pc
        /\ handler[h].pc \notin {"patch", "backoff"} => handler'[h] = handler[h]
        /\ handler[h].pc \in {"patch", "backoff"} =>
             /\ handler'[h].target = handler[h].target
             /\ handler'[h].attempt = handler[h].attempt
             /\ handler'[h].fresh = FALSE
  BY <1>1, <1>2, OutdatedKeeps
<1>5. handler' \in [Handlers -> Doings]
  BY <1>2, <1>4 DEF Outdated
<1>6. TypeOK'
  BY <1>2, <1>3, <1>5 DEF TypeOK, Doings
<1>7. \A h \in Handlers : \A pcs : At(h, pcs)' <=> At(h, pcs)
  BY <1>4 DEF At
<1>8. \A h \in Handlers : At(h, Claimed) => handler'[h].target = handler[h].target
  BY <1>4 DEF At, Claimed
<1>9. \A h \in Handlers, r \in Requests : Claims(h, r)' <=> Claims(h, r)
  BY <1>4, <1>7, <1>8 DEF Claims, At
<1>10. ClaimsHold'
  <2>1. \A r \in Requests :
          prop[r].st = "applying" => \E h \in Handlers : At(h, Claimed)' /\ handler'[h].target = r
    BY <1>7, <1>8 DEF ClaimsHold
  <2> QED
    BY <1>2, <1>9, <2>1 DEF ClaimsHold
<1>11. Knows'
  <2> SUFFICES ASSUME NEW h \in Handlers PROVE Knows!(h)'
    BY DEF Knows
  <2>1. CASE handler[h].pc \in {"patch", "backoff"}
    BY <1>2, <1>4, <2>1 DEF Knows, At
  <2>2. CASE handler[h].pc \notin {"patch", "backoff"}
    BY <1>2, <1>4, <2>2 DEF Knows, At
  <2> QED
    BY <2>1, <2>2
<1>12. Logged' /\ ToldTheTruth'
  BY <1>2 DEF Logged, ToldTheTruth
<1>13. CheckStands'
  BY <1>2, <1>4 DEF CheckStands, At
<1> QED
  BY <1>6, <1>10, <1>11, <1>12, <1>13 DEF Inv

(* The patch is written: its proposal has no other claimant, and nobody else read
   the object as it is now. *)
LEMMA PatchInv ==
  ASSUME Inv, NEW h \in Handlers, PatchApplied(h) \/ PatchUnanswered(h)
  PROVE  Inv'
<1> TypeOK /\ ClaimsHold /\ Knows /\ Logged /\ CheckStands /\ ToldTheTruth
  BY DEF Inv
<1> DEFINE r == handler[h].target
<1>1. Write(h) /\ At(h, {"patch"}) /\ UNCHANGED <<prop, decided, writes, audit>>
  BY DEF PatchApplied, PatchUnanswered, Write
<1>2. r \in Requests /\ prop[r].st = "applying" /\ applied[r] = 0
  BY <1>1, HandlerTypes DEF At, Knows
<1>3. PICK outcome \in {"applied", "failed"} :
        handler' = Outdated([handler EXCEPT ![h] = EndsAs(h, outcome)])
  BY DEF PatchApplied, PatchUnanswered
<1>4. EndsAs(h, outcome) \in Finishing /\ EndsAs(h, outcome).pc = "finish"
        /\ EndsAs(h, outcome).target = r /\ EndsAs(h, outcome).outcome = outcome
  BY <1>2 DEF EndsAs, Finishing, Final
<1> DEFINE f == [handler EXCEPT ![h] = EndsAs(h, outcome)]
<1>5. f \in [Handlers -> Doings] /\ f[h] = EndsAs(h, outcome)
        /\ \A g \in Handlers : g # h => f[g] = handler[g]
  BY <1>4 DEF TypeOK, Doings
<1>6. handler'[h] = EndsAs(h, outcome) /\ handler'[h] \in Doings
  BY <1>3, <1>4, <1>5, OutdatedKeeps
<1>7. \A g \in Handlers : g # h =>
        /\ handler'[g] \in Doings
        /\ handler'[g].pc = handler[g].pc
        /\ handler[g].pc \notin {"patch", "backoff"} => handler'[g] = handler[g]
        /\ handler[g].pc \in {"patch", "backoff"} =>
             /\ handler'[g].target = handler[g].target
             /\ handler'[g].attempt = handler[g].attempt
             /\ handler'[g].fresh = FALSE
  BY <1>3, <1>5, OutdatedKeeps
<1>8. handler' \in [Handlers -> Doings]
  BY <1>3, <1>6, <1>7 DEF Outdated
<1>9. object' \in Content
  BY <1>1, <1>2 DEF Write, Patched, Content, Patch, TypeOK, Proposal
<1>10. applied' = [applied EXCEPT ![r] = 1]
  BY <1>1, <1>2 DEF Write, TypeOK
<1>11. TypeOK'
  BY <1>1, <1>8, <1>9, <1>10 DEF TypeOK, Doings
<1> HIDE DEF f, r
<1>12. \A g \in Handlers : At(g, Claimed)' <=> At(g, Claimed)
  BY <1>1, <1>4, <1>6, <1>7 DEF At, Claimed
<1>13. \A g \in Handlers : At(g, Claimed) => handler'[g].target = handler[g].target
  BY <1>1, <1>4, <1>6, <1>7 DEF At, Claimed, r
<1>14. \A g \in Handlers, q \in Requests : Claims(g, q)' <=> Claims(g, q)
  BY <1>1, <1>4, <1>6, <1>7, <1>12, <1>13 DEF Claims, At
<1>15. ClaimsHold'
  <2>1. \A q \in Requests :
          prop[q].st = "applying" => \E g \in Handlers : At(g, Claimed)' /\ handler'[g].target = q
    BY <1>12, <1>13 DEF ClaimsHold
  <2> QED
    BY <1>1, <1>14, <2>1 DEF ClaimsHold
<1>16. \A g \in Handlers : g # h /\ At(g, Claimed) => handler[g].target # r
  BY <1>1, <1>2, HandlerTypes DEF ClaimsHold, Claims, At, Claimed, r
<1>17. Knows'
  <2> SUFFICES ASSUME NEW g \in Handlers PROVE Knows!(g)'
    BY DEF Knows
  <2>1. CASE g = h
    BY <1>1, <1>2, <1>4, <1>6, <1>10, <2>1 DEF Knows, At, TypeOK
  <2>2. CASE g # h /\ handler[g].pc \in {"get", "patch", "backoff", "finish"}
    <3>1. /\ handler[g].target \in Requests /\ handler[g].target # r
          /\ handler'[g].target = handler[g].target
      BY <1>7, <1>13, <1>16, <2>2, HandlerTypes DEF At, Claimed
    <3>2. applied'[handler[g].target] = applied[handler[g].target]
      BY <1>10, <3>1 DEF TypeOK
    <3>3. Knows!(g)
      BY DEF Knows
    <3>4. CASE handler[g].pc \in {"patch", "backoff"}
      BY <1>1, <1>7, <2>2, <3>1, <3>2, <3>3, <3>4 DEF At
    <3>5. CASE handler[g].pc \in {"get", "finish"}
      BY <1>1, <1>7, <2>2, <3>1, <3>2, <3>3, <3>5 DEF At
    <3> QED
      BY <2>2, <3>4, <3>5
  <2>3. CASE g # h /\ handler[g].pc \notin {"get", "patch", "backoff", "finish"}
    BY <1>1, <1>7, <2>3 DEF Knows, At
  <2> QED
    BY <2>1, <2>2, <2>3
<1>18. Logged'
  BY <1>1 DEF Logged
<1>19. CheckStands'
  <2>1. \A g \in Handlers : At(g, {"rejectAll"}) => At(g, {"rejectAll"})'
    BY <1>1, <1>7 DEF At
  <2>2. \A g \in Handlers : At(g, {"approve"})' => At(g, {"approve"}) /\ handler'[g] = handler[g]
    BY <1>4, <1>6, <1>7 DEF At
  <2> QED
    BY <1>1, <2>1, <2>2 DEF CheckStands
<1>20. ToldTheTruth'
  BY <1>1, <1>2, <1>10 DEF ToldTheTruth, TypeOK
<1> QED
  BY <1>11, <1>15, <1>17, <1>18, <1>19, <1>20 DEF Inv

(* The switch is saved, or a save returns. *)
LEMMA SaveInv ==
  ASSUME Inv, NEW h \in Handlers, (\E on \in BOOLEAN : Save(h, on)) \/ SaveReturns(h)
  PROVE  Inv'
<1> TypeOK /\ ClaimsHold /\ Knows /\ Logged /\ CheckStands /\ ToldTheTruth
  BY DEF Inv
<1>1. UNCHANGED <<prop, decided, object, audit, applied>> /\ writes' \in BOOLEAN
  BY DEF Save, SaveReturns, TypeOK
<1>2. PICK v \in {Idle, [pc |-> "rejectAll"]} : Goto(h, v)
  BY DEF Save, SaveReturns
<1>3. \/ At(h, {"idle"})
      \/ At(h, {"finishAll"}) /\ handler[h].todo = {}
  BY DEF Save, SaveReturns
<1>4. v \in Doings /\ v.pc \in {"idle", "rejectAll"}
  BY DEF Doings, Saving, Idle
<1>5. handler'[h] = v /\ \A g \in Handlers : g # h => handler'[g] = handler[g]
  BY <1>2 DEF TypeOK, Goto
<1>6. handler' \in [Handlers -> Doings]
  BY <1>2, <1>4 DEF TypeOK, Goto, Doings
<1>7. TypeOK'
  BY <1>1, <1>6 DEF TypeOK, Doings
<1>8. ~ At(h, Claimed) /\ ~ At(h, Claimed)'
  BY <1>3, <1>4, <1>5 DEF At, Claimed
<1>9. \A g \in Handlers, r \in Requests : Claims(g, r)' <=> Claims(g, r)
  <2> SUFFICES ASSUME NEW g \in Handlers, NEW r \in Requests PROVE Claims(g, r)' <=> Claims(g, r)
    OBVIOUS
  <2>1. CASE g = h
    BY <1>3, <1>4, <1>5, <1>8, <2>1 DEF Claims, At
  <2>2. CASE g # h
    BY <1>5, <2>2 DEF Claims, At
  <2> QED
    BY <2>1, <2>2
<1>10. ClaimsHold'
  <2>1. \A r \in Requests :
          prop[r].st = "applying" => \E g \in Handlers : At(g, Claimed)' /\ handler'[g].target = r
    BY <1>5, <1>8 DEF ClaimsHold, At
  <2> QED
    BY <1>1, <1>9, <2>1 DEF ClaimsHold
<1>11. Knows'
  <2> SUFFICES ASSUME NEW g \in Handlers PROVE Knows!(g)'
    BY DEF Knows
  <2> QED
    BY <1>1, <1>4, <1>5 DEF Knows, At
<1>12. Logged' /\ ToldTheTruth'
  BY <1>1 DEF Logged, ToldTheTruth
<1>13. CheckStands'
  <2> SUFFICES ASSUME NEW g \in Handlers, At(g, {"approve"})' PROVE CheckStands!(g)!2'
    BY DEF CheckStands
  <2>1. At(g, {"approve"}) /\ handler'[g] = handler[g]
    BY <1>4, <1>5 DEF At
  <2>2. CASE SaveReturns(h)
    <3>1. writes' = writes /\ \A q \in Handlers : At(q, {"rejectAll"}) => At(q, {"rejectAll"})'
      BY <1>5, <2>2 DEF SaveReturns, At
    <3> QED
      BY <1>1, <2>1, <3>1 DEF CheckStands
  <2>3. CASE \E on \in BOOLEAN : Save(h, on)
    <3>1. writes' \/ At(h, {"rejectAll"})'
      BY <1>5, <2>3 DEF Save, Goto, At, TypeOK
    <3> QED
      BY <1>1, <2>1, <3>1 DEF CheckStands
  <2> QED
    BY <2>2, <2>3
<1> QED
  BY <1>7, <1>10, <1>11, <1>12, <1>13 DEF Inv

(* A look at one proposal, before it is decided and when it is too late to. *)
LEMMA CheckInv ==
  ASSUME Inv, NEW h \in Handlers,
         \/ \E r \in Requests : Check(h, r, "approve") \/ Check(h, r, "reject")
         \/ ClaimRefused(h)
  PROVE  Inv'
<1> TypeOK
  BY DEF Inv
<1>1. CASE ClaimRefused(h)
  <2>1. handler[h].target \in Requests /\ handler[h].pc \in {"approve", "reject"}
    BY <1>1, HandlerTypes DEF ClaimRefused, At
  <2>2. /\ handler' \in [Handlers -> {Idle} \cup Deciding \cup Applying \cup Finishing \cup Saving]
        /\ handler'[h].pc = "idle"
        /\ \A g \in Handlers : g # h => handler'[g] = handler[g]
    BY <1>1 DEF ClaimRefused, Goto, TypeOK, Idle
  <2>3. /\ ExpiryLogged({handler[h].target}) /\ prop' = Expired({handler[h].target})
        /\ UNCHANGED <<object, writes, applied>>
    BY <1>1 DEF ClaimRefused
  <2>4. {handler[h].target} \in SUBSET Requests
    BY <2>1
  <2> QED
    BY <2>1, <2>2, <2>3, <2>4, ExpiryInv
<1>2. ASSUME NEW r \in Requests, NEW what \in {"approve", "reject"}, Check(h, r, what)
      PROVE  Inv'
  <2>1. handler[h].pc = "idle" /\ Held(r) /\ (what = "approve" => writes)
    BY <1>2 DEF Check, At
  <2>2. /\ handler' \in [Handlers -> {Idle} \cup Deciding \cup Applying \cup Finishing \cup Saving]
        /\ handler'[h].pc = what /\ handler'[h].target = r
        /\ \A g \in Handlers : g # h => handler'[g] = handler[g]
    BY <1>2 DEF Check, Goto, TypeOK, Deciding
  <2>3. ExpiryLogged({r}) /\ prop' = Expired({r}) /\ UNCHANGED <<object, writes, applied>>
    BY <1>2 DEF Check
  <2>4. {r} \in SUBSET Requests
    OBVIOUS
  <2> QED
    BY <2>1, <2>2, <2>3, <2>4, ExpiryInv
<1> QED
  BY <1>1, <1>2

(* A pending proposal that is not overdue becomes its claimant's. *)
LEMMA ClaimInv ==
  ASSUME Inv, NEW h \in Handlers, ClaimApprove(h) \/ ClaimReject(h)
  PROVE  Inv'
<1> TypeOK /\ ClaimsHold /\ Knows /\ Logged /\ CheckStands /\ ToldTheTruth
  BY DEF Inv
<1> DEFINE r == handler[h].target
<1>1. At(h, {"approve", "reject"}) /\ r \in Requests /\ prop[r].st = "pending"
  BY HandlerTypes DEF ClaimApprove, ClaimReject, Claimable, At
<1>2. UNCHANGED <<decided, object, writes, audit, applied>>
  BY DEF ClaimApprove, ClaimReject
<1>3. PICK v : /\ Goto(h, v)
               /\ v.target = r
               /\ v \in Doings
               /\ \/ /\ prop' = [prop EXCEPT ![r].st = "applying"]
                     /\ v.pc = "get"
                  \/ /\ prop' = [prop EXCEPT ![r].st = "rejected"]
                     /\ v.pc = "finish" /\ v.outcome = "rejected"
  <2>1. CASE ClaimApprove(h)
    <3> DEFINE v == [pc |-> "get", target |-> r, attempt |-> 1, fresh |-> FALSE]
    <3>1. v \in Applying
      BY <1>1, ApplyAttemptsPos DEF Applying
    <3> QED
      BY <2>1, <3>1 DEF ClaimApprove, Doings
  <2>2. CASE ClaimReject(h)
    BY <1>1, <2>2 DEF ClaimReject, EndsAs, Finishing, Final, Doings
  <2> QED
    BY <2>1, <2>2
<1>4. handler'[h] = v /\ \A g \in Handlers : g # h => handler'[g] = handler[g]
  BY <1>3 DEF TypeOK, Goto
<1>5. handler' \in [Handlers -> Doings]
  BY <1>3 DEF TypeOK, Goto, Doings
<1>6. prop[r] \in Proposal
  BY <1>1 DEF TypeOK
<1> HIDE DEF r
<1>7. /\ prop'[r].reviewed = prop[r].reviewed
      /\ \A q \in Requests : q # r => prop'[q] = prop[q]
      /\ \/ prop'[r].st = "applying" /\ v.pc = "get"
         \/ prop'[r].st = "rejected" /\ v.pc = "finish" /\ v.outcome = "rejected"
      /\ prop' \in [Requests -> Proposal]
  <2>1. PICK st \in {"applying", "rejected"} :
          /\ prop' = [prop EXCEPT ![r].st = st]
          /\ \/ st = "applying" /\ v.pc = "get"
             \/ st = "rejected" /\ v.pc = "finish" /\ v.outcome = "rejected"
    BY <1>3
  <2>2. [prop[r] EXCEPT !.st = st] \in Proposal
    BY <1>6 DEF Proposal, Status, Final
  <2>3. prop'[r] = [prop[r] EXCEPT !.st = st] /\ \A q \in Requests : q # r => prop'[q] = prop[q]
    BY <1>1, <2>1 DEF TypeOK
  <2>4. prop' \in [Requests -> Proposal]
    BY <2>1, <2>2, <2>3 DEF TypeOK
  <2>5. prop'[r].st = st /\ prop'[r].reviewed = prop[r].reviewed
    BY <1>6, <2>3 DEF Proposal
  <2> QED
    BY <2>1, <2>3, <2>4, <2>5
<1>8. TypeOK'
  BY <1>2, <1>5, <1>7 DEF TypeOK, Doings
<1>9. \A g \in Handlers : ~ Claims(g, r)
  BY <1>1 DEF ClaimsHold
<1>10. At(h, Claimed)' /\ handler'[h].target = r
  BY <1>3, <1>4, <1>7 DEF At, Claimed
<1>11. \A g \in Handlers, q \in Requests : Claims(g, q)' <=> (Claims(g, q) \/ (g = h /\ q = r))
  <2> SUFFICES ASSUME NEW g \in Handlers, NEW q \in Requests
               PROVE  Claims(g, q)' <=> (Claims(g, q) \/ (g = h /\ q = r))
    OBVIOUS
  <2>1. CASE g = h
    BY <1>1, <1>4, <1>7, <1>10, <2>1 DEF Claims, At, Claimed
  <2>2. CASE g # h
    BY <1>4, <2>2 DEF Claims, At
  <2> QED
    BY <2>1, <2>2
<1>12. Len(audit[r]) = 0 /\ applied[r] = 0
  <2>1. Len(audit[r]) = 0
    BY <1>1 DEF Logged, Undecided
  <2>2. applied[r] <= 1 /\ applied[r] # 1 /\ applied[r] \in Nat
    BY <1>1 DEF ToldTheTruth, TypeOK
  <2> QED
    BY <2>1, <2>2
<1>13. ClaimsHold'
  <2>1. \A f, g \in Handlers, q \in Requests : Claims(f, q)' /\ Claims(g, q)' => f = g
    BY <1>9, <1>11 DEF ClaimsHold
  <2>2. \A g \in Handlers, q \in Requests :
          Claims(g, q)' => Len(audit'[q]) = 0 /\ prop'[q].st \in {"applying", "rejected"}
    BY <1>2, <1>7, <1>9, <1>11, <1>12 DEF ClaimsHold
  <2>3. \A q \in Requests :
          prop'[q].st = "applying" => \E g \in Handlers : At(g, Claimed)' /\ handler'[g].target = q
    <3> SUFFICES ASSUME NEW q \in Requests, prop'[q].st = "applying"
                 PROVE  \E g \in Handlers : At(g, Claimed)' /\ handler'[g].target = q
      OBVIOUS
    <3>1. CASE q = r
      BY <1>10, <3>1
    <3>2. CASE q # r
      <4>1. PICK g \in Handlers : At(g, Claimed) /\ handler[g].target = q
        BY <1>7, <3>2 DEF ClaimsHold
      <4>2. g # h
        BY <1>1, <4>1 DEF At, Claimed
      <4> QED
        BY <1>4, <4>1, <4>2 DEF At
    <3> QED
      BY <3>1, <3>2
  <2> QED
    BY <2>1, <2>2, <2>3 DEF ClaimsHold
<1>14. Knows'
  <2> SUFFICES ASSUME NEW g \in Handlers PROVE Knows!(g)'
    BY DEF Knows
  <2>1. CASE g = h
    BY <1>2, <1>3, <1>4, <1>7, <1>12, <2>1 DEF At
  <2>2. CASE g # h /\ handler[g].pc \in Claimed
    <3>1. handler[g].target \in Requests /\ handler[g].target # r
      BY <1>9, <2>2, HandlerTypes DEF Claims, At, Claimed
    <3>2. Knows!(g)
      BY DEF Knows
    <3> QED
      BY <1>2, <1>4, <1>7, <2>2, <3>1, <3>2 DEF At, Claimed
  <2>3. CASE g # h /\ handler[g].pc = "finishAll"
    <3>1. \A q \in handler[g].todo : q \in Requests /\ q # r
      BY <1>9, <2>3, HandlerTypes DEF Claims, At
    <3>2. Knows!(g)
      BY DEF Knows
    <3> QED
      BY <1>4, <1>7, <2>3, <3>1, <3>2 DEF At
  <2>4. CASE g # h /\ handler[g].pc \notin Claimed \cup {"finishAll"}
    BY <1>4, <2>4 DEF At, Claimed
  <2> QED
    BY <2>1, <2>2, <2>3, <2>4
<1>15. Logged'
  <2>1. \A i \in DOMAIN decided : decided[i] \in Requests /\ Len(audit[decided[i]]) = 1
    BY DEF Logged, TypeOK
  <2>2. \A i \in DOMAIN decided : decided[i] # r
    <3> SUFFICES ASSUME NEW i \in DOMAIN decided, decided[i] = r
                 PROVE  FALSE
      OBVIOUS
    <3>1. Len(audit[r]) = 1
      BY <2>1
    <3> QED
      BY <1>12, <3>1
  <2> QED
    BY <1>2, <1>7, <1>12, <2>1, <2>2 DEF Logged
<1>16. CheckStands'
  <2> SUFFICES ASSUME NEW g \in Handlers, At(g, {"approve"})' PROVE CheckStands!(g)!2'
    BY DEF CheckStands
  <2>1. g # h /\ At(g, {"approve"}) /\ handler'[g] = handler[g]
    BY <1>4, <1>10 DEF At, Claimed
  <2>2. handler[g].target \in Requests
    BY <2>1, HandlerTypes DEF At
  <2>3. \A q \in Handlers : At(q, {"rejectAll"}) => At(q, {"rejectAll"})'
    BY <1>1, <1>4 DEF At
  <2>4. CASE handler[g].target = r
    BY <1>7, <2>1, <2>4 DEF OnItsWay
  <2>5. CASE handler[g].target # r
    BY <1>2, <1>7, <2>1, <2>2, <2>3, <2>5 DEF CheckStands
  <2> QED
    BY <2>4, <2>5
<1>17. ToldTheTruth'
  BY <1>2, <1>7, <1>12 DEF ToldTheTruth
<1> QED
  BY <1>8, <1>13, <1>14, <1>15, <1>16, <1>17 DEF Inv

(* RejectAll claims what is pending and not overdue, and expires the rest of it. *)
LEMMA RejectAllInv ==
  ASSUME Inv, NEW h \in Handlers, RejectAll(h)
  PROVE  Inv'
<1> TypeOK /\ ClaimsHold /\ Knows /\ Logged /\ CheckStands /\ ToldTheTruth
  BY DEF Inv
<1> DEFINE E(q) == Lapsed(q)
           W(q) == prop[q].st = "pending" /\ ~ prop[q].overdue
<1>1. /\ decided' \in Seq(Requests)
      /\ audit' \in [Requests -> Seq(Final)]
      /\ \A i \in DOMAIN decided' :
           (\E j \in DOMAIN decided : decided'[i] = decided[j] /\ ~ Lapsed(decided[j])) \/ E(decided'[i])
      /\ \A q \in Requests : E(q) => Len(audit'[q]) = 1 /\ audit'[q][1] = "expired"
      /\ \A q \in Requests : ~ E(q) => audit'[q] = audit[q]
      /\ \A i, j \in DOMAIN decided' : decided'[i] = decided'[j] => i = j
  BY ExpiryEffect DEF RejectAll
<1>1a. \A q \in Requests : E(q) => Len(audit'[q]) = 1
  BY <1>1
<1>1b. \A q \in Requests : ~ E(q) => audit'[q] = audit[q]
  BY <1>1
<1>2. \A q \in Requests : prop[q] \in Proposal
  BY DEF TypeOK
<1>3. \A q \in Requests : E(q) => /\ prop[q].st = "pending" /\ prop'[q].st = "expired"
                                  /\ prop'[q].reviewed = prop[q].reviewed
  BY <1>2 DEF RejectAll, Waiting, Expired, Lapsed, Proposal
<1>4. \A q \in Requests : W(q) => /\ prop[q].st = "pending" /\ prop'[q].st = "rejected"
                                  /\ prop'[q].reviewed = prop[q].reviewed
  BY <1>2 DEF RejectAll, Waiting, Expired, Lapsed, Proposal
<1>5. \A q \in Requests : ~ E(q) /\ ~ W(q) => prop'[q] = prop[q] /\ prop[q].st # "pending"
  BY <1>2 DEF RejectAll, Waiting, Expired, Lapsed, Proposal
<1>6. prop' \in [Requests -> Proposal]
  <2>1. \A q \in Requests : [prop[q] EXCEPT !.st = "rejected"] \in Proposal
    BY <1>2 DEF Proposal, Status, Final
  <2>2. \A q \in Requests : Expired(Requests)[q] \in Proposal
    BY <1>2 DEF Expired, Proposal, Status, Final
  <2> QED
    BY <2>1, <2>2 DEF RejectAll
<1>7. /\ UNCHANGED <<object, writes, applied>>
      /\ handler[h].pc = "rejectAll"
      /\ Goto(h, [pc |-> "finishAll", todo |-> Waiting])
  BY DEF RejectAll, At
<1>8. /\ handler'[h].pc = "finishAll" /\ handler'[h].todo = Waiting
      /\ \A g \in Handlers : g # h => handler'[g] = handler[g]
  BY <1>7 DEF TypeOK, Goto
<1>9. handler' \in [Handlers -> Doings]
  <2>1. [pc |-> "finishAll", todo |-> Waiting] \in Doings
    BY DEF Doings, Saving, Waiting
  <2> QED
    BY <1>7, <2>1 DEF TypeOK, Goto, Doings
<1>10. \A q \in Requests : q \in Waiting <=> W(q)
  BY DEF Waiting
<1>11. \A q \in Requests : ~ (E(q) /\ W(q))
  BY DEF Lapsed
<1> HIDE DEF E, W
<1>12. TypeOK'
  BY <1>1, <1>6, <1>7, <1>9 DEF TypeOK, Doings
<1>13. \A g \in Handlers, q \in Requests : Claims(g, q)' <=> (Claims(g, q) \/ (g = h /\ W(q)))
  <2> SUFFICES ASSUME NEW g \in Handlers, NEW q \in Requests
               PROVE  Claims(g, q)' <=> (Claims(g, q) \/ (g = h /\ W(q)))
    OBVIOUS
  <2>1. CASE g = h
    BY <1>7, <1>8, <1>10, <2>1 DEF Claims, At, Claimed
  <2>2. CASE g # h
    BY <1>8, <2>2 DEF Claims, At
  <2> QED
    BY <2>1, <2>2
<1>14. \A g \in Handlers, q \in Requests : Claims(g, q) => ~ E(q) /\ ~ W(q) /\ g # h
  BY <1>3, <1>4, <1>7 DEF ClaimsHold, Claims, At, Claimed
<1>15. \A q \in Requests : E(q) \/ W(q) => Len(audit[q]) = 0
  BY <1>3, <1>4 DEF Logged, Undecided
<1>16. ClaimsHold'
  <2>1. \A f, g \in Handlers, q \in Requests : Claims(f, q)' /\ Claims(g, q)' => f = g
    BY <1>13, <1>14 DEF ClaimsHold
  <2>2. \A g \in Handlers, q \in Requests :
          Claims(g, q)' => Len(audit'[q]) = 0 /\ prop'[q].st \in {"applying", "rejected"}
    <3> SUFFICES ASSUME NEW g \in Handlers, NEW q \in Requests, Claims(g, q)'
                 PROVE  Len(audit'[q]) = 0 /\ prop'[q].st \in {"applying", "rejected"}
      OBVIOUS
    <3>1. CASE W(q)
      BY <1>1b, <1>4, <1>11, <1>15, <3>1
    <3>2. CASE Claims(g, q)
      BY <1>1b, <1>5, <1>14, <3>2 DEF ClaimsHold
    <3> QED
      BY <1>13, <3>1, <3>2
  <2>3. \A q \in Requests :
          prop'[q].st = "applying" => \E g \in Handlers : At(g, Claimed)' /\ handler'[g].target = q
    <3> SUFFICES ASSUME NEW q \in Requests, prop'[q].st = "applying"
                 PROVE  \E g \in Handlers : At(g, Claimed)' /\ handler'[g].target = q
      OBVIOUS
    <3>1. prop[q].st = "applying"
      BY <1>3, <1>4, <1>5
    <3>2. PICK g \in Handlers : At(g, Claimed) /\ handler[g].target = q
      BY <3>1 DEF ClaimsHold
    <3>3. g # h
      BY <1>7, <3>2 DEF At, Claimed
    <3> QED
      BY <1>8, <3>2, <3>3 DEF At
  <2> QED
    BY <2>1, <2>2, <2>3 DEF ClaimsHold
<1>17. Knows'
  <2> SUFFICES ASSUME NEW g \in Handlers PROVE Knows!(g)'
    BY DEF Knows
  <2>1. CASE g = h
    BY <1>4, <1>8, <1>10, <2>1 DEF At, Waiting
  <2>2. CASE g # h /\ handler[g].pc \in Claimed
    <3>1. handler[g].target \in Requests /\ prop'[handler[g].target] = prop[handler[g].target]
      BY <1>5, <1>14, <2>2, HandlerTypes DEF Claims, At, Claimed
    <3>2. Knows!(g)
      BY DEF Knows
    <3> QED
      BY <1>7, <1>8, <2>2, <3>1, <3>2 DEF At, Claimed
  <2>3. CASE g # h /\ handler[g].pc = "finishAll"
    <3>1. \A q \in handler[g].todo : q \in Requests /\ prop'[q] = prop[q]
      BY <1>5, <1>14, <2>3, HandlerTypes DEF Claims, At
    <3>2. Knows!(g)
      BY DEF Knows
    <3> QED
      BY <1>8, <2>3, <3>1, <3>2 DEF At
  <2>4. CASE g # h /\ handler[g].pc \notin Claimed \cup {"finishAll"}
    BY <1>8, <2>4 DEF At, Claimed
  <2> QED
    BY <2>1, <2>2, <2>3, <2>4
<1>18. Logged'
  <2>1. ASSUME NEW q \in Requests, prop'[q].st \in Undecided PROVE Len(audit'[q]) = 0
    <3>1. ~ E(q) /\ ~ W(q)
      BY <1>3, <1>4, <2>1 DEF Undecided, OnItsWay
    <3> QED
      BY <1>1b, <1>5, <2>1, <3>1 DEF Logged
  <2>2. ASSUME NEW q \in Requests PROVE Len(audit'[q]) <= 1
    <3>1. CASE E(q)
      <4>1. Len(audit'[q]) = 1
        BY <1>1a, <3>1, Zenon
      <4> QED
        BY <4>1
    <3>2. CASE ~ E(q)
      BY <1>1b, <3>2 DEF Logged
    <3> QED
      BY <3>1, <3>2
  <2>3. ASSUME NEW q \in Requests, prop'[q].st = "pruned" PROVE Len(audit'[q]) = 1
    <3>1. ~ E(q) /\ ~ W(q)
      BY <1>3, <1>4, <2>3
    <3> QED
      BY <1>1b, <1>5, <2>3, <3>1 DEF Logged
  <2>4. ASSUME NEW i \in DOMAIN decided' PROVE Len(audit'[decided'[i]]) = 1 /\ audit'[decided'[i]][1] = prop'[decided'[i]].st
    <3>1. decided'[i] \in Requests
      BY <1>1
    <3>2. CASE E(decided'[i])
      BY <1>1, <1>3, <3>1, <3>2
    <3>3. CASE \E j \in DOMAIN decided : decided'[i] = decided[j] /\ ~ Lapsed(decided[j])
      <4>1. ~ E(decided'[i])
        BY <3>3 DEF E
      <4>2. Len(audit[decided'[i]]) = 1 /\ audit[decided'[i]][1] = prop[decided'[i]].st
        BY <3>3 DEF Logged
      <4>3. ~ W(decided'[i])
        BY <1>15, <3>1, <4>2
      <4> QED
        BY <1>1b, <1>5, <3>1, <4>1, <4>2, <4>3
    <3> QED
      BY <1>1, <3>2, <3>3
  <2>5. \A i, j \in DOMAIN decided' : decided'[i] = decided'[j] => i = j
    BY <1>1
  <2> QED
    BY <2>1, <2>2, <2>3, <2>4, <2>5 DEF Logged
<1>19. CheckStands'
  <2> SUFFICES ASSUME NEW g \in Handlers, At(g, {"approve"})' PROVE CheckStands!(g)!2'
    BY DEF CheckStands
  <2>1. At(g, {"approve"}) /\ handler'[g] = handler[g]
    BY <1>8 DEF At
  <2>2. handler[g].target \in Requests
    BY <2>1, HandlerTypes DEF At
  <2>3. prop[handler[g].target].st \notin OnItsWay \cup {"refused"}
    BY <2>1 DEF CheckStands
  <2>4. prop'[handler[g].target].st \notin OnItsWay \cup {"refused", "pending"}
    BY <1>3, <1>4, <1>5, <2>2, <2>3 DEF OnItsWay
  <2> QED
    BY <2>1, <2>4
<1>20. ToldTheTruth'
  <2>1. \A q \in Requests : applied[q] \in Nat
    BY DEF TypeOK
  <2>2. \A q \in Requests : E(q) \/ W(q) => applied[q] # 1
    BY <1>3, <1>4 DEF ToldTheTruth
  <2> QED
    BY <1>3, <1>4, <1>5, <1>7, <2>1, <2>2 DEF ToldTheTruth
<1> QED
  BY <1>12, <1>16, <1>17, <1>18, <1>19, <1>20 DEF Inv

(* A claimant settles a proposal and has no claim to it afterwards. *)
LEMMA SettleInv ==
  ASSUME Inv, NEW h \in Handlers, NEW r \in Requests, NEW outcome \in Final,
         Claims(h, r), Settle(r, outcome),
         UNCHANGED <<object, writes, applied>>,
         outcome = "applied" => applied[r] = 1,
         outcome \in {"rejected", "stale", "expired"} => applied[r] = 0,
         NEW v \in Doings, Goto(h, v),
         \/ At(h, Claimed) /\ v = Idle
         \/ /\ At(h, {"finishAll"})
            /\ v.pc = "finishAll" /\ v.todo = handler[h].todo \ {r}
  PROVE  Inv'
<1> TypeOK /\ ClaimsHold /\ Knows /\ Logged /\ CheckStands /\ ToldTheTruth
  BY DEF Inv
<1>1. handler'[h] = v /\ \A g \in Handlers : g # h => handler'[g] = handler[g]
  BY DEF TypeOK, Goto
<1>2. handler' \in [Handlers -> Doings]
  BY DEF TypeOK, Goto, Doings
<1>3. \A q \in Requests : prop[q] \in Proposal /\ audit[q] \in Seq(Final)
  BY DEF TypeOK
<1>4. prop'[r] = [prop[r] EXCEPT !.st = outcome] /\ \A q \in Requests : q # r => prop'[q] = prop[q]
  BY DEF Settle, TypeOK
<1>5. prop'[r] \in Proposal /\ prop'[r].st = outcome
  BY <1>3, <1>4 DEF Proposal, Status
<1>6. prop' \in [Requests -> Proposal]
  BY <1>5, <1>4 DEF Settle, TypeOK
<1>7. Len(audit[r]) = 0 /\ prop[r].st \in {"applying", "rejected"}
  BY DEF ClaimsHold
<1>8. audit'[r] = Append(audit[r], outcome) /\ \A q \in Requests : q # r => audit'[q] = audit[q]
  BY DEF Settle, TypeOK
<1>9. audit'[r] \in Seq(Final) /\ Len(audit'[r]) = 1 /\ audit'[r][1] = outcome
  BY <1>3, <1>7, <1>8, AppendProperties
<1>10. audit' \in [Requests -> Seq(Final)]
  BY <1>8, <1>9 DEF Settle, TypeOK
<1>11. decided' = Append(decided, r) /\ decided \in Seq(Requests)
  BY DEF Settle, TypeOK
<1>12. /\ decided' \in Seq(Requests)
       /\ Len(decided) \in Nat
       /\ DOMAIN decided' = 1 .. (Len(decided) + 1)
       /\ DOMAIN decided = 1 .. Len(decided)
       /\ decided'[Len(decided) + 1] = r
       /\ \A i \in 1 .. Len(decided) : decided'[i] = decided[i]
  BY <1>11, AppendProperties
<1>13. TypeOK'
  BY <1>2, <1>6, <1>10, <1>12 DEF TypeOK, Doings
<1>14. \A g \in Handlers, q \in Requests : Claims(g, q)' => Claims(g, q) /\ q # r
  <2> SUFFICES ASSUME NEW g \in Handlers, NEW q \in Requests, Claims(g, q)'
               PROVE  Claims(g, q) /\ q # r
    OBVIOUS
  <2>1. CASE g = h
    BY <1>1, <2>1 DEF Claims, At, Claimed, Idle
  <2>2. CASE g # h
    <3>1. Claims(g, q)
      BY <1>1, <2>2 DEF Claims, At
    <3> QED
      BY <2>2, <3>1 DEF ClaimsHold
  <2> QED
    BY <2>1, <2>2
<1>15. ClaimsHold'
  <2>1. \A f, g \in Handlers, q \in Requests : Claims(f, q)' /\ Claims(g, q)' => f = g
    BY <1>14 DEF ClaimsHold
  <2>2. \A g \in Handlers, q \in Requests :
          Claims(g, q)' => Len(audit'[q]) = 0 /\ prop'[q].st \in {"applying", "rejected"}
    BY <1>4, <1>8, <1>14 DEF ClaimsHold
  <2>3. \A q \in Requests :
          prop'[q].st = "applying" => \E g \in Handlers : At(g, Claimed)' /\ handler'[g].target = q
    <3> SUFFICES ASSUME NEW q \in Requests, prop'[q].st = "applying"
                 PROVE  \E g \in Handlers : At(g, Claimed)' /\ handler'[g].target = q
      OBVIOUS
    <3>1. q # r /\ prop[q].st = "applying"
      BY <1>4, <1>5 DEF Final
    <3>2. PICK g \in Handlers : At(g, Claimed) /\ handler[g].target = q
      BY <3>1 DEF ClaimsHold
    <3>3. g # h
      BY <3>1, <3>2 DEF Claims, At, Claimed
    <3> QED
      BY <1>1, <3>2, <3>3 DEF At
  <2> QED
    BY <2>1, <2>2, <2>3 DEF ClaimsHold
<1>16. Knows'
  <2> SUFFICES ASSUME NEW g \in Handlers PROVE Knows!(g)'
    BY DEF Knows
  <2> Knows!(g)
    BY DEF Knows
  <2>1. CASE g = h
    <3>1. CASE v = Idle
      BY <1>1, <2>1, <3>1 DEF At, Idle
    <3>2. CASE At(h, {"finishAll"}) /\ v.pc = "finishAll" /\ v.todo = handler[h].todo \ {r}
      BY <1>1, <1>4, <2>1, <3>2, HandlerTypes DEF At
    <3> QED
      BY <3>1, <3>2
  <2>2. CASE g # h /\ handler[g].pc \in Claimed
    <3>1. handler[g].target \in Requests /\ handler[g].target # r
      BY <2>2, HandlerTypes DEF ClaimsHold, Claims, At, Claimed
    <3> QED
      BY <1>1, <1>4, <2>2, <3>1 DEF At, Claimed
  <2>3. CASE g # h /\ handler[g].pc = "finishAll"
    <3>1. \A q \in handler[g].todo : q \in Requests /\ q # r
      BY <2>3, HandlerTypes DEF ClaimsHold, Claims, At
    <3> QED
      BY <1>1, <1>4, <2>3, <3>1 DEF At
  <2>4. CASE g # h /\ handler[g].pc \notin Claimed \cup {"finishAll"}
    BY <1>1, <2>4 DEF At, Claimed
  <2> QED
    BY <2>1, <2>2, <2>3, <2>4
<1>17. Logged'
  <2>1. \A i \in DOMAIN decided : decided[i] \in Requests /\ Len(audit[decided[i]]) = 1
    BY DEF Logged, TypeOK
  <2>2. \A i \in DOMAIN decided : decided[i] # r
    <3> SUFFICES ASSUME NEW i \in DOMAIN decided, decided[i] = r
                 PROVE  FALSE
      OBVIOUS
    <3>1. Len(audit[r]) = 1
      BY <2>1
    <3>2. Len(audit[r]) = 0
      BY <1>7, Zenon
    <3> QED
      BY ONLY <3>1, <3>2
  <2>3. outcome \notin Undecided \cup {"pruned"}
    BY DEF Undecided, OnItsWay, Final
  <2>4. \A q \in Requests : prop'[q].st \in Undecided => Len(audit'[q]) = 0
    BY <1>4, <1>5, <1>8, <2>3 DEF Logged
  <2>5. \A q \in Requests : Len(audit'[q]) <= 1
    BY <1>8, <1>9 DEF Logged
  <2>6. \A q \in Requests : prop'[q].st = "pruned" => Len(audit'[q]) = 1
    BY <1>4, <1>8, <1>9, ZenonT(60) DEF Logged
  <2>7. ASSUME NEW i \in DOMAIN decided' PROVE Len(audit'[decided'[i]]) = 1 /\ audit'[decided'[i]][1] = prop'[decided'[i]].st
    <3>1. CASE i = Len(decided) + 1
      BY <1>5, <1>9, <1>12, <3>1
    <3>2. CASE i \in 1 .. Len(decided)
      BY <1>4, <1>8, <1>12, <2>1, <2>2, <3>2 DEF Logged
    <3> QED
      BY <1>12, <3>1, <3>2
  <2>8. \A i, j \in DOMAIN decided' : decided'[i] = decided'[j] => i = j
    <3> SUFFICES ASSUME NEW i \in DOMAIN decided', NEW j \in DOMAIN decided', decided'[i] = decided'[j]
                 PROVE  i = j
      OBVIOUS
    <3>1. i \in 1 .. Len(decided) \/ i = Len(decided) + 1
      BY <1>12
    <3>2. j \in 1 .. Len(decided) \/ j = Len(decided) + 1
      BY <1>12
    <3> QED
      BY <1>12, <2>2, <3>1, <3>2 DEF Logged
  <2> QED
    BY <2>4, <2>5, <2>6, <2>7, <2>8 DEF Logged
<1>18. CheckStands'
  <2> SUFFICES ASSUME NEW g \in Handlers, At(g, {"approve"})' PROVE CheckStands!(g)!2'
    BY DEF CheckStands
  <2>1. At(g, {"approve"}) /\ handler'[g] = handler[g]
    BY <1>1 DEF At, Idle
  <2>2. handler[g].target \in Requests
    BY <2>1, HandlerTypes DEF At
  <2>3. \A q \in Handlers : At(q, {"rejectAll"}) => At(q, {"rejectAll"})'
    BY <1>1 DEF At, Claimed
  <2>4. outcome \notin OnItsWay \cup {"refused", "pending"}
    BY DEF OnItsWay, Final
  <2>5. CheckStands!(g)!2
    BY <2>1 DEF CheckStands
  <2>6. handler'[g].target = handler[g].target
    BY <2>1
  <2>7. CASE handler[g].target = r
    BY <1>5, <2>4, <2>6, <2>7
  <2>8. CASE handler[g].target # r
    <3>1. prop'[handler[g].target] = prop[handler[g].target]
      BY <1>4, <2>2, <2>8
    <3> QED
      BY <1>4, <2>3, <2>5, <2>6, <3>1
  <2> QED
    BY <2>7, <2>8
<1>19. ToldTheTruth'
  <2>1. applied[r] \in Nat /\ applied[r] <= 1
    BY DEF TypeOK, ToldTheTruth
  <2>2. applied[r] = 1 => outcome \in {"applied", "failed"}
    BY DEF Final
  <2> QED
    BY <1>4, <1>5, <2>1, <2>2 DEF ToldTheTruth
<1> QED
  BY <1>13, <1>15, <1>16, <1>17, <1>18, <1>19 DEF Inv

LEMMA FinishInv ==
  ASSUME Inv, NEW h \in Handlers, Finish(h) \/ \E r \in Requests : FinishOne(h, r)
  PROVE  Inv'
<1> TypeOK /\ Knows
  BY DEF Inv
<1>1. CASE Finish(h)
  <2> DEFINE r == handler[h].target
             outcome == handler[h].outcome
  <2>1. handler[h].pc = "finish" /\ r \in Requests /\ outcome \in Final
    BY <1>1, HandlerTypes DEF Finish, At, Finishing
  <2>2. /\ Settle(r, outcome) /\ UNCHANGED <<object, writes, applied>> /\ Goto(h, Idle)
    BY <1>1 DEF Finish
  <2>3. Claims(h, r) /\ At(h, Claimed)
    BY <2>1 DEF Claims, At, Claimed
  <2>4. /\ outcome # "expired"
        /\ outcome = "applied" => applied[r] = 1
        /\ outcome \in {"rejected", "stale"} => applied[r] = 0
    BY <2>1 DEF Knows, At
  <2>5. Idle \in Doings
    BY DEF Doings
  <2> HIDE DEF r, outcome
  <2> QED
    BY <2>1, <2>2, <2>3, <2>4, <2>5, SettleInv
<1>2. ASSUME NEW r \in Requests, FinishOne(h, r)
      PROVE  Inv'
  <2> DEFINE v == [handler[h] EXCEPT !.todo = @ \ {r}]
  <2>1. handler[h].pc = "finishAll" /\ r \in handler[h].todo /\ prop[r].st = "rejected"
    BY <1>2 DEF FinishOne, At, Knows
  <2>2. handler[h] \in [pc : {"finishAll"}, todo : SUBSET Requests]
    BY <2>1, HandlerTypes DEF At, Saving
  <2>3. v \in Doings /\ v.pc = "finishAll" /\ v.todo = handler[h].todo \ {r}
    BY <2>2 DEF Doings, Saving
  <2>4. /\ Settle(r, "rejected") /\ UNCHANGED <<object, writes, applied>> /\ Goto(h, v)
    BY <1>2 DEF FinishOne
  <2>5. applied[r] = 0
    <3>1. applied[r] \in Nat /\ applied[r] <= 1 /\ applied[r] # 1
      BY <2>1 DEF Inv, ToldTheTruth, TypeOK
    <3> QED
      BY <3>1
  <2>6. Claims(h, r) /\ At(h, {"finishAll"}) /\ "rejected" \in Final
    BY <2>1 DEF Claims, At, Final
  <2> HIDE DEF v
  <2> QED
    BY <2>3, <2>4, <2>5, <2>6, SettleInv
<1> QED
  BY <1>1, <1>2

-----------------------------------------------------------------------------
(* The theorems *)

LEMMA NextInv == Inv /\ [Next]_vars => Inv'
<1> SUFFICES ASSUME Inv, [Next]_vars PROVE Inv'
  OBVIOUS
<1>1. ASSUME NEW r \in Requests, Count(r) \/ Request(r) \/ TimePasses(r) PROVE Inv'
  BY <1>1, CountInv, InsertInv, RequestStepInv DEF Request
<1>2. ASSUME NEW S \in SUBSET Requests, Look(S) PROVE Inv'
  <2>1. handler' \in [Handlers -> {Idle} \cup Deciding \cup Applying \cup Finishing \cup Saving]
    BY <1>2 DEF Look, Inv, TypeOK
  <2> QED
    BY <1>2, <2>1, ExpiryInv DEF Look
<1>3. ASSUME NEW h \in Handlers, Decide(h) \/ Approve(h) \/ SaveOff(h) PROVE Inv'
  <2>1. CASE Decide(h)
    BY <2>1, CheckInv, ClaimInv, FinishInv DEF Decide
  <2>2. CASE Approve(h)
    BY <2>2, ApproveMovesInv, PatchInv DEF Approve
  <2>3. CASE SaveOff(h)
    BY <2>3, RejectAllInv, FinishInv, SaveInv DEF SaveOff
  <2> QED
    BY <1>3, <2>1, <2>2, <2>3
<1>4. CASE \E h \in Handlers, r \in Requests : Check(h, r, "approve") \/ Check(h, r, "reject")
  BY <1>4, CheckInv
<1>5. CASE \E h \in Handlers, on \in BOOLEAN : Save(h, on)
  BY <1>5, SaveInv
<1>6. CASE Edit \/ StatusWrite
  BY <1>6, OthersInv
<1>7. CASE UNCHANGED vars
  BY <1>7 DEF vars, Inv, TypeOK, ClaimsHold, Claims, Knows, Logged, CheckStands, ToldTheTruth, At
<1>8. CASE \E r \in Requests : Look({r})
  BY <1>2, <1>8
<1>9. CASE Look(Requests)
  BY <1>2, <1>9
<1> QED
  BY <1>1, <1>3, <1>4, <1>5, <1>6, <1>7, <1>8, <1>9 DEF Next

LEMMA AlwaysInv == Spec => []Inv
<1> QED
  BY InitInv, NextInv, PTL DEF Spec

(* The proposals, what the handlers are doing, the decided list and the audit
   log are always what their types say. *)
THEOREM TypeCorrect == Spec => []TypeOK
<1>1. Inv => TypeOK
  BY DEF Inv
<1> QED
  BY <1>1, AlwaysInv, PTL

(* However approvals, rejections, the switch, expiry and lost answers
   interleave, a patch is written at most once, and only for a proposal whose
   user is told that it was or that it may have been. *)
THEOREM TellsTheTruth == Spec => []ToldTheTruth
<1>1. Inv => ToldTheTruth
  BY DEF Inv
<1> QED
  BY <1>1, AlwaysInv, PTL

(* However deciders race, one claims a proposal, and its decision is audited
   once, as what it was. *)
THEOREM DecidesOnce == Spec => []DecidedOnce
<1>1. Inv => OneClaim
  <2> SUFFICES ASSUME Inv PROVE OneClaim
    OBVIOUS
  <2> TypeOK /\ ClaimsHold /\ Knows
    BY DEF Inv
  <2>1. \A h \in Handlers : At(h, Claimed) => handler[h].target \in Requests /\ Claims(h, handler[h].target)
    BY HandlerTypes DEF At, Claimed, Claims
  <2>2. \A g, h \in Handlers :
          (At(g, Claimed) /\ At(h, Claimed) /\ handler[g].target = handler[h].target) => g = h
    BY <2>1 DEF ClaimsHold
  <2>3. \A h \in Handlers : At(h, Claimed) => prop[handler[h].target].st \in {"applying", "rejected"}
    BY <2>1 DEF ClaimsHold
  <2>4. \A r \in Requests :
          prop[r].st = "applying" => \E h \in Handlers : At(h, Claimed) /\ handler[h].target = r
    BY DEF ClaimsHold
  <2> QED
    BY <2>2, <2>3, <2>4 DEF OneClaim
<1>2. Inv => AuditedOnce
  <2> SUFFICES ASSUME Inv, NEW r \in Requests
               PROVE  /\ Len(audit[r]) <= 1
                      /\ Contains(decided, r) => audit[r] = <<prop[r].st>>
                      /\ prop[r].st = "pruned" => Len(audit[r]) = 1
    BY DEF AuditedOnce
  <2>1. audit[r] \in Seq(Final) /\ decided \in Seq(Requests)
    BY DEF Inv, TypeOK
  <2>2. ASSUME Contains(decided, r) PROVE audit[r] = <<prop[r].st>>
    <3>1. PICK i \in 1 .. Len(decided) : decided[i] = r
      BY <2>2 DEF Contains
    <3>2. Len(audit[r]) = 1 /\ audit[r][1] = prop[r].st
      BY <2>1, <3>1 DEF Inv, Logged
    <3>3. Len(<<prop[r].st>>) = 1 /\ <<prop[r].st>>[1] = prop[r].st /\ <<prop[r].st>> \in Seq({prop[r].st})
      OBVIOUS
    <3> QED
      BY <2>1, <3>2, <3>3, SeqEqual
  <2> QED
    BY <2>2 DEF Inv, Logged
<1> QED
  BY <1>1, <1>2, AlwaysInv, PTL DEF DecidedOnce

(* A patch is written only over the content its reviewer saw, however often
   the object was edited while the proposal waited or backed off. *)
THEOREM AppliesOnlyWhatWasReviewed == Spec => AppliesWhatWasReviewed
<1>1. Inv /\ [Next]_vars =>
        [\A r \in Requests : applied'[r] # applied[r] => object = prop[r].reviewed]_vars
  <2> SUFFICES ASSUME Inv, Next, NEW r \in Requests, applied'[r] # applied[r]
               PROVE  object = prop[r].reviewed
    OBVIOUS
  <2>1. PICK h \in Handlers : PatchApplied(h) \/ PatchUnanswered(h)
    BY DEF Next, Count, Request, Read, DryRun, GiveUp, Insert, TimePasses, Look, Check,
           Decide, ClaimRefused, ClaimApprove, ClaimReject, Finish,
           Approve, GetLive, CallFails, PatchConflict, BackoffOver, Cancelled,
           SaveOff, RejectAll, FinishOne, SaveReturns, Save, Edit, StatusWrite
  <2>2. At(h, {"patch"}) /\ handler[h].fresh
        /\ applied' = [applied EXCEPT ![handler[h].target] = @ + 1]
    BY <2>1 DEF PatchApplied, PatchUnanswered, Write
  <2>3. handler[h].target = r
    BY <2>2 DEF Inv, TypeOK
  <2> QED
    BY <2>2, <2>3 DEF Inv, Knows
<1> QED
  BY <1>1, AlwaysInv, PTL DEF Spec, AppliesWhatWasReviewed

(* Which steps set a proposal's status, and to what. *)
LEMMA StatusMoves ==
  ASSUME Inv, Next, NEW r \in Requests, prop'[r].st # prop[r].st
  PROVE  \/ prop[r].st \in OnItsWay
         \/ prop[r].st = "pending" /\ prop'[r].st = "expired"
         \/ prop[r].st = "pending" /\ prop'[r].st = "rejected"
         \/ /\ prop[r].st = "pending" /\ prop'[r].st = "applying"
            /\ \E h \in Handlers : At(h, {"approve"}) /\ handler[h].target = r
         \/ prop[r].st \in Final /\ prop'[r].st = "pruned"
         \/ prop[r].st = "applying" /\ prop'[r].st \in Final
<1> TypeOK
  BY DEF Inv
<1>1. \A q \in Requests : prop[q] \in Proposal
  BY DEF TypeOK
<1>2. ASSUME NEW S \in SUBSET Requests, prop' = Expired(S)
      PROVE  prop[r].st = "pending" /\ prop'[r].st = "expired"
  BY <1>1, <1>2 DEF Expired, Lapsed, Proposal
<1>3. ASSUME NEW q \in Requests, Count(q)
      PROVE  prop[r].st \in OnItsWay \/ (prop[r].st = "pending" /\ prop'[r].st = "expired")
  <2>1. prop[q].st = "new"
    BY <1>3 DEF Count
  <2>2. CASE q = r
    BY <2>1, <2>2 DEF OnItsWay
  <2>3. CASE q # r
    <3>1. prop'[r] = Expired(Requests)[r]
      BY <1>3, <2>3 DEF Count, Expired
    <3> QED
      BY <1>1, <3>1 DEF Expired, Lapsed, Proposal
  <2> QED
    BY <2>2, <2>3
<1>4. ASSUME NEW q \in Requests, Read(q) \/ DryRun(q) \/ GiveUp(q) PROVE prop[r].st \in OnItsWay
  <2>1. prop[q].st \in OnItsWay
    BY <1>4 DEF Read, DryRun, GiveUp, OnItsWay
  <2>2. \A p \in Requests : p # q => prop'[p] = prop[p]
    BY <1>4 DEF Read, DryRun, GiveUp, TypeOK
  <2> QED
    BY <2>1, <2>2
<1>5. ASSUME NEW q \in Requests, Insert(q)
      PROVE  prop[r].st \in OnItsWay \/ (prop[r].st \in Final /\ prop'[r].st = "pruned")
  <2>1. CASE r = q
    BY <1>5, <2>1 DEF Insert, OnItsWay
  <2>2. CASE r # q /\ r \in Forgotten
    <3>1. prop'[r] = [prop[r] EXCEPT !.st = "pruned"] /\ prop'[r].st = "pruned"
      BY <1>1, <1>5, <2>2 DEF Insert, Proposal
    <3>2. PICK i \in 1 .. Surplus : r = decided[i]
      BY <2>2 DEF Forgotten
    <3>3. i \in DOMAIN decided
      BY <3>2, LimitsNat DEF Surplus, TypeOK
    <3>4. Len(audit[r]) = 1 /\ audit[r][1] = prop[r].st /\ audit[r] \in Seq(Final)
      BY <3>2, <3>3 DEF Inv, Logged, TypeOK
    <3>5. prop[r].st \in Final
      BY <3>4
    <3> QED
      BY <3>1, <3>5
  <2>3. CASE r # q /\ r \notin Forgotten
    BY <1>5, <2>3 DEF Insert
  <2> QED
    BY <2>1, <2>2, <2>3
<1>6. ASSUME NEW q \in Requests, TimePasses(q) PROVE FALSE
  <2>1. prop[q] \in Proposal
    BY DEF TypeOK
  <2> QED
    BY <1>6, <2>1 DEF TimePasses, TypeOK, Proposal
<1>7. ASSUME NEW h \in Handlers, ClaimApprove(h)
      PROVE  /\ prop[r].st = "pending" /\ prop'[r].st = "applying"
             /\ At(h, {"approve"}) /\ handler[h].target = r
  <2>1. handler[h].target \in Requests /\ At(h, {"approve"})
    BY <1>7, HandlerTypes DEF ClaimApprove, At
  <2>2. prop[handler[h].target].st = "pending"
    BY <1>7 DEF ClaimApprove, Claimable
  <2>3. prop' = [prop EXCEPT ![handler[h].target].st = "applying"]
    BY <1>7 DEF ClaimApprove
  <2>4. handler[h].target = r
    BY <2>1, <2>3 DEF TypeOK
  <2> QED
    BY <1>1, <2>1, <2>2, <2>3, <2>4 DEF TypeOK, Proposal
<1>8. ASSUME NEW h \in Handlers, ClaimReject(h)
      PROVE  prop[r].st = "pending" /\ prop'[r].st = "rejected"
  <2>1. handler[h].target \in Requests
    BY <1>8, HandlerTypes DEF ClaimReject, At
  <2>2. prop[handler[h].target].st = "pending"
    BY <1>8 DEF ClaimReject, Claimable
  <2>3. prop' = [prop EXCEPT ![handler[h].target].st = "rejected"]
    BY <1>8 DEF ClaimReject
  <2>4. handler[h].target = r
    BY <2>1, <2>3 DEF TypeOK
  <2> QED
    BY <1>1, <2>1, <2>2, <2>3, <2>4 DEF TypeOK, Proposal
<1>9. ASSUME NEW h \in Handlers, RejectAll(h)
      PROVE  prop[r].st = "pending" /\ prop'[r].st \in {"expired", "rejected"}
  BY <1>1, <1>9 DEF RejectAll, Waiting, Expired, Lapsed, Proposal
<1>10. ASSUME NEW q \in Requests, NEW outcome \in Final, Settle(q, outcome),
              prop[q].st = "applying" \/ (prop[q].st = "rejected" /\ outcome = "rejected")
       PROVE  prop[r].st = "applying" /\ prop'[r].st \in Final
  <2>1. prop' = [prop EXCEPT ![q].st = outcome]
    BY <1>10 DEF Settle
  <2>2. q = r
    BY <2>1 DEF TypeOK
  <2> QED
    BY <1>1, <1>10, <2>1, <2>2 DEF TypeOK, Proposal
<1>11. ASSUME NEW h \in Handlers, Finish(h) PROVE prop[r].st = "applying" /\ prop'[r].st \in Final
  <2>1. handler[h].pc = "finish" /\ handler[h].target \in Requests /\ handler[h].outcome \in Final
    BY <1>11, HandlerTypes DEF Finish, At, Finishing
  <2>2. Claims(h, handler[h].target)
    BY <2>1 DEF Claims, At, Claimed
  <2>3. prop[handler[h].target].st \in {"applying", "rejected"}
    BY <2>1, <2>2 DEF Inv, ClaimsHold
  <2>4. handler[h].outcome = "rejected" <=> prop[handler[h].target].st = "rejected"
    BY <2>1 DEF Inv, Knows, At
  <2>5. Settle(handler[h].target, handler[h].outcome)
    BY <1>11 DEF Finish
  <2> QED
    BY <1>10, <2>1, <2>3, <2>4, <2>5
<1>12. ASSUME NEW h \in Handlers, NEW q \in Requests, FinishOne(h, q)
       PROVE  prop[r].st = "applying" /\ prop'[r].st \in Final
  <2>1. prop[q].st = "rejected" /\ Settle(q, "rejected")
    BY <1>12 DEF FinishOne, Inv, Knows
  <2> QED
    BY <1>10, <2>1 DEF Final
<1>13. ASSUME NEW h \in Handlers, ClaimRefused(h)
       PROVE  prop[r].st = "pending" /\ prop'[r].st = "expired"
  <2>1. {handler[h].target} \in SUBSET Requests
    BY <1>13, HandlerTypes DEF ClaimRefused, At
  <2> QED
    BY <1>2, <1>13, <2>1 DEF ClaimRefused
<1>14. ASSUME NEW S \in SUBSET Requests, Look(S)
       PROVE  prop[r].st = "pending" /\ prop'[r].st = "expired"
  BY <1>2, <1>14 DEF Look
<1>15. ASSUME NEW h \in Handlers, NEW q \in Requests, Check(h, q, "approve") \/ Check(h, q, "reject")
       PROVE  prop[r].st = "pending" /\ prop'[r].st = "expired"
  <2>1. prop' = Expired({q}) /\ {q} \in SUBSET Requests
    BY <1>15 DEF Check
  <2> QED
    BY <1>2, <2>1
<1>16. \A h \in Handlers : ~ Approve(h) /\ ~ SaveReturns(h)
  BY DEF Approve, GetLive, CallFails, PatchApplied, PatchUnanswered, PatchConflict,
         BackoffOver, Cancelled, SaveReturns
<1>17. ~ Edit /\ ~ StatusWrite /\ ~ \E h \in Handlers, on \in BOOLEAN : Save(h, on)
  BY DEF Edit, StatusWrite, Save
<1>18. ASSUME NEW q \in Requests, Count(q) \/ Request(q) \/ TimePasses(q) \/ Look({q})
       PROVE  \/ prop[r].st \in OnItsWay
              \/ prop[r].st = "pending" /\ prop'[r].st = "expired"
              \/ prop[r].st \in Final /\ prop'[r].st = "pruned"
  BY <1>3, <1>4, <1>5, <1>6, <1>14, <1>18 DEF Request
<1>19. ASSUME NEW h \in Handlers, Decide(h) \/ SaveOff(h)
       PROVE  \/ prop[r].st = "pending" /\ prop'[r].st \in {"expired", "rejected"}
              \/ /\ prop[r].st = "pending" /\ prop'[r].st = "applying"
                 /\ At(h, {"approve"}) /\ handler[h].target = r
              \/ prop[r].st = "applying" /\ prop'[r].st \in Final
  BY <1>7, <1>8, <1>9, <1>11, <1>12, <1>13, <1>16, <1>19 DEF Decide, SaveOff
<1>20. Look(Requests) => prop[r].st = "pending" /\ prop'[r].st = "expired"
  BY <1>14
<1> QED
  BY <1>15, <1>16, <1>17, <1>18, <1>19, <1>20 DEF Next

(* A decision stands: once final, a proposal keeps its status until the store
   forgets it. *)
THEOREM DecisionsDoStand == Spec => DecisionsStand
<1>1. Inv /\ [Next]_vars =>
        [\A r \in Requests :
           prop[r].st \in Final => prop'[r].st \in {prop[r].st, "pruned"}]_vars
  <2> SUFFICES ASSUME Inv, Next, NEW r \in Requests, prop[r].st \in Final, prop'[r].st # prop[r].st
               PROVE  prop'[r].st = "pruned"
    OBVIOUS
  <2> QED
    BY StatusMoves DEF Final, OnItsWay
<1> QED
  BY <1>1, AlwaysInv, PTL DEF Spec, DecisionsStand

(* Once proposals are off and the save that turned them off has run its
   RejectAll, no approval starts, though the switch is checked outside the lock. *)
THEOREM NoApprovalWhenOff == Spec => OffMeansNoApproval
<1>1. Inv /\ [Next]_vars =>
        [\A r \in Requests :
           (prop[r].st = "pending" /\ prop'[r].st = "applying") =>
             writes \/ \E h \in Handlers : At(h, {"rejectAll"})]_vars
  <2> SUFFICES ASSUME Inv, Next, NEW r \in Requests, prop[r].st = "pending", prop'[r].st = "applying"
               PROVE  writes \/ \E h \in Handlers : At(h, {"rejectAll"})
    OBVIOUS
  <2>1. PICK h \in Handlers : At(h, {"approve"}) /\ handler[h].target = r
    BY StatusMoves DEF OnItsWay, Final
  <2> QED
    BY <2>1 DEF Inv, CheckStands
<1> QED
  BY <1>1, AlwaysInv, PTL DEF Spec, OffMeansNoApproval

-----------------------------------------------------------------------------
(* RbacPage: what is kept of a save and of an answer *)

(* Removed APIs are told of where their query was answered and the version known. *)
Told(s) == ~s.warned /\ s.versioned

(* What a report had arrived of its cluster. *)
Enough(G) == Awaited \cup OnOpen \cup {"rbac"} \subseteq G

SavedFrom(s, G) ==
  /\ Enough(G)
  /\ s.found = Found(RowsOf(world[s.of], G), world[s.of], Told(s))
  /\ s.report = Report(s.found)

Kept ==
  /\ world \in Worlds /\ shown \in Clusters
  /\ failed => open /\ "apiversions" \notin got
  /\ failed \in BOOLEAN /\ \A s \in saved : s.of \in Clusters /\ \E G : SavedFrom(s, G)

(* What a question consists of. *)
QueryFields == {"verb", "group", "resource", "scoped", "ns"}

RbacInv ==
  /\ Kept
  /\ \A a \in answer : a.of \in Clusters /\ DOMAIN a.query = QueryFields

LEMMA KeptStep == Kept /\ [RbacNext]_rbacVars => Kept'
<1> SUFFICES ASSUME Kept, [RbacNext]_rbacVars PROVE Kept'
  OBVIOUS
<1>1. world' = world
  BY DEF RbacNext, rbacVars, Arrive, VersionsFail, Probed, Switch, Open, Close, SaveReport, Ask, AskElse
<1>2. shown' \in Clusters
  <2>1. CASE \E c \in Clusters : Switch(c)
    BY <2>1 DEF Switch
  <2>2. CASE ~\E c \in Clusters : Switch(c)
    BY <2>2 DEF Kept, RbacNext, rbacVars, Arrive, VersionsFail, Probed, Open, Close, SaveReport, Ask, AskElse
  <2> QED
    BY <2>1, <2>2
<1>5. failed' \in BOOLEAN /\ (failed' => open' /\ "apiversions" \notin got')
  <2>1. ASSUME NEW batch, Arrive(batch) PROVE failed' \in BOOLEAN /\ (failed' => open' /\ "apiversions" \notin got')
    BY <2>1 DEF Kept, Arrive
  <2>2. CASE VersionsFail
    BY <2>2 DEF VersionsFail
  <2>3. ASSUME NEW c, Switch(c) PROVE failed' = FALSE
    BY <2>3 DEF Switch
  <2>4. CASE Open
    BY <2>4 DEF Open, Kept
  <2>5. CASE Close
    BY <2>5 DEF Close
  <2>6. CASE UNCHANGED <<failed, open, got>>
    BY <2>6 DEF Kept
  <2>7. ASSUME NEW q, Ask(q) PROVE UNCHANGED <<failed, open, got>>
    BY <2>7 DEF Ask
  <2>8. Probed \/ SaveReport => UNCHANGED <<failed, open, got>>
    BY DEF Probed, SaveReport
  <2> QED
    BY <2>1, <2>2, <2>3, <2>4, <2>5, <2>6, <2>7, <2>8 DEF RbacNext, rbacVars, AskElse
<1>3. CASE SaveReport
  <2> DEFINE found == Found(Rows, world[shown], shown \in known /\ "apiversions" \in got)
             new == [of |-> shown, found |-> found, report |-> Report(found),
                     warned |-> failed, versioned |-> shown \in known]
  <2>1. saved' = {new} /\ got' = got
    BY <1>3 DEF SaveReport
  <2>5. Told(new) = (shown \in known /\ "apiversions" \in got)
    BY <1>3 DEF SaveReport, Gathering, Kept, Told
  <2>2. Enough(got)
    BY <1>3 DEF SaveReport, Gathering, Ready, Enough
  <2>3. /\ new.of = shown /\ new.found = Found(RowsOf(world[new.of], got), world[new.of], Told(new))
        /\ new.report = Report(new.found)
    BY <2>5 DEF Rows
  <2>4. \A s \in saved' : s.of \in Clusters /\ SavedFrom(s, got)'
    <3> HIDE DEF new
    <3> QED
      BY <1>1, <2>1, <2>2, <2>3 DEF SavedFrom, Kept
  <2> QED
    BY <1>1, <1>2, <1>5, <2>4 DEF Kept
<1>4. CASE ~SaveReport
  <2>1. saved' = saved
    BY <1>4 DEF RbacNext, rbacVars, Arrive, VersionsFail, Probed, Switch, Open, Close, Ask, AskElse
  <2> QED
    BY <1>1, <1>2, <1>5, <2>1 DEF Kept, SavedFrom
<1> QED
  BY <1>3, <1>4

LEMMA RbacInitInv == RbacInit => RbacInv
BY DEF RbacInit, RbacInv, Kept

LEMMA RbacNextInv == RbacInv /\ [RbacNext]_rbacVars => RbacInv'
<1> SUFFICES ASSUME RbacInv, [RbacNext]_rbacVars PROVE RbacInv'
  OBVIOUS
<1>1. Kept'
  BY KeptStep DEF RbacInv
<1>2. ASSUME NEW q, Ask(q), DOMAIN q = QueryFields
      PROVE  RbacInv'
  <2> DEFINE new == [of |-> shown, query |-> q, who |-> WhoCan(world[shown].rbac, q)]
  <2>1. answer' = {new} /\ new.of = shown /\ new.query = q
    BY <1>2 DEF Ask
  <2> HIDE DEF new
  <2> QED
    BY <1>1, <1>2, <2>1 DEF RbacInv, Kept
<1>3. CASE \E q \in Asked : Ask(q)
  BY <1>2, <1>3, AskedAreQueries DEF QueryFields
<1>4. CASE \E f \in Rows.findings : AskElse(f)
  <2>1. PICK f : Ask(FindingQuery(f))
    BY <1>4 DEF AskElse
  <2>2. DOMAIN FindingQuery(f) = QueryFields
    BY DEF FindingQuery, QueryFields
  <2> QED
    BY <1>2, <2>1, <2>2
<1>5. CASE ~\E q : Ask(q)
  <2>1. answer' = answer
    BY <1>5 DEF RbacNext, rbacVars, Arrive, VersionsFail, Probed, Switch, Open, Close, SaveReport, AskElse
  <2> QED
    BY <1>1, <2>1 DEF RbacInv
<1>6. CASE ~(\E q \in Asked : Ask(q)) /\ ~\E f \in Rows.findings : AskElse(f)
  <2>1. answer' = answer
    BY <1>6 DEF RbacNext, rbacVars, Arrive, VersionsFail, Probed, Switch, Open, Close, SaveReport
  <2> QED
    BY <1>1, <2>1 DEF RbacInv
<1> QED
  BY <1>3, <1>4, <1>6

-----------------------------------------------------------------------------
(* RbacPage: what a report was made of *)

LEMMA RowsAre ==
  ASSUME NEW w, NEW G, NEW s \in Streams
  PROVE  RowsOf(w, G)[s] = IF s \in G THEN w[s] ELSE {}
BY DEF RowsOf, Streams, Awaited, OfCrds, OnOpen

LEMMA RolesAre ==
  ASSUME NEW w, NEW G, "rbac" \in G
  PROVE  RowsOf(w, G).rbac = {w.rbac} /\ RowsOf(w, G).findings = Analyze(w.rbac, Accounts(w))
BY DEF RowsOf, Streams, Awaited, OfCrds, OnOpen

All == Streams \cup {"rbac"}

(* A report's rows are the cluster's, but for what it does not wait for. *)
LEMMA RowsOfSaved ==
  ASSUME NEW w, NEW G, Enough(G)
  PROVE  LET in == RowsOf(w, G)
             all == RowsOf(w, All)
         IN  /\ in.pods = w.pods /\ in.serviceaccounts = w.serviceaccounts
             /\ in.deployments = w.deployments /\ in.statefulsets = w.statefulsets
             /\ in.services = w.services /\ in.networkpolicies = w.networkpolicies
             /\ in.namespaces = w.namespaces /\ in.ingresses = w.ingresses
             /\ in.poddisruptionbudgets = w.poddisruptionbudgets
             /\ in.endpointslices = w.endpointslices
             /\ in.rbac = {w.rbac} /\ in.findings = Analyze(w.rbac, Accounts(w))
             /\ in.httproutes = IF "httproutes" \in G THEN w.httproutes ELSE {}
             /\ in.vulnreports = IF "vulnreports" \in G THEN w.vulnreports ELSE {}
             /\ all.httproutes = w.httproutes /\ all.vulnreports = w.vulnreports
BY RowsAre, RolesAre DEF Enough, All, Streams, Awaited, OfCrds, OnOpen

(* Detectors give the same of the same rows. *)
LEMMA SameCards ==
  ASSUME NEW in, NEW all,
         in.pods = all.pods, in.serviceaccounts = all.serviceaccounts,
         in.deployments = all.deployments, in.statefulsets = all.statefulsets,
         in.services = all.services, in.endpointslices = all.endpointslices,
         in.poddisruptionbudgets = all.poddisruptionbudgets
  PROVE  /\ SpofFindings(in) = SpofFindings(all)
         /\ SecretEnvFindings(in) = SecretEnvFindings(all)
         /\ AutomountFindings(in) = AutomountFindings(all)
<1> DEFINE env(pods) == {OfGroup(g, EnvOf(g)) : g \in Groups({p \in pods : p.env # {}})}
           tokens(pods, accounts) ==
             {OfGroup(g, {}) : g \in Groups({p \in pods : MountsDefault(p, accounts)})}
           workloads(ds, ss) == {<<"Deployment", w>> : w \in ds} \cup {<<"StatefulSet", w>> : w \in ss}
           pdb(ws, pdbs) == {Spof("no-pdb", w[1], w[2]) :
             w \in {w \in ws : w[2].replicas <= 1 /\ ~Covered(w[2], pdbs)}}
           spread(ws, pods) == {Spof("no-spread", w[1], w[2]) : w \in {w \in ws : Clustered(w[2], pods)}}
           single(svcs, slices) == {Spof("single-backend", "Service", s) :
             s \in {s \in svcs : ReadyBackends(s, slices) = 1}}
<1>1. \A x : SecretEnvFindings(x) = env(x.pods)
  BY DEF SecretEnvFindings
<1>2. \A x : AutomountFindings(x) = tokens(x.pods, x.serviceaccounts)
  BY DEF AutomountFindings
<1>3. \A x : SpofWorkloads(x) = workloads(x.deployments, x.statefulsets)
  BY DEF SpofWorkloads
<1>4. \A x : SpofFindings(x) = pdb(SpofWorkloads(x), x.poddisruptionbudgets)
               \cup spread(SpofWorkloads(x), x.pods) \cup single(x.services, x.endpointslices)
  BY DEF SpofFindings
<1> HIDE DEF env, tokens, workloads, pdb, spread, single
<1> QED
  BY <1>1, <1>2, <1>3, <1>4

(* A save waits for all that these detectors read, but for a query that failed and a
   version that is not known (SavedAsFound). *)
THEOREM SavesWhatIsThere == RbacSpec => []SavedAsFound
<1>1. ASSUME NEW w, NEW G, Enough(G), NEW told
      PROVE  /\ \A d \in {"rbac", "spof", "netpolGaps", "secretEnv", "automount"} :
                  Found(RowsOf(w, G), w, told)[d] = Found(RowsOf(w, All), w, TRUE)[d]
             /\ Found(RowsOf(w, G), w, told).upgrade =
                  IF told THEN Found(RowsOf(w, All), w, TRUE).upgrade ELSE {}
  <2> DEFINE in == RowsOf(w, G)
             all == RowsOf(w, All)
             roles(fs) == {f \in fs : ~IsSystemFinding(f)}
  <2>1. Enough(All)
    BY DEF Enough, All, Streams, Awaited, OfCrds, OnOpen
  <2>2. /\ in.pods = all.pods /\ in.serviceaccounts = all.serviceaccounts
        /\ in.deployments = all.deployments /\ in.statefulsets = all.statefulsets
        /\ in.services = all.services /\ in.endpointslices = all.endpointslices
        /\ in.poddisruptionbudgets = all.poddisruptionbudgets
        /\ in.networkpolicies = all.networkpolicies /\ in.findings = all.findings
    BY <1>1, <2>1, RowsOfSaved
  <2>3. \A x, t : Found(x, w, t).rbac = roles(x.findings)
    BY DEF Found
  <2>4. \A x, t : /\ Found(x, w, t).upgrade = IF t THEN UpgradeFindings(w.minor, w.served) ELSE {}
                  /\ Found(x, w, t).spof = SpofFindings(x)
                  /\ Found(x, w, t).netpolGaps = CoverageGaps(x.pods, x.networkpolicies)
                  /\ Found(x, w, t).secretEnv = SecretEnvFindings(x)
                  /\ Found(x, w, t).automount = AutomountFindings(x)
    BY DEF Found
  <2>5. /\ SpofFindings(in) = SpofFindings(all)
        /\ SecretEnvFindings(in) = SecretEnvFindings(all)
        /\ AutomountFindings(in) = AutomountFindings(all)
    <3> HIDE DEF in, all
    <3> QED
      BY <2>2, SameCards
  <2> HIDE DEF in, all, roles
  <2> DEFINE some == Found(in, w, told)
             whole == Found(all, w, TRUE)
  <2>6. /\ some.rbac = whole.rbac
        /\ some.spof = whole.spof /\ some.secretEnv = whole.secretEnv /\ some.automount = whole.automount
        /\ some.netpolGaps = whole.netpolGaps
    <3>1. some.rbac = whole.rbac
      <4>1. some.rbac = roles(in.findings) /\ whole.rbac = roles(all.findings)
        BY ONLY <2>3
      <4> QED
        BY ONLY <2>2, <4>1
    <3>2. some.spof = whole.spof
      BY ONLY <2>4, <2>5
    <3>3. some.secretEnv = whole.secretEnv
      BY ONLY <2>4, <2>5
    <3>4. some.automount = whole.automount
      BY ONLY <2>4, <2>5
    <3>5. some.netpolGaps = whole.netpolGaps
      <4>1. /\ some.netpolGaps = CoverageGaps(in.pods, in.networkpolicies)
            /\ whole.netpolGaps = CoverageGaps(all.pods, all.networkpolicies)
        BY ONLY <2>4
      <4> QED
        BY ONLY <2>2, <4>1
    <3> QED
      BY <3>1, <3>2, <3>3, <3>4, <3>5
  <2>7. some.upgrade = IF told THEN whole.upgrade ELSE {}
    BY <2>4
  <2> HIDE DEF some, whole
  <2>8. \A d \in {"rbac", "spof", "netpolGaps", "secretEnv", "automount"} : some[d] = whole[d]
    BY <2>6
  <2> QED
    BY <2>7, <2>8 DEF in, all, some, whole
<1>2. RbacInv => SavedAsFound
  <2> SUFFICES ASSUME RbacInv, NEW s \in saved
               PROVE  LET whole == Found(Truth(s.of), world[s.of], TRUE) IN
                      /\ \A d \in {"rbac", "spof", "netpolGaps", "secretEnv", "automount"} :
                           s.found[d] = whole[d]
                      /\ s.found.upgrade = IF s.warned \/ ~s.versioned THEN {} ELSE whole.upgrade
    BY DEF SavedAsFound
  <2>1. PICK G : SavedFrom(s, G)
    BY DEF RbacInv, Kept
  <2>2. Truth(s.of) = RowsOf(world[s.of], All)
    BY DEF Truth, All
  <2>3. s.found = Found(RowsOf(world[s.of], G), world[s.of], Told(s)) /\ Enough(G)
    BY <2>1 DEF SavedFrom
  <2>4. Told(s) <=> ~(s.warned \/ ~s.versioned)
    BY DEF Told
  <2> DEFINE whole == Found(Truth(s.of), world[s.of], TRUE)
  <2>5. /\ \A d \in {"rbac", "spof", "netpolGaps", "secretEnv", "automount"} : s.found[d] = whole[d]
        /\ s.found.upgrade = IF Told(s) THEN whole.upgrade ELSE {}
    <3> DEFINE w == world[s.of]
               told == Told(s)
               full == Found(RowsOf(w, All), w, TRUE)
    <3> HIDE DEF w, told
    <3>1. /\ \A d \in {"rbac", "spof", "netpolGaps", "secretEnv", "automount"} :
               Found(RowsOf(w, G), w, told)[d] = full[d]
          /\ Found(RowsOf(w, G), w, told).upgrade = IF told THEN full.upgrade ELSE {}
      BY <1>1, <2>3
    <3>2. s.found = Found(RowsOf(w, G), w, told) /\ whole = full
      BY <2>2, <2>3 DEF w, told
    <3> HIDE DEF full, whole
    <3> QED
      BY <3>1, <3>2 DEF told
  <2> HIDE DEF whole
  <2>6. s.found.upgrade = IF s.warned \/ ~s.versioned THEN {} ELSE whole.upgrade
    BY <2>4, <2>5
  <2> QED
    BY <2>5, <2>6 DEF whole
<1> QED
  BY <1>2, RbacInitInv, RbacNextInv, PTL DEF RbacSpec

-----------------------------------------------------------------------------
(* RbacPage: two evaluators of the same objects *)

(* A rule reads Secrets if it allows one of the verbs that do. *)
LEMMA ReadsIsAllowed ==
  ASSUME NEW rule, rule.resources = {} => rule.groups = {}
  PROVE  ReadsSecrets(rule) <=> \E v \in ReadVerbs : RuleAllows(rule, v, "", "secrets")
<1>1. BaseOf("secrets") = "secrets"
  BY DEF BaseOf
<1>2. ReadsSecrets(rule) => \E v \in ReadVerbs : RuleAllows(rule, v, "", "secrets")
  <2>1. CASE "*" \in rule.verbs
    BY <1>1, <2>1 DEF ReadsSecrets, RuleAllows, ReadVerbs
  <2>2. CASE "*" \notin rule.verbs
    BY <1>1, <2>2 DEF ReadsSecrets, RuleAllows, ReadVerbs
  <2> QED
    BY <2>1, <2>2
<1>3. ASSUME NEW v \in ReadVerbs, RuleAllows(rule, v, "", "secrets")
      PROVE  ReadsSecrets(rule)
  BY <1>1, <1>3 DEF ReadsSecrets, RuleAllows, ReadVerbs
<1> QED
  BY <1>2, <1>3

(* What a token gets of Secrets, as bindings. *)
Grants(b, account, rbac) ==
  /\ \E s \in b.subjects : IsMe(s, account, b.ns)
  /\ \E rule \in PageRulesOf(rbac, b) : ReadsSecrets(rule)

LEMMA ReachesByBindings ==
  ASSUME NEW account, NEW rbac, NEW ns
  PROVE  Reaches(account, rbac, ns) <=>
           \/ \E b \in rbac.clusterBindings : Grants(b, account, rbac)
           \/ \E b \in rbac.bindings : Grants(b, account, rbac) /\ ns \subseteq {b.ns}
<1> DEFINE mine(bs) == {b \in bs : \E s \in b.subjects : IsMe(s, account, b.ns)}
           reads(b) == {rule \in PageRulesOf(rbac, b) : ReadsSecrets(rule)}
           wide == \E b \in mine(rbac.clusterBindings) : reads(b) # {}
           given(rule, b) == IF rule.names = {} THEN {[ns |-> {b.ns}, name |-> {}]}
                             ELSE {[ns |-> {b.ns}, name |-> {n}] : n \in rule.names}
           some == UNION {UNION {given(rule, b) : rule \in reads(b)} : b \in mine(rbac.bindings)}
<1>1. SecretAccess(account, rbac) = IF wide THEN {Everywhere} ELSE some
  BY DEF SecretAccess
<1>2. wide <=> \E b \in rbac.clusterBindings : Grants(b, account, rbac)
  BY DEF Grants
<1>3. \A b : (\E rule \in reads(b) : TRUE) /\ b \in mine(rbac.bindings)
             <=> b \in rbac.bindings /\ Grants(b, account, rbac)
  BY DEF Grants
<1>4. ASSUME NEW rule, NEW b
      PROVE  given(rule, b) # {} /\ \A a \in given(rule, b) : a.ns = {b.ns}
  <2>1. CASE rule.names = {}
    BY <2>1
  <2>2. CASE rule.names # {}
    <3>1. PICK n \in rule.names : TRUE
      BY <2>2
    <3>2. [ns |-> {b.ns}, name |-> {n}] \in given(rule, b)
      BY <2>2
    <3> QED
      BY <2>2, <3>2
  <2> QED
    BY <2>1, <2>2
<1>5. \A a : a \in some <=> \E b \in mine(rbac.bindings) : \E rule \in reads(b) : a \in given(rule, b)
  OBVIOUS
<1> HIDE DEF mine, reads, given, wide, some
<1>6. CASE wide
  <2>1. Everywhere.ns = {}
    BY DEF Everywhere
  <2> QED
    BY <1>1, <1>2, <1>6, <2>1 DEF Reaches
<1>7. ASSUME ~wide
      PROVE  (\E a \in some : a.ns = {} \/ ns = {} \/ a.ns = ns)
               <=> \E b \in rbac.bindings : Grants(b, account, rbac) /\ ns \subseteq {b.ns}
  <2>1. ASSUME NEW a \in some, a.ns = {} \/ ns = {} \/ a.ns = ns
        PROVE  \E b \in rbac.bindings : Grants(b, account, rbac) /\ ns \subseteq {b.ns}
    <3>1. PICK b \in mine(rbac.bindings) : \E rule \in reads(b) : a \in given(rule, b)
      BY <1>5
    <3>2. a.ns = {b.ns}
      BY <1>4, <3>1
    <3>3. ns \subseteq {b.ns}
      BY <2>1, <3>2
    <3> QED
      BY <1>3, <3>1, <3>3
  <2>2. ASSUME NEW b \in rbac.bindings, Grants(b, account, rbac), ns \subseteq {b.ns}
        PROVE  \E a \in some : a.ns = {} \/ ns = {} \/ a.ns = ns
    <3>1. b \in mine(rbac.bindings) /\ \E rule \in reads(b) : TRUE
      BY <1>3, <2>2
    <3>2. PICK rule \in reads(b) : TRUE
      BY <3>1
    <3>3. PICK a \in given(rule, b) : TRUE
      BY <1>4
    <3>4. a \in some /\ a.ns = {b.ns}
      BY <1>4, <1>5, <3>1, <3>2, <3>3
    <3>5. ns = {} \/ ns = {b.ns}
      BY <2>2
    <3> QED
      BY <3>4, <3>5
  <2> QED
    BY <2>1, <2>2
<1> QED
  BY <1>1, <1>2, <1>6, <1>7 DEF Reaches

(* "Who can" and the attack paths agree on a cluster whose bindings say where their
   ServiceAccounts are. *)
LEMMA AnswersDoAgree ==
  ASSUME NEW w, IsCluster(w), SubjectsSayWhere(w.rbac), NEW q, DOMAIN q = QueryFields, OfSecrets(q),
         NEW account
  PROVE  Reaches(account, w.rbac, q.ns) <=>
           \E v \in ReadVerbs : \E s \in WhoCan(w.rbac, [q EXCEPT !.verb = v]) : IsMe(s, account, "")
<1> DEFINE rbac == w.rbac
           asked(v) == [q EXCEPT !.verb = v]
           allows(b, v) == \E rule \in PageRulesOf(rbac, b) : RuleAllows(rule, v, "", "secrets")
           all == rbac.clusterBindings \cup rbac.bindings
<1>1. \A v : /\ asked(v).verb = v /\ asked(v).group = "" /\ asked(v).resource = "secrets"
             /\ asked(v).scoped = q.scoped /\ asked(v).ns = q.ns /\ q.scoped
  BY DEF QueryFields, OfSecrets
<1>2. \A v : Considered(rbac, asked(v).scoped, asked(v).ns)
               = rbac.clusterBindings \cup {b \in rbac.bindings : q.ns \subseteq {b.ns}}
  BY <1>1 DEF Considered
<1>3. \A v, s : s \in WhoCan(rbac, asked(v)) <=>
        \E b \in rbac.clusterBindings \cup {b \in rbac.bindings : q.ns \subseteq {b.ns}} :
          s \in b.subjects /\ allows(b, v)
  <2> TAKE v, s
  <2> DEFINE x == asked(v)
             C == Considered(rbac, x.scoped, x.ns)
  <2>1. WhoCan(rbac, x) = UNION {b.subjects : b \in {c \in C :
          \E rule \in PageRulesOf(rbac, c) : RuleAllows(rule, x.verb, x.group, x.resource)}}
    BY DEF WhoCan
  <2>2. C = rbac.clusterBindings \cup {b \in rbac.bindings : q.ns \subseteq {b.ns}}
    BY <1>2
  <2>3. x.verb = v /\ x.group = "" /\ x.resource = "secrets"
    BY <1>1
  <2>4. \A b : allows(b, v) <=> \E rule \in PageRulesOf(rbac, b) : RuleAllows(rule, x.verb, x.group, x.resource)
    BY <2>3
  <2> HIDE DEF asked, rbac, x, C, allows
  <2>5. s \in WhoCan(rbac, x) <=> \E b \in C : s \in b.subjects /\ allows(b, v)
    BY <2>1, <2>4
  <2> QED
    BY <2>2, <2>5 DEF x
<1>4. ASSUME NEW b
      PROVE  (\E v \in ReadVerbs : allows(b, v)) <=> \E rule \in PageRulesOf(rbac, b) : ReadsSecrets(rule)
  <2>1. \A rule \in PageRulesOf(rbac, b) : rule.resources = {} => rule.groups = {}
    <3>1. \A r \in rbac.roles \cup rbac.clusterRoles : \A rule \in r.rules : rule.resources = {} => rule.groups = {}
      BY DEF IsCluster
    <3> HIDE DEF rbac
    <3>2. \A d : \A rule \in RulesOf(rbac, d) : \E r \in rbac.roles \cup rbac.clusterRoles : rule \in r.rules
      BY DEF RulesOf
    <3> QED
      BY <3>1, <3>2 DEF PageRulesOf
  <2> QED
    BY <2>1, ReadsIsAllowed
<1>5. ASSUME NEW b \in all, NEW s \in b.subjects
      PROVE  IsMe(s, account, b.ns) <=> IsMe(s, account, "")
  <2>1. b.ns = "" \/ (s.kind = "ServiceAccount" => s.ns # "")
    BY DEF IsCluster, SubjectsSayWhere
  <2> QED
    BY <2>1 DEF IsMe
<1> HIDE DEF asked, allows, rbac
<1>6. (\E v \in ReadVerbs : \E s \in WhoCan(rbac, asked(v)) : IsMe(s, account, ""))
        <=> \E b \in rbac.clusterBindings \cup {b \in rbac.bindings : q.ns \subseteq {b.ns}} :
              Grants(b, account, rbac)
  BY <1>3, <1>4, <1>5 DEF Grants
<1>7. Reaches(account, rbac, q.ns) <=>
        \E v \in ReadVerbs : \E s \in WhoCan(rbac, asked(v)) : IsMe(s, account, "")
  BY <1>6, ReachesByBindings
<1> QED
  BY <1>7 DEF rbac, asked

LEMMA AnswersAgreeInv == RbacInv => AnswersAgree
<1> SUFFICES ASSUME RbacInv, NEW a \in answer, OfSecrets(a.query),
                    SubjectsSayWhere(world[a.of].rbac), NEW account \in Accounts(world[a.of])
             PROVE  Reaches(account, world[a.of].rbac, a.query.ns) <=>
                      \E v \in ReadVerbs :
                        \E s \in WhoCan(world[a.of].rbac, [a.query EXCEPT !.verb = v]) : IsMe(s, account, "")
  BY DEF AnswersAgree
<1>1. DOMAIN a.query = QueryFields /\ IsCluster(world[a.of])
  BY WorldsAreClusters DEF RbacInv, Kept
<1> QED
  BY <1>1, AnswersDoAgree

-----------------------------------------------------------------------------
(* RbacPage: what NetworkPolicies say of an entry *)

Outcomes == {"open", "admits", "unknown", "restricted"}

LEMMA AdmissionType ==
  ASSUME NEW policy, NEW e, NEW in
  PROVE  Admission(policy, e, in) \in {"admits", "denies", "unknown"}
<1> DEFINE peers == UNION {r.peers : r \in UNION policy.ingress}
           from == Sources(e, in.pods)
           all == \E r \in UNION policy.ingress : r.peers = {}
           none == UNION policy.ingress = {}
           block == \E p \in peers : p.block # {}
           some == \E p \in peers, src \in from : PeerAdmitsPod(p, policy.ns, src, in)
<1>1. Admission(policy, e, in) =
        IF all THEN "admits"
        ELSE IF e.via \in {"LoadBalancer", "NodePort"} THEN IF block THEN "admits" ELSE "denies"
        ELSE IF from = {} THEN IF none THEN "denies" ELSE "unknown"
        ELSE IF some THEN "admits" ELSE "denies"
  BY DEF Admission
<1> HIDE DEF all, none, block, some, from
<1> QED
  BY <1>1

(* A denied entry has no source that a peer admits. *)
LEMMA DeniedHasNoPeer ==
  ASSUME NEW policy, NEW e, NEW in, e.via \in {"Ingress", "Gateway"},
         Admission(policy, e, in) = "denies", NEW src \in Sources(e, in.pods),
         NEW r \in UNION policy.ingress
  PROVE  r.peers # {} /\ \A p \in r.peers : ~PeerAdmitsPod(p, policy.ns, src, in)
<1> DEFINE peers == UNION {x.peers : x \in UNION policy.ingress}
           from == Sources(e, in.pods)
           all == \E x \in UNION policy.ingress : x.peers = {}
           none == UNION policy.ingress = {}
           block == \E p \in peers : p.block # {}
           some == \E p \in peers, x \in from : PeerAdmitsPod(p, policy.ns, x, in)
<1>1. Admission(policy, e, in) =
        IF all THEN "admits"
        ELSE IF e.via \in {"LoadBalancer", "NodePort"} THEN IF block THEN "admits" ELSE "denies"
        ELSE IF from = {} THEN IF none THEN "denies" ELSE "unknown"
        ELSE IF some THEN "admits" ELSE "denies"
  BY DEF Admission
<1>2. from # {} /\ e.via \notin {"LoadBalancer", "NodePort"}
  OBVIOUS
<1>3. ~all /\ ~some
  <2> HIDE DEF all, none, block, some, from
  <2> QED
    BY <1>1, <1>2
<1>4. \A p \in r.peers : p \in peers
  OBVIOUS
<1> QED
  BY <1>3, <1>4

(* The policies that select a pod for one evaluator do so for the other. *)
LEMMA SameSelection ==
  ASSUME NEW pod, NEW policies
  PROVE  SelectingPolicies(pod, policies) = Selecting("Ingress", pod, policies)
<1>1. \A p : ("Ingress" \in IF p.types = {} THEN {"Ingress"} ELSE p.types) <=> "Ingress" \in PolicyTypes(p)
  BY DEF PolicyTypes, Directions
<1> QED
  BY <1>1 DEF SelectingPolicies, Selecting

(* A namespace's labels are the same to both. *)
LEMMA SameLabels ==
  ASSUME NEW w, IsCluster(w), NEW pod \in w.pods, NEW in, in.namespaces = w.namespaces
  PROVE  NsLabels(pod.ns, in) = LabelsOfNs(pod.ns)
<1> DEFINE own == UNION {{n.labels} : n \in {n \in w.namespaces : n.name = pod.ns}}
           l == Namespaces[pod.ns]
<1>1. PICK n \in w.namespaces : n.name = pod.ns
  BY DEF IsCluster
<1>2. /\ pod.ns \in DOMAIN Namespaces
      /\ NameKey \in DOMAIN l => l[NameKey] = pod.ns
  BY <1>1 DEF IsCluster
<1>3. own = {l}
  BY <1>1 DEF IsCluster
<1>4. NsLabels(pod.ns, in) = [k \in DOMAIN l \cup {NameKey} |-> IF k \in DOMAIN l THEN l[k] ELSE pod.ns]
  BY <1>3 DEF NsLabels
<1>5. LabelsOfNs(pod.ns) = [k \in DOMAIN l \cup {NameKey} |-> IF k = NameKey THEN pod.ns ELSE l[k]]
  BY <1>2 DEF LabelsOfNs
<1>6. \A k \in DOMAIN l \cup {NameKey} :
        (IF k \in DOMAIN l THEN l[k] ELSE pod.ns) = (IF k = NameKey THEN pod.ns ELSE l[k])
  BY <1>2
<1> QED
  BY <1>4, <1>5, <1>6

(* What a peer lets through for the NetworkPolicy page it does for a path. *)
LEMMA PeersAdmit ==
  ASSUME NEW w, IsCluster(w), NEW pod \in w.pods, NEW in, in.namespaces = w.namespaces,
         NEW peer, NEW ns, PeerMatches(peer, ns, pod)
  PROVE  PeerAdmitsPod(peer, ns, pod, in)
<1>1. NsLabels(pod.ns, in) = LabelsOfNs(pod.ns)
  BY SameLabels
<1> QED
  BY <1>1 DEF PeerMatches, PeerAdmitsPod

(* A pod whose entries are all denied lets their sources through nowhere. *)
LEMMA ShutToSources ==
  ASSUME NEW w, IsCluster(w), NEW in, in.namespaces = w.namespaces, in.pods = w.pods,
         in.networkpolicies = w.networkpolicies, NEW pod, PodIsolation(pod, in) = "restricted",
         NEW e \in EntriesFor(pod, in), e.via \in {"Ingress", "Gateway"},
         NEW src \in Sources(e, w.pods)
  PROVE  ~Side("Ingress", src, pod, {}, w.networkpolicies).allowed
<1> DEFINE S == Selecting("Ingress", pod, w.networkpolicies)
           verdicts == {{Admission(p, x, in) : p \in S} : x \in EntriesFor(pod, in)}
           mine == {Admission(p, e, in) : p \in S}
<1>1. SelectingPolicies(pod, in.networkpolicies) = S
  BY SameSelection
<1>2. PodIsolation(pod, in) =
        IF S = {} THEN "open"
        ELSE IF \E v \in verdicts : "admits" \in v THEN "admits"
        ELSE IF \E v \in verdicts : "unknown" \in v THEN "unknown" ELSE "restricted"
  BY <1>1 DEF PodIsolation
<1>3. S # {} /\ \A v \in verdicts : "admits" \notin v /\ "unknown" \notin v
  <2> HIDE DEF S, verdicts
  <2> QED
    BY <1>2
<1>4. mine \in verdicts
  OBVIOUS
<1>5. \A p \in S : Admission(p, e, in) = "denies"
  <2> TAKE p \in S
  <2>1. Admission(p, e, in) \in mine
    OBVIOUS
  <2> QED
    <3>1. Admission(p, e, in) \in {"admits", "denies", "unknown"}
      BY AdmissionType
    <3> HIDE DEF mine, verdicts, S
    <3> QED
      BY <1>3, <1>4, <2>1, <3>1
<1>6. src \in w.pods
  BY DEF Sources, ControllerPods, GatewayPods
<1>7. ASSUME NEW p \in S, NEW r \in Rules(p, "Ingress")
      PROVE  ~Admits(r, p.ns, src, pod, {})
  <2>1. r \in UNION p.ingress
    BY DEF Rules
  <2>2. r.peers # {} /\ \A x \in r.peers : ~PeerAdmitsPod(x, p.ns, src, in)
    <3>1. Admission(p, e, in) = "denies" /\ src \in Sources(e, in.pods)
      BY <1>5
    <3> HIDE DEF S, verdicts, mine
    <3> QED
      BY <2>1, <3>1, DeniedHasNoPeer
  <2> QED
    BY <1>6, <2>2, PeersAdmit DEF Admits
<1>8. \A p \in S : Admitting("Ingress", p, src, pod, {}) = {}
  BY <1>7 DEF Admitting
<1> HIDE DEF S, mine, verdicts
<1> QED
  BY <1>3, <1>8 DEF Side, S

-----------------------------------------------------------------------------
(* RbacPage: the worst of several *)

LEMMA Ranks ==
  /\ Rank("open") = 1 /\ Rank("admits") = 2 /\ Rank("unknown") = 3 /\ Rank("restricted") = 4
  /\ \A i \in 1 .. 4 : IsolationOrder[i] \in Outcomes /\ Rank(IsolationOrder[i]) = i
<1>1. /\ DOMAIN IsolationOrder = 1 .. 4
      /\ IsolationOrder[1] = "open" /\ IsolationOrder[2] = "admits"
      /\ IsolationOrder[3] = "unknown" /\ IsolationOrder[4] = "restricted"
  BY DEF IsolationOrder
<1>2. \A i, j \in 1 .. 4 : IsolationOrder[i] = IsolationOrder[j] => i = j
  BY <1>1
<1>3. \A i \in 1 .. 4 : Rank(IsolationOrder[i]) = i
  BY <1>1, <1>2 DEF Rank
<1> QED
  BY <1>1, <1>3 DEF Outcomes

LEMMA LeastOfFour ==
  ASSUME NEW S \in SUBSET (1 .. 4), S # {}
  PROVE  Min(S) \in S /\ \A i \in S : Min(S) <= i
<1>1. \E x \in S : \A i \in S : x =< i
  <2>1. CASE 1 \in S
    BY <2>1
  <2>2. CASE 1 \notin S /\ 2 \in S
    BY <2>2
  <2>3. CASE 1 \notin S /\ 2 \notin S /\ 3 \in S
    BY <2>3
  <2>4. CASE 1 \notin S /\ 2 \notin S /\ 3 \notin S
    <3>1. PICK x \in S : TRUE
      OBVIOUS
    <3>2. \A i \in S : i \in 1 .. 4 /\ i # 1 /\ i # 2 /\ i # 3
      BY <2>4
    <3>3. \A i \in S : i = 4
      BY <3>2
    <3> QED
      BY <3>1, <3>3
  <2> QED
    BY <2>1, <2>2, <2>3, <2>4
<1> QED
  BY <1>1 DEF Min

LEMMA WorstIsLeast ==
  ASSUME NEW S \in SUBSET Outcomes, S # {}
  PROVE  Worst(S) \in S /\ \A o \in S : Rank(Worst(S)) <= Rank(o)
<1> DEFINE ranks == {Rank(o) : o \in S}
           m == Min(ranks)
<1>1. ranks \in SUBSET (1 .. 4) /\ ranks # {}
  <2>1. \A o \in S : Rank(o) \in 1 .. 4
    BY Ranks DEF Outcomes
  <2> QED
    BY <2>1
<1>2. m \in ranks /\ \A i \in ranks : m <= i
  BY <1>1, LeastOfFour
<1>3. PICK o \in S : Rank(o) = m
  BY <1>2
<1>4. IsolationOrder[m] = o
  <2>1. o \in Outcomes
    OBVIOUS
  <2>2. /\ IsolationOrder[1] = "open" /\ IsolationOrder[2] = "admits"
        /\ IsolationOrder[3] = "unknown" /\ IsolationOrder[4] = "restricted"
    BY DEF IsolationOrder
  <2> HIDE DEF m
  <2> QED
    BY <1>3, <2>1, <2>2, Ranks DEF Outcomes
<1>5. Worst(S) = IsolationOrder[m]
  BY DEF Worst
<1> QED
  BY <1>2, <1>3, <1>4, <1>5

LEMMA IsolationType ==
  ASSUME NEW pod, NEW in
  PROVE  PodIsolation(pod, in) \in Outcomes
BY DEF PodIsolation, Outcomes

-----------------------------------------------------------------------------
(* RbacPage: less arrived, less said *)

(* What has arrived of a cluster's rows: some may be missing of its routes and of its
   images' vulnerabilities. *)
Partly(in, all) ==
  /\ in.pods = all.pods /\ in.services = all.services /\ in.ingresses = all.ingresses
  /\ in.networkpolicies = all.networkpolicies /\ in.namespaces = all.namespaces
  /\ in.findings = all.findings /\ in.rbac = all.rbac
  /\ in.httproutes \subseteq all.httproutes /\ in.vulnreports \subseteq all.vulnreports

LEMMA SavedPartly ==
  ASSUME NEW w, NEW G, Enough(G)
  PROVE  Partly(RowsOf(w, G), RowsOf(w, All))
<1>1. Enough(All)
  BY DEF Enough, All, Streams, Awaited, OfCrds, OnOpen
<1> DEFINE in == RowsOf(w, G)
           all == RowsOf(w, All)
<1>2. /\ in.pods = all.pods /\ in.services = all.services /\ in.ingresses = all.ingresses
      /\ in.networkpolicies = all.networkpolicies /\ in.namespaces = all.namespaces
      /\ in.findings = all.findings /\ in.rbac = all.rbac
  <2> DEFINE same(x) == /\ x.pods = w.pods /\ x.services = w.services /\ x.ingresses = w.ingresses
                        /\ x.networkpolicies = w.networkpolicies /\ x.namespaces = w.namespaces
                        /\ x.findings = Analyze(w.rbac, Accounts(w)) /\ x.rbac = {w.rbac}
  <2>1. \A H : Enough(H) => same(RowsOf(w, H))
    BY RowsOfSaved
  <2>2. same(in) /\ same(all)
    BY <1>1, <2>1
  <2> HIDE DEF in, all
  <2> QED
    BY <2>2
<1>3. in.httproutes \subseteq all.httproutes /\ in.vulnreports \subseteq all.vulnreports
  BY RowsOfSaved
<1> HIDE DEF in, all
<1>4. Partly(in, all)
  BY <1>2, <1>3 DEF Partly
<1> QED
  BY <1>4 DEF in, all

LEMMA EntriesGrow ==
  ASSUME NEW pod, NEW in, NEW all, Partly(in, all)
  PROVE  /\ EntriesFor(pod, in) \subseteq EntriesFor(pod, all)
         /\ \A e \in EntriesFor(pod, all) :
              e.via # "Gateway" \/ in.httproutes = all.httproutes => e \in EntriesFor(pod, in)
         /\ \A e \in EntriesFor(pod, in) : e.via = "Gateway" => in.httproutes # {}
<1> DEFINE services(x) == {s \in x : s.selector # <<>> /\ s.ns = pod.ns /\ Matches(pod.labels, Having(s.selector))}
           names(x) == {s.name : s \in services(x)}
           direct(x) == {Entry(s.type, s.name, NoGateway) : s \in {s \in services(x) : s.type \in {"LoadBalancer", "NodePort"}}}
           ingress(x, y) == {Entry("Ingress", i.name, NoGateway) : i \in {i \in y : i.ns = pod.ns /\ i.backends \cap names(x) # {}}}
           of(r) == {Entry("Gateway", r.name, <<In(g, r.ns), g.name>>) : g \in {g \in r.parents : g.gateway}}
           here(r, x) == \E b \in r.backends : b.service /\ In(b, r.ns) = pod.ns /\ b.name \in names(x)
           gateway(x, z) == UNION {of(r) : r \in {r \in z : here(r, x)}}
<1>1. \A x : EntriesFor(pod, x) =
        direct(x.services) \cup ingress(x.services, x.ingresses) \cup gateway(x.services, x.httproutes)
  BY DEF EntriesFor, ServicesOf
<1>2. \A x, e : e \in direct(x) => e.via # "Gateway"
  BY DEF Entry
<1>3. \A x, y, e : e \in ingress(x, y) => e.via # "Gateway"
  BY DEF Entry
<1>4. \A x, z, e : e \in gateway(x, z) <=> \E r \in z : here(r, x) /\ e \in of(r)
  OBVIOUS
<1>5. \A r, e : e \in of(r) => e.via = "Gateway"
  BY DEF Entry
<1> HIDE DEF direct, ingress, gateway, of, here
<1> QED
  BY <1>1, <1>2, <1>3, <1>4, <1>5 DEF Partly

LEMMA SameAdmission ==
  ASSUME NEW policy, NEW e, NEW in, NEW all, Partly(in, all)
  PROVE  Admission(policy, e, in) = Admission(policy, e, all)
<1> DEFINE peers == UNION {r.peers : r \in UNION policy.ingress}
           from(x) == Sources(e, x.pods)
           every == \E r \in UNION policy.ingress : r.peers = {}
           none == UNION policy.ingress = {}
           block == \E p \in peers : p.block # {}
           some(x) == \E p \in peers, src \in from(x) : PeerAdmitsPod(p, policy.ns, src, x)
<1>1. \A x : Admission(policy, e, x) =
        IF every THEN "admits"
        ELSE IF e.via \in {"LoadBalancer", "NodePort"} THEN IF block THEN "admits" ELSE "denies"
        ELSE IF from(x) = {} THEN IF none THEN "denies" ELSE "unknown"
        ELSE IF some(x) THEN "admits" ELSE "denies"
  BY DEF Admission
<1>2. from(in) = from(all)
  BY DEF Partly
<1>3. \A ns : NsLabels(ns, in) = NsLabels(ns, all)
  BY DEF NsLabels, Partly
<1>4. \A p, ns, src : PeerAdmitsPod(p, ns, src, in) <=> PeerAdmitsPod(p, ns, src, all)
  BY <1>3 DEF PeerAdmitsPod
<1>5. some(in) <=> some(all)
  BY <1>2, <1>4
<1> HIDE DEF from, every, none, block, some
<1> QED
  BY <1>1, <1>2, <1>5

LEMMA IsolationShrinks ==
  ASSUME NEW pod, NEW in, NEW all, Partly(in, all)
  PROVE  Rank(PodIsolation(pod, all)) <= Rank(PodIsolation(pod, in))
<1> DEFINE S == SelectingPolicies(pod, all.networkpolicies)
           verdicts(x) == {{Admission(p, e, x) : p \in S} : e \in EntriesFor(pod, x)}
           admits(x) == \E v \in verdicts(x) : "admits" \in v
           unknown(x) == \E v \in verdicts(x) : "unknown" \in v
           outcome(x) == IF S = {} THEN "open" ELSE IF admits(x) THEN "admits"
                         ELSE IF unknown(x) THEN "unknown" ELSE "restricted"
<1>1. PodIsolation(pod, in) = outcome(in) /\ PodIsolation(pod, all) = outcome(all)
  BY DEF PodIsolation, Partly
<1>2. \A e : {Admission(p, e, in) : p \in S} = {Admission(p, e, all) : p \in S}
  BY SameAdmission
<1>3. verdicts(in) \subseteq verdicts(all)
  <2> DEFINE of(e, x) == {Admission(p, e, x) : p \in S}
  <2>1. \A v, x : v \in verdicts(x) <=> \E e \in EntriesFor(pod, x) : v = of(e, x)
    OBVIOUS
  <2>2. \A e : of(e, in) = of(e, all)
    BY <1>2
  <2> HIDE DEF of, verdicts
  <2> QED
    BY <2>1, <2>2, EntriesGrow
<1>4. (admits(in) => admits(all)) /\ (unknown(in) => unknown(all))
  BY <1>3
<1> HIDE DEF S, admits, unknown
<1> QED
  BY <1>1, <1>4, Ranks

-----------------------------------------------------------------------------
(* RbacPage: the parts of a path *)

PathPods(k, in) == {p \in in.pods : KeyOf(p) = k /\ EntriesFor(p, in) # {}}
PathEntries(k, in) == UNION {EntriesFor(p, in) : p \in PathPods(k, in)}
PathCves(k, in) == UNION {FindingsForPod(p, in.vulnreports) : p \in PathPods(k, in)}
PathPrivs(k, in) == Privileges(<<k[1], k[3]>>, PathPods(k, in), in)
PathEscapes(k, in) == UNION {p.escapes : p \in PathPods(k, in)}
PathSecrets(k, in) ==
  UNION {SecretAccess(<<k[1], k[3]>>, r) : r \in {r \in in.rbac : Mounted(PathPods(k, in))}}
Of(severity, cves) == {c \in cves : c.severity = severity}

Foothold(k, in) == Cardinality(Of("CRITICAL", PathCves(k, in))) + Cardinality(Of("HIGH", PathCves(k, in))) > 0
Payoff(k, in) == PathPrivs(k, in) # {} \/ PathEscapes(k, in) # {} \/ PathSecrets(k, in) # {}
Severe(k, in) ==
  PathEscapes(k, in) # {} \/ Everywhere \in PathSecrets(k, in) \/ \E p \in PathPrivs(k, in) : p.severity = "high"

LEMMA PathFields ==
  ASSUME NEW k, NEW in
  PROVE  LET p == Path(k, in) IN
         /\ p.key = k /\ p.entries = PathEntries(k, in)
         /\ p.isolation = Worst({PodIsolation(x, in) : x \in PathPods(k, in)})
         /\ p.listed = (Foothold(k, in) \/ Payoff(k, in))
         /\ p.complete = (Foothold(k, in) /\ Payoff(k, in))
         /\ p.score = Max({EntryWeight(e) : e \in PathEntries(k, in)})
                       + (IF Worst({PodIsolation(x, in) : x \in PathPods(k, in)}) = "restricted" THEN 0 ELSE 1)
                       + (IF Cardinality(Of("CRITICAL", PathCves(k, in))) > 0 THEN 3
                          ELSE IF Cardinality(Of("HIGH", PathCves(k, in))) > 0 THEN 2 ELSE 0)
                       + (IF Severe(k, in) THEN 3 ELSE IF Payoff(k, in) THEN 1 ELSE 0)
BY DEF Path, PathEntries, PathCves, PathPrivs, PathEscapes, PathSecrets, PathPods, Of, Foothold, Payoff, Severe

LEMMA ListedPaths ==
  ASSUME NEW in, NEW p
  PROVE  p \in FindAttackPaths(in) <=>
           \E k : PathPods(k, in) # {} /\ p = Path(k, in) /\ p.listed
<1> DEFINE keys == {KeyOf(x) : x \in {x \in in.pods : EntriesFor(x, in) # {}}}
<1>1. \A k : k \in keys <=> PathPods(k, in) # {}
  BY DEF PathPods
<1>2. FindAttackPaths(in) = {path \in {Path(k, in) : k \in keys} : path.listed}
  BY DEF FindAttackPaths
<1> HIDE DEF keys
<1> QED
  BY <1>1, <1>2

LEMMA KeyIsTriple ==
  ASSUME NEW k, NEW in, PathPods(k, in) # {}
  PROVE  \E ns, kind, name, account : k = <<ns, <<kind, name>>, account>>
<1>1. PICK x : k = KeyOf(x)
  BY DEF PathPods
<1>2. \E kind, name : WorkloadOf(x) = <<kind, name>>
  <2>1. \E kind, name : Owner(x) = <<kind, name>>
    BY DEF Owner
  <2> QED
    BY <2>1 DEF WorkloadOf
<1> QED
  BY <1>1, <1>2 DEF KeyOf

-----------------------------------------------------------------------------
(* RbacPage: a path of less is a weaker one *)

LEMMA EntriesWeigh ==
  ASSUME NEW E, NEW F, E # {}, E \subseteq F
  PROVE  LET e == Max({EntryWeight(x) : x \in E})
             f == Max({EntryWeight(x) : x \in F})
         IN  e \in Nat /\ f \in Nat /\ e <= f
<1>1. ASSUME NEW T \in SUBSET {1, 2}, T # {}
      PROVE  Max(T) \in T /\ \A i \in T : i <= Max(T)
  <2>1. \E x \in T : \A i \in T : x >= i
    <3>1. CASE 2 \in T
      BY <3>1
    <3>2. CASE 2 \notin T
      <4>1. \A i \in T : i = 1
        BY <3>2
      <4>2. PICK i \in T : TRUE
        BY <1>1
      <4>3. \A j \in T : i >= j
        BY <4>1
      <4> QED
        BY <4>3
    <3> QED
      BY <3>1, <3>2
  <2>2. Max(T) \in T /\ \A i \in T : Max(T) >= i
    BY <2>1 DEF Max
  <2>3. \A i \in T : i \in Nat
    OBVIOUS
  <2> QED
    BY <2>2, <2>3
<1> DEFINE W(S) == {EntryWeight(x) : x \in S}
<1>2. \A S : W(S) \in SUBSET {1, 2}
  BY DEF EntryWeight
<1>3. W(E) # {} /\ W(F) # {} /\ W(E) \subseteq W(F)
  OBVIOUS
<1> HIDE DEF W
<1>4. /\ Max(W(E)) \in W(E) /\ Max(W(F)) \in W(F)
      /\ \A i \in W(F) : i <= Max(W(F))
  BY <1>1, <1>2, <1>3
<1>5. Max(W(E)) \in Nat /\ Max(W(F)) \in Nat
  BY <1>2, <1>4
<1>6. Max(W(E)) \in Nat /\ Max(W(F)) \in Nat /\ Max(W(E)) <= Max(W(F))
  BY <1>3, <1>4, <1>5
<1> QED
  BY <1>6 DEF W

(* A pod's findings are finitely many. *)
LEMMA PodFindingsFinite ==
  ASSUME NEW pod, NEW reports, IsFiniteSet(reports), \A r \in reports : IsFiniteSet(r.vulns)
  PROVE  IsFiniteSet(FindingsForPod(pod, reports))
<1> DEFINE mine == {r \in reports : r.owner = Owner(pod) /\ r.ns = pod.ns /\ r.container \in pod.containers}
           lines(r) == {[container |-> r.container, id |-> v.id, severity |-> v.severity] : v \in r.vulns}
           family == {lines(r) : r \in mine}
<1>1. ASSUME NEW r \in mine
      PROVE  IsFiniteSet(lines(r))
  <2> DEFINE f == [v \in r.vulns |-> [container |-> r.container, id |-> v.id, severity |-> v.severity]]
  <2>1. f \in Surjection(r.vulns, lines(r))
    BY DEF Surjection
  <2>2. IsFiniteSet(r.vulns)
    OBVIOUS
  <2> QED
    BY <2>1, <2>2, FS_Surjection
<1>2. IsFiniteSet(mine)
  BY FS_Subset
<1>3. IsFiniteSet(family)
  <2> HIDE DEF mine, lines
  <2> DEFINE f == [r \in mine |-> lines(r)]
  <2>1. f \in Surjection(mine, family)
    BY DEF Surjection
  <2> QED
    BY <1>2, <2>1, FS_Surjection
<1>4. \A T \in family : IsFiniteSet(T)
  BY <1>1
<1>5. FindingsForPod(pod, reports) = UNION family
  BY DEF FindingsForPod
<1> HIDE DEF family
<1> QED
  BY <1>3, <1>4, <1>5, FS_UNION

LEMMA CvesFinite ==
  ASSUME NEW k, NEW in, IsFiniteSet(in.pods), IsFiniteSet(in.vulnreports),
         \A r \in in.vulnreports : IsFiniteSet(r.vulns)
  PROVE  IsFiniteSet(PathCves(k, in))
<1> DEFINE pods == PathPods(k, in)
           family == {FindingsForPod(p, in.vulnreports) : p \in pods}
<1>1. IsFiniteSet(pods)
  BY FS_Subset DEF PathPods
<1>2. IsFiniteSet(family)
  <2> DEFINE f == [p \in pods |-> FindingsForPod(p, in.vulnreports)]
  <2>1. f \in Surjection(pods, family)
    BY DEF Surjection
  <2> QED
    BY <1>1, <2>1, FS_Surjection
<1>3. \A T \in family : IsFiniteSet(T)
  BY PodFindingsFinite
<1>4. PathCves(k, in) = UNION family
  BY DEF PathCves
<1> HIDE DEF family
<1> QED
  BY <1>2, <1>3, <1>4, FS_UNION

(* Of finitely many findings, fewer are fewer of each severity. *)
LEMMA FewerOf ==
  ASSUME NEW C, NEW D, IsFiniteSet(D), C \subseteq D, NEW severity
  PROVE  LET c == Cardinality(Of(severity, C))
             d == Cardinality(Of(severity, D))
         IN  c \in Nat /\ d \in Nat /\ c <= d
<1>1. IsFiniteSet(Of(severity, D))
  BY FS_Subset DEF Of
<1>2. Of(severity, C) \in SUBSET Of(severity, D)
  BY DEF Of
<1>3. IsFiniteSet(Of(severity, C)) /\ Cardinality(Of(severity, C)) <= Cardinality(Of(severity, D))
  BY <1>1, <1>2, FS_Subset
<1> QED
  BY <1>1, <1>3, FS_CardinalityType

LEMMA PartsGrow ==
  ASSUME NEW k, NEW in, NEW all, Partly(in, all)
  PROVE  /\ PathPods(k, in) \subseteq PathPods(k, all)
         /\ PathEntries(k, in) \subseteq PathEntries(k, all)
         /\ PathCves(k, in) \subseteq PathCves(k, all)
         /\ PathPrivs(k, in) \subseteq PathPrivs(k, all)
         /\ PathEscapes(k, in) \subseteq PathEscapes(k, all)
         /\ PathSecrets(k, in) \subseteq PathSecrets(k, all)
<1>1. PathPods(k, in) \subseteq PathPods(k, all)
  BY EntriesGrow DEF PathPods, Partly
<1>2. PathEntries(k, in) \subseteq PathEntries(k, all)
  BY <1>1, EntriesGrow DEF PathEntries
<1>3. PathCves(k, in) \subseteq PathCves(k, all)
  <2>1. ASSUME NEW p
        PROVE  FindingsForPod(p, in.vulnreports) \subseteq FindingsForPod(p, all.vulnreports)
    BY DEF FindingsForPod, Partly
  <2> QED
    BY <1>1, <2>1 DEF PathCves
<1>4. Mounted(PathPods(k, in)) => Mounted(PathPods(k, all))
  BY <1>1 DEF Mounted
<1>5. PathPrivs(k, in) \subseteq PathPrivs(k, all)
  BY <1>4 DEF PathPrivs, Privileges, Partly
<1>6. PathEscapes(k, in) \subseteq PathEscapes(k, all)
  BY <1>1 DEF PathEscapes
<1>7. PathSecrets(k, in) \subseteq PathSecrets(k, all)
  BY <1>4 DEF PathSecrets, Partly
<1> QED
  BY <1>1, <1>2, <1>3, <1>5, <1>6, <1>7

(* A path of what has arrived is a path of all there is, no better connected and no
   worse than it is. *)
LEMMA PathGrows ==
  ASSUME NEW in, NEW all, Partly(in, all), IsFiniteSet(all.pods), IsFiniteSet(all.vulnreports),
         \A r \in all.vulnreports : IsFiniteSet(r.vulns), NEW p \in FindAttackPaths(in)
  PROVE  \E q \in FindAttackPaths(all) :
           /\ q.key = p.key /\ p.entries \subseteq q.entries
           /\ Rank(q.isolation) <= Rank(p.isolation) /\ p.score <= q.score
           /\ p.complete => q.complete
<1>1. PICK k : PathPods(k, in) # {} /\ p = Path(k, in) /\ p.listed
  BY ListedPaths
<1> DEFINE q == Path(k, all)
           critical(x) == Cardinality(Of("CRITICAL", PathCves(k, x)))
           high(x) == Cardinality(Of("HIGH", PathCves(k, x)))
           worst(x) == Worst({PodIsolation(y, x) : y \in PathPods(k, x)})
           weight(x) == Max({EntryWeight(e) : e \in PathEntries(k, x)})
<1>2. PathPods(k, all) # {}
  BY <1>1, PartsGrow
<1>3. /\ critical(in) \in Nat /\ critical(all) \in Nat /\ critical(in) <= critical(all)
      /\ high(in) \in Nat /\ high(all) \in Nat /\ high(in) <= high(all)
  <2>1. IsFiniteSet(PathCves(k, all))
    BY CvesFinite
  <2> QED
    BY <2>1, PartsGrow, FewerOf
<1>4. Rank(worst(all)) <= Rank(worst(in)) /\ worst(in) \in Outcomes /\ worst(all) \in Outcomes
  <2> DEFINE S(x) == {PodIsolation(y, x) : y \in PathPods(k, x)}
  <2>1. S(in) \in SUBSET Outcomes /\ S(in) # {} /\ S(all) \in SUBSET Outcomes /\ S(all) # {}
    BY <1>1, <1>2, IsolationType
  <2>2. \A o \in S(in) : \E o2 \in S(all) : Rank(o2) <= Rank(o)
    BY PartsGrow, IsolationShrinks
  <2> HIDE DEF S
  <2>3. /\ Worst(S(in)) \in S(in) /\ Worst(S(all)) \in S(all)
        /\ \A o \in S(all) : Rank(Worst(S(all))) <= Rank(o)
    BY <2>1, WorstIsLeast
  <2>4. \A o \in Outcomes : Rank(o) \in Nat
    BY Ranks DEF Outcomes
  <2>5. PICK o \in S(all) : Rank(o) <= Rank(Worst(S(in)))
    BY <2>2, <2>3
  <2>6. Rank(Worst(S(all))) <= Rank(Worst(S(in)))
    BY <2>1, <2>3, <2>4, <2>5
  <2>7. Worst(S(in)) \in Outcomes /\ Worst(S(all)) \in Outcomes
    BY <2>1, <2>3
  <2> QED
    BY <2>6, <2>7 DEF S
<1>5. /\ weight(in) \in Nat /\ weight(all) \in Nat /\ weight(in) <= weight(all)
  <2>1. PathEntries(k, in) # {}
    BY <1>1 DEF PathEntries, PathPods
  <2> QED
    BY <2>1, PartsGrow, EntriesWeigh
<1>6. /\ Foothold(k, in) => Foothold(k, all)
      /\ Payoff(k, in) => Payoff(k, all)
      /\ Severe(k, in) => Severe(k, all)
  <2>1. Foothold(k, in) => Foothold(k, all)
    <3> HIDE DEF critical, high
    <3>1. critical(in) + high(in) > 0 => critical(all) + high(all) > 0
      BY <1>3
    <3> QED
      BY <3>1 DEF critical, high, Foothold
  <2>2. Payoff(k, in) => Payoff(k, all)
    BY PartsGrow DEF Payoff
  <2>3. Severe(k, in) => Severe(k, all)
    BY PartsGrow DEF Severe
  <2> QED
    BY <2>1, <2>2, <2>3
<1>7. worst(all) = "restricted" => worst(in) = "restricted"
  <2> HIDE DEF worst
  <2> QED
    BY <1>4, Ranks DEF Outcomes
<1> DEFINE score(x) == weight(x) + (IF worst(x) = "restricted" THEN 0 ELSE 1)
                       + (IF critical(x) > 0 THEN 3 ELSE IF high(x) > 0 THEN 2 ELSE 0)
                       + (IF Severe(k, x) THEN 3 ELSE IF Payoff(k, x) THEN 1 ELSE 0)
<1>8. /\ p.key = k /\ p.entries = PathEntries(k, in) /\ p.isolation = worst(in)
      /\ p.listed = (Foothold(k, in) \/ Payoff(k, in)) /\ p.complete = (Foothold(k, in) /\ Payoff(k, in))
      /\ p.score = score(in)
  BY <1>1, PathFields
<1>9. /\ q.key = k /\ q.entries = PathEntries(k, all) /\ q.isolation = worst(all)
      /\ q.listed = (Foothold(k, all) \/ Payoff(k, all)) /\ q.complete = (Foothold(k, all) /\ Payoff(k, all))
      /\ q.score = score(all)
  BY PathFields
<1>10. q \in FindAttackPaths(all)
  <2>1. q.listed
    BY <1>1, <1>6, <1>8, <1>9
  <2> QED
    BY <1>2, <2>1, ListedPaths
<1> HIDE DEF q, critical, high, worst, weight
<1>11. score(in) <= score(all)
  BY <1>3, <1>5, <1>6, <1>7
<1> HIDE DEF score
<1>12. /\ q.key = p.key /\ p.entries \subseteq q.entries
       /\ Rank(q.isolation) <= Rank(p.isolation) /\ p.score <= q.score
       /\ p.complete => q.complete
  <2>1. p.entries \subseteq q.entries
    <3>1. PathEntries(k, in) \subseteq PathEntries(k, all)
      BY PartsGrow
    <3> QED
      BY <3>1, <1>8, <1>9
  <2>2. Rank(q.isolation) <= Rank(p.isolation) /\ p.score <= q.score /\ q.key = p.key
    BY <1>4, <1>8, <1>9, <1>11
  <2>3. p.complete => q.complete
    BY <1>6, <1>8, <1>9
  <2> QED
    BY <2>1, <2>2, <2>3
<1> QED
  BY <1>10, <1>12

HighLine(p) == Line("attack-path", TRUE, p.key[2][1], p.key[1], p.key[2][2])

(* A line about an attack path is of one. *)
LEMMA PathLines ==
  ASSUME NEW w, NEW in, NEW rbac, NEW accounts, in.findings = Analyze(rbac, accounts),
         NEW p \in FindAttackPaths(in),
         NEW told, HighLine(p) \in Report(Found(in, w, told))
  PROVE  \E r \in FindAttackPaths(in) : r.complete /\ r.key[1] = p.key[1] /\ r.key[2] = p.key[2]
<1> DEFINE f == Found(in, w, told)
           line == HighLine(p)
<1>1. f.attackPaths = FindAttackPaths(in) /\ f.rbac \subseteq in.findings /\ f.spof = SpofFindings(in)
  BY DEF Found
<1>2. \A rule, high, kind, ns, name : Line(rule, high, kind, ns, name).rule = rule
  BY DEF Line
<1>3. \A r \in f.rbac : r.title # "attack-path"
  <2>1. \A severity, title, hint : Risk(severity, title, hint).title = title
    BY DEF Risk
  <2>2. ASSUME NEW rule, NEW b, NEW admin, NEW r \in RisksOf(rule, b, admin)
        PROVE  r.title # "attack-path"
    <3> DEFINE secrets == <<"get", "", "secrets">>
               exec == <<"create", "", "pods/exec">>
               title == IF b /\ admin THEN "cluster-admin-binding" ELSE "cluster-admin-equivalent"
    <3>1. \/ r = Risk("high", title, NoHint)
          \/ r = Risk("high", "wildcard-verb", NoHint)
          \/ r = Risk("high", "wildcard-resource", NoHint)
          \/ r = Risk("medium", "wildcard-group", NoHint)
          \/ r = Risk("high", "escalation-verb", NoHint)
          \/ r = Risk("high", "cluster-secret-read", secrets)
          \/ r = Risk("high", "cluster-pod-exec", exec)
      BY DEF RisksOf
    <3>2. title # "attack-path"
      OBVIOUS
    <3> HIDE DEF secrets, exec, title
    <3> QED
      BY <2>1, <3>1, <3>2
  <2> QED
    BY <1>1, <2>2 DEF Analyze
<1>4. \A s \in f.spof : s.kind # "attack-path"
  BY <1>1 DEF SpofFindings, Spof
<1> HIDE DEF f
<1>5. PICK r \in f.attackPaths :
        line = Line("attack-path", r.complete, r.key[2][1], r.key[1], r.key[2][2])
  <2>1. line.rule = "attack-path"
    BY DEF Line, HighLine
  <2>2. line \in Report(f)
    BY DEF f
  <2>3. ASSUME NEW l \in Report(f)
        PROVE  \/ \E x \in f.attackPaths :
                    l = Line("attack-path", x.complete, x.key[2][1], x.key[1], x.key[2][2])
               \/ \E x \in f.rbac : l.rule = x.title
               \/ \E x \in f.spof : l.rule = x.kind
               \/ l.rule \in {"removed-api", "uncovered", "secret-env", "automount", "unenforced"}
    <3> DEFINE
          paths == {Line("attack-path", x.complete, x.key[2][1], x.key[1], x.key[2][2]) : x \in f.attackPaths}
          roles == {Line(x.title, x.severity = "high", x.subject.kind, x.subject.ns, x.subject.name) : x \in f.rbac}
          apis == {Line("removed-api", u.away <= 1, "", "", u.api) : u \in f.upgrade}
          points == {Line(x.kind, FALSE, x.of, x.ns, x.name) : x \in f.spof}
          gaps == {Line("uncovered", FALSE, "App", OfGroup(g, {}).ns, OfGroup(g, {}).app) : g \in f.netpolGaps}
          envs == {Line("secret-env", FALSE, "App", x.ns, x.app) : x \in f.secretEnv}
          tokens == {Line("automount", FALSE, "App", x.ns, x.app) : x \in f.automount}
          unsigned == {Line("unenforced", FALSE, "Namespace", "", n) : n \in f.unenforced}
    <3>1. Report(f) = paths \cup roles \cup apis \cup points \cup gaps \cup envs \cup tokens \cup unsigned
      BY DEF Report
    <3>2. \A x \in roles : \E y \in f.rbac : x.rule = y.title
      BY <1>2
    <3>3. \A x \in points : \E y \in f.spof : x.rule = y.kind
      BY DEF Line
    <3>4. /\ \A x \in apis : x.rule = "removed-api"
          /\ \A x \in gaps : x.rule = "uncovered"
          /\ \A x \in envs : x.rule = "secret-env"
          /\ \A x \in tokens : x.rule = "automount"
          /\ \A x \in unsigned : x.rule = "unenforced"
      <4>1. ASSUME NEW x \in apis
            PROVE  x.rule = "removed-api"
        <5>1. PICK u \in f.upgrade : x = Line("removed-api", u.away <= 1, "", "", u.api)
          OBVIOUS
        <5> QED
          BY <5>1 DEF Line
      <4>2. \A x \in gaps : x.rule = "uncovered"
        BY DEF Line
      <4>3. \A x \in envs : x.rule = "secret-env"
        BY DEF Line
      <4>4. \A x \in tokens : x.rule = "automount"
        BY DEF Line
      <4>5. ASSUME NEW x \in unsigned
            PROVE  x.rule = "unenforced"
        <5>1. PICK n \in f.unenforced : x = Line("unenforced", FALSE, "Namespace", "", n)
          OBVIOUS
        <5> QED
          BY <5>1 DEF Line
      <4> QED
        BY <4>1, <4>2, <4>3, <4>4, <4>5
    <3>5. \A x \in paths : \E y \in f.attackPaths :
            x = Line("attack-path", y.complete, y.key[2][1], y.key[1], y.key[2][2])
      OBVIOUS
    <3> HIDE DEF paths, roles, apis, points, gaps, envs, tokens, unsigned
    <3> QED
      BY <3>1, <3>2, <3>3, <3>4, <3>5
  <2> HIDE DEF line
  <2> QED
    BY <1>3, <1>4, <2>1, <2>2, <2>3
<1>6. r.complete
  <2>1. line.severity = "high"
    BY DEF Line, HighLine
  <2>2. Line("attack-path", r.complete, r.key[2][1], r.key[1], r.key[2][2]).severity
          = IF r.complete THEN "high" ELSE "medium"
    BY DEF Line
  <2> HIDE DEF line
  <2> QED
    BY <1>5, <2>1, <2>2
<1>7. <<r.key[2][1], r.key[1], r.key[2][2]>> = <<p.key[2][1], p.key[1], p.key[2][2]>>
  <2>1. line.resource = <<p.key[2][1], p.key[1], p.key[2][2]>>
    BY DEF Line, HighLine
  <2>2. Line("attack-path", r.complete, r.key[2][1], r.key[1], r.key[2][2]).resource
          = <<r.key[2][1], r.key[1], r.key[2][2]>>
    BY DEF Line
  <2> HIDE DEF line
  <2> QED
    BY <1>5, <2>1, <2>2
<1>8. \A x \in FindAttackPaths(in) : \E ns, kind, name, account : x.key = <<ns, <<kind, name>>, account>>
  <2> TAKE x \in FindAttackPaths(in)
  <2>1. PICK k : PathPods(k, in) # {} /\ x = Path(k, in)
    BY ListedPaths
  <2>2. x.key = k
    BY <2>1, PathFields
  <2> QED
    BY <2>1, <2>2, KeyIsTriple
<1> QED
  BY <1>1, <1>5, <1>6, <1>7, <1>8

LEMMA OverstatesNothing == RbacInv => NothingOverstated
<1> SUFFICES ASSUME RbacInv, NEW s \in saved, NEW p \in s.found.attackPaths
             PROVE  \E q \in FindAttackPaths(Truth(s.of)) :
                      /\ q.key = p.key /\ p.entries \subseteq q.entries
                      /\ Rank(q.isolation) <= Rank(p.isolation) /\ p.score <= q.score
                      /\ p.complete => q.complete
                      /\ HighLine(p) \in s.report =>
                           \E r \in s.found.attackPaths : r.complete /\ r.key[1] = p.key[1] /\ r.key[2] = p.key[2]
  BY DEF NothingOverstated, HighLine
<1> DEFINE w == world[s.of]
<1>1. PICK G : SavedFrom(s, G)
  BY DEF RbacInv, Kept
<1> DEFINE in == RowsOf(w, G)
           all == RowsOf(w, All)
<1>2. /\ Partly(in, all) /\ IsCluster(w) /\ Truth(s.of) = all
      /\ s.found = Found(in, w, Told(s)) /\ s.report = Report(Found(in, w, Told(s)))
  BY <1>1, SavedPartly, WorldsAreClusters DEF SavedFrom, RbacInv, Kept, Truth, All
<1>3. /\ in.findings = Analyze(w.rbac, Accounts(w)) /\ in.pods = w.pods /\ all.vulnreports = w.vulnreports
  BY <1>1, RowsOfSaved DEF SavedFrom
<1>4. s.found.attackPaths = FindAttackPaths(in)
  BY <1>2 DEF Found
<1>5. /\ IsFiniteSet(all.pods) /\ IsFiniteSet(all.vulnreports)
      /\ \A r \in all.vulnreports : IsFiniteSet(r.vulns)
  BY <1>2, <1>3 DEF Partly, IsCluster
<1> HIDE DEF in, all, w
<1>6. p \in FindAttackPaths(in)
  BY <1>4
<1>7. PICK q \in FindAttackPaths(all) :
        /\ q.key = p.key /\ p.entries \subseteq q.entries
        /\ Rank(q.isolation) <= Rank(p.isolation) /\ p.score <= q.score
        /\ p.complete => q.complete
  BY <1>2, <1>5, <1>6, PathGrows
<1>8. HighLine(p) \in s.report =>
        \E r \in s.found.attackPaths : r.complete /\ r.key[1] = p.key[1] /\ r.key[2] = p.key[2]
  BY <1>2, <1>3, <1>4, <1>6, PathLines
<1> QED
  BY <1>2, <1>7, <1>8

(* The pods of a path that is restricted are. *)
LEMMA AllRestricted ==
  ASSUME NEW k, NEW in, PathPods(k, in) # {}, NEW p, p = Path(k, in), p.isolation = "restricted"
  PROVE  /\ p.key = k /\ p.entries = PathEntries(k, in)
         /\ \A x \in PathPods(k, in) : PodIsolation(x, in) = "restricted"
<1> DEFINE S == {PodIsolation(x, in) : x \in PathPods(k, in)}
<1>1. p.key = k /\ p.entries = PathEntries(k, in) /\ p.isolation = Worst(S)
  BY DEF Path, PathPods, PathEntries
<1>2. S \in SUBSET Outcomes /\ S # {}
  BY IsolationType
<1>3. \A x \in PathPods(k, in) : PodIsolation(x, in) \in S
  OBVIOUS
<1> HIDE DEF S
<1>4. \A o \in S : Rank("restricted") <= Rank(o)
  BY <1>1, <1>2, WorstIsLeast
<1>5. \A o \in S : o = "restricted"
  BY <1>2, <1>4, Ranks DEF Outcomes
<1> QED
  BY <1>1, <1>3, <1>5

LEMMA RestrictedDoesShut == RbacInv => RestrictedIsShut
<1> SUFFICES ASSUME RbacInv, NEW s \in saved, NEW p \in s.found.attackPaths, p.isolation = "restricted",
                    NEW pod \in world[s.of].pods, KeyOf(pod) = p.key,
                    NEW e \in p.entries, e \in EntriesFor(pod, Truth(s.of)), e.via \in {"Ingress", "Gateway"},
                    NEW src \in Sources(e, world[s.of].pods)
             PROVE  ~Side("Ingress", src, pod, {}, world[s.of].networkpolicies).allowed
  BY DEF RestrictedIsShut
<1> DEFINE w == world[s.of]
<1>1. PICK G : SavedFrom(s, G)
  BY DEF RbacInv, Kept
<1> DEFINE in == RowsOf(w, G)
           all == RowsOf(w, All)
<1>2. /\ Partly(in, all) /\ IsCluster(w) /\ Truth(s.of) = all /\ s.found = Found(in, w, Told(s))
  BY <1>1, SavedPartly, WorldsAreClusters DEF SavedFrom, RbacInv, Kept, Truth, All
<1>3. /\ in.pods = w.pods /\ in.namespaces = w.namespaces /\ in.networkpolicies = w.networkpolicies
      /\ in.httproutes # {} => in.httproutes = all.httproutes
  BY <1>1, RowsOfSaved DEF SavedFrom
<1>4. s.found.attackPaths = FindAttackPaths(in)
  BY <1>2 DEF Found
<1> HIDE DEF in, all
<1>5. PICK k : PathPods(k, in) # {} /\ p = Path(k, in)
  BY <1>4, ListedPaths
<1>6. /\ p.key = k /\ p.entries = PathEntries(k, in)
      /\ \A x \in PathPods(k, in) : PodIsolation(x, in) = "restricted"
  BY <1>5, AllRestricted
<1>7. e \in EntriesFor(pod, in)
  <2>1. PICK x : e \in EntriesFor(x, in)
    BY <1>6 DEF PathEntries
  <2>2. e.via # "Gateway" \/ in.httproutes = all.httproutes
    BY <1>2, <1>3, <2>1, EntriesGrow
  <2> QED
    BY <1>2, <2>2, EntriesGrow
<1>8. pod \in PathPods(k, in)
  BY <1>3, <1>6, <1>7 DEF PathPods
<1>9. PodIsolation(pod, in) = "restricted"
  BY <1>6, <1>8
<1> QED
  BY <1>2, <1>3, <1>7, <1>9, ShutToSources

(* What a report says of attack paths is at least as bad on the cluster
   (NothingOverstated). *)
THEOREM ReportsUnderstate == RbacSpec => []NothingOverstated
BY OverstatesNothing, RbacInitInv, RbacNextInv, PTL DEF RbacSpec

(* A path said to be restricted is denied by the evaluator of the NetworkPolicy page,
   and "Who can" names who the paths say can read Secrets (EvaluatorsAgree). *)
THEOREM EvaluatorsDoAgree == RbacSpec => []EvaluatorsAgree
<1>1. RbacInv => EvaluatorsAgree
  BY RestrictedDoesShut, AnswersAgreeInv DEF EvaluatorsAgree
<1> QED
  BY <1>1, RbacInitInv, RbacNextInv, PTL DEF RbacSpec

-----------------------------------------------------------------------------
(* RbacPage: the cards *)

(* What a group is: pods of one namespace. *)
LEMMA GroupsAreOfOne ==
  ASSUME NEW pods, NEW g \in Groups(pods)
  PROVE  g # {} /\ g \subseteq pods /\ \A x, y \in g : x.ns = y.ns
BY DEF Groups

(* The lists of what is unused and the findings of what is in use do not overlap
   (CardsAgree). *)
THEOREM CardsDoAgree == RbacSpec => []CardsAgree
<1>1. ASSUME NEW in, NEW u \in UnusedAccounts(in), NEW p \in FindAttackPaths(in)
      PROVE  <<p.key[1], p.key[3]>> # u
  <2>1. PICK k : PathPods(k, in) # {} /\ p = Path(k, in)
    BY ListedPaths
  <2>2. PICK x \in in.pods : KeyOf(x) = k
    BY <2>1 DEF PathPods
  <2>3. p.key = k
    BY <2>1, PathFields
  <2>4. <<p.key[1], p.key[3]>> = <<x.ns, x.account>>
    BY <2>2, <2>3 DEF KeyOf
  <2>5. <<x.ns, x.account>> \in RunsAs(in)
    BY DEF RunsAs
  <2> QED
    BY <2>4, <2>5 DEF UnusedAccounts
<1>2. ASSUME NEW in, NEW o \in OrphanedSecrets(in), NEW f \in SecretEnvFindings(in), f.ns = o[1]
      PROVE  o[2] \notin f.secrets
  <2>1. PICK g \in Groups({p \in in.pods : p.env # {}}) : f = OfGroup(g, EnvOf(g))
    BY DEF SecretEnvFindings
  <2>2. /\ g # {} /\ g \subseteq in.pods /\ \A x, y \in g : x.ns = y.ns
    BY GroupsAreOfOne
  <2>3. f.ns = (CHOOSE q \in g : TRUE).ns /\ f.secrets = EnvOf(g)
    BY <2>1 DEF OfGroup
  <2>4. \A x \in g : x.ns = f.ns
    BY <2>2, <2>3
  <2>5. ASSUME NEW x \in g, o[2] \in x.env
        PROVE  FALSE
    <3>1. <<x.ns, o[2]>> \in Referred(in)
      <4> DEFINE of(y) == {<<y.ns, n>> : n \in y.env \cup y.refs}
      <4>1. <<x.ns, o[2]>> \in of(x)
        BY <2>5
      <4>2. of(x) \in {of(y) : y \in in.pods}
        BY <2>2
      <4>3. UNION {of(y) : y \in in.pods} \subseteq Referred(in)
        BY DEF Referred
      <4> HIDE DEF of
      <4> QED
        BY <4>1, <4>2, <4>3
    <3>2. o = <<o[1], o[2]>> /\ o \notin Referred(in)
      BY DEF OrphanedSecrets
    <3> QED
      BY <1>2, <2>4, <3>1, <3>2
  <2> QED
    BY <2>3, <2>5 DEF EnvOf
<1>3. CardsAgree
  BY <1>1, <1>2 DEF CardsAgree
<1> QED
  BY <1>3, PTL
==============================================================================
