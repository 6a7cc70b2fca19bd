----------------------------- MODULE Proposals -----------------------------
(***************************************************************************)
(* Change proposals of the MCP server (engine/internal/mcp/proposals), the *)
(* HTTP handlers that decide them (httpapi/mcp.go) and the object they     *)
(* patch.  An assistant's propose_change request counts, reads, dry-runs   *)
(* and inserts; a person approves or rejects; saving the settings with     *)
(* proposals off rejects whatever waits; time expires the rest.  The store *)
(* holds its lock for one map operation at a time, so all of these         *)
(* interleave with each other and with other writers of the object.        *)
(*                                                                         *)
(* A request makes at most one proposal, so a proposal is named by its     *)
(* request.  One object stands for the objects of a cluster: proposals to  *)
(* different objects share nothing but the store.  resourceVersions are    *)
(* only compared for equality, so a handler keeps whether the object was   *)
(* written since it read it (`fresh`) instead of a number.                 *)
(***************************************************************************)
EXTENDS Naturals, SequencesExt

CONSTANTS
  Requests,       \* propose_change calls
  Handlers,       \* HTTP requests deciding proposals or saving the switch
  Fields, Values, \* the object's content: a value for each field
  MaxPending,     \* 20 in the code
  KeepDecided,    \* 50
  ApplyAttempts   \* 5

ASSUME ApplyAttemptsPos == ApplyAttempts \in Nat \ {0}
ASSUME LimitsNat        == MaxPending \in Nat /\ KeepDecided \in Nat
ASSUME RequestsFinite   == IsFiniteSet(Requests)

VARIABLES
  prop,     \* the proposals, and the requests on their way to one
  decided,  \* proposals with a Decided time, oldest first
  handler,  \* what each handler is doing
  object,   \* the live object's content
  writes,   \* MCP is on and assistants may propose (conf.Enabled /\ conf.Writes)
  audit,    \* the decisions audited for each proposal, in order
  applied   \* history: how often a proposal's patch was written

vars == <<prop, decided, handler, object, writes, audit, applied>>

Content == [Fields -> Values]
Patch   == [field : Fields, value : Values]

Patched(content, patch) == [content EXCEPT ![patch.field] = patch.value]

(* Before "pending" the request is on its way; "refused" ends it without a
   proposal; "pruned" is a finished proposal the store forgot. *)
OnItsWay == {"new", "counted", "read", "dryRun"}
Final    == {"applied", "rejected", "expired", "stale", "failed"}
Status   == OnItsWay \cup {"refused", "pending", "applying", "pruned"} \cup Final

Proposal == [st : Status, patch : Patch, reviewed : Content, shown : Content,
             overdue : BOOLEAN]

(* What a handler may be doing; "finish" has claimed its proposal and knows
   how it ends. *)
Idle      == [pc |-> "idle"]
Deciding  == [pc : {"approve", "reject"}, target : Requests]
Applying  == [pc : {"get", "patch", "backoff"}, target : Requests,
              attempt : 1 .. ApplyAttempts, fresh : BOOLEAN]
Finishing == [pc : {"finish"}, target : Requests, outcome : Final]
Saving    == [pc : {"rejectAll"}] \cup [pc : {"finishAll"}, todo : SUBSET Requests]

Init ==
  /\ \E c \in Content, patch \in [Requests -> Patch] :
       /\ object = c
       /\ prop = [r \in Requests |->
                    [st |-> "new", patch |-> patch[r], reviewed |-> c, shown |-> c,
                     overdue |-> FALSE]]
  /\ decided = <<>>
  /\ handler = [h \in Handlers |-> Idle]
  /\ writes \in BOOLEAN
  /\ audit = [r \in Requests |-> <<>>]
  /\ applied = [r \in Requests |-> 0]

-----------------------------------------------------------------------------
(* Expiry.  expireLocked runs on every proposal the store looks at, under
   the lock, and audits what it expires. *)

Lapsed(r) == prop[r].st = "pending" /\ prop[r].overdue

(* The proposals of S expire if they are overdue.  Several found overdue in
   one look are decided in the map's iteration order. *)
Expired(S)  == [r \in Requests |->
                  IF r \in S /\ Lapsed(r) THEN [prop[r] EXCEPT !.st = "expired"] ELSE prop[r]]

ExpiryLogged(S) ==
  /\ audit' = [r \in Requests |->
                 IF r \in S /\ Lapsed(r) THEN Append(audit[r], "expired") ELSE audit[r]]
  /\ \E order \in SetToSeqs({r \in S : Lapsed(r)}) : decided' = decided \o order

(* The five minutes of a proposal are over. *)
TimePasses(r) ==
  /\ prop[r].st = "pending"
  /\ ~prop[r].overdue
  /\ prop' = [prop EXCEPT ![r].overdue = TRUE]
  /\ UNCHANGED <<decided, handler, object, writes, audit, applied>>

(* Recent and Pending, which the UI polls, and Get. *)
Look(S) ==
  /\ \E r \in S : Lapsed(r)
  /\ prop' = Expired(S)
  /\ ExpiryLogged(S)
  /\ UNCHANGED <<handler, object, writes, applied>>

-----------------------------------------------------------------------------
(* propose_change. *)

Waiting == {r \in Requests : prop[r].st = "pending" /\ ~prop[r].overdue}

(* Writes is checked, then the pending proposals are counted. *)
Count(r) ==
  /\ prop[r].st = "new"
  /\ writes
  /\ prop' = [Expired(Requests) EXCEPT
                ![r].st = IF Cardinality(Waiting) >= MaxPending THEN "refused" ELSE "counted"]
  /\ ExpiryLogged(Requests)
  /\ UNCHANGED <<handler, object, writes, applied>>

Read(r) ==
  /\ prop[r].st = "counted"
  /\ prop' = [prop EXCEPT ![r].st = "read", ![r].reviewed = object]
  /\ UNCHANGED <<decided, handler, object, writes, audit, applied>>

(* The dry run patches the object as it is by then; the diff is between the
   two, and a diff that is empty is refused. *)
DryRun(r) ==
  /\ prop[r].st = "read"
  /\ LET after == Patched(object, prop[r].patch) IN
       prop' = [prop EXCEPT ![r].shown = after,
                            ![r].st = IF after = prop[r].reviewed THEN "refused" ELSE "dryRun"]
  /\ UNCHANGED <<decided, handler, object, writes, audit, applied>>

(* The read or the dry run fails. *)
GiveUp(r) ==
  /\ prop[r].st \in {"counted", "read"}
  /\ prop' = [prop EXCEPT ![r].st = "refused"]
  /\ UNCHANGED <<decided, handler, object, writes, audit, applied>>

(* pruneLocked forgets the proposals decided first, past KeepDecided. *)
Surplus   == IF Len(decided) > KeepDecided THEN Len(decided) - KeepDecided ELSE 0
Forgotten == {decided[i] : i \in 1 .. Surplus}

Insert(r) ==
  /\ prop[r].st = "dryRun"
  /\ prop' = [q \in Requests |->
                IF q = r THEN [prop[q] EXCEPT !.st = "pending"]
                ELSE IF q \in Forgotten THEN [prop[q] EXCEPT !.st = "pruned"]
                ELSE prop[q]]
  /\ decided' = SubSeq(decided, Surplus + 1, Len(decided))
  /\ UNCHANGED <<handler, object, writes, audit, applied>>

-----------------------------------------------------------------------------
(* HandleApprove and HandleReject. *)

At(h, pcs)    == handler[h].pc \in pcs
Goto(h, what) == handler' = [handler EXCEPT ![h] = what]

(* The store knows the proposal. *)
Held(r) == prop[r].st \notin OnItsWay \cup {"refused", "pruned"}

(* Mutant: the switch counts when a change is proposed, not when it is
   approved. *)
Check_SwitchIgnored(h, r, what) ==
  /\ At(h, {"idle"})
  /\ Held(r)
  /\ Goto(h, [pc |-> what, target |-> r])
  /\ prop' = Expired({r})
  /\ ExpiryLogged({r})
  /\ UNCHANGED <<object, writes, applied>>

(* The proposal is known (Get, which expires it if it is overdue) and, to
   approve it, proposals are still on (inWriteScope). *)
Check(h, r, what) ==
  /\ At(h, {"idle"})
  /\ Held(r)
  /\ what = "approve" => writes
  /\ Goto(h, [pc |-> what, target |-> r])
  /\ prop' = Expired({r})
  /\ ExpiryLogged({r})
  /\ UNCHANGED <<object, writes, applied>>

(* claim: only a pending proposal that is not overdue is the handler's. *)
Claimable(r) == prop[r].st = "pending" /\ ~prop[r].overdue

ClaimRefused(h) ==
  /\ At(h, {"approve", "reject"})
  /\ ~Claimable(handler[h].target)
  /\ prop' = Expired({handler[h].target})
  /\ ExpiryLogged({handler[h].target})
  /\ Goto(h, Idle)
  /\ UNCHANGED <<object, writes, applied>>

ClaimApprove(h) ==
  LET r == handler[h].target IN
  /\ At(h, {"approve"})
  /\ Claimable(r)
  /\ prop' = [prop EXCEPT ![r].st = "applying"]
  /\ Goto(h, [pc |-> "get", target |-> r, attempt |-> 1, fresh |-> FALSE])
  /\ UNCHANGED <<decided, object, writes, audit, applied>>

EndsAs(h, outcome) == [pc |-> "finish", target |-> handler[h].target, outcome |-> outcome]

ClaimReject(h) ==
  LET r == handler[h].target IN
  /\ At(h, {"reject"})
  /\ Claimable(r)
  /\ prop' = [prop EXCEPT ![r].st = "rejected"]
  /\ Goto(h, EndsAs(h, "rejected"))
  /\ UNCHANGED <<decided, object, writes, audit, applied>>

(* finish sets Status and Decided under the lock; the audit record follows
   it outside.  Nothing happens to a finished proposal but forgetting it, so
   both are one step. *)
Settle(r, outcome) ==
  /\ prop' = [prop EXCEPT ![r].st = outcome]
  /\ decided' = Append(decided, r)
  /\ audit' = [audit EXCEPT ![r] = Append(@, outcome)]

Finish(h) ==
  /\ At(h, {"finish"})
  /\ Settle(handler[h].target, handler[h].outcome)
  /\ Goto(h, Idle)
  /\ UNCHANGED <<object, writes, applied>>

-----------------------------------------------------------------------------
(* Approve, from its claim on. *)

(* The object is read: content other than what was reviewed is stale. *)
GetLive(h) ==
  /\ At(h, {"get"})
  /\ IF object = prop[handler[h].target].reviewed
       THEN Goto(h, [handler[h] EXCEPT !.pc = "patch", !.fresh = TRUE])
       ELSE Goto(h, EndsAs(h, "stale"))
  /\ UNCHANGED <<prop, decided, object, writes, audit, applied>>

(* An error of the read, or of a patch that did not reach the object. *)
CallFails(h) ==
  /\ At(h, {"get", "patch"})
  /\ Goto(h, EndsAs(h, "failed"))
  /\ UNCHANGED <<prop, decided, object, writes, audit, applied>>

(* Every write of the object moves its resourceVersion past what the
   handlers read. *)
Outdated(f) == [h \in Handlers |->
                  IF f[h].pc \in {"patch", "backoff"} THEN [f[h] EXCEPT !.fresh = FALSE] ELSE f[h]]

(* Mutant: the patch is not pinned to the version read. *)
Write_Unpinned(h) ==
  /\ At(h, {"patch"})
  /\ object' = Patched(object, prop[handler[h].target].patch)
  /\ applied' = [applied EXCEPT ![handler[h].target] = @ + 1]

(* The API server writes the patch: the object is at the version read. *)
Write(h) ==
  /\ At(h, {"patch"})
  /\ handler[h].fresh
  /\ object' = Patched(object, prop[handler[h].target].patch)
  /\ applied' = [applied EXCEPT ![handler[h].target] = @ + 1]

PatchApplied(h) ==
  /\ Write(h)
  /\ handler' = Outdated([handler EXCEPT ![h] = EndsAs(h, "applied")])
  /\ UNCHANGED <<prop, decided, writes, audit>>

(* Mutant: an unanswered patch is tried again. *)
PatchUnanswered_Retried(h) ==
  /\ Write(h)
  /\ handler[h].attempt < ApplyAttempts
  /\ handler' = Outdated([handler EXCEPT ![h].pc = "backoff"])
  /\ UNCHANGED <<prop, decided, writes, audit>>

(* The patch is written and its answer lost: an error like any other. *)
PatchUnanswered(h) ==
  /\ Write(h)
  /\ handler' = Outdated([handler EXCEPT ![h] = EndsAs(h, "failed")])
  /\ UNCHANGED <<prop, decided, writes, audit>>

(* 409: the object was written since it was read.  Back off and read again,
   or give up after the last attempt. *)
PatchConflict(h) ==
  /\ At(h, {"patch"})
  /\ ~handler[h].fresh
  /\ IF handler[h].attempt < ApplyAttempts
       THEN Goto(h, [handler[h] EXCEPT !.pc = "backoff"])
       ELSE Goto(h, EndsAs(h, "stale"))
  /\ UNCHANGED <<prop, decided, object, writes, audit, applied>>

BackoffOver(h) ==
  /\ At(h, {"backoff"})
  /\ Goto(h, [handler[h] EXCEPT !.pc = "get", !.attempt = @ + 1])
  /\ UNCHANGED <<prop, decided, object, writes, audit, applied>>

(* Mutant: a cancelled approval just returns. *)
Cancelled_Returns(h) ==
  /\ At(h, {"backoff"})
  /\ Goto(h, Idle)
  /\ UNCHANGED <<prop, decided, object, writes, audit, applied>>

(* The request is cancelled during the backoff. *)
Cancelled(h) ==
  /\ At(h, {"backoff"})
  /\ Goto(h, EndsAs(h, "failed"))
  /\ UNCHANGED <<prop, decided, object, writes, audit, applied>>

-----------------------------------------------------------------------------
(* HandleSave: the switch is set, then, if off, RejectAll. *)

Save(h, on) ==
  /\ At(h, {"idle"})
  /\ writes' = on
  /\ Goto(h, IF on THEN Idle ELSE [pc |-> "rejectAll"])
  /\ UNCHANGED <<prop, decided, object, audit, applied>>

(* Mutant: the proposals to reject are gathered, not claimed. *)
RejectAll_NotClaiming(h) ==
  /\ At(h, {"rejectAll"})
  /\ prop' = Expired(Requests)
  /\ ExpiryLogged(Requests)
  /\ Goto(h, [pc |-> "finishAll", todo |-> Waiting])
  /\ UNCHANGED <<object, writes, applied>>

(* RejectAll claims every pending proposal in one locked pass, *)
RejectAll(h) ==
  /\ At(h, {"rejectAll"})
  /\ prop' = [r \in Requests |->
                IF r \in Waiting THEN [prop[r] EXCEPT !.st = "rejected"]
                ELSE Expired(Requests)[r]]
  /\ ExpiryLogged(Requests)
  /\ Goto(h, [pc |-> "finishAll", todo |-> Waiting])
  /\ UNCHANGED <<object, writes, applied>>

(* then finishes and records each. *)
FinishOne(h, r) ==
  /\ At(h, {"finishAll"})
  /\ r \in handler[h].todo
  /\ Settle(r, "rejected")
  /\ Goto(h, [handler[h] EXCEPT !.todo = @ \ {r}])
  /\ UNCHANGED <<object, writes, applied>>

SaveReturns(h) ==
  /\ At(h, {"finishAll"})
  /\ handler[h].todo = {}
  /\ Goto(h, Idle)
  /\ UNCHANGED <<prop, decided, object, writes, audit, applied>>

-----------------------------------------------------------------------------
(* Other writers: people edit the object, controllers write its status. *)

Edit ==
  /\ \E patch \in Patch :
       /\ object' = Patched(object, patch)
       /\ object' # object
  /\ handler' = Outdated(handler)
  /\ UNCHANGED <<prop, decided, writes, audit, applied>>

StatusWrite ==
  /\ handler' = Outdated(handler)
  /\ handler' # handler
  /\ UNCHANGED <<prop, decided, object, writes, audit, applied>>

Request(r) == Read(r) \/ DryRun(r) \/ GiveUp(r) \/ Insert(r)

Decide(h) == ClaimRefused(h) \/ ClaimApprove(h) \/ ClaimReject(h) \/ Finish(h)

Approve(h) ==
  \/ GetLive(h) \/ CallFails(h)
  \/ PatchApplied(h) \/ PatchUnanswered(h) \/ PatchConflict(h)
  \/ BackoffOver(h) \/ Cancelled(h)

SaveOff(h) == RejectAll(h) \/ (\E r \in Requests : FinishOne(h, r)) \/ SaveReturns(h)

Next ==
  \/ \E r \in Requests : Count(r) \/ Request(r) \/ TimePasses(r) \/ Look({r})
  \/ Look(Requests)
  \/ \E h \in Handlers, r \in Requests : Check(h, r, "approve") \/ Check(h, r, "reject")
  \/ \E h \in Handlers : Decide(h) \/ Approve(h) \/ SaveOff(h)
  \/ \E h \in Handlers, on \in BOOLEAN : Save(h, on)
  \/ Edit
  \/ StatusWrite

(* What was begun goes on: the calls to the API server have timeouts of 15
   and 20 seconds.  Time passes, and the UI polls the list.  Nobody has to
   propose, to decide or to touch the switch. *)
Fairness ==
  /\ \A r \in Requests : WF_vars(Request(r)) /\ WF_vars(TimePasses(r))
  /\ \A h \in Handlers : WF_vars(Decide(h)) /\ WF_vars(Approve(h)) /\ WF_vars(SaveOff(h))
  /\ WF_vars(Look(Requests))

Spec == Init /\ [][Next]_vars /\ Fairness

-----------------------------------------------------------------------------
(* Type invariant of the store, its handlers and the object. *)
TypeOK ==
  /\ prop \in [Requests -> Proposal]
  /\ decided \in Seq(Requests)
  /\ handler \in [Handlers -> {Idle} \cup Deciding \cup Applying \cup Finishing \cup Saving]
  /\ object \in Content
  /\ writes \in BOOLEAN
  /\ audit \in [Requests -> Seq(Final)]
  /\ applied \in [Requests -> Nat]

(* A patch is written at most once, and never for a proposal whose user is
   told that it was not: rejected, expired or stale means untouched, applied
   means written.  (Failed promises nothing: the answer may be lost.) *)
ToldTheTruth ==
  \A r \in Requests :
    /\ applied[r] <= 1
    /\ prop[r].st = "applied" => applied[r] = 1
    /\ applied[r] = 1 => prop[r].st \in {"applying", "applied", "failed", "pruned"}

(* Steps of a handler that has claimed its proposal for Approve. *)
Claimed == {"get", "patch", "backoff", "finish"}

(* Only the handler that claimed a proposal works on it, and a proposal
   being applied has such a handler: two approvals, or an approval racing
   a rejection or the switch, never share one. *)
OneClaim ==
  /\ \A g, h \in Handlers :
       (At(g, Claimed) /\ At(h, Claimed) /\ handler[g].target = handler[h].target) => g = h
  /\ \A h \in Handlers :
       At(h, Claimed) => prop[handler[h].target].st \in {"applying", "rejected"}
  /\ \A r \in Requests :
       prop[r].st = "applying" =>
         \E h \in Handlers : At(h, Claimed) /\ handler[h].target = r

(* A patch is written only over the content its reviewer saw. *)
AppliesWhatWasReviewed ==
  [][\A r \in Requests :
       applied'[r] # applied[r] => object = prop[r].reviewed]_vars

(* A decision stands: once final, a proposal keeps its status until the
   store forgets it. *)
DecisionsStand ==
  [][\A r \in Requests :
       prop[r].st \in Final => prop'[r].st \in {prop[r].st, "pruned"}]_vars

(* A decision is audited exactly once, as what it was, whichever of the
   racing deciders made it. *)
AuditedOnce ==
  \A r \in Requests :
    /\ Len(audit[r]) <= 1
    /\ Contains(decided, r) => audit[r] = <<prop[r].st>>
    /\ prop[r].st = "pruned" => Len(audit[r]) = 1

(* The two together: however deciders race, one of them decides, and says so once. *)
DecidedOnce == OneClaim /\ AuditedOnce

(* Once proposals are off and the save that turned them off has run its
   RejectAll, no approval can start: the handler's check is as good as if
   it were made under the store's lock. *)
OffMeansNoApproval ==
  [][\A r \in Requests :
       (prop[r].st = "pending" /\ prop'[r].st = "applying") =>
         writes \/ \E h \in Handlers : At(h, {"rejectAll"})]_vars

(* Every proposal is decided: approved ones are not left applying, and
   unanswered ones expire. *)
EventuallyDecided ==
  \A r \in Requests :
    prop[r].st \in {"pending", "applying"} ~> prop[r].st \in Final \cup {"pruned"}

-----------------------------------------------------------------------------
(* Expectations the code does not meet *)

(* "Turning this off, or turning MCP off, rejects whatever is waiting":
   nothing waits once the save has returned.  A request that was past its
   check when the switch was thrown inserts its proposal afterwards. *)
NothingWaitsWhenOff ==
  (~writes /\ \A h \in Handlers : ~At(h, {"rejectAll", "finishAll"})) =>
    \A r \in Requests : prop[r].st # "pending"

(* "Approve and apply applies exactly that diff": the object becomes what
   the diff showed.  If the object was edited between the read and the dry
   run, and the edit undone before the approval, the diff showed the edit
   as well. *)
AppliesExactlyTheDiff ==
  [][\A r \in Requests :
       applied'[r] # applied[r] => object' = prop[r].shown]_vars
=============================================================================
