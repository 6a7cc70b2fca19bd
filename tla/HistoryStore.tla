---------------------------- MODULE HistoryStore ----------------------------
(***************************************************************************)
(* The usage history an engine keeps on disk (engine/internal/history/     *)
(* store.go, health.go): one cluster's directory, its open hour and its    *)
(* day files, and the lock that should keep a second engine from writing.  *)
(*                                                                         *)
(* Record, EraseCluster and Open hold the store's lock inside one engine,  *)
(* but an engine may be killed between any two of their writes, a write    *)
(* may fail or be cut short, and another engine may run beside it: a step  *)
(* here is one write to the disk.  A day has one hour, so that each hour   *)
(* has a file of its own; observations are counts of ticks.  The write of  *)
(* the meta file is part of the step that begins a tick, and succeeds.     *)
(***************************************************************************)
EXTENDS Naturals, FiniteSets, Sequences

CONSTANTS
  Engines,         \* engines on one user's config directory
  MaxHour,         \* bound of the model: hours 1 .. MaxHour
  Names,           \* namespaces, as numbers in their order; Total is one of them
  Workloads,       \* numbers in their order, from 1
  Obs,             \* what a tick may observe: [ns, broken]
  MaxHealthLines,  \* maxHealthLines
  MaxTicks,        \* bound of the model: ticks counted
  MaxWriters,      \* bound of the model: engines that write at one time (the lock sets none)
  MaxFaults        \* bound of the model: engines killed and writes that fail

Total == 0      \* Ns "": the cluster total, first in the file
Overflow == 0   \* the health line that says some workloads are not listed

ASSUME DataShape ==
  /\ IsFiniteSet(Engines) /\ IsFiniteSet(Names) /\ IsFiniteSet(Workloads) /\ MaxHour \in Nat
  /\ Total \in Names /\ Names \subseteq Nat /\ Workloads \subseteq Nat \ {Overflow}
  /\ \A o \in Obs : Total \in o.ns /\ o.ns \subseteq Names /\ o.broken \subseteq Workloads
  /\ MaxHealthLines \in Nat \ {0}

VARIABLES
  disk,     \* [lock, meta, open, day, health]
  engine,   \* each engine: what it does and holds in memory
  acked,    \* history: ticks that Record acknowledged, by hour
  tried,    \* history: ticks it began to count
  ticks,    \* ticks counted so far
  faults,   \* engines killed and writes that failed so far
  glued,    \* history: lines lost, appended to a torn one, or out of date
  remains   \* history: an erase left something that may come back

storeVars == <<disk, engine, acked, tried, ticks, faults, glued, remains>>

Hours == 1 .. MaxHour
Sick == Workloads \cup {Overflow}

Zero == [ns |-> [x \in Names |-> 0], sick |-> [w \in Workloads |-> 0]]
NoHour == [hour |-> 0, of |-> Zero]
NoObs == [ns |-> {}, broken |-> {}]
NoLock == [owner |-> "", fresh |-> FALSE]
Empty(keys) == [n |-> [x \in keys |-> 0], torn |-> FALSE]

Off == [mode |-> "off", pc |-> "idle", cached |-> FALSE, meta |-> FALSE, open |-> NoHour,
        at |-> 0, obs |-> NoObs]

StoreInit ==
  /\ disk = [lock |-> NoLock, meta |-> FALSE, open |-> NoHour,
             day |-> [h \in Hours |-> Empty(Names)], health |-> [h \in Hours |-> Empty(Sick)]]
  /\ engine = [e \in Engines |-> Off]
  /\ acked = [h \in Hours |-> Zero] /\ tried = [h \in Hours |-> Zero]
  /\ ticks = 0 /\ faults = 0
  /\ glued = {} /\ remains = FALSE

Fault == faults < MaxFaults /\ faults' = faults + 1

(* Record returns, with or without an error. *)
Returned(c) == [c EXCEPT !.pc = "idle", !.at = 0, !.obs = NoObs]

Writes(e) == engine[e].mode = "writer"
Idle(e) == engine[e].pc = "idle"

(* load: the cluster in memory, from the checkpoint the first time. *)
Loaded(e) ==
  IF engine[e].cached THEN engine[e]
  ELSE [engine[e] EXCEPT !.cached = TRUE, !.meta = FALSE, !.open = disk.open]

Add(of, o) ==
  [ns |-> [x \in Names |-> of.ns[x] + (IF x \in o.ns THEN 1 ELSE 0)],
   sick |-> [w \in Workloads |-> of.sick[w] + (IF w \in o.broken THEN 1 ELSE 0)]]

-----------------------------------------------------------------------------
(* The lock *)

(* Open reads the lock: an engine that finds it fresh only reads, for good. *)
OpenStore(e) ==
  /\ engine[e].mode = "off"
  /\ engine' = [engine EXCEPT ![e].mode = IF disk.lock.fresh THEN "readonly" ELSE "opening"]
  /\ UNCHANGED <<disk, acked, tried, ticks, faults, glued, remains>>

(* ... and writes it, whatever it has become in between. *)
Acquire(e) ==
  /\ engine[e].mode = "opening" /\ Cardinality({d \in Engines : Writes(d)}) < MaxWriters
  /\ engine' = [engine EXCEPT ![e].mode = "writer"]
  /\ disk' = [disk EXCEPT !.lock = [owner |-> e, fresh |-> TRUE]]
  /\ UNCHANGED <<acked, tried, ticks, faults, glued, remains>>

(* Three heartbeats pass and nothing is recorded: no cluster is connected, or the
   engine is gone. *)
LockAges ==
  /\ disk.lock.fresh
  /\ disk' = [disk EXCEPT !.lock.fresh = FALSE]
  /\ UNCHANGED <<engine, acked, tried, ticks, faults, glued, remains>>

CloseStore(e) ==
  /\ engine[e].mode \in {"writer", "readonly"} /\ Idle(e)
  /\ engine' = [engine EXCEPT ![e] = Off]
  /\ disk' = IF Writes(e) /\ disk.lock.owner = e THEN [disk EXCEPT !.lock = NoLock] ELSE disk
  /\ UNCHANGED <<acked, tried, ticks, faults, glued, remains>>

Crash(e) ==
  /\ engine[e].mode # "off" /\ Fault
  /\ engine' = [engine EXCEPT ![e] = Off]
  /\ remains' = (remains \/ engine[e].pc = "erase")
  /\ UNCHANGED <<disk, acked, tried, ticks, glued>>

-----------------------------------------------------------------------------
(* Record *)

(* The tick goes into the open hour in memory, a new one if there is none. *)
Count(c, h, o) ==
  [c EXCEPT !.pc = "checkpoint", !.at = h, !.obs = o,
            !.open = [hour |-> h, of |-> Add(IF c.open.hour = h THEN c.open.of ELSE Zero, o)]]

Counted(h, o) ==
  /\ ticks' = ticks + 1
  /\ tried' = [tried EXCEPT ![h] = Add(@, o)]

(* A tick arrives, at the hour h by the clock, which may go back: the meta file is
   written when this engine has not yet, a tick of an hour before the open one is
   dropped, one of a later hour closes it. *)
Record(e, h, o) ==
  /\ Writes(e) /\ Idle(e) /\ ticks < MaxTicks
  /\ LET c == [Loaded(e) EXCEPT !.meta = TRUE] IN
       /\ disk' = IF Loaded(e).meta THEN disk ELSE [disk EXCEPT !.meta = TRUE]
       /\ \/ /\ h < c.open.hour
             /\ engine' = [engine EXCEPT ![e] = c]
             /\ UNCHANGED <<ticks, tried>>
          \/ /\ c.open.hour # 0 /\ h > c.open.hour
             /\ engine' = [engine EXCEPT ![e] = [c EXCEPT !.pc = "flush", !.at = h, !.obs = o]]
             /\ UNCHANGED <<ticks, tried>>
          \/ /\ c.open.hour \in {0, h}
             /\ engine' = [engine EXCEPT ![e] = Count(c, h, o)]
             /\ Counted(h, o)
  /\ UNCHANGED <<acked, faults, glued, remains>>

(* The elements of a set, in the order in which one is Before another. *)
InOrder(S, Before(_, _)) ==
  [i \in 1 .. Cardinality(S) |->
    CHOOSE x \in S : Cardinality({y \in S : Before(y, x)}) = i - 1]

(* The lines of a closed hour: the namespaces in order, and the broken workloads,
   worst first, up to the cap; past it one line says that some are missing. *)
DayLines(of) == InOrder({x \in Names : of.ns[x] > 0}, LAMBDA a, b : a < b)

HealthLines_Capped(of) ==  (* Mutant: the hour that has too many broken workloads is not marked. *)
  LET ws == InOrder({w \in Workloads : of.sick[w] > 0},
                    LAMBDA a, b : of.sick[a] > of.sick[b] \/ (of.sick[a] = of.sick[b] /\ a < b))
  IN  SubSeq(ws, 1, IF Len(ws) > MaxHealthLines THEN MaxHealthLines ELSE Len(ws))

HealthLines(of) ==
  LET ws == InOrder({w \in Workloads : of.sick[w] > 0},
                    LAMBDA a, b : of.sick[a] > of.sick[b] \/ (of.sick[a] = of.sick[b] /\ a < b))
  IN  IF Len(ws) > MaxHealthLines THEN SubSeq(ws, 1, MaxHealthLines) \o <<Overflow>> ELSE ws

(* A piece of what is being written: the first k of the lines, the next one cut
   short.  Lines are read in order and the last one of a key counts; a line that
   does not parse is skipped, and so is one appended to a torn end. *)
Whole(file, lines, k) == {lines[i] : i \in (IF file.torn THEN 2 ELSE 1) .. k}

Written_Adding(file, lines, of, k, torn) ==  (* Mutant: two lines of one hour are added up. *)
  [n    |-> [x \in DOMAIN file.n |-> file.n[x] + IF x \in Whole(file, lines, k) THEN of[x] ELSE 0],
   torn |-> torn \/ (k = 0 /\ file.torn)]

Written(file, lines, of, k, torn) ==
  [n    |-> [x \in DOMAIN file.n |-> IF x \in Whole(file, lines, k) THEN of[x] ELSE file.n[x]],
   torn |-> torn \/ (k = 0 /\ file.torn)]

(* What a torn end swallows: nothing, if the line it swallows was in the file. *)
Swallowed(file, lines, of, k) ==
  IF file.torn /\ k > 0 /\ file.n[lines[1]] # of[lines[1]] THEN {lines[1]} ELSE {}

(* k of the lines that are due, of the day file or of the health file. *)
LinesDue(e) ==
  IF engine[e].pc = "flush" THEN DayLines(engine[e].open.of) ELSE HealthLines(engine[e].open.of)

(* What the closed hour no longer lists and an earlier write of it did: the line of
   a workload that others have pushed past the cap since.  It is read as it is. *)
Outdated(file, lines, of, k) ==
  IF k = Len(lines)
  THEN {x \in DOMAIN file.n \ {lines[i] : i \in 1 .. k} : file.n[x] \notin {0, of[x]}}
  ELSE {}

Flush(e, k, torn) ==
  LET due == LinesDue(e)
      h == engine[e].open.hour
      day == engine[e].open.of.ns
      health == [x \in Sick |-> IF x = Overflow THEN 1 ELSE engine[e].open.of.sick[x]]
  IN  \/ /\ engine[e].pc = "flush"
         /\ disk' = [disk EXCEPT !.day[h] = Written(@, due, day, k, torn)]
         /\ glued' = glued \cup ({<<"day", h>>} \X Swallowed(disk.day[h], due, day, k))
      \/ /\ engine[e].pc = "health"
         /\ disk' = [disk EXCEPT !.health[h] = Written(@, due, health, k, torn)]
         /\ glued' = glued \cup ({<<"health", h>>} \X
                                (Swallowed(disk.health[h], due, health, k)
                                   \cup Outdated(disk.health[h], due, health, k)))

FlushDay(e) ==
  /\ engine[e].pc = "flush"
  /\ Flush(e, Len(LinesDue(e)), FALSE)
  /\ engine' = [engine EXCEPT ![e].pc = "health"]
  /\ UNCHANGED <<acked, tried, ticks, faults, remains>>

(* The hour is closed: the tick opens the next one. *)
FlushHealth(e) ==
  /\ engine[e].pc = "health"
  /\ Flush(e, Len(LinesDue(e)), FALSE)
  /\ engine' = [engine EXCEPT ![e] = Count([@ EXCEPT !.open = NoHour], @.at, @.obs)]
  /\ Counted(engine[e].at, engine[e].obs)
  /\ UNCHANGED <<acked, faults, remains>>

(* The disk is full: a part of the lines is written, the tick is refused and the
   hour stays open.  A crash after it is one in the middle of the write. *)
FlushShort(e) ==
  /\ Fault
  /\ engine[e].pc \in {"flush", "health"}
  /\ \E k \in 0 .. (Len(LinesDue(e)) - 1), torn \in BOOLEAN : Flush(e, k, torn)
  /\ engine' = [engine EXCEPT ![e] = Returned(@)]
  /\ UNCHANGED <<acked, tried, ticks, remains>>

(* writeAtomic of the open hour: the tick is safe. *)
Checkpoint(e) ==
  /\ engine[e].pc = "checkpoint"
  /\ disk' = [disk EXCEPT !.open = engine[e].open]
  /\ engine' = [engine EXCEPT ![e].pc = "beat"]
  /\ UNCHANGED <<acked, tried, ticks, faults, glued, remains>>

Heartbeat(e) ==
  /\ engine[e].pc = "beat"
  /\ disk' = [disk EXCEPT !.lock = [owner |-> e, fresh |-> TRUE]]
  /\ acked' = [acked EXCEPT ![engine[e].at] = Add(@, engine[e].obs)]
  /\ engine' = [engine EXCEPT ![e] = Returned(@)]
  /\ UNCHANGED <<tried, ticks, faults, glued, remains>>

(* Either write fails: Record returns the error; the tick stays in memory. *)
RecordFails(e) ==
  /\ Fault
  /\ engine[e].pc \in {"checkpoint", "beat"}
  /\ engine' = [engine EXCEPT ![e] = Returned(@)]
  /\ UNCHANGED <<disk, acked, tried, ticks, glued, remains>>

(* A read (readRange, readHealth) loads the cluster, once. *)
Query(e) ==
  /\ engine[e].mode \in {"writer", "readonly"} /\ Idle(e) /\ ~engine[e].cached
  /\ engine' = [engine EXCEPT ![e] = Loaded(e)]
  /\ UNCHANGED <<disk, acked, tried, ticks, faults, glued, remains>>

-----------------------------------------------------------------------------
(* EraseCluster *)

Nothing == [h \in Hours |-> Zero]

(* A directory whose meta file does not name the cluster is passed over. *)
Erase(e) ==
  /\ Writes(e) /\ Idle(e)
  /\ acked' = Nothing
  /\ IF disk.meta
     THEN /\ engine' = [engine EXCEPT ![e].pc = "erase"]
          /\ UNCHANGED tried
     ELSE tried' = Nothing /\ UNCHANGED engine
  /\ UNCHANGED <<disk, ticks, faults, glued, remains>>

(* RemoveAll takes the files one by one, in no order. *)
Parts ==
  {d \in {[disk EXCEPT !.meta = FALSE], [disk EXCEPT !.open = NoHour]}
         \cup {[disk EXCEPT !.day[h] = Empty(Names)] : h \in Hours}
         \cup {[disk EXCEPT !.health[h] = Empty(Sick)] : h \in Hours} : d # disk}

EraseFile(e) ==
  /\ engine[e].pc = "erase"
  /\ \E d \in Parts : disk' = d
  /\ UNCHANGED <<engine, acked, tried, ticks, faults, glued, remains>>

(* All is gone, from memory too. *)
EraseEnds(e) ==
  /\ engine[e].pc = "erase" /\ Parts = {}
  /\ engine' = [engine EXCEPT ![e] = [Off EXCEPT !.mode = "writer"]]
  /\ tried' = Nothing /\ glued' = {} /\ remains' = FALSE
  /\ UNCHANGED <<disk, acked, ticks, faults>>

(* A file cannot be removed: the error is returned, and memory is as it was. *)
EraseFails(e) ==
  /\ Fault
  /\ engine[e].pc = "erase" /\ Parts # {}
  /\ engine' = [engine EXCEPT ![e].pc = "idle"]
  /\ remains' = TRUE
  /\ UNCHANGED <<disk, acked, tried, ticks, glued>>

StoreNext ==
  \/ LockAges
  \/ \E e \in Engines :
       \/ OpenStore(e) \/ Acquire(e) \/ CloseStore(e) \/ Crash(e)
       \/ \E h \in Hours, o \in Obs : Record(e, h, o)
       \/ FlushDay(e) \/ FlushHealth(e) \/ FlushShort(e)
       \/ Checkpoint(e) \/ Heartbeat(e) \/ RecordFails(e) \/ Query(e)
       \/ Erase(e) \/ EraseFile(e) \/ EraseEnds(e) \/ EraseFails(e)

StoreSpec == StoreInit /\ [][StoreNext]_storeVars

-----------------------------------------------------------------------------
(* What is read *)

(* readRange and readHealth: the files' lines, overlaid with an open hour. *)
Samples(open, h, x) ==
  IF open.hour = h /\ open.of.ns[x] > 0 THEN open.of.ns[x] ELSE disk.day[h].n[x]

Broken(open, h, w) ==
  IF open.hour = h /\ open.of.sick[w] > 0 THEN open.of.sick[w] ELSE disk.health[h].n[w]

(* brokenTicksFor: half of a short hour's ticks, five at most. *)
BrokenTicksFor(n) ==
  LET half == (n + 1) \div 2 IN IF half > 5 THEN 5 ELSE IF half = 0 THEN 1 ELSE half

(* Health: an hour that was not recorded, or that has too many broken workloads to
   list this one, counts for nothing. *)
Verdict(open, h, w) ==
  LET n == Samples(open, h, Total)
      b == Broken(open, h, w)
  IN  IF n = 0 THEN "unrecorded"
      ELSE IF b >= BrokenTicksFor(n) THEN "broken"
      ELSE IF b = 0 /\ disk.health[h].n[Overflow] > 0 THEN "unknown"
      ELSE "clean"

(* The open hours a reading may start from: the checkpoint, which an engine that
   starts reads, and what a running writer holds. *)
Views == {disk.open} \cup {engine[e].open : e \in {d \in Engines : Writes(d) /\ engine[d].cached}}

-----------------------------------------------------------------------------
(* Properties *)

StoreTypeOK ==
  /\ ticks \in 0 .. MaxTicks /\ faults \in 0 .. MaxFaults
  /\ remains \in BOOLEAN
  /\ \A e \in Engines :
       /\ engine[e].mode \in {"off", "opening", "writer", "readonly"}
       /\ engine[e].pc \in {"idle", "flush", "health", "checkpoint", "beat", "erase"}
       /\ ~Writes(e) => Idle(e)
  /\ \A h \in Hours : DOMAIN disk.day[h].n = Names /\ DOMAIN disk.health[h].n = Sick

(* However often the engine is killed or a write fails, an hour keeps every tick that
   Record acknowledged, and counts no tick twice and none from before a clear that
   was answered; except for a line appended to one cut short, and for the rest of a
   clear that was interrupted.  (While one engine writes: see OneWriter.) *)
CountsStand ==
  \A open \in Views, h \in Hours :
    /\ \A x \in Names :
         /\ <<<<"day", h>>, x>> \in glued \/ Samples(open, h, x) >= acked[h].ns[x]
         /\ remains \/ Samples(open, h, x) <= tried[h].ns[x]
    /\ remains \/ \A w \in Workloads : Broken(open, h, w) <= tried[h].sick[w]

(* An hour in which a workload was broken long enough never reads as a clean one,
   also when it closed with more broken workloads than it may list; except for a line
   of the workload that was appended to one cut short, or that an hour closed twice
   has left from the first time. *)
NeverReadsAsClean ==
  \A open \in Views, h \in Hours, w \in Workloads :
    ( /\ ~remains /\ <<<<"health", h>>, w>> \notin glued
      /\ acked[h].sick[w] >= BrokenTicksFor(tried[h].ns[Total]) )
    => Verdict(open, h, w) # "clean"

-----------------------------------------------------------------------------
(* Expectations the code does not meet *)

(* "ErrReadOnly is returned by writes when another engine holds the writer lock"
   (store.go:45): one engine writes.  With MaxWriters = 2 two do, when both read the
   lock before either writes it, or when one had nothing to record for three
   heartbeats; CountsStand does not hold then. *)
OneWriter == Cardinality({e \in Engines : Writes(e)}) <= 1

(* "another Kubebay engine is recording; this one only reads" (cmd/kubebay/history.go:41). *)
ReadsBesideAWriter ==
  \A e \in Engines : engine[e].mode = "readonly" => \E d \in Engines \ {e} : Writes(d)

(* "a crash (no Close) loses nothing already recorded in the open hour"
   (store_test.go:140). *)
CrashLosesNothing ==
  \A h \in Hours, x \in Names : Samples(disk.open, h, x) >= acked[h].ns[x]

(* "Clear deletes a cluster's history" (website docs, settings.md:39). *)
ClearIsFinal ==
  \A open \in Views, h \in Hours, x \in Names : Samples(open, h, x) <= tried[h].ns[x]

(* An engine that only reads sees an hour that the checkpoint has left as it was
   closed. *)
ReadersSeeClosedHours ==
  \A e \in Engines, h \in Hours :
    (engine[e].mode = "readonly" /\ engine[e].cached /\ h < disk.open.hour)
    => Samples(engine[e].open, h, Total) >= disk.day[h].n[Total]
=============================================================================
