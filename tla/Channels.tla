----------------------------- MODULE Channels -----------------------------
(***************************************************************************)
(* Log and terminal channels over the multiplexed socket: the views that   *)
(* open them (lib/usePodLogs.ts, lib/useChannelTerm.ts with ExecTerm.tsx   *)
(* and LocalShellTerm.tsx), the client's queue of frames while the socket  *)
(* is down (lib/ws.ts), and on the engine the read loop of each socket,    *)
(* its channel table and a runner per channel (stream/hub.go) with the     *)
(* stdin queue of a local shell (stream/stdinqueue.go).                    *)
(*                                                                         *)
(* Frames from the engine are handled as they are sent, as in WsClient.    *)
(* Resizes are left out: a full resize channel drops them without a trace. *)
(***************************************************************************)
EXTENDS Naturals, FiniteSets, SequencesExt

CONSTANTS
  Views,       \* places on the pages that open channels
  NoView,      \* none of them
  Kind,        \* what each opens: "logs", "exec" or "local-shell"
  MaxQueued,   \* MAX_QUEUED_FRAMES (256)
  Shells,      \* candidates of the exec ladder (3)
  MaxIds,      \* bound of the model: channels opened
  MaxInput,    \* bound of the model: inputs typed
  MaxOpens     \* bound of the model: sockets opened

ASSUME NoViewIsNone  == NoView \notin Views
ASSUME KindsAreKnown == Kind \in [Views -> {"logs", "exec", "local-shell"}]
ASSUME SizesArePos   == {MaxQueued, Shells, MaxOpens} \subseteq Nat \ {0}
ASSUME BoundsAreNat  == {MaxIds, MaxInput} \subseteq Nat

VARIABLES
  sock, opens,  \* the client's socket, and how many there were
  queue,        \* frames kept while it is not open
  toEngine,     \* frames on the wire of the open socket
  view,         \* the views' state: channel id, phase, the exec ladder
  owner,        \* history: the view an id was drawn for
  run,          \* a channel's runner
  chans,        \* ids in a socket's channel table
  loop,         \* where the read loop of each socket is
  ids, typed    \* bounds: ids drawn, inputs typed

client      == <<sock, opens, queue, view, owner, ids, typed>>
channelVars == <<client, toEngine, run, chans, loop>>

Ids     == 1 .. MaxIds
Sockets == 1 .. MaxOpens

Closed    == [id |-> 0, phase |-> "idle", cand |-> 1, got |-> FALSE]
NoRunner  == [at |-> "none", on |-> 0, cancelled |-> FALSE]
Reading   == [at |-> "read", id |-> 0]

ChannelsInit ==
  /\ sock = "connecting" /\ opens = 0 /\ queue = <<>> /\ toEngine = <<>>
  /\ view = [v \in Views |-> Closed]
  /\ owner = [i \in Ids |-> NoView] /\ run = [i \in Ids |-> NoRunner]
  /\ chans = {}
  /\ loop = [s \in Sockets |-> Reading]
  /\ ids = 0 /\ typed = 0

Terminal(v) == Kind[v] # "logs"
Frame(type, i) == [type |-> type, id |-> i]

-----------------------------------------------------------------------------
(* The client *)

(* MultiplexedStream.send: now if the socket is open; else queued, and a full
   queue loses its oldest frame. *)
Send(frames) ==
  LET all == queue \o frames
      cut == IF Len(all) > MaxQueued THEN Len(all) - MaxQueued ELSE 0
  IN  IF sock = "open"
        THEN toEngine' = toEngine \o frames /\ UNCHANGED queue
        ELSE queue' = SubSeq(all, cut + 1, Len(all)) /\ UNCHANGED toEngine

(* A view on a fresh channel; a terminal says nothing yet, a log view that it streams. *)
Fresh(v, i) == [Closed EXCEPT !.id = i,
                  !.phase = IF Kind[v] = "logs" THEN "streaming" ELSE "connecting"]

Mount(v) ==
  /\ view[v].id = 0 /\ ids < MaxIds
  /\ ids' = ids + 1
  /\ owner' = [owner EXCEPT ![ids'] = v]
  /\ view' = [view EXCEPT ![v] = Fresh(v, ids')]
  /\ Send(<<Frame("open", ids')>>)
  /\ UNCHANGED <<sock, opens, typed, run, chans, loop>>

(* Mutant: the view goes away and leaves its channel. *)
Leaving_Open(v) == <<>>

Leaving(v) == <<Frame("close", view[v].id)>>

Unmount(v) ==
  /\ view[v].id # 0
  /\ view' = [view EXCEPT ![v] = Closed]
  /\ Send(Leaving(v))
  /\ UNCHANGED <<sock, opens, owner, ids, typed, run, chans, loop>>

(* The user restarts a shell that ended or was lost: the session is remounted. *)
Restart(v) ==
  /\ Kind[v] = "local-shell" /\ view[v].phase \in {"ended", "lost"} /\ ids < MaxIds
  /\ ids' = ids + 1
  /\ owner' = [owner EXCEPT ![ids'] = v]
  /\ view' = [view EXCEPT ![v] = Fresh(v, ids')]
  /\ Send(Leaving(v) \o <<Frame("open", ids')>>)
  /\ UNCHANGED <<sock, opens, typed, run, chans, loop>>

Type(v) ==
  /\ Terminal(v) /\ view[v].id # 0 /\ typed < MaxInput
  /\ typed' = typed + 1
  /\ Send(<<Frame("input", view[v].id)>>)
  /\ UNCHANGED <<sock, opens, view, owner, ids, run, chans, loop>>

(* Mutant: onStatus is not handled by the shell. *)
Offline_Unsaid(v) == view[v]

(* onStatus(false): a shell that has not ended says its process is gone; the
   exec terminal prints a line; a log view is not told. *)
Offline(v) ==
  IF Kind[v] = "local-shell" /\ view[v].id # 0 /\ view[v].phase # "ended"
    THEN [view[v] EXCEPT !.phase = "lost"] ELSE view[v]

Flushed == queue

(* onopen: channels are not replayed; what was queued goes out in order. *)
Open ==
  /\ sock = "connecting" /\ opens < MaxOpens
  /\ sock' = "open" /\ opens' = opens + 1
  /\ toEngine' = Flushed /\ queue' = <<>>
  /\ UNCHANGED <<view, owner, ids, typed, run, chans, loop>>

(* The attempt failed. *)
Refuse ==
  /\ sock = "connecting" /\ opens < MaxOpens
  /\ sock' = "down"
  /\ view' = [v \in Views |-> Offline(v)]
  /\ UNCHANGED <<opens, queue, owner, ids, typed, toEngine, run, chans, loop>>

Close ==
  /\ sock = "open" /\ opens < MaxOpens
  /\ sock' = "down" /\ toEngine' = <<>>
  /\ view' = [v \in Views |-> Offline(v)]
  /\ UNCHANGED <<opens, queue, owner, ids, typed, run, chans, loop>>

Reconnect ==
  /\ sock = "down"
  /\ sock' = "connecting"
  /\ UNCHANGED <<opens, queue, view, owner, ids, typed, toEngine, run, chans, loop>>

-----------------------------------------------------------------------------
(* Frames reach the client: only on the socket that is open, and every view goes
   by its channel's id. *)

Live(s)     == sock = "open" /\ s = opens
Mine(v, i)  == view[v].id = i /\ i # 0

OnAck(s, i) ==
  /\ view' = [v \in Views |-> IF Live(s) /\ Mine(v, i) /\ Kind[v] = "logs"
                                THEN [view[v] EXCEPT !.phase = "streaming"] ELSE view[v]]
  /\ UNCHANGED <<sock, opens, queue, toEngine, owner, ids, typed>>

OnData(s, i) ==
  /\ view' = [v \in Views |->
       IF ~(Live(s) /\ Mine(v, i)) THEN view[v]
       ELSE CASE Kind[v] = "exec"        -> [view[v] EXCEPT !.got = TRUE]
              [] Kind[v] = "local-shell" -> [view[v] EXCEPT !.phase = "live"]
              [] OTHER                   -> view[v]]
  /\ UNCHANGED <<sock, opens, queue, toEngine, owner, ids, typed>>

(* onChanClosed.  An exec whose shell is not in the image, and that said nothing,
   tries the next shell on a channel of its own; the dead one is closed again. *)
FallsBack(v, why) ==
  Kind[v] = "exec" /\ why = "no shell" /\ view[v].cand < Shells /\ ~view[v].got

OnClosed(s, i, why) ==
  LET mine == {v \in Views : Live(s) /\ Mine(v, i)} IN
  IF \E v \in mine : FallsBack(v, why)
  THEN /\ ids < MaxIds /\ ids' = ids + 1
       /\ \E v \in mine :
            /\ owner' = [owner EXCEPT ![ids'] = v]
            /\ view' = [view EXCEPT ![v].id = ids', ![v].cand = @ + 1]
            /\ Send(<<Frame("close", i), Frame("open", ids')>>)
       /\ UNCHANGED <<sock, opens, typed>>
  ELSE /\ view' = [v \in Views |-> IF v \notin mine THEN view[v]
                     ELSE [view[v] EXCEPT !.phase = IF Kind[v] = "logs" THEN "closed" ELSE "ended"]]
       /\ UNCHANGED <<sock, opens, queue, toEngine, owner, ids, typed>>

-----------------------------------------------------------------------------
(* The engine: the read loop of a socket, one frame at a time *)

Go(s, at, i) == loop' = [loop EXCEPT ![s] = [at |-> at, id |-> i]]

Takes(s, type) ==
  /\ Live(s) /\ loop[s].at = "read" /\ toEngine # <<>> /\ Head(toEngine).type = type
  /\ toEngine' = Tail(toEngine)
  /\ UNCHANGED client

(* chan-open: the runner starts before its entry is in the table. *)
ReadOpen(s) ==
  /\ Takes(s, "open")
  /\ LET i == Head(toEngine).id IN
       /\ run' = [run EXCEPT ![i] = [at |-> "running", on |-> s, cancelled |-> FALSE]]
       /\ Go(s, "insert", i)
  /\ UNCHANGED chans

Insert(s) ==
  /\ loop[s].at = "insert"
  /\ chans' = chans \cup {loop[s].id}
  /\ Go(s, "ack", loop[s].id)
  /\ UNCHANGED <<client, toEngine, run>>

Ack(s) ==
  /\ loop[s].at = "ack"
  /\ OnAck(s, loop[s].id)
  /\ loop' = [loop EXCEPT ![s] = Reading]
  /\ UNCHANGED <<run, chans>>

(* chan-close: the runner's context and its stdin end, the entry goes; the ack
   carries the same id. *)
ReadClose(s) ==
  /\ Takes(s, "close")
  /\ LET i == Head(toEngine).id IN
       /\ run' = IF i \in chans /\ run[i].at # "gone" THEN [run EXCEPT ![i].cancelled = TRUE]
                 ELSE run
       /\ chans' = chans \ {i}
       /\ Go(s, "ack", i)

(* Input: a local shell's goes through a queue that drops what does not fit; an
   exec's is written to its pipe by the loop itself.  What the queue holds, and what
   it drops when the shell does not read, is left out. *)
Accepts(i) ==
  i \in chans /\ run[i].at = "running" /\ ~run[i].cancelled

(* Mutant: a local shell's input is written by the read loop too. *)
Queued_Not(i) == FALSE

Queued(i) == Kind[owner[i]] = "local-shell"

ReadInput(s) ==
  /\ Takes(s, "input")
  /\ LET i == Head(toEngine).id IN
       IF Accepts(i) /\ ~Queued(i) THEN Go(s, "pipe", i) ELSE UNCHANGED loop
  /\ UNCHANGED <<run, chans>>

(* The write returns: the program read it, or the pipe was closed. *)
Written(s) ==
  /\ loop[s].at = "pipe"
  /\ loop' = [loop EXCEPT ![s] = Reading]
  /\ UNCHANGED <<client, toEngine, run, chans>>

(* The loop of a lost socket finds it gone, once it reads again: cleanupAll. *)
Cleanup(s) ==
  /\ s <= opens /\ ~Live(s) /\ loop[s].at = "read"
  /\ \E i \in Ids : run[i].on = s /\ i \in chans
  /\ run' = [i \in Ids |-> IF run[i].on = s /\ i \in chans
                             THEN [run[i] EXCEPT !.cancelled = run[i].at # "gone"] ELSE run[i]]
  /\ chans' = {i \in chans : run[i].on # s}
  /\ UNCHANGED <<client, toEngine, loop>>

-----------------------------------------------------------------------------
(* A channel's runner *)

Output(i) ==
  /\ run[i].at = "running"
  /\ OnData(run[i].on, i)
  /\ UNCHANGED <<run, chans, loop>>

(* The log or the program ends, or is cancelled: chan-closed, and only then
   finished(), which takes the entry of this id out of the table. *)
Finish(i) ==
  /\ run[i].at = "running"
  /\ \E why \in {"done"} \cup (IF Kind[owner[i]] = "exec" THEN {"no shell"} ELSE {}) :
       OnClosed(run[i].on, i, why)
  /\ run' = [run EXCEPT ![i].at = "said"]
  /\ UNCHANGED <<chans, loop>>

Finished(i) ==
  /\ run[i].at = "said"
  /\ run' = [run EXCEPT ![i].at = "gone", ![i].cancelled = FALSE]
  /\ chans' = chans \ {i}
  /\ UNCHANGED <<client, toEngine, loop>>

-----------------------------------------------------------------------------
Loop(s) == ReadOpen(s) \/ Insert(s) \/ Ack(s) \/ ReadClose(s) \/ ReadInput(s) \/ Cleanup(s)

ChannelsNext ==
  \/ \E v \in Views : Mount(v) \/ Unmount(v) \/ Restart(v) \/ Type(v)
  \/ Open \/ Refuse \/ Close \/ Reconnect
  \/ \E s \in Sockets : Loop(s) \/ Written(s)
  \/ \E i \in Ids : Output(i) \/ Finish(i) \/ Finished(i)

(* The browser and the engine run.  A program run in a pod is taken to read its
   input in the end; a local shell may be stopped and never read again.  A runner
   whose context is cancelled returns. *)
WriterReads(s) == loop[s].at = "pipe" /\ Kind[owner[loop[s].id]] = "exec" /\ Written(s)

ChannelsFairness ==
  /\ \A s \in Sockets : WF_channelVars(Loop(s)) /\ WF_channelVars(WriterReads(s))
  /\ \A i \in Ids : WF_channelVars(run[i].cancelled /\ Finish(i)) /\ WF_channelVars(Finished(i))

ChannelsSpec == ChannelsInit /\ [][ChannelsNext]_channelVars /\ ChannelsFairness

-----------------------------------------------------------------------------
(* Properties *)

Frames == [type : {"open", "close", "input"}, id : Ids]

(* The type invariant. *)
ChannelsTypeOK ==
  /\ sock \in {"connecting", "open", "down"} /\ opens \in 0 .. MaxOpens
  /\ queue \in Seq(Frames) /\ Len(queue) <= MaxQueued /\ toEngine \in Seq(Frames)
  /\ view \in [Views -> [id : {0} \cup Ids, cand : 1 .. Shells, got : BOOLEAN,
                         phase : {"idle", "streaming", "closed", "connecting", "live",
                                  "ended", "lost"}]]
  /\ run \in [Ids -> [at : {"none", "running", "said", "gone"}, on : {0} \cup Sockets,
                      cancelled : BOOLEAN]]
  /\ chans \subseteq Ids /\ owner \in [Ids -> Views \cup {NoView}]
  /\ loop \in [Sockets -> [at : {"read", "insert", "ack", "pipe"}, id : {0} \cup Ids]]

(* A log or a program runs on the engine for a view that has its channel, or the
   frame or the step that ends it is under way: an unmounted view, a fallback, a
   lost socket or a full client queue never leave a session running for nobody. *)
Wanted(i) == \E v \in Views : view[v].id = i
NoOrphan ==
  \A i \in Ids : run[i].at = "running" =>
    \/ run[i].cancelled
    \/ Live(run[i].on) /\ (Wanted(i) \/ Frame("close", i) \in ToSet(toEngine))
    \/ ~Live(run[i].on) /\ run[i].on > 0

(* A channel is opened once: a session whose socket was lost, or that ended, never
   comes back under its id (LocalShellTerm.tsx:77, "never reopen silently"). *)
OpenedOnce == [][\A i \in Ids : run[i].at # "none" => run'[i].on = run[i].on
                                  /\ (run[i].at = "gone" => run'[i] = run[i])]_channelVars

(* A stopped local shell never stops the read loop of its socket, which every
   watch and every other terminal share (stdinqueue.go). *)
LoopReads == []<>(sock # "open" \/ toEngine = <<>>)

(* What a lost socket ran is ended, though nobody sends a chan-close for it. *)
LostIsEnded ==
  \A i \in Ids : (run[i].at = "running" /\ ~Live(run[i].on)) ~> run[i].at = "gone"

(* Both: a stopped shell holds up no other, and a lost one does not stay. *)
NobodyWaits == LoopReads /\ LostIsEnded

(* A local shell that shows itself live has a process on the socket that is open:
   the page never lets its user type into a shell that is gone
   (LocalShellTerm.tsx:76, "a dropped socket really is a dead PTY. Say so"). *)
LiveIsRunning ==
  \A v \in Views : view[v].phase = "live" =>
    LET r == run[view[v].id] IN r.at = "running" /\ Live(r.on)
=============================================================================
