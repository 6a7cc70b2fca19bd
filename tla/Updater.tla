------------------------------ MODULE Updater ------------------------------
(***************************************************************************)
(* An engine on a server, or in the desktop app, which updates itself      *)
(* (desktop/src-tauri/src/updater.rs, main.rs): checks, started by a timer *)
(* or by the page, that download an update; and its installation, before   *)
(* which the app asks the engine what a restart would cut off              *)
(* (engine/internal/httpapi/activity.go).  The engine's work is that of    *)
(* PortForwards, and terminals.                                            *)
(*                                                                         *)
(* Commands that are not async run on the main thread: there is one        *)
(* install at a time.  Checks run beside it.                               *)
(***************************************************************************)
EXTENDS PortForwards, FiniteSets

CONSTANTS
  Terminals,  \* terminals a user may have open
  Timer,      \* the thread that checks on launch and once a day
  Commands,   \* commands of the page that check
  OnServer,   \* bound of the model: requests made of an engine on a server,
  InApp       \* and of one in the app

VARIABLES
  terminals,  \* open exec and local-shell channels
  engine,     \* the engine is up
  app,        \* "none", "running", or "restarted" into the update
  status,     \* Updates.status; "reported" is any outcome but an update to install
  pending,    \* an update is downloaded and waits
  checking,   \* who is in run_update_check
  install,    \* where install_update is, and what it has counted so far
  through,    \* history: what was in flight all the time since it asked
  quiet       \* history: at some time since then nothing was

upd     == <<status, pending, checking>>
here    == <<terminals, engine, app>>
appVars == <<vars, here, upd, install, through, quiet>>

Checkers == {Timer} \cup Commands

(* What the activity report counts. *)
Counted == (terminals \X {"terminal"}) \cup ((DOMAIN table) \X {"forward"})
             \cup (InFlight \X {"write"})

(* The app starts its engine without OIDC. *)
AppInit ==
  /\ Init
  /\ terminals = {}
  /\ engine = TRUE
  /\ \/ /\ app = "running"
        /\ ~ auth
        /\ status \in {"unavailable", "idle"}
     \/ /\ app = "none"
        /\ status = "unavailable"
  /\ pending = FALSE
  /\ checking = {}
  /\ install = [pc |-> "idle", seen |-> 0]
  /\ through = {}
  /\ quiet = FALSE

InstallAt(pc) == install.pc = pc

Reading == install.pc \notin {"idle", "installing"}

(* What history keeps of the reading that goes on. *)
Watch ==
  /\ through' = CASE ~ Reading' -> {}
                   [] Reading   -> through \cap Counted'
                   [] OTHER     -> Counted'
  /\ quiet' = (Reading' /\ (quiet \/ Counted' = {}))

-----------------------------------------------------------------------------
(* The engine at work *)

Elsewhere == UNCHANGED <<here, upd, install>> /\ Watch

MayAsk == IF app = "none" THEN OnServer ELSE InApp

Work ==
  /\ engine
  /\ Next
  /\ \A p \in Requests \ MayAsk : At(p, "idle")'
  /\ Elsewhere

Terminal(t) ==
  /\ engine
  /\ app = "running"
  /\ terminals' \in {terminals \cup {t}, terminals \ {t}}
  /\ UNCHANGED <<vars, engine, app, upd, install>>
  /\ Watch

-----------------------------------------------------------------------------
(* Checks *)

(* Mutant: a check although an update is ready. *)
BeginCheck_Again(c) ==
  /\ c \notin checking
  /\ status \notin {"unavailable", "checking"}
  /\ status' = "checking"
  /\ checking' = checking \cup {c}
  /\ UNCHANGED <<pending, install>>

(* The timer does so if it may, a command always. *)
BeginCheck(c) ==
  /\ c \notin checking
  /\ status \notin {"unavailable", "checking", "ready"}
  /\ status' = "checking"
  /\ checking' = checking \cup {c}
  /\ UNCHANGED <<pending, install>>

(* check_once comes back, with an update it downloaded or with none. *)
FinishCheck(c) ==
  /\ c \in checking
  /\ checking' = checking \ {c}
  /\ \E found \in BOOLEAN :
       /\ status' = IF found THEN "ready" ELSE "reported"
       /\ pending' = found
  /\ UNCHANGED install

CheckSteps ==
  /\ \E c \in Checkers : BeginCheck(c) \/ FinishCheck(c)
  /\ UNCHANGED <<vars, here>>

-----------------------------------------------------------------------------
(* install_update: three counts are read one after the other. *)

Go(pc, n) == install' = [pc |-> pc, seen |-> install.seen + n]

Back == install' = [pc |-> "idle", seen |-> 0]

(* The banner of an update that is ready: a request to the engine, which fails
   if there is none. *)
Ask ==
  /\ InstallAt("idle")
  /\ status = "ready"
  /\ engine
  /\ Go("terminals", 0)
  /\ UNCHANGED <<engine, app, pending>>

ReadTerminals ==
  /\ InstallAt("terminals")
  /\ Go("forwards", Cardinality(terminals))
  /\ UNCHANGED <<engine, app, pending>>

(* Mutant: the count replaces the one before it. *)
ReadForwards_Only ==
  /\ InstallAt("forwards")
  /\ install' = [pc |-> "writes", seen |-> Cardinality(DOMAIN table)]
  /\ UNCHANGED <<engine, app, pending>>

ReadForwards ==
  /\ InstallAt("forwards")
  /\ Go("writes", Cardinality(DOMAIN table))
  /\ UNCHANGED <<engine, app, pending>>

ReadWrites ==
  /\ InstallAt("writes")
  /\ Go("answered", Cardinality(InFlight))
  /\ UNCHANGED <<engine, app, pending>>

(* No answer within 5 s: the error is shown. *)
AskFails ==
  /\ Reading
  /\ Back
  /\ UNCHANGED <<engine, app, pending>>

(* restart_blocker, or there is no update. *)
Refused ==
  /\ InstallAt("answered")
  /\ install.seen > 0 \/ ~ pending
  /\ Back
  /\ UNCHANGED <<engine, app, pending>>

(* take_pending; on Windows, and nowhere else, the engine is then stopped. *)
TakePending ==
  /\ InstallAt("answered")
  /\ install.seen = 0
  /\ pending
  /\ pending' = FALSE
  /\ engine' \in BOOLEAN
  /\ install' = [pc |-> "installing", seen |-> 0]
  /\ UNCHANGED app

InstallFails ==
  /\ InstallAt("installing")
  /\ pending' = TRUE
  /\ Back
  /\ UNCHANGED <<engine, app>>

Restart ==
  /\ InstallAt("installing")
  /\ engine' = FALSE
  /\ app' = "restarted"
  /\ UNCHANGED <<pending, install>>

InstallSteps ==
  /\ \/ Ask \/ ReadTerminals \/ ReadForwards \/ ReadWrites \/ AskFails
     \/ Refused \/ TakePending \/ InstallFails \/ Restart
  /\ UNCHANGED <<vars, terminals, status, checking>>

-----------------------------------------------------------------------------
AppNext ==
  \/ Work
  \/ \E t \in Terminals : Terminal(t)
  \/ app = "running" /\ (CheckSteps \/ InstallSteps) /\ Watch

(* The engine is as fair as in PortForwards while it is up.  Nobody has to
   check, ask, or let an install succeed. *)
AppFairness ==
  \A p \in Requests :
    /\ WF_appVars(engine /\ Serve(p) /\ Elsewhere)
    /\ WF_appVars(engine /\ Heeds(p) /\ Elsewhere)

AppSpec == AppInit /\ [][AppNext]_appVars /\ AppFairness

-----------------------------------------------------------------------------
(* Every variable has its type. *)
AppTypeOK ==
  /\ TypeOK
  /\ terminals \subseteq Terminals
  /\ {engine, pending, quiet} \subseteq BOOLEAN
  /\ app \in {"none", "running", "restarted"}
  /\ status \in {"unavailable", "idle", "checking", "ready", "reported"}
  /\ checking \subseteq Checkers
  /\ install.pc \in {"idle", "terminals", "forwards", "writes", "answered", "installing"}
  /\ install.seen \in Nat

(* The app does not go on to install over anything that was in flight all the
   time it asked, although the counts are read apart: an open terminal, a
   port-forward in the table, or a write from its arrival to its answer
   (activity.go:40-52, updater.rs:231-253). *)
HeldWorkBlocks == [][TakePending => through = {}]_appVars

(* An update the page shows as ready is there to install, or being installed,
   and there is one: checks by the timer and by commands go one at a time and
   do not replace it, and one that did not install is put back
   (updater.rs:192-219). *)
UpdateKept ==
  /\ status = "ready" <=> pending \/ InstallAt("installing")
  /\ ~ (pending /\ InstallAt("installing"))
  /\ Cardinality(checking) <= 1

(* While the engine is up, what was to end stays ended and every request is
   answered (portforward.go:112-181; EndsForGood, Answered). *)
ForwardsSettle == []engine => EndsForGood /\ Answered

-----------------------------------------------------------------------------
(* Expectations the code does not meet; no run checks them. *)

(* "won't restart while any of it is non-zero" (activity.go:10-12): a start
   that is a write when the forwards are counted, and a forward when the writes
   are, is in neither count. *)
BusyBlocks == [][TakePending => quiet]_appVars

(* The update may be asked for again if it does not install: on Windows there
   is then no engine to ask, nor to serve the page. *)
EngineStays == app = "running" => engine \/ InstallAt("installing")

=============================================================================
