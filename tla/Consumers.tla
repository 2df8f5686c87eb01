----------------------------- MODULE Consumers -----------------------------
(***************************************************************************)
(* ConsumerManager (lib/daemon_core.py): the daemon keeps one child process *)
(* that holds the Socket Mode connection (bin/slack_consumer.py).  The      *)
(* child reads the app-level token when it starts and never again; the      *)
(* gate tells the daemon when that token has changed.  What the child is    *)
(* believed to be doing is in daemon_state, for status and bind to read.    *)
(***************************************************************************)
EXTENDS Gate

VARIABLES
  kid,         \* the child: starting, connected, ended, told to end
  ktok,        \* the app-level token it has read
  hail,        \* its ready line is in the pipe, unread
  exited,      \* c.exited: the manager knows that it has none
  pause,       \* c.next_restart_at is later: its backoff
  crow,        \* daemon_state.consumer_socket_ready
  blind        \* ghost: it holds a token that the gate has not read since

kidVars     == <<kid, ktok, hail>>
managerVars == <<exited, pause, crow>>
consumerVars == <<kidVars, managerVars, blind>>

ConsumersInit ==
  /\ kid = "none" /\ ktok = None /\ hail = FALSE
  /\ exited = TRUE /\ pause = FALSE /\ crow = "none" /\ blind = FALSE

\* The gate has read the file: it knows the child's token, or it does not.
Noted == blind' = (blind /\ digest' # ktok)

------------------------------------------------------------------------------
(***************************************************************************)
(* The child: main() and Consumer.run() of bin/slack_consumer.py.           *)
(***************************************************************************)
\* It reads its token; after Slack's hello its ready line is in the pipe.
KidConnects ==
  /\ kid = "boot" /\ Free
  /\ \/ /\ file # None /\ kid' = "live" /\ hail' = TRUE
        /\ ktok' = AppOf[file] /\ blind' = (digest # AppOf[file])
     \/ /\ file = None /\ kid' = "gone" /\ UNCHANGED <<ktok, hail, blind>>
  /\ UNCHANGED <<at, gateVars, managerVars>>

\* A fatal error, no hello, or too long without a connection: it leaves of its own accord.
KidLeaves ==
  /\ kid \in {"boot", "live"} /\ Spend /\ kid' = "gone"
  /\ UNCHANGED <<at, gateVars, ktok, hail, managerVars, blind>>

KidObeys ==
  /\ kid = "dying" /\ Free /\ kid' = "none"
  /\ UNCHANGED <<at, gateVars, ktok, hail, managerVars, blind>>

------------------------------------------------------------------------------
(***************************************************************************)
(* The manager.                                                             *)
(***************************************************************************)
\* _teardown: the pipes are closed, what is in them is lost, and the child is told to end;
\* it has two seconds to do so.
Teardown(wait) ==
  /\ exited' = TRUE /\ crow' = "down" /\ pause' = wait
  /\ hail' = FALSE /\ ktok' = None /\ blind' = FALSE
  /\ kid' \in {"none"} \cup (IF kid = "gone" THEN {} ELSE {"dying"})

\* _spawn
Spawned ==
  /\ kid' = "boot" /\ exited' = FALSE /\ crow' = "starting" /\ Free
  /\ UNCHANGED <<ktok, hail, pause, blind>>
SpawnFailed ==
  /\ crow' = "down" /\ pause' = TRUE /\ Spend /\ UNCHANGED <<kidVars, exited, blind>>

StartAll ==
  /\ Goto("spawn", "poll") /\ (Spawned \/ SpawnFailed) /\ UNCHANGED gateVars

\* poll(): every line that is there is fed; the end of the stream tears the child down.
Poll ==
  /\ Goto("poll", "work") /\ Free /\ UNCHANGED gateVars
  /\ \/ ~exited /\ kid = "gone" /\ Teardown(TRUE)
     \/ /\ kid # "gone" /\ hail /\ hail' = FALSE /\ crow' = "ready"
        /\ UNCHANGED <<kid, ktok, exited, pause, blind>>
     \/ (exited \/ kid # "gone") /\ ~hail /\ UNCHANGED consumerVars

\* restart_consumer_if_app_token_changed and restart(): the signal is taken down by reading it.
Restart ==
  /\ Goto("flag", "tick") /\ Free /\ flag' = FALSE
  /\ \/ flag /\ ~exited /\ kid # "gone" /\ Teardown(FALSE)
     \/ ~(flag /\ ~exited /\ kid # "gone") /\ UNCHANGED consumerVars
  /\ UNCHANGED <<fileVars, client, before, got, pend, seen, digest, stateVars, senderVars, doctor,
                 vouched, proven>>

\* tick(): a child that has ended unnoticed, one that will not end, one whose time has come.
TickNotices == ~exited /\ kid = "gone" /\ Teardown(TRUE) /\ Free
TickSpawns  == exited /\ kid = "none" /\ (Spawned \/ SpawnFailed)
TickRests   ==
  /\ (exited => kid = "dying" \/ pause) /\ (~exited => kid # "gone") /\ Free
  /\ UNCHANGED consumerVars

ManagerTick == Goto("tick", "poll") /\ (TickNotices \/ TickSpawns \/ TickRests) /\ UNCHANGED gateVars

------------------------------------------------------------------------------
ConsumersTypeOK ==
  /\ kid \in {"none", "boot", "live", "gone", "dying"} /\ ktok \in AppToken \cup {None}
  /\ hail \in BOOLEAN /\ exited \in BOOLEAN /\ pause \in BOOLEAN /\ blind \in BOOLEAN
  /\ crow \in {"none", "starting", "ready", "down"}

=============================================================================
