------------------------------ MODULE Download ------------------------------
(***************************************************************************)
(* The attachments of one message (lib/media.py, bin/download_worker.py):   *)
(* each file is loaded by a child process into a temporary directory, the   *)
(* daemon alone renames the directory when all are there, and a transaction *)
(* then hands the message on (lib/inbound.py).  The token is the one in the *)
(* file when the attempt begins, whatever the gate says of it.              *)
(***************************************************************************)
EXTENDS Gate, Sequences

CONSTANTS
  Files,       \* how many attachments the message has
  Announced    \* those whose response says how long it is

ASSUME FilesAssumption == Files \in Nat \ {0} /\ Announced \subseteq 1..Files

VARIABLES
  job,         \* the message: it waits for its files, is handed on, or is lost
  tried,       \* materialize_started_at is set
  tok,         \* the version whose bot token the attempt uses
  tmp, dest,   \* the temporary and the published directory: what is in them, None: not there
  litter,      \* a temporary directory is left of a daemon that has died
  orphan       \* and a child of it is still writing there

mediaVars == <<job, tried, tok, tmp, dest, litter, orphan>>

Body == {"whole", "any"}

DownloadInit ==
  /\ job = "due" /\ tried = FALSE /\ tok = None /\ tmp = None /\ dest = None
  /\ litter = FALSE /\ orphan = FALSE

\* materialize() begins: what is published already is used, else the token is read.
BeginLoad ==
  /\ at = "work" /\ job = "due" /\ Free /\ tried' = TRUE
  /\ \/ dest # None /\ at' = "store" /\ UNCHANGED <<tok, tmp>>
     \/ dest = None /\ file # None /\ at' = "load" /\ tok' = file /\ tmp' = <<>>
     \/ dest = None /\ file = None /\ at' = "gate" /\ UNCHANGED <<tok, tmp>>
  /\ UNCHANGED <<gateVars, job, dest, litter, orphan>>

\* _materialize_terminal: ten minutes since the first attempt.
GiveUp ==
  /\ Goto("work", "gate") /\ job = "due" /\ tried /\ Free /\ job' = "failed"
  /\ UNCHANGED <<gateVars, tried, tok, tmp, dest, litter, orphan>>

\* No message waits, or its backoff has not passed.
NothingDue == Goto("work", "gate") /\ Free /\ (job # "due" \/ tried) /\ UNCHANGED <<gateVars, mediaVars>>

\* An attempt ends without its files, and the temporary directory with it.
Discard(state) ==
  /\ at' = "gate" /\ tmp' = None /\ tok' = None /\ job' = state
  /\ UNCHANGED <<gateVars, tried, dest, litter, orphan>>

\* Mutant: a response that ends early is taken for the whole.
BugAccepted(i) == {"whole", "any"}

\* What run() of the worker returns as good: a body of the length that was announced, or, of a
\* length that was not, whatever came.
Accepted(i) == IF i \in Announced THEN {"whole"} ELSE {"any"}

\* Mutant: the last file is counted when the next one is asked for.
BugFetch ==
  /\ at = "load" /\ tok \in Own /\ Free
  /\ \E body \in Accepted(Len(tmp) + 1) : tmp' = Append(tmp, body)
  /\ at' = IF Len(tmp) = Files THEN "publish" ELSE "load"
  /\ UNCHANGED <<gateVars, job, tried, tok, dest, litter, orphan>>

Fetch ==
  /\ at = "load" /\ tok \in Own /\ Free
  /\ \E body \in Accepted(Len(tmp) + 1) : tmp' = Append(tmp, body)
  /\ at' = IF Len(tmp) + 1 = Files THEN "publish" ELSE "load"
  /\ UNCHANGED <<gateVars, job, tried, tok, dest, litter, orphan>>

\* Network, 429, 5xx, a body cut short, a worker that dies, the deadline of the message.
FetchFails == at = "load" /\ Spend /\ Discard("due")

\* A redirect, a page in place of the file, a 4xx, too long; a foreign token earns one of these.
FetchRefused ==
  /\ at = "load" /\ (IF tok \in Own THEN Spend ELSE Free) /\ Discard("failed")

\* The daemon renames the directory, or the file system refuses.
Publish ==
  /\ at = "publish"
  /\ \/ /\ at' = "store" /\ Free /\ dest' = tmp /\ tmp' = None /\ tok' = None
        /\ UNCHANGED <<gateVars, job, tried, litter, orphan>>
     \/ Spend /\ Discard("failed")

Store ==
  /\ Goto("store", "gate") /\ Free /\ job' = "stored"
  /\ UNCHANGED <<gateVars, tried, tok, tmp, dest, litter, orphan>>

------------------------------------------------------------------------------
\* The daemon is killed: its temporary directory stays, and so does its child for a second.
Abandon ==
  /\ litter' = (litter \/ tmp # None) /\ orphan' = (orphan \/ at = "load")
  /\ tmp' = None /\ tok' = None /\ UNCHANGED <<job, tried, dest>>

\* The watchdog of the worker sees another parent, or its alarm rings.
OrphanEnds ==
  /\ orphan /\ Free /\ orphan' = FALSE
  /\ UNCHANGED <<at, gateVars, job, tried, tok, tmp, dest, litter>>

\* Mutant: the sweep looks at the directories of messages only.
BugSweep ==
  /\ Goto("ready", "spawn") \/ Goto("slow", "flag")
  /\ Free /\ UNCHANGED <<gateVars, mediaVars>>

\* _retention_media, in the slow_tick at the start and in the loop: a temporary directory older
\* than any child of it can be.
Sweep ==
  /\ Goto("ready", "spawn") \/ Goto("slow", "flag")
  /\ Free
  /\ \/ litter /\ ~orphan /\ litter' = FALSE
     \/ UNCHANGED litter
  /\ UNCHANGED <<gateVars, job, tried, tok, tmp, dest, orphan>>

------------------------------------------------------------------------------
DownloadTypeOK ==
  /\ job \in {"due", "stored", "failed"} /\ tried \in BOOLEAN /\ tok \in Version \cup {None}
  /\ tmp = None \/ (tmp \in Seq(Body) /\ Len(tmp) <= Files)
  /\ dest = None \/ dest \in Seq(Body)
  /\ litter \in BOOLEAN /\ orphan \in BOOLEAN

=============================================================================
