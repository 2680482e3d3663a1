----------------------------- MODULE TorProcess -----------------------------
(***************************************************************************)
(* The Tor client that Deep Messenger starts as a child process            *)
(* (app_tor.c, sys_process.c, sys_crash.c, the end of app_start.c and the  *)
(* command `tor'): who owns the child, and whether it is known to be ready.*)
(***************************************************************************)
EXTENDS Naturals

CONSTANTS MaxStarts   \* bound: the children ever started

ASSUME MaxStartsAssumption == MaxStarts \in Nat

VARIABLES
  mode,      \* is_mailbox and manual_mode, read at start-up
  program,   \* "starting", "running", "ended" (app_end), "crashed" or "segv"
  proc,      \* tor_process: the number of a child, 0 for NULL
  event,     \* tor_event is set
  ready,     \* tor_ready
  starts,    \* history: children started
  live,      \* the children that run and have not been sent SIGTERM
  pipe,      \* has the child of proc printed the success line, not yet read
  synced     \* history: app_mailbox_sync and app_contact_sync have run

tvars == <<mode, program, proc, event, ready, starts, live, pipe, synced>>

Children == 1..MaxStarts
-----------------------------------------------------------------------------
TorInit ==
  /\ mode \in [mailbox : BOOLEAN, manual : BOOLEAN]
  /\ program = "starting"
  /\ proc = 0 /\ event = FALSE /\ ready = FALSE
  /\ starts = 0 /\ live = {} /\ pipe = FALSE /\ synced = FALSE

\* sys_crash runs its callbacks and leaves; app_tor_crash is registered nowhere, so the
\* child stays.
Crash == program' = "crashed" /\ UNCHANGED <<event, ready, pipe>>

\* app_tor_end, when tor_process is c and these children run: the pipe is closed and
\* SIGTERM sent.
TorEnd(c, children) == /\ ready' = FALSE /\ event' = FALSE /\ proc' = 0 /\ pipe' = FALSE
                       /\ live' = children \ {c}

\* Mutation: the failed child is forgotten and not ended.
TorErrForgets(c, children) ==
  IF mode.mailbox THEN Crash /\ proc' = c /\ live' = children
  ELSE TorEnd(0, children) /\ program' = "running"
\* tor_err.
TorErr(c, children) ==
  IF mode.mailbox THEN Crash /\ proc' = c /\ live' = children
  ELSE TorEnd(c, children) /\ program' = "running"

\* app_tor_start: no port, torrc cannot be written, or fork fails ...
StartFails == ~ready /\ TorErr(proc, live) /\ UNCHANGED starts

\* ... or there is a child: sys_process_start has returned its pipes ...
Started ==
  /\ ~ready /\ starts < MaxStarts
  /\ starts' = starts + 1 /\ proc' = starts + 1 /\ live' = live \cup {starts + 1}
  /\ event' = TRUE /\ program' = "running"
  /\ UNCHANGED <<ready, pipe>>

\* ... but its output cannot be made nonblocking.
StartedInVain ==
  /\ ~ready /\ starts < MaxStarts
  /\ starts' = starts + 1
  /\ TorErr(starts + 1, live \cup {starts + 1})

TorStart == (StartFails \/ Started \/ StartedInVain) /\ UNCHANGED <<mode, synced>>

\* The end of app_start.
AppStart == /\ program = "starting"
            /\ IF mode.manual
               THEN /\ program' = "running"
                    /\ UNCHANGED <<mode, proc, event, ready, starts, live, pipe, synced>>
               ELSE TorStart

\* command_tor.
CommandTor == program = "running" /\ ~mode.mailbox /\ proc = 0 /\ TorStart

\* tor_handle_output reads lines.  The success line may be among them; at the end of the
\* file read returns 0 and nothing at all happens.
Output == /\ program = "running" /\ event
          /\ pipe
          /\ ready' = TRUE /\ pipe' = FALSE
          /\ synced' = (synced \/ (~mode.mailbox /\ ~mode.manual))
          /\ UNCHANGED <<mode, program, proc, event, starts, live>>

\* read fails in tor_handle_output: tor_err clears tor_process, and the handler passes
\* it to sys_process_end once more.
ReadError == /\ program = "running" /\ event
             /\ IF mode.mailbox THEN Crash /\ UNCHANGED <<proc, live>>
                ELSE TorEnd(proc, live) /\ program' = "segv"
             /\ UNCHANGED <<mode, starts, synced>>

\* app_end.
AppEnd == /\ program = "running"
          /\ TorEnd(proc, live) /\ program' = "ended"
          /\ UNCHANGED <<mode, starts, synced>>

\* sys_crash anywhere else: the database, memory, the mailbox server.
CrashElsewhere == /\ program \in {"starting", "running"}
                  /\ Crash /\ UNCHANGED <<mode, proc, starts, live, synced>>

\* Tor prints that it is ready, or exits.
TorPrints == /\ proc \in live /\ ~pipe /\ pipe' = TRUE
             /\ UNCHANGED <<mode, program, proc, event, ready, starts, live, synced>>
TorExits == /\ \E c \in live : live' = live \ {c}
            /\ UNCHANGED <<mode, program, proc, event, ready, starts, pipe, synced>>

TorNext == \/ AppStart \/ CommandTor \/ Output \/ ReadError \/ AppEnd
           \/ CrashElsewhere \/ TorPrints \/ TorExits

TorSpec == TorInit /\ [][TorNext]_tvars
-----------------------------------------------------------------------------
(* Properties *)

\* The program owns its child: unless it crashed, no other child runs; a program that ended
\* has stopped the one it had.  Tor is thought to be ready, and its output is waited for,
\* only while there is a child to own, so that the command tor can start the next one.
TorOwned ==
  /\ program # "crashed" => live \subseteq {proc} \ {0}
  /\ program \in {"ended", "segv"} => live = {}
  /\ event => proc # 0
  /\ ready => event
  /\ program = "running" => (event <=> proc # 0)
=============================================================================
