--------------------------------- MODULE Handoff ---------------------------------
(***************************************************************************)
(* The self-update of `attached serve` (crates/cli/src/server.rs,           *)
(* serve_handoff.rs, installation.rs and the client in remote_update.rs).   *)
(*                                                                         *)
(* A consumer asks a running server to update.  The server keeps a copy of  *)
(* its executable, runs the updater, starts the new executable as a         *)
(* candidate, announces the restart, drains and closes its endpoint and     *)
(* only then lets the candidate bind.  The candidate is committed when the  *)
(* consumer reaches it; otherwise it is aborted, the old executable is      *)
(* restored and the old server binds again.  A committed candidate is a     *)
(* server like any other: the old process only supervises it, and the next  *)
(* update is its business, so processes form a chain.                       *)
(*                                                                         *)
(* Every timeout of the code is a step that may happen at any moment.       *)
(***************************************************************************)
EXTENDS Naturals, Sequences, FiniteSets

CONSTANTS
    MAX_PROCESSES,       \* bound: server processes, the first one included
    MAX_VERSION,         \* bound: versions the updater may install
    MAX_OPERATIONS,      \* bound: update operations
    MAX_CRASHES,         \* bound: processes killed from outside
    MAX_SIGNALS,         \* bound: signals the user sends to the first process
    Clients,             \* consumer processes asking for an update
    PrepareWithinBudget, \* TRUE: the blocking preparation (updater 120 s, copy,
                         \* version query) ends within its 130 s budget
    PromptAbort          \* TRUE: an aborted candidate leaves serve_endpoint before
                         \* an update it accepted after the abort is prepared

ASSUME HandoffAssumption ==
    /\ MAX_PROCESSES \in Nat \ {0} /\ MAX_VERSION \in Nat \ {0}
    /\ MAX_OPERATIONS \in Nat /\ MAX_CRASHES \in Nat /\ MAX_SIGNALS \in Nat
    /\ PrepareWithinBudget \in BOOLEAN /\ PromptAbort \in BOOLEAN

Processes == 1 .. MAX_PROCESSES
Versions == 1 .. MAX_VERSION
Operations == 1 .. MAX_OPERATIONS
None == 0

VARIABLES
    executable,  \* version of the installed binary
    phase,       \* where each server process is
    version,     \* version each process runs
    operation,   \* candidate: the operation it was started for
    parent,      \* candidate: the process that started it
    disposition, \* candidate: CandidateDisposition
    announced,   \* candidate: announced_consumer
    commands,    \* candidate: its stdin, ParentCommands not read yet
    events,      \* candidate: its stdout, CandidateEvents not read yet
    task,        \* the update task, the holder of the update_limit permit
    active,      \* active_operation
    ended,       \* tasks that gave the permit back and still have to reset
                 \* active_operation and to answer their client
    rollback,    \* operation of the last RollbackRecord
    late,        \* a blocking preparation whose caller timed out, or the updater
                 \* of a killed process
    signalled,   \* a SIGINT or SIGTERM the process has not taken yet
    client,      \* consumers
    operations,  \* operations started
    faults       \* crashes and signals so far

vars == <<executable, phase, version, operation, parent, disposition, announced,
          commands, events, task, active, ended, rollback, late, signalled, client,
          operations, faults>>

identityVars == <<version, parent>>
pipeVars == <<commands, events>>
taskVars == <<task, active, ended, rollback, late>>

\* phase, in the order a process goes through them:
\*   unborn
\*   waiting    candidate: sent Prepared, waits for Activate
\*   binding    binds, registers and publishes the endpoint
\*   serving    serve_endpoint accepts connections
\*   draining   serve_endpoint waits for its connections (outcome in brackets)
\*   readiness, consumer, acknowledgement   steps of coordinate_handoff
\*   aborting   coordinate_handoff waits for the candidate to exit
\*   supervising, stopping   CandidateProcess::supervise before and after a signal
\*   dead
Draining == {"draining shutdown", "draining handoff", "draining aborted"}
Coordinating == {"readiness", "consumer", "acknowledgement", "aborting"}

\* Processes that hold the endpoint of this identity, or are binding it.
HoldsEndpoint == {"binding", "serving"} \cup Draining

alive(p) == phase[p] \notin {"unborn", "dead"}

\* A request reaches a server that accepts connections, or one that is draining
\* and had accepted the connection before.
reachable(p) == phase[p] = "serving" \/ phase[p] \in Draining

\* The update task of a process, from Start to the end of the handoff.  backup is
\* the version of the retained binary, target the version the updater installed,
\* candidate the process that was spawned.
NoTask == [stage |-> "none", operation |-> None, backup |-> None,
           target |-> None, candidate |-> None, client |-> None]

Idle == [state |-> "idle", server |-> None, operation |-> None,
         version |-> None, notify |-> FALSE]

Init ==
    /\ executable = 1
    /\ phase = [p \in Processes |-> IF p = 1 THEN "binding" ELSE "unborn"]
    /\ version = [p \in Processes |-> IF p = 1 THEN 1 ELSE None]
    /\ operation = [p \in Processes |-> None]
    /\ parent = [p \in Processes |-> None]
    /\ disposition = [p \in Processes |-> "none"]
    /\ announced = [p \in Processes |-> FALSE]
    /\ commands = [p \in Processes |-> <<>>]
    /\ events = [p \in Processes |-> <<>>]
    /\ task = [p \in Processes |-> NoTask]
    /\ active = [p \in Processes |-> None]
    /\ ended = [p \in Processes |-> {}]
    /\ rollback = [p \in Processes |-> None]
    /\ late = [p \in Processes |-> <<"none", None>>]
    /\ signalled = [p \in Processes |-> "none"]
    /\ client = [k \in Clients |-> Idle]
    /\ operations = 0
    /\ faults = [crashes |-> 0, signals |-> 0]

----------------------------------------------------------------------------
(* The update protocol between a consumer and a server.                    *)

\* update: a consumer that resolved a live host, one that is not served on its own
\* machine, begins.
update(k) == client[k].state = "idle"

\* A consumer asks for an update, then for the fate of the operation it was told.
write_attached_update_request(k) ==
    CASE update(k) -> [type |-> "start"]
      [] client[k].state = "confirming" ->
            [type |-> "confirm", operation_id |-> client[k].operation,
             observed_version |-> client[k].version]
      [] OTHER -> [type |-> "none"]

read_attached_update_request(k, p, type) ==
    reachable(p) /\ write_attached_update_request(k).type = type

\* What a response makes of the consumer that reads it, after Start and after
\* Confirm: Busy and Waiting only delay a confirmation.
start_outcome(response) ==
    CASE response \in {"current", "committed"} -> "updated"
      [] response = "restarting" -> "confirming"
      [] response \in {"failed", "busy", "waiting"} -> "failed"

confirm_outcome(response) ==
    CASE response \in {"current", "committed"} -> "updated"
      [] response = "failed" -> "failed"
      [] response \in {"restarting", "busy", "waiting"} -> "confirming"

respond(k, outcome) == client' = [client EXCEPT ![k].state = outcome]

----------------------------------------------------------------------------
(* The control channel between a server and its candidate.                 *)

is_pending(p) == disposition[p] = "pending"

send_command(c, command) == commands' = [commands EXCEPT ![c] = Append(@, command)]

send_event(c, event) == events' = [events EXCEPT ![c] = Append(@, event)]

----------------------------------------------------------------------------
(* Start: preparation of an update while the old endpoint keeps serving.   *)

\* A pending candidate, or a server whose update permit is taken, is busy.
busy(p) == is_pending(p) \/ task[p].stage # "none"

new_operation_id == operations + 1

\* The executable is retained before the updater may replace it.
prepare_remote_update(k) ==
    [NoTask EXCEPT !.stage = "updating", !.operation = new_operation_id,
                   !.backup = executable, !.client = k]

restore_backup(p) == executable' = task[p].backup

StartBusy(k, p) ==
    /\ read_attached_update_request(k, p, "start")
    /\ busy(p)
    /\ respond(k, start_outcome("busy"))
    /\ UNCHANGED <<executable, phase, identityVars, operation, disposition,
                   announced, pipeVars, taskVars, signalled, operations, faults>>

\* The permit is taken, the operation is recorded and the executable is copied.
StartAccepted(k, p) ==
    /\ read_attached_update_request(k, p, "start")
    /\ ~busy(p)
    /\ new_operation_id \in Operations
    /\ operations' = new_operation_id
    /\ active' = [active EXCEPT ![p] = new_operation_id]
    /\ task' = [task EXCEPT ![p] = prepare_remote_update(k)]
    /\ client' = [client EXCEPT ![k].state = "starting", ![k].server = p]
    /\ UNCHANGED <<executable, phase, identityVars, operation, disposition,
                   announced, pipeVars, ended, rollback, late, signalled, faults>>

\* The permit goes with the result of prepare_attached_handoff, before the
\* connection resets active_operation and answers: another Start may come between.
release_permit(p, answer) ==
    /\ task' = [task EXCEPT ![p] = NoTask]
    /\ ended' = [ended EXCEPT ![p] = @ \cup {<<task[p].client, answer>>}]

OperationForgotten(p) ==
    \E end \in ended[p] :
        /\ ended' = [ended EXCEPT ![p] = @ \ {end}]
        /\ active' = [active EXCEPT ![p] = None]
        /\ client' = [client EXCEPT ![end[1]].state =
                         IF @ = "starting" THEN start_outcome(end[2]) ELSE @]
        /\ UNCHANGED <<executable, phase, identityVars, operation, disposition,
                       announced, pipeVars, task, rollback, late, signalled,
                       operations, faults>>

\* The handoff is over: its permit is dropped and the operation is forgotten.
end_task(p) ==
    /\ task' = [task EXCEPT ![p] = NoTask]
    /\ active' = [active EXCEPT ![p] = None]

\* The client that waits for the answer of p's task gets it, if it still waits.
answer_start(p, answer) ==
    client' = [k \in Clients |->
        IF k = task[p].client /\ client[k].state = "starting" THEN answer
        ELSE client[k]]

UpdaterInstalls(p) ==
    /\ task[p].stage = "updating"
    /\ \E v \in Versions : executable' = v
    /\ task' = [task EXCEPT ![p].stage = "installed"]
    /\ UNCHANGED <<phase, identityVars, operation, disposition, announced,
                   pipeVars, active, ended, rollback, late, signalled, client,
                   operations, faults>>

\* The preparation fails in the task itself: the backup is restored.
preparation_fails(p) ==
    /\ restore_backup(p)
    /\ release_permit(p, "failed")
    /\ UNCHANGED <<phase, identityVars, operation, disposition, announced,
                   pipeVars, active, rollback, late, signalled, client, operations,
                   faults>>

\* The updater fails, writes too much or runs past its deadline.  Its process
\* group is killed and reaped first, so that nothing installs after the restore.
UpdaterFails(p) == task[p].stage = "updating" /\ preparation_fails(p)

\* --version fails, does not end or prints no version.
VersionUnreadable(p) == task[p].stage = "installed" /\ preparation_fails(p)

VersionOlder(p) ==
    /\ task[p].stage = "installed" /\ executable < version[p]
    /\ preparation_fails(p)

\* The update changed nothing: the backup is removed, the client is told Current.
PreparationCurrent(p) ==
    /\ task[p].stage = "installed" /\ executable = version[p]
    /\ release_permit(p, "current")
    /\ UNCHANGED <<executable, phase, identityVars, operation, disposition,
                   announced, pipeVars, active, rollback, late, signalled, client,
                   operations, faults>>

PreparationVerified(p) ==
    /\ task[p].stage = "installed" /\ executable > version[p]
    /\ task' = [task EXCEPT ![p].stage = "verified", ![p].target = executable]
    /\ UNCHANGED <<executable, phase, identityVars, operation, disposition,
                   announced, pipeVars, active, ended, rollback, late, signalled, client,
                   operations, faults>>

\* The 130 s budget of the preparation ends first.  The blocking thread goes on
\* with nobody waiting for its result.
PreparationTimesOut(p) ==
    /\ ~PrepareWithinBudget
    /\ task[p].stage \in {"updating", "installed"} /\ late[p][1] = "none"
    /\ late' = [late EXCEPT ![p] = <<task[p].stage, task[p].backup>>]
    /\ release_permit(p, "failed")
    /\ UNCHANGED <<executable, phase, identityVars, operation, disposition,
                   announced, pipeVars, active, rollback, signalled, client,
                   operations, faults>>

LateUpdaterInstalls(p) ==
    /\ late[p][1] = "updating"
    /\ \E v \in Versions : executable' = v
    /\ late' = [late EXCEPT ![p][1] = "installed"]
    /\ UNCHANGED <<phase, identityVars, operation, disposition, announced,
                   pipeVars, task, active, ended, rollback, signalled, client,
                   operations, faults>>

\* It fails, or its result is dropped: either way the backup is restored.
LatePreparationDropped(p) ==
    /\ late[p][1] \in {"updating", "installed"}
    /\ executable' = late[p][2]
    /\ late' = [late EXCEPT ![p] = <<"none", None>>]
    /\ UNCHANGED <<phase, identityVars, operation, disposition, announced,
                   pipeVars, task, active, ended, rollback, signalled, client,
                   operations, faults>>

----------------------------------------------------------------------------
(* The candidate is started and announced.                                 *)

\* The next process.  Starting it is retried while the kernel still reports the
\* executable that was just replaced as busy.
spawns(c) ==
    phase[c] = "unborn" /\ c = 1 + Cardinality({q \in Processes : phase[q] # "unborn"})

\* The candidate runs whatever is installed now, checks that it is the expected
\* version and reports Prepared.
CandidatePrepared(p, c) ==
    /\ task[p].stage = "verified"
    /\ spawns(c)
    /\ executable = task[p].target
    /\ phase' = [phase EXCEPT ![c] = "waiting"]
    /\ version' = [version EXCEPT ![c] = executable]
    /\ parent' = [parent EXCEPT ![c] = p]
    /\ operation' = [operation EXCEPT ![c] = task[p].operation]
    /\ task' = [task EXCEPT ![p].stage = "announcing", ![p].candidate = c]
    /\ UNCHANGED <<executable, disposition, announced, pipeVars, active, ended, rollback,
                   late, signalled, client, operations, faults>>

\* It does not start, does not answer in time or is the wrong version: it is
\* aborted and the dropped PreparedRemoteUpdate restores the backup.
CandidateNotPrepared(p) ==
    /\ task[p].stage = "verified"
    /\ preparation_fails(p)

Confirming(p) ==
    [Idle EXCEPT !.state = start_outcome("restarting"), !.operation = task[p].operation,
                 !.version = task[p].target]

\* Restarting is delivered and acknowledged; the handoff is queued.
Announced(p) ==
    /\ task[p].stage = "announcing"
    /\ client[task[p].client].state = "starting"
    /\ client[task[p].client].server = p
    /\ answer_start(p, Confirming(p))
    /\ task' = [task EXCEPT ![p].stage = "queued"]
    /\ UNCHANGED <<executable, phase, identityVars, operation, disposition,
                   announced, pipeVars, active, ended, rollback, late, signalled,
                   operations, faults>>

\* Mutant: the backup is not restored.
AnnounceFailsWithoutRestore(p) ==
    /\ task[p].stage = "announcing"
    /\ \/ answer_start(p, Confirming(p))
       \/ UNCHANGED client
    /\ phase' = [phase EXCEPT ![task[p].candidate] = "dead"]
    /\ end_task(p)
    /\ UNCHANGED <<executable, identityVars, operation, disposition, announced,
                   pipeVars, ended, rollback, late, signalled, operations, faults>>

\* The acknowledgement of Restarting does not arrive (the client may have read it
\* all the same): the candidate is aborted and the executable restored.
AnnounceFails(p) ==
    /\ task[p].stage = "announcing"
    /\ \/ answer_start(p, Confirming(p))
       \/ UNCHANGED client
    /\ phase' = [phase EXCEPT ![task[p].candidate] = "dead"]
    /\ restore_backup(p)
    /\ end_task(p)
    /\ UNCHANGED <<identityVars, operation, disposition, announced, pipeVars,
                   ended, rollback, late, signalled, operations, faults>>

----------------------------------------------------------------------------
(* serve_endpoint: what ends it, and how it is left.                       *)

leave(p, outcome) == phase' = [phase EXCEPT ![p] = outcome]

TakeHandoff(p) ==
    /\ phase[p] = "serving" /\ task[p].stage = "queued"
    /\ PromptAbort => disposition[p] # "aborted"
    /\ leave(p, "draining handoff")
    /\ UNCHANGED <<executable, identityVars, operation, disposition, announced,
                   pipeVars, taskVars, signalled, client, operations, faults>>

CandidateAborted(p) ==
    /\ phase[p] = "serving" /\ disposition[p] = "aborted"
    /\ leave(p, "draining aborted")
    /\ UNCHANGED <<executable, identityVars, operation, disposition, announced,
                   pipeVars, taskVars, signalled, client, operations, faults>>

\* Mutant: the connection that queued the handoff is waited for.
drained_of_its_own_update(p) ==
    /\ task[p].stage = "none" /\ ended[p] = {}
    /\ \A k \in Clients : ~(client[k].state = "waiting" /\ client[k].server = p)

\* Every accepted connection has ended: no update task before its handoff is
\* queued or its answer is given, no Confirm waiting for a disposition.
drained(p) ==
    /\ task[p].stage \in {"none", "queued"} /\ ended[p] = {}
    /\ \A k \in Clients : ~(client[k].state = "waiting" /\ client[k].server = p)

\* The process leaves run_supervisor.  A queued handoff is dropped with its
\* channel: the backup is restored and the candidate killed.  The runtime waits
\* for its blocking threads.
EndpointClosed(p) ==
    /\ phase[p] \in {"draining shutdown", "draining aborted"} /\ drained(p)
    /\ late[p][1] = "none"
    /\ phase' = [q \in Processes |->
                    IF q = p \/ q = task[p].candidate THEN "dead" ELSE phase[q]]
    /\ executable' = IF task[p].stage = "queued" THEN task[p].backup ELSE executable
    /\ end_task(p)
    /\ UNCHANGED <<identityVars, operation, disposition, announced, pipeVars,
                   ended, rollback, late, signalled, client, operations, faults>>

\* The old endpoint is drained and closed; only now may the candidate bind.
Cutover(p) ==
    /\ phase[p] = "draining handoff" /\ drained(p)
    /\ phase' = [phase EXCEPT ![p] = "readiness"]
    /\ send_command(task[p].candidate, "activate")
    /\ task' = [task EXCEPT ![p].stage = "handoff"]
    /\ UNCHANGED <<executable, identityVars, operation, disposition, announced,
                   events, active, ended, rollback, late, signalled, client, operations,
                   faults>>

----------------------------------------------------------------------------
(* coordinate_handoff in the old process.                                  *)

\* A killed process restores nothing.  Its updater, in a process group of its own
\* (bounded_process.rs), is not killed with it.
abandoned(p) ==
    IF task[p].stage = "updating" \/ late[p][1] \in {"updating", "orphan"}
    THEN <<"orphan", None>>
    ELSE <<"none", None>>

\* It takes its update task with it, the updater aside.
kill(p) ==
    /\ phase' = [phase EXCEPT ![p] = "dead"]
    /\ task' = [task EXCEPT ![p] = NoTask]
    /\ active' = [active EXCEPT ![p] = None]
    /\ ended' = [ended EXCEPT ![p] = {}]
    /\ late' = [late EXCEPT ![p] = abandoned(p)]

\* The orphan is not forgotten: nobody restores what it replaced.
OrphanInstalls(p) ==
    /\ late[p][1] = "orphan"
    /\ \E v \in Versions : executable' = v
    /\ UNCHANGED <<phase, identityVars, operation, disposition, announced,
                   pipeVars, taskVars, signalled, client, operations, faults>>

\* A process that returns from run_supervisor: the runtime first waits for its
\* blocking threads.
exits(p) == late[p][1] = "none" /\ kill(p)

next_event(p, event) ==
    /\ events[task[p].candidate] # <<>>
    /\ Head(events[task[p].candidate]) = event

consume_event(p) == events' = [events EXCEPT ![task[p].candidate] = Tail(@)]

CandidateReady(p) ==
    /\ phase[p] = "readiness" /\ next_event(p, "ready")
    /\ consume_event(p)
    /\ phase' = [phase EXCEPT ![p] = "consumer"]
    /\ UNCHANGED <<executable, identityVars, operation, disposition, announced,
                   commands, taskVars, signalled, client, operations, faults>>

\* The point of no return: Commit is written to a candidate that is there to
\* read it.
Commit(p) ==
    /\ phase[p] = "consumer" /\ next_event(p, "consumer connected")
    /\ alive(task[p].candidate)
    /\ consume_event(p)
    /\ send_command(task[p].candidate, "commit")
    /\ phase' = [phase EXCEPT ![p] = "acknowledgement"]
    /\ UNCHANGED <<executable, identityVars, operation, disposition, announced,
                   taskVars, signalled, client, operations, faults>>

\* Mutant: the deadline also covers the acknowledgement.
CandidateRejectedAfterCommit(p) ==
    /\ phase[p] \in {"readiness", "consumer", "acknowledgement"}
    /\ phase' = [phase EXCEPT ![p] = "aborting"]
    /\ send_command(task[p].candidate, "abort")
    /\ UNCHANGED <<executable, identityVars, operation, disposition, announced,
                   events, taskVars, signalled, client, operations, faults>>

\* Mutant: the wait for the consumer has no deadline and ignores the channel.
CandidateRejectedBeforeReady(p) ==
    /\ phase[p] = "readiness"
    /\ phase' = [phase EXCEPT ![p] = "aborting"]
    /\ send_command(task[p].candidate, "abort")
    /\ UNCHANGED <<executable, identityVars, operation, disposition, announced,
                   events, taskVars, signalled, client, operations, faults>>

\* The 20 s deadline, a Failed event, an unexpected event or a closed channel.
CandidateRejected(p) ==
    /\ phase[p] \in {"readiness", "consumer"}
    /\ phase' = [phase EXCEPT ![p] = "aborting"]
    /\ send_command(task[p].candidate, "abort")
    /\ UNCHANGED <<executable, identityVars, operation, disposition, announced,
                   events, taskVars, signalled, client, operations, faults>>

\* A candidate that does not exit within its grace period is killed.
AbortTimesOut(p) ==
    /\ phase[p] = "aborting" /\ alive(task[p].candidate)
    /\ kill(task[p].candidate)
    /\ UNCHANGED <<executable, identityVars, operation, disposition, announced,
                   pipeVars, rollback, signalled, client, operations, faults>>

\* The operation is recorded as rolled back, and the old server, no candidate of
\* anyone now, binds again.
rolled_back(p) ==
    /\ rollback' = [rollback EXCEPT ![p] = task[p].operation]
    /\ end_task(p)
    /\ phase' = [phase EXCEPT ![p] = "binding"]
    /\ operation' = [operation EXCEPT ![p] = None]
    /\ disposition' = [disposition EXCEPT ![p] = "none"]

\* Mutant: the old server binds without waiting for the candidate's exit.
RollBackEarly(p) ==
    /\ phase[p] = "aborting"
    /\ restore_backup(p)
    /\ rolled_back(p)
    /\ UNCHANGED <<identityVars, announced, pipeVars, ended, late, signalled, client,
                   operations, faults>>

\* The candidate is gone and the executable is restored.
RollBack(p) ==
    /\ phase[p] = "aborting" /\ ~alive(task[p].candidate)
    /\ restore_backup(p)
    /\ rolled_back(p)
    /\ UNCHANGED <<identityVars, announced, pipeVars, ended, late, signalled, client,
                   operations, faults>>

\* The executable cannot be restored: run_supervisor returns the error.
RollBackFails(p) ==
    /\ phase[p] = "aborting" /\ ~alive(task[p].candidate)
    /\ exits(p)
    /\ UNCHANGED <<executable, identityVars, operation, disposition, announced,
                   pipeVars, rollback, signalled, client, operations, faults>>

\* PreparedRemoteUpdate::commit removes the backup.
commit_update(p) == task' = [task EXCEPT ![p].backup = None]

\* ClientSucceeded, anything else, or nothing within 5 s.
Acknowledged(p) ==
    /\ phase[p] = "acknowledgement"
    /\ phase' = [phase EXCEPT ![p] = "supervising"]
    /\ commit_update(p)
    /\ events' = [events EXCEPT ![task[p].candidate] = <<>>]
    /\ UNCHANGED <<executable, identityVars, operation, disposition, announced,
                   commands, active, ended, rollback, late, signalled, client,
                   operations, faults>>

CandidateExited(p) ==
    /\ phase[p] \in {"supervising", "stopping"} /\ ~alive(task[p].candidate)
    /\ exits(p)
    /\ UNCHANGED <<executable, identityVars, operation, disposition, announced,
                   pipeVars, rollback, signalled, client, operations, faults>>

\* 5 s after forwarding a signal the candidate's process group is killed.
StopTimesOut(p) ==
    /\ phase[p] = "stopping" /\ alive(task[p].candidate)
    /\ kill(task[p].candidate)
    /\ UNCHANGED <<executable, identityVars, operation, disposition, announced,
                   pipeVars, rollback, signalled, client, operations, faults>>

----------------------------------------------------------------------------
(* The candidate: run_supervisor and its control channel.                  *)

\* Its stdin is at its end: the parent is gone and everything was read.
end_of_commands(c) == commands[c] = <<>> /\ ~alive(parent[c])

Activate(c) ==
    /\ phase[c] = "waiting" /\ commands[c] # <<>> /\ Head(commands[c]) = "activate"
    /\ commands' = [commands EXCEPT ![c] = Tail(@)]
    /\ phase' = [phase EXCEPT ![c] = "binding"]
    /\ disposition' = [disposition EXCEPT ![c] = "pending"]
    /\ UNCHANGED <<executable, identityVars, operation, announced, events,
                   taskVars, signalled, client, operations, faults>>

\* Aborted, or orphaned, before activation.
NeverActivated(c) ==
    /\ phase[c] = "waiting"
    /\ end_of_commands(c) \/ (commands[c] # <<>> /\ Head(commands[c]) = "abort")
    /\ kill(c)
    /\ UNCHANGED <<executable, identityVars, operation, disposition, announced,
                   pipeVars, rollback, signalled, client, operations, faults>>

\* The one command read after activation settles the candidate; the end of the
\* channel counts as Abort.
settled_by(c) ==
    IF commands[c] # <<>> /\ Head(commands[c]) = "commit" THEN "committed"
    ELSE "aborted"

\* Mutant: the end of the channel is not noticed.
SettleOnCommandOnly(c) ==
    /\ alive(c) /\ is_pending(c)
    /\ commands[c] # <<>>
    /\ disposition' = [disposition EXCEPT ![c] = settled_by(c)]
    /\ commands' = [commands EXCEPT ![c] = <<>>]
    /\ UNCHANGED <<executable, phase, identityVars, operation, announced, events,
                   taskVars, signalled, client, operations, faults>>


Settle(c) ==
    /\ alive(c) /\ is_pending(c)
    /\ commands[c] # <<>> \/ end_of_commands(c)
    /\ disposition' = [disposition EXCEPT ![c] = settled_by(c)]
    /\ commands' = [commands EXCEPT ![c] = <<>>]
    /\ UNCHANGED <<executable, phase, identityVars, operation, announced, events,
                   taskVars, signalled, client, operations, faults>>

\* The lock on the marker of this identity, from registration to the close of the
\* endpoint.
is_active(p) == phase[p] \in {"serving"} \cup Draining

\* register: nobody else on this machine has the marker.
register(p) == \A q \in Processes \ {p} : ~is_active(q)

\* The endpoint is bound, registered and published; a candidate reports Ready.
Bound(p) ==
    /\ phase[p] = "binding"
    /\ register(p)
    /\ phase' = [phase EXCEPT ![p] = "serving"]
    /\ IF disposition[p] = "none" THEN UNCHANGED events ELSE send_event(p, "ready")
    /\ UNCHANGED <<executable, identityVars, operation, disposition, announced,
                   commands, taskVars, signalled, client, operations, faults>>

BindFails(p) ==
    /\ phase[p] = "binding"
    /\ exits(p)
    /\ UNCHANGED <<executable, identityVars, operation, disposition, announced,
                   pipeVars, rollback, signalled, client, operations, faults>>

----------------------------------------------------------------------------
(* Signals and crashes.                                                    *)

\* The user signals the process that was started by hand.
SendSignal(signal) ==
    /\ alive(1) /\ signalled[1] = "none" /\ faults.signals < MAX_SIGNALS
    /\ signalled' = [signalled EXCEPT ![1] = signal]
    /\ faults' = [faults EXCEPT !.signals = @ + 1]
    /\ UNCHANGED <<executable, phase, identityVars, operation, disposition,
                   announced, pipeVars, taskVars, client, operations>>

signal_process_group(p, c) ==
    signalled' = [signalled EXCEPT ![p] = "none", ![c] = signalled[p]]

\* supervise forwards INT and TERM to the candidate and starts its grace period.
SignalForwarded(p) ==
    /\ signalled[p] # "none" /\ phase[p] = "supervising"
    /\ phase' = [phase EXCEPT ![p] = "stopping"]
    /\ signal_process_group(p, task[p].candidate)
    /\ UNCHANGED <<executable, identityVars, operation, disposition, announced,
                   pipeVars, taskVars, client, operations, faults>>

\* Ctrl-C ends serve_endpoint.
Interrupted(p) ==
    /\ signalled[p] = "int" /\ phase[p] = "serving"
    /\ leave(p, "draining shutdown")
    /\ signalled' = [signalled EXCEPT ![p] = "none"]
    /\ UNCHANGED <<executable, identityVars, operation, disposition, announced,
                   pipeVars, taskVars, client, operations, faults>>

\* serve_endpoint listens for Ctrl-C, and once it has, the default action of that
\* signal is gone; a process that rolled an update back has served before.
listens(p) == phase[p] \notin {"waiting", "binding"} \/ rollback[p] # None

\* Nobody looks at a Ctrl-C outside serve_endpoint and supervise, nor at a second
\* signal once supervise has forwarded one.
SignalIgnored(p) ==
    /\ \/ /\ signalled[p] = "int" /\ listens(p)
          /\ phase[p] \in {"binding"} \cup Draining \cup Coordinating
       \/ signalled[p] # "none" /\ phase[p] = "stopping"
    /\ signalled' = [signalled EXCEPT ![p] = "none"]
    /\ UNCHANGED <<executable, phase, identityVars, operation, disposition,
                   announced, pipeVars, taskVars, client, operations, faults>>

\* SIGTERM is only handled in supervise: everywhere else it kills, as SIGINT does
\* before serve_endpoint was entered.
Terminated(p) ==
    /\ alive(p) /\ phase[p] \notin {"supervising", "stopping"}
    /\ signalled[p] = "term" \/ (signalled[p] = "int" /\ ~listens(p))
    /\ kill(p)
    /\ signalled' = [signalled EXCEPT ![p] = "none"]
    /\ UNCHANGED <<executable, identityVars, operation, disposition, announced,
                   pipeVars, rollback, client, operations, faults>>

Crash(p) ==
    /\ alive(p) /\ faults.crashes < MAX_CRASHES
    /\ faults' = [faults EXCEPT !.crashes = @ + 1]
    /\ kill(p)
    /\ UNCHANGED <<executable, identityVars, operation, disposition, announced,
                   pipeVars, rollback, signalled, client, operations>>

----------------------------------------------------------------------------
(* The consumer: confirmation after Restarting.                            *)

\* The server is the candidate of the operation the consumer asks about.
for_candidate(k, p) == disposition[p] # "none" /\ operation[p] = client[k].operation

\* A Confirm that reaches the candidate of its operation waits there for the
\* disposition; the first one tells the watchdog that the consumer connected.
ConfirmCandidate(k, p) ==
    /\ read_attached_update_request(k, p, "confirm")
    /\ for_candidate(k, p) /\ client[k].version = version[p]
    /\ LET first == is_pending(p) /\ ~announced[p]
       IN  /\ announced' = [announced EXCEPT ![p] = @ \/ first]
           /\ IF first THEN send_event(p, "consumer connected") ELSE UNCHANGED events
           /\ client' = [client EXCEPT ![k].state = "waiting", ![k].server = p,
                                       ![k].notify = first]
    /\ UNCHANGED <<executable, phase, identityVars, operation, disposition,
                   commands, taskVars, signalled, operations, faults>>

\* A Confirm that reaches any other server fails, unless the operation is still
\* in progress there (Waiting: the client simply tries again); a rolled back
\* operation and an unknown one fail alike.
ConfirmElsewhere(k, p) ==
    /\ read_attached_update_request(k, p, "confirm")
    /\ ~for_candidate(k, p)
    /\ respond(k, confirm_outcome(
           IF active[p] = client[k].operation THEN "waiting" ELSE "failed"))
    /\ UNCHANGED <<executable, phase, identityVars, operation, disposition,
                   announced, pipeVars, taskVars, signalled, operations, faults>>

\* Mutant: success is answered without waiting for the disposition.
ConfirmBeforeCommit(k) ==
    /\ client[k].state = "waiting"
    /\ LET p == client[k].server
       IN  /\ alive(p) /\ disposition[p] \in {"pending", "committed"}
           /\ respond(k, confirm_outcome("committed"))
           /\ IF client[k].notify THEN send_event(p, "client succeeded")
              ELSE UNCHANGED events
    /\ UNCHANGED <<executable, phase, identityVars, operation, disposition,
                   announced, commands, taskVars, signalled, operations, faults>>

\* Committed is answered to the client; its first notifier reports success.
ConfirmCommitted(k) ==
    /\ client[k].state = "waiting"
    /\ LET p == client[k].server
       IN  /\ alive(p) /\ disposition[p] = "committed"
           /\ respond(k, confirm_outcome("committed"))
           /\ IF client[k].notify THEN send_event(p, "client succeeded")
              ELSE UNCHANGED events
    /\ UNCHANGED <<executable, phase, identityVars, operation, disposition,
                   announced, commands, taskVars, signalled, operations, faults>>

ConfirmAborted(k) ==
    /\ client[k].state = "waiting" /\ disposition[client[k].server] = "aborted"
    /\ alive(client[k].server)
    /\ respond(k, confirm_outcome("failed"))
    /\ UNCHANGED <<executable, phase, identityVars, operation, disposition,
                   announced, pipeVars, taskVars, signalled, operations, faults>>

\* One attempt times out or loses its connection or its answer.
ConfirmAttemptFails(k) ==
    /\ client[k].state = "waiting"
    /\ respond(k, "confirming")
    /\ UNCHANGED <<executable, phase, identityVars, operation, disposition,
                   announced, pipeVars, taskVars, signalled, operations, faults>>

\* The client's own deadline: 150 s for Start, 30 s for confirmation.
ClientGivesUp(k) ==
    /\ client[k].state \in {"starting", "confirming", "waiting"}
    /\ respond(k, "failed")
    /\ UNCHANGED <<executable, phase, identityVars, operation, disposition,
                   announced, pipeVars, taskVars, signalled, operations, faults>>

----------------------------------------------------------------------------
Preparation(p) ==
    \/ UpdaterInstalls(p) \/ UpdaterFails(p) \/ VersionUnreadable(p)
    \/ VersionOlder(p) \/ PreparationCurrent(p)
    \/ PreparationVerified(p) \/ PreparationTimesOut(p)
    \/ LateUpdaterInstalls(p) \/ LatePreparationDropped(p)
    \/ \E c \in Processes : CandidatePrepared(p, c)
    \/ CandidateNotPrepared(p) \/ Announced(p) \/ AnnounceFails(p)
    \/ OperationForgotten(p)

Supervisor(p) ==
    \/ TakeHandoff(p) \/ CandidateAborted(p) \/ EndpointClosed(p) \/ Cutover(p)
    \/ CandidateReady(p) \/ Commit(p) \/ CandidateRejected(p) \/ AbortTimesOut(p)
    \/ RollBack(p) \/ RollBackFails(p) \/ Acknowledged(p) \/ CandidateExited(p) \/ StopTimesOut(p)
    \/ Activate(p) \/ NeverActivated(p) \/ Bound(p) \/ BindFails(p)

SignalTaken(p) ==
    SignalForwarded(p) \/ Interrupted(p) \/ SignalIgnored(p) \/ Terminated(p)

Consumer(k) ==
    \/ \E p \in Processes : ConfirmCandidate(k, p) \/ ConfirmElsewhere(k, p)
    \/ ConfirmCommitted(k) \/ ConfirmAborted(k) \/ ConfirmAttemptFails(k)
    \/ ClientGivesUp(k)

Next ==
    \/ \E k \in Clients : Consumer(k)
    \/ \E k \in Clients, p \in Processes : StartBusy(k, p) \/ StartAccepted(k, p)
    \/ \E p \in Processes : \/ Preparation(p) \/ Supervisor(p) \/ Settle(p)
                            \/ SignalTaken(p) \/ Crash(p)
                            \/ OrphanInstalls(p)
    \/ \E signal \in {"int", "term"} : SendSignal(signal)

Spec == Init /\ [][Next]_vars

\* Processes are scheduled, every wait of the code has a deadline, and clients
\* give up.  Requests, crashes and signals need not happen.
FairSpec ==
    /\ Spec
    /\ \A p \in Processes : /\ WF_vars(Preparation(p))
                            /\ WF_vars(Supervisor(p))
                            /\ WF_vars(Settle(p))
                            /\ WF_vars(SignalTaken(p))
    /\ \A k \in Clients : WF_vars(ClientGivesUp(k))

----------------------------------------------------------------------------
(* Properties.                                                             *)

\* At most one process binds, serves or still drains the endpoint of this
\* identity: the candidate binds only after the old endpoint is closed, the old
\* server binds again only after the candidate is gone.
AtMostOneEndpoint ==
    \A p, q \in Processes :
        phase[p] \in HoldsEndpoint /\ phase[q] \in HoldsEndpoint => p = q

\* A committed candidate is never rolled back: its parent is past the point of
\* no return, whatever deadline, crash or lost answer raced the commit.
CommitIsFinal ==
    \A c \in Processes : disposition[c] = "committed" =>
        phase[parent[c]] \in {"acknowledgement", "supervising", "stopping", "dead"}

\* Client and server agree: an operation a client was told is committed is
\* neither rolled back nor about to be.
OutcomesAgree ==
    \A k \in Clients, p \in Processes :
        client[k].state = "updated" /\ client[k].operation # None =>
            /\ rollback[p] # client[k].operation
            /\ phase[p] = "aborting" => task[p].operation # client[k].operation

\* Outside an update, the installed binary is the one that is serving: a failed,
\* rolled back, abandoned or committed update leaves no other version on disk, unless
\* a process was killed while its updater ran.
RunningIsInstalled ==
    (\A p \in Processes : late[p][1] # "orphan") =>
        \A p \in Processes :
            phase[p] = "serving" /\ task[p].stage = "none" /\ late[p][1] = "none" =>
                executable = version[p]

\* Every update ends: the permit is free again, or the candidate took over, or
\* the process ended.
UpdateSettles ==
    \A p \in Processes : task[p].stage # "none" ~>
        task[p].stage = "none" \/ phase[p] \in {"supervising", "stopping", "dead"}

\* After the old endpoint is closed somebody serves again, unless everybody died.
ServiceReturns ==
    \A p \in Processes : phase[p] \in Coordinating ~>
        \/ \E q \in Processes : phase[q] = "serving"
        \/ \A q \in Processes : ~alive(q)

\* A candidate whose parent died before committing it does not live on, and in
\* particular does not keep the endpoint.
OrphansEnd ==
    \A c \in Processes :
        (/\ parent[c] # None /\ ~alive(parent[c])
         /\ phase[c] = "waiting" \/ disposition[c] \in {"pending", "aborted"})
        ~> (~alive(c) \/ disposition[c] = "committed")

\* README.md: "To end SSH access, stop `attached serve` on each publisher."  Once
\* the process the user started has ended on a signal, nobody keeps serving.
StopEndsService ==
    (faults.signals > 0 /\ phase[1] = "dead") ~>
        (\A p \in Processes : phase[p] \notin HoldsEndpoint)

=============================================================================
