------------------------------ MODULE Handoff_proofs ------------------------------
(***************************************************************************)
(* Proofs about Handoff, for any number of processes, versions, operations,   *)
(* crashes, signals and clients: a commit is final, nobody is told of an       *)
(* update that is rolled back, one process at most holds the endpoint, and     *)
(* what serves is what is installed.                                           *)
(***************************************************************************)
EXTENDS Handoff, FiniteSetTheorems, TLAPS

Preparing == {"updating", "installed", "verified", "announcing", "queued"}
Handing == Coordinating \cup {"supervising", "stopping"}
Undecided == {"readiness", "consumer", "aborting"}
Final == {"acknowledgement", "supervising", "stopping", "dead"}

Phases == {"unborn", "waiting", "dead"} \cup HoldsEndpoint \cup Handing

Commands == {"activate", "commit", "abort"}

TaskState ==
    [stage : {"none", "handoff"} \cup Preparing, operation : Nat, backup : Nat, target : Nat,
     candidate : Processes \cup {None}, client : Clients \cup {None}]

holds(s, command) == \E i \in 1..Len(s) : s[i] = command
sent(c, command) == holds(commands[c], command)

----------------------------------------------------------------------------
(* Processes, their tasks and their candidates.                              *)

ValueType ==
    /\ late \in [Processes -> {"none", "updating", "installed", "orphan"} \X Nat]
    /\ executable \in Nat /\ version \in [Processes -> Nat] /\ operations \in Nat

ProcessType ==
    /\ phase \in [Processes -> Phases]
    /\ task \in [Processes -> TaskState]
    /\ commands \in [Processes -> Seq(Commands)]
    /\ disposition \in [Processes -> {"none", "pending", "committed", "aborted"}]
    /\ parent \in [Processes -> Processes \cup {None}]

HandoffType == ProcessType /\ ValueType

\* Processes are born in order, with nothing to their name.
BirthInv ==
    /\ \A p, q \in Processes : p < q /\ phase[q] # "unborn" => phase[p] # "unborn"
    /\ \A p \in Processes :
          /\ phase[p] \in {"unborn", "waiting"} => task[p].stage = "none" /\ disposition[p] = "none"
          /\ phase[p] = "unborn" => commands[p] = <<>>

\* The candidate of a task was started by it, after everyone before it.
Candidacy(p) ==
    IF task[p].stage \in {"announcing", "queued", "handoff"}
    THEN /\ task[p].candidate \in Processes /\ p < task[p].candidate
         /\ parent[task[p].candidate] = p /\ phase[task[p].candidate] # "unborn"
         /\ task[p].stage # "handoff" =>
               phase[task[p].candidate] \in {"waiting", "dead"} /\ commands[task[p].candidate] = <<>>
    ELSE task[p].candidate = None

\* Where a process is in an update.
Stages(p) ==
    /\ task[p].stage \in Preparing => phase[p] \in {"serving"} \cup Draining
    /\ task[p].stage = "handoff" <=> phase[p] \in Handing
    /\ phase[p] = "draining handoff" => task[p].stage = "queued"

TaskInv == \A p \in Processes : Candidacy(p) /\ Stages(p)

\* What was sent Commit, or read it, has a parent past the point of no return.
CommitInv ==
    \A c \in Processes : sent(c, "commit") \/ disposition[c] = "committed" =>
        parent[c] \in Processes /\ phase[parent[c]] \in Final

BaseInv == HandoffType /\ BirthInv /\ TaskInv /\ CommitInv

----------------------------------------------------------------------------
(* The endpoint.                                                             *)

\* A process that holds the endpoint or has been told to bind it; one that is in
\* charge of such a process, or was.
Holds(p) == phase[p] \in HoldsEndpoint \/ (phase[p] = "waiting" /\ commands[p] # <<>>)
Active(p) == Holds(p) \/ phase[p] \in Handing

\* A candidate that is not committed starts no handoff of its own.
DispositionInv ==
    \A c \in Processes :
        /\ disposition[c] \in {"pending", "aborted"} =>
              phase[c] \in {"binding", "serving", "draining shutdown", "draining aborted", "dead"}
        /\ disposition[c] = "pending" => task[c].stage = "none"

Decidable(c) ==
    /\ phase[c] \in {"waiting", "binding", "serving", "draining shutdown", "draining aborted", "dead"}
    /\ disposition[c] = "none" => phase[c] \in {"waiting", "dead"}
    /\ phase[c] = "waiting" => commands[c] # <<>>

UndecidedInv == \A p \in Processes : phase[p] \in Undecided => Decidable(task[p].candidate)

\* Whoever holds the endpoint is the last of the active processes, and a server that
\* may take it back has at most its candidate after it.
EndpointInv ==
    \A p, q \in Processes : p < q /\ Active(q) =>
        /\ ~Holds(p)
        /\ phase[p] \in Undecided => q = task[p].candidate

TokenInv == DispositionInv /\ UndecidedInv /\ EndpointInv

----------------------------------------------------------------------------
(* The installed executable.                                                 *)

\* An executable that is not the one of the process that holds the endpoint has a
\* backup that is.
Installed(p) ==
    /\ Holds(p) /\ task[p].stage = "none" => executable = version[p]
    /\ task[p].stage \in Preparing \/ phase[p] \in Undecided => task[p].backup = version[p]
    /\ task[p].stage \in {"announcing", "queued"} =>
          executable = task[p].target /\ version[task[p].candidate] = executable
    /\ late[p][1] = "none"

InstalledInv == \A p \in Processes : Installed(p)

----------------------------------------------------------------------------
(* The outcomes clients were told.                                           *)

\* Operation o is neither rolled back nor going to be.
Kept(o) ==
    \A q \in Processes : /\ rollback[q] # o
                         /\ task[q].operation = o => phase[q] \in Final

\* The candidate was sent Commit, or has read it.
told(c) == sent(c, "commit") \/ disposition[c] = "committed"

\* Every task has an operation of its own, which is no rolled back one, and which its
\* candidate was started for.
OperationInv ==
    /\ rollback \in [Processes -> 0..operations] /\ operation \in [Processes -> 0..operations]
    /\ \A p \in Processes : /\ task[p].operation \in 0..operations
                            /\ task[p].stage = "none" <=> task[p].operation = None
    /\ \A p, q \in Processes : task[p].operation # None =>
          /\ rollback[q] # task[p].operation
          /\ task[q].operation = task[p].operation => p = q
    /\ \A p \in Processes : task[p].candidate # None =>
          operation[task[p].candidate] \in {None, task[p].operation}
    /\ \A c \in Processes : operation[c] # None /\ told(c) => Kept(operation[c])

ClientState ==
    [state : {"idle", "starting", "confirming", "waiting", "updated", "failed"},
     server : Processes \cup {None}, operation : Nat, version : Nat, notify : BOOLEAN]

\* A client that asks about an operation waits at its candidate, and one that was told
\* of an operation was told of one that is kept.
Informed(k) ==
    /\ client[k].operation \in 0..operations
    /\ client[k].state \in {"idle", "starting"} => client[k].operation = None
    /\ client[k].state = "waiting" =>
          /\ client[k].server \in Processes /\ phase[client[k].server] \notin {"unborn", "waiting"}
          /\ disposition[client[k].server] # "none" => operation[client[k].server] = client[k].operation
    /\ client[k].state = "updated" /\ client[k].operation # None => Kept(client[k].operation)

ClientInv ==
    /\ client \in [Clients -> ClientState]
    /\ ended \in [Processes -> SUBSET ((Clients \cup {None}) \X {"failed", "current"})]
    /\ \A k \in Clients : Informed(k)

OutcomeInv == OperationInv /\ ClientInv

----------------------------------------------------------------------------
(* What the steps do to processes, tasks, commands and dispositions.         *)

Early == {"none", "updating", "installed", "verified"}

Still == UNCHANGED <<phase, task, commands, disposition, parent>>

Ends(x) ==
    /\ alive(x)
    /\ phase' = [phase EXCEPT ![x] = "dead"] /\ task' = [task EXCEPT ![x] = NoTask]
    /\ UNCHANGED <<commands, disposition, parent>>

Prepares(p, t) ==
    /\ task[p].stage \in Early /\ t.stage \in Early /\ t.candidate = None
    /\ task[p].stage = "none" => reachable(p) /\ disposition[p] # "pending"
    /\ task[p].stage # "none" => t = NoTask \/ (t.stage # "none" /\ t.operation = task[p].operation)
    /\ task' = [task EXCEPT ![p] = t]
    /\ UNCHANGED <<phase, commands, disposition, parent>>

Moves(p, place) ==
    /\ \/ /\ phase[p] = "serving" /\ place = "draining handoff" /\ task[p].stage = "queued"
          /\ PromptAbort => disposition[p] # "aborted"
       \/ phase[p] = "serving" /\ place \in {"draining shutdown", "draining aborted"}
       \/ phase[p] = "binding" /\ place = "serving"
       \/ phase[p] = "readiness" /\ place = "consumer"
       \/ phase[p] = "supervising" /\ place = "stopping"
    /\ phase' = [phase EXCEPT ![p] = place]
    /\ UNCHANGED <<task, commands, disposition, parent>>

Spawns(p, c, t) ==
    /\ task[p].stage = "verified" /\ phase[c] = "unborn"
    /\ \A q \in Processes : q < c => phase[q] # "unborn"
    /\ t.stage = "announcing" /\ t.candidate = c
    /\ phase' = [phase EXCEPT ![c] = "waiting"] /\ parent' = [parent EXCEPT ![c] = p]
    /\ task' = [task EXCEPT ![p] = t]
    /\ UNCHANGED <<commands, disposition>>

Queues(p, t) ==
    /\ task[p].stage = "announcing" /\ t.stage = "queued" /\ t.candidate = task[p].candidate
    /\ t.operation = task[p].operation
    /\ task' = [task EXCEPT ![p] = t]
    /\ UNCHANGED <<phase, commands, disposition, parent>>

Drops(p) ==
    /\ task[p].stage = "announcing"
    /\ phase' = [phase EXCEPT ![task[p].candidate] = "dead"] /\ task' = [task EXCEPT ![p] = NoTask]
    /\ UNCHANGED <<commands, disposition, parent>>

Closes(p) ==
    /\ phase[p] \in {"draining shutdown", "draining aborted"} /\ task[p].stage \in {"none", "queued"}
    /\ phase' = [q \in Processes |-> IF q = p \/ q = task[p].candidate THEN "dead" ELSE phase[q]]
    /\ task' = [task EXCEPT ![p] = NoTask]
    /\ UNCHANGED <<commands, disposition, parent>>

CutsOver(p, t) ==
    /\ phase[p] = "draining handoff"
    /\ t.stage = "handoff" /\ t.candidate = task[p].candidate /\ t.operation = task[p].operation
    /\ phase' = [phase EXCEPT ![p] = "readiness"] /\ task' = [task EXCEPT ![p] = t]
    /\ send_command(task[p].candidate, "activate")
    /\ UNCHANGED <<disposition, parent>>

Decides(p, place, command) ==
    /\ \/ phase[p] = "consumer" /\ place = "acknowledgement" /\ command = "commit"
       \/ phase[p] \in {"readiness", "consumer"} /\ place = "aborting" /\ command = "abort"
    /\ phase' = [phase EXCEPT ![p] = place]
    /\ send_command(task[p].candidate, command)
    /\ UNCHANGED <<task, disposition, parent>>

Returns(p) ==
    /\ phase[p] = "aborting" /\ ~alive(task[p].candidate)
    /\ phase' = [phase EXCEPT ![p] = "binding"] /\ task' = [task EXCEPT ![p] = NoTask]
    /\ disposition' = [disposition EXCEPT ![p] = "none"]
    /\ UNCHANGED <<commands, parent>>

Supervises(p, t) ==
    /\ phase[p] = "acknowledgement"
    /\ t.stage = task[p].stage /\ t.candidate = task[p].candidate /\ t.operation = task[p].operation
    /\ phase' = [phase EXCEPT ![p] = "supervising"] /\ task' = [task EXCEPT ![p] = t]
    /\ UNCHANGED <<commands, disposition, parent>>

Activates(c) ==
    /\ phase[c] = "waiting" /\ commands[c] # <<>>
    /\ commands' = [commands EXCEPT ![c] = Tail(@)]
    /\ phase' = [phase EXCEPT ![c] = "binding"]
    /\ disposition' = [disposition EXCEPT ![c] = "pending"]
    /\ UNCHANGED <<task, parent>>

Settles(c) ==
    /\ alive(c) /\ is_pending(c)
    /\ disposition' = [disposition EXCEPT ![c] = settled_by(c)]
    /\ commands' = [commands EXCEPT ![c] = <<>>]
    /\ UNCHANGED <<phase, task, parent>>

\* A step, seen from the process that takes it.
Step(p) ==
    \/ Ends(p) \/ Drops(p) \/ Closes(p) \/ Returns(p) \/ Activates(p) \/ Settles(p)
    \/ \E place \in Phases : Moves(p, place)
    \/ \E place \in Phases, command \in {"commit", "abort"} : Decides(p, place, command)
    \/ \E t \in TaskState : Prepares(p, t) \/ Queues(p, t) \/ CutsOver(p, t) \/ Supervises(p, t)
    \/ \E t \in TaskState, c \in Processes : Spawns(p, c, t)

----------------------------------------------------------------------------
(* Every action takes such a step.                                           *)

LEMMA Kinds ==
    /\ NoTask \in TaskState /\ NoTask.stage = "none" /\ NoTask.candidate = None
    /\ NoTask.operation = None
    /\ Early \subseteq {"none"} \cup Preparing
  BY DEF NoTask, TaskState, Preparing, Early, None

LEMMA TaskOf ==
    ASSUME BaseInv, NEW p \in Processes
    PROVE  task[p] \in TaskState /\ task \in [Processes -> TaskState] /\ Candidacy(p) /\ Stages(p)
  BY DEF BaseInv, HandoffType, ProcessType, TaskInv

\* A candidate is a process.
LEMMA CandidateOf ==
    ASSUME BaseInv, NEW p \in Processes, task[p].stage \in {"announcing", "queued", "handoff"}
    PROVE  /\ task[p].candidate \in Processes /\ p < task[p].candidate
           /\ parent[task[p].candidate] = p /\ phase[task[p].candidate] # "unborn"
           /\ p # task[p].candidate
  BY TaskOf DEF Candidacy, Processes

LEMMA NoStep ==
    ASSUME NEW k \in Clients, NEW p \in Processes, NEW signal,
           \/ StartBusy(k, p) \/ OperationForgotten(p) \/ LateUpdaterInstalls(p)
           \/ LatePreparationDropped(p) \/ SendSignal(signal) \/ SignalIgnored(p) \/ Consumer(k)
    PROVE  Still
  BY Zenon DEF Still, StartBusy, OperationForgotten, LateUpdaterInstalls, LatePreparationDropped,
     SendSignal, SignalIgnored, Consumer, ConfirmCandidate, ConfirmElsewhere, ConfirmCommitted,
     ConfirmAborted, ConfirmAttemptFails, ClientGivesUp, identityVars, pipeVars, taskVars

LEMMA KillStep ==
    ASSUME BaseInv, NEW p \in Processes,
           \/ AbortTimesOut(p) \/ StopTimesOut(p) \/ NeverActivated(p) \/ BindFails(p)
           \/ RollBackFails(p) \/ CandidateExited(p) \/ Terminated(p) \/ Crash(p)
    PROVE  \E x \in Processes : Ends(x)
  <1>1. CASE AbortTimesOut(p) \/ StopTimesOut(p)
    <2>1. task[p].stage = "handoff"
      BY <1>1, TaskOf DEF AbortTimesOut, StopTimesOut, Stages, Handing, Coordinating
    <2>2. task[p].candidate \in Processes
      BY <2>1, CandidateOf
    <2>3. Ends(task[p].candidate)
      BY <1>1 DEF AbortTimesOut, StopTimesOut, kill, Ends, identityVars, pipeVars
    <2> QED BY <2>2, <2>3
  <1>2. CASE NeverActivated(p) \/ BindFails(p) \/ RollBackFails(p) \/ CandidateExited(p) \/ Terminated(p) \/ Crash(p)
    <2>1. kill(p) /\ UNCHANGED <<commands, disposition, parent>>
      BY <1>2, Zenon DEF NeverActivated, BindFails, RollBackFails, CandidateExited, Terminated, Crash,
         exits, identityVars, pipeVars
    <2>2. alive(p)
      BY <1>2 DEF NeverActivated, BindFails, RollBackFails, CandidateExited, Terminated, Crash, alive
    <2>3. Ends(p)
      BY <2>1, <2>2 DEF kill, Ends
    <2> QED BY <2>3
  <1> QED BY <1>1, <1>2

LEMMA MoveStep ==
    ASSUME NEW p \in Processes,
           \/ TakeHandoff(p) \/ CandidateAborted(p) \/ Interrupted(p) \/ Bound(p)
           \/ CandidateReady(p) \/ SignalForwarded(p)
    PROVE  \E place \in Phases : Moves(p, place)
  <1>0. {"draining handoff", "draining aborted", "draining shutdown", "serving", "consumer", "stopping"} \subseteq Phases
    BY DEF Phases, HoldsEndpoint, Draining, Handing, Coordinating
  <1>1. CASE TakeHandoff(p)
    <2>1. Moves(p, "draining handoff")
      BY <1>1 DEF TakeHandoff, leave, Moves, identityVars, pipeVars, taskVars
    <2> QED BY <1>0, <2>1
  <1>2. CASE CandidateAborted(p)
    <2>1. Moves(p, "draining aborted")
      BY <1>2 DEF CandidateAborted, leave, Moves, identityVars, pipeVars, taskVars
    <2> QED BY <1>0, <2>1
  <1>3. CASE Interrupted(p)
    <2>1. Moves(p, "draining shutdown")
      BY <1>3 DEF Interrupted, leave, Moves, identityVars, pipeVars, taskVars
    <2> QED BY <1>0, <2>1
  <1>4. CASE Bound(p)
    <2>1. Moves(p, "serving")
      BY <1>4 DEF Bound, Moves, identityVars, pipeVars, taskVars
    <2> QED BY <1>0, <2>1
  <1>5. CASE CandidateReady(p)
    <2>1. Moves(p, "consumer")
      BY <1>5 DEF CandidateReady, Moves, identityVars, pipeVars, taskVars
    <2> QED BY <1>0, <2>1
  <1>6. CASE SignalForwarded(p)
    <2>1. Moves(p, "stopping")
      BY <1>6 DEF SignalForwarded, Moves, identityVars, pipeVars, taskVars
    <2> QED BY <1>0, <2>1
  <1> QED BY <1>1, <1>2, <1>3, <1>4, <1>5, <1>6

LEMMA StartedTask ==
    ASSUME BaseInv, NEW k \in Clients
    PROVE  /\ prepare_remote_update(k) \in TaskState
           /\ prepare_remote_update(k).stage = "updating" /\ prepare_remote_update(k).candidate = None
           /\ prepare_remote_update(k).operation = operations + 1
           /\ prepare_remote_update(k).backup = executable
  <1>1. executable \in Nat /\ operations + 1 \in Nat /\ k \in Clients \cup {None}
    BY DEF BaseInv, HandoffType, ValueType
  <1> QED BY <1>1, Kinds DEF prepare_remote_update, new_operation_id, TaskState, Preparing

LEMMA StartStep ==
    ASSUME BaseInv, NEW p \in Processes, NEW k \in Clients, StartAccepted(k, p)
    PROVE  \E t \in TaskState : Prepares(p, t)
  <1> DEFINE t == prepare_remote_update(k)
  <1>1. t \in TaskState /\ t.stage = "updating" /\ t.candidate = None
    BY StartedTask
  <1>2. /\ task' = [task EXCEPT ![p] = t] /\ UNCHANGED <<phase, commands, disposition, parent>>
        /\ reachable(p) /\ task[p].stage = "none" /\ disposition[p] # "pending"
    BY DEF StartAccepted, read_attached_update_request, busy, is_pending, identityVars, pipeVars
  <1> HIDE DEF t
  <1>3. Prepares(p, t)
    BY <1>1, <1>2 DEF Prepares, Early
  <1> QED BY <1>1, <1>3

LEMMA PrepareStep ==
    ASSUME BaseInv, NEW p \in Processes,
           \/ UpdaterInstalls(p) \/ UpdaterFails(p) \/ VersionUnreadable(p)
           \/ VersionOlder(p) \/ PreparationCurrent(p) \/ PreparationVerified(p)
           \/ PreparationTimesOut(p) \/ CandidateNotPrepared(p)
    PROVE  \E t \in TaskState : Prepares(p, t)
  <1>0. /\ task \in [Processes -> TaskState] /\ task[p] \in TaskState
        /\ executable \in Nat
    BY DEF BaseInv, HandoffType, ProcessType, ValueType
  <1>2. CASE UpdaterInstalls(p) \/ PreparationVerified(p)
    <2> DEFINE t == IF task[p].stage = "updating" THEN [task[p] EXCEPT !.stage = "installed"]
                    ELSE [task[p] EXCEPT !.stage = "verified", !.target = executable]
    <2>0. task[p].stage \in {"updating", "installed"} /\ task[p].candidate = None
      BY <1>2, TaskOf DEF UpdaterInstalls, PreparationVerified, Candidacy
    <2>1. /\ t \in TaskState /\ t.stage \in {"installed", "verified"} /\ t.candidate = None
          /\ t.operation = task[p].operation
      BY <1>0, <2>0 DEF TaskState, Preparing
    <2>2. task' = [task EXCEPT ![p] = t]
      BY <1>0, <1>2 DEF UpdaterInstalls, PreparationVerified
    <2>3. UNCHANGED <<phase, commands, disposition, parent>>
      BY <1>2, Zenon DEF UpdaterInstalls, PreparationVerified, identityVars, pipeVars
    <2>4. Prepares(p, t)
      <3> HIDE DEF t
      <3> QED BY <2>0, <2>1, <2>2, <2>3 DEF Prepares, Early
    <2> QED BY <2>1, <2>4
  <1>3. CASE \/ UpdaterFails(p) \/ VersionUnreadable(p) \/ VersionOlder(p) \/ PreparationCurrent(p)
             \/ PreparationTimesOut(p) \/ CandidateNotPrepared(p)
    <2>0. task[p].stage \in {"updating", "installed", "verified"}
      BY <1>3 DEF UpdaterFails, VersionUnreadable, VersionOlder, PreparationCurrent, PreparationTimesOut,
         CandidateNotPrepared
    <2>1. task' = [task EXCEPT ![p] = NoTask] /\ UNCHANGED <<phase, commands, disposition, parent>>
      BY <1>3, Zenon DEF UpdaterFails, VersionUnreadable, VersionOlder, PreparationCurrent,
         PreparationTimesOut, CandidateNotPrepared, preparation_fails, release_permit, identityVars, pipeVars
    <2>2. Prepares(p, NoTask)
      BY <2>0, <2>1, Kinds DEF Prepares, Early
    <2> QED BY <2>2, Kinds
  <1> QED BY <1>2, <1>3

\* The next process is the first one that was not born.
LEMMA BornInOrder ==
    ASSUME BaseInv, NEW c \in Processes, spawns(c), NEW q \in Processes, q < c
    PROVE  phase[q] # "unborn"
  <1> DEFINE born == {r \in Processes : phase[r] # "unborn"}
  <1> SUFFICES ASSUME phase[q] = "unborn" PROVE FALSE
    OBVIOUS
  <1>1. born \subseteq 1..(q - 1)
    BY DEF BaseInv, BirthInv, Processes
  <1>2. IsFiniteSet(1..(q - 1)) /\ Cardinality(1..(q - 1)) = q - 1
    <2>1. q - 1 \in Nat
      BY DEF Processes
    <2> QED BY <2>1, FS_Interval
  <1>3. Cardinality(born) \in Nat /\ Cardinality(born) <= q - 1
    BY <1>1, <1>2, FS_Subset, FS_CardinalityType
  <1>4. c = 1 + Cardinality(born)
    BY DEF spawns
  <1> HIDE DEF born
  <1> QED BY <1>3, <1>4 DEF Processes

LEMMA SpawnStep ==
    ASSUME BaseInv, NEW p \in Processes, NEW c \in Processes, CandidatePrepared(p, c)
    PROVE  \E t \in TaskState : Spawns(p, c, t)
  <1> DEFINE t == [task[p] EXCEPT !.stage = "announcing", !.candidate = c]
  <1>0. task \in [Processes -> TaskState] /\ task[p] \in TaskState
    BY TaskOf
  <1>1. t \in TaskState /\ t.stage = "announcing" /\ t.candidate = c
    BY <1>0 DEF TaskState, Preparing
  <1>2. task' = [task EXCEPT ![p] = t]
    BY <1>0 DEF CandidatePrepared
  <1>3. /\ task[p].stage = "verified" /\ spawns(c) /\ phase' = [phase EXCEPT ![c] = "waiting"]
        /\ parent' = [parent EXCEPT ![c] = p] /\ UNCHANGED <<commands, disposition>>
    BY Zenon DEF CandidatePrepared, pipeVars
  <1> HIDE DEF t
  <1>4. \A q \in Processes : q < c => phase[q] # "unborn"
    BY <1>3, BornInOrder
  <1>5. Spawns(p, c, t)
    BY <1>1, <1>2, <1>3, <1>4 DEF Spawns, spawns
  <1> QED BY <1>1, <1>5

LEMMA AcknowledgedStep ==
    ASSUME BaseInv, NEW p \in Processes, Acknowledged(p)
    PROVE  \E t \in TaskState : Supervises(p, t)
  <1> DEFINE t == [task[p] EXCEPT !.backup = None]
  <1>0. task \in [Processes -> TaskState] /\ task[p] \in TaskState
    BY TaskOf
  <1>1. /\ t \in TaskState /\ t.stage = task[p].stage /\ t.candidate = task[p].candidate
        /\ t.operation = task[p].operation
    BY <1>0 DEF TaskState, None
  <1>2. task' = [task EXCEPT ![p] = t]
    BY <1>0 DEF Acknowledged, commit_update
  <1> HIDE DEF t
  <1>3. Supervises(p, t)
    BY <1>1, <1>2 DEF Acknowledged, Supervises, identityVars
  <1> QED BY <1>1, <1>3

LEMMA DecideStep ==
    ASSUME NEW p \in Processes, Commit(p) \/ CandidateRejected(p)
    PROVE  \E place \in Phases, command \in {"commit", "abort"} : Decides(p, place, command)
  <1>1. CASE Commit(p)
    <2>1. Decides(p, "acknowledgement", "commit") /\ "acknowledgement" \in Phases
      BY <1>1 DEF Commit, Decides, identityVars, taskVars, Phases, Handing, Coordinating
    <2> QED BY <2>1
  <1>2. CASE CandidateRejected(p)
    <2>1. Decides(p, "aborting", "abort") /\ "aborting" \in Phases
      BY <1>2 DEF CandidateRejected, Decides, identityVars, taskVars, Phases, Handing, Coordinating
    <2> QED BY <2>1
  <1> QED BY <1>1, <1>2

LEMMA OtherStep ==
    ASSUME BaseInv, NEW p \in Processes,
           \/ Announced(p) \/ AnnounceFails(p) \/ EndpointClosed(p) \/ Cutover(p) \/ Commit(p)
           \/ CandidateRejected(p) \/ RollBack(p) \/ Acknowledged(p) \/ Activate(p) \/ Settle(p)
    PROVE  Step(p)
  <1>0. task \in [Processes -> TaskState] /\ task[p] \in TaskState
    BY TaskOf
  <1>1. CASE Announced(p)
    <2> DEFINE t == [task[p] EXCEPT !.stage = "queued"]
    <2>1. /\ t \in TaskState /\ t.stage = "queued" /\ t.candidate = task[p].candidate
          /\ t.operation = task[p].operation
      BY <1>0 DEF TaskState, Preparing
    <2>2. task' = [task EXCEPT ![p] = t]
      BY <1>0, <1>1 DEF Announced
    <2> HIDE DEF t
    <2>3. Queues(p, t)
      BY <1>1, <2>1, <2>2 DEF Announced, Queues, identityVars, pipeVars
    <2> QED BY <2>1, <2>3 DEF Step
  <1>2. CASE AnnounceFails(p)
    <2>1. Drops(p)
      BY <1>2, Zenon DEF AnnounceFails, end_task, Drops, identityVars, pipeVars
    <2> QED BY <2>1 DEF Step
  <1>3. CASE EndpointClosed(p)
    <2>1. Closes(p)
      BY <1>3, Zenon DEF EndpointClosed, end_task, drained, Closes, identityVars, pipeVars
    <2> QED BY <2>1 DEF Step
  <1>4. CASE Cutover(p)
    <2> DEFINE t == [task[p] EXCEPT !.stage = "handoff"]
    <2>1. /\ t \in TaskState /\ t.stage = "handoff" /\ t.candidate = task[p].candidate
          /\ t.operation = task[p].operation
      BY <1>0 DEF TaskState, Preparing
    <2>2. task' = [task EXCEPT ![p] = t]
      BY <1>0, <1>4 DEF Cutover
    <2> HIDE DEF t
    <2>3. CutsOver(p, t)
      BY <1>4, <2>1, <2>2 DEF Cutover, CutsOver, identityVars
    <2> QED BY <2>1, <2>3 DEF Step
  <1>5. CASE Commit(p) \/ CandidateRejected(p)
    BY <1>5, DecideStep DEF Step
  <1>7. CASE RollBack(p)
    <2>1. Returns(p)
      BY <1>7, Zenon DEF RollBack, rolled_back, end_task, Returns, identityVars, pipeVars
    <2> QED BY <2>1 DEF Step
  <1>8. CASE Acknowledged(p)
    BY <1>8, AcknowledgedStep DEF Step
  <1>9. CASE Activate(p)
    <2>1. Activates(p)
      BY <1>9, Zenon DEF Activate, Activates, identityVars, taskVars
    <2> QED BY <2>1 DEF Step
  <1>10. CASE Settle(p)
    <2>1. Settles(p)
      BY <1>10, Zenon DEF Settle, Settles, identityVars, taskVars
    <2> QED BY <2>1 DEF Step
  <1> QED BY <1>1, <1>2, <1>3, <1>4, <1>5, <1>7, <1>8, <1>9, <1>10

LEMMA EveryStep ==
    ASSUME BaseInv, [Next]_vars
    PROVE  Still \/ \E p \in Processes : Step(p)
  <1>1. CASE UNCHANGED vars
    BY <1>1, Zenon DEF vars, Still
  <1>2. CASE \E k \in Clients : Consumer(k)
    BY <1>2, NoStep, HandoffAssumption DEF Processes
  <1>3. CASE \E k \in Clients, p \in Processes : StartBusy(k, p) \/ StartAccepted(k, p)
    <2> PICK k \in Clients, p \in Processes : StartBusy(k, p) \/ StartAccepted(k, p)
      BY <1>3
    <2>1. CASE StartBusy(k, p)
      BY <2>1, NoStep
    <2>2. CASE StartAccepted(k, p)
      BY <2>2, StartStep DEF Step
    <2> QED BY <2>1, <2>2
  <1>4. ASSUME NEW p \in Processes, Preparation(p) \/ Supervisor(p) \/ Settle(p) \/ SignalTaken(p) \/ Crash(p)
        PROVE  Still \/ \E x \in Processes : Step(x)
    <2>1. CASE OperationForgotten(p) \/ LateUpdaterInstalls(p) \/ LatePreparationDropped(p) \/ SignalIgnored(p)
      BY <2>1, Zenon DEF OperationForgotten, LateUpdaterInstalls, LatePreparationDropped, SignalIgnored,
         Still, identityVars, pipeVars, taskVars
    <2>2. CASE \/ AbortTimesOut(p) \/ StopTimesOut(p) \/ NeverActivated(p) \/ BindFails(p)
               \/ RollBackFails(p) \/ CandidateExited(p) \/ Terminated(p) \/ Crash(p)
      BY <2>2, KillStep DEF Step
    <2>3. CASE \/ TakeHandoff(p) \/ CandidateAborted(p) \/ Interrupted(p) \/ Bound(p)
               \/ CandidateReady(p) \/ SignalForwarded(p)
      BY <2>3, MoveStep DEF Step
    <2>4. CASE \/ UpdaterInstalls(p) \/ UpdaterFails(p) \/ VersionUnreadable(p)
               \/ VersionOlder(p) \/ PreparationCurrent(p) \/ PreparationVerified(p)
               \/ PreparationTimesOut(p) \/ CandidateNotPrepared(p)
      BY <2>4, PrepareStep DEF Step
    <2>5. CASE \E c \in Processes : CandidatePrepared(p, c)
      BY <2>5, SpawnStep DEF Step
    <2>6. CASE \/ Announced(p) \/ AnnounceFails(p) \/ EndpointClosed(p) \/ Cutover(p) \/ Commit(p)
               \/ CandidateRejected(p) \/ RollBack(p) \/ Acknowledged(p) \/ Activate(p) \/ Settle(p)
      BY <2>6, OtherStep
    <2> QED BY <1>4, <2>1, <2>2, <2>3, <2>4, <2>5, <2>6, Zenon DEF Preparation, Supervisor, SignalTaken
  <1>5. CASE \E signal \in {"int", "term"} : SendSignal(signal)
    BY <1>5, Zenon DEF SendSignal, Still, identityVars, pipeVars, taskVars
  <1>6. ASSUME NEW p \in Processes, OrphanInstalls(p) PROVE Still
    BY <1>6, Zenon DEF OrphanInstalls, Still, identityVars, pipeVars, taskVars
  <1> QED BY <1>1, <1>2, <1>3, <1>4, <1>5, <1>6, Zenon DEF Next

----------------------------------------------------------------------------
(* Processes, tasks and candidates stay in order.                            *)

LEMMA SentCommands ==
    ASSUME NEW S, NEW s \in Seq(S), NEW x \in S, NEW y
    PROVE  /\ holds(Append(s, x), y) <=> (holds(s, y) \/ x = y)
           /\ Append(s, x) \in Seq(S) /\ Append(s, x) # <<>>
           /\ s # <<>> => Tail(s) \in Seq(S) /\ (holds(Tail(s), y) => holds(s, y))
           /\ s # <<>> /\ Head(s) = y => holds(s, y)
           /\ <<>> \in Seq(S) /\ ~holds(<<>>, y)
  <1>1. Len(s) \in Nat /\ Append(s, x) \in Seq(S) /\ Len(Append(s, x)) = Len(s) + 1
    OBVIOUS
  <1>2. /\ \A i \in 1..Len(s) : Append(s, x)[i] = s[i]
        /\ Append(s, x)[Len(s) + 1] = x
    OBVIOUS
  <1>3. holds(Append(s, x), y) <=> (holds(s, y) \/ x = y)
    <2>1. ASSUME holds(s, y) PROVE holds(Append(s, x), y)
      <3>1. PICK i \in 1..Len(s) : s[i] = y
        BY <2>1 DEF holds
      <3>2. i \in 1..Len(Append(s, x)) /\ Append(s, x)[i] = y
        BY <1>1, <1>2, <3>1
      <3> QED BY <3>2 DEF holds
    <2>2. ASSUME x = y PROVE holds(Append(s, x), y)
      <3>1. Len(s) + 1 \in 1..Len(Append(s, x)) /\ Append(s, x)[Len(s) + 1] = y
        BY <1>1, <1>2, <2>2
      <3> QED BY <3>1 DEF holds
    <2>3. ASSUME holds(Append(s, x), y) PROVE holds(s, y) \/ x = y
      <3>1. PICK i \in 1..Len(Append(s, x)) : Append(s, x)[i] = y
        BY <2>3 DEF holds
      <3>2. CASE i = Len(s) + 1
        BY <1>2, <3>1, <3>2
      <3>3. CASE i # Len(s) + 1
        <4>1. i \in 1..Len(s) /\ s[i] = y
          BY <1>1, <1>2, <3>1, <3>3
        <4> QED BY <4>1 DEF holds
      <3> QED BY <3>2, <3>3
    <2> QED BY <2>1, <2>2, <2>3
  <1>4. ASSUME s # <<>> PROVE Tail(s) \in Seq(S) /\ (holds(Tail(s), y) => holds(s, y))
    <2>1. Tail(s) \in Seq(S) /\ Len(Tail(s)) = Len(s) - 1 /\ Len(s) > 0
      BY <1>4
    <2>2. ASSUME holds(Tail(s), y) PROVE holds(s, y)
      <3>1. PICK i \in 1..Len(Tail(s)) : Tail(s)[i] = y
        BY <2>2 DEF holds
      <3>2. i + 1 \in 1..Len(s) /\ s[i + 1] = y
        BY <1>4, <2>1, <3>1
      <3> QED BY <3>2 DEF holds
    <2> QED BY <2>1, <2>2
  <1>5. ASSUME s # <<>>, Head(s) = y PROVE holds(s, y)
    <2>1. 1 \in 1..Len(s) /\ s[1] = y
      BY <1>5
    <2> QED BY <2>1 DEF holds
  <1>6. <<>> \in Seq(S) /\ ~holds(<<>>, y)
    BY DEF holds
  <1>7. Append(s, x) # <<>>
    BY <1>1
  <1> QED BY <1>1, <1>3, <1>4, <1>5, <1>6, <1>7

\* What the steps after the preparation do to the executable.
LEMMA SupervisorValues ==
    ASSUME NEW p \in Processes, Supervisor(p) \/ Settle(p) \/ SignalTaken(p) \/ Crash(p)
    PROVE  /\ UNCHANGED <<version, operations>>
           /\ executable' \in {executable, task[p].backup}
           /\ EndpointClosed(p) \/ RollBack(p) \/ executable' = executable
           /\ late' = late \/ \E x : late' = [late EXCEPT ![x] = abandoned(x)]
  <1> USE DEF identityVars, pipeVars, taskVars
  <1>1. UNCHANGED <<version, operations>>
    BY Zenon DEF Supervisor, SignalTaken, TakeHandoff, CandidateAborted, EndpointClosed, Cutover,
         CandidateReady, Commit, CandidateRejected, AbortTimesOut, RollBack, RollBackFails, Acknowledged,
         CandidateExited, StopTimesOut, Activate, NeverActivated, Bound, BindFails, Settle, SignalForwarded,
         Interrupted, SignalIgnored, Terminated, Crash
  <1>2. executable' \in {executable, task[p].backup}
    BY Zenon DEF Supervisor, SignalTaken, TakeHandoff, CandidateAborted, EndpointClosed, Cutover,
         CandidateReady, Commit, CandidateRejected, AbortTimesOut, RollBack, RollBackFails, Acknowledged,
         CandidateExited, StopTimesOut, Activate, NeverActivated, Bound, BindFails, Settle, SignalForwarded,
         Interrupted, SignalIgnored, Terminated, Crash, restore_backup
  <1>3. EndpointClosed(p) \/ RollBack(p) \/ executable' = executable
    BY Zenon DEF Supervisor, SignalTaken, TakeHandoff, CandidateAborted, Cutover,
         CandidateReady, Commit, CandidateRejected, AbortTimesOut, RollBackFails, Acknowledged,
         CandidateExited, StopTimesOut, Activate, NeverActivated, Bound, BindFails, Settle, SignalForwarded,
         Interrupted, SignalIgnored, Terminated, Crash
  <1>4. late' = late \/ \E x : late' = [late EXCEPT ![x] = abandoned(x)]
    BY Zenon DEF Supervisor, SignalTaken, TakeHandoff, CandidateAborted, EndpointClosed, Cutover,
         CandidateReady, Commit, CandidateRejected, AbortTimesOut, RollBack, RollBackFails, Acknowledged,
         CandidateExited, StopTimesOut, Activate, NeverActivated, Bound, BindFails, Settle, SignalForwarded,
         Interrupted, SignalIgnored, Terminated, Crash, kill, exits
  <1> QED BY <1>1, <1>2, <1>3, <1>4

LEMMA ValuesStep ==
    ASSUME BaseInv, [Next]_vars
    PROVE  ValueType'
  <1> USE DEF identityVars, pipeVars, taskVars
  <1>0. /\ late \in [Processes -> {"none", "updating", "installed", "orphan"} \X Nat]
        /\ executable \in Nat /\ version \in [Processes -> Nat] /\ operations \in Nat
        /\ task \in [Processes -> TaskState]
        /\ \A p \in Processes : task[p].backup \in Nat
    BY DEF BaseInv, HandoffType, ProcessType, ValueType, TaskState
  <1>1. CASE UNCHANGED vars
    BY <1>0, <1>1 DEF vars, ValueType
  <1>2. CASE \E k \in Clients : Consumer(k)
    <2>1. UNCHANGED <<late, executable, version, operations>>
      BY <1>2, ZenonT(30) DEF Consumer, ConfirmCandidate, ConfirmElsewhere, ConfirmCommitted, ConfirmAborted,
         ConfirmAttemptFails, ClientGivesUp
    <2> QED BY <1>0, <2>1 DEF ValueType
  <1>3. CASE \E k \in Clients, p \in Processes : StartBusy(k, p) \/ StartAccepted(k, p)
    <2>1. UNCHANGED <<late, executable, version>> /\ operations' \in {operations, operations + 1}
      BY <1>3 DEF StartBusy, StartAccepted, new_operation_id
    <2> QED BY <1>0, <2>1 DEF ValueType
  <1>4. CASE \E signal \in {"int", "term"} : SendSignal(signal)
    <2>1. UNCHANGED <<late, executable, version, operations>>
      BY <1>4, Zenon DEF SendSignal
    <2> QED BY <1>0, <2>1 DEF ValueType
  <1>5. ASSUME NEW p \in Processes, Preparation(p) PROVE ValueType'
    <2>1. CASE UpdaterInstalls(p) \/ PreparationVerified(p) \/ PreparationCurrent(p) \/ Announced(p) \/ OperationForgotten(p)
      <3>1. UNCHANGED <<late, version, operations>>
        BY <2>1, Zenon DEF UpdaterInstalls, PreparationVerified, PreparationCurrent, Announced, OperationForgotten
      <3>2. executable' = executable \/ executable' \in Versions
        BY <2>1, Zenon DEF UpdaterInstalls, PreparationVerified, PreparationCurrent, Announced, OperationForgotten
      <3> QED BY <1>0, <3>1, <3>2 DEF ValueType, Versions
    <2>2. CASE UpdaterFails(p) \/ VersionUnreadable(p) \/ VersionOlder(p) \/ CandidateNotPrepared(p) \/ AnnounceFails(p)
      <3>1. UNCHANGED <<late, version, operations>> /\ executable' = task[p].backup
        BY <2>2, Zenon DEF UpdaterFails, VersionUnreadable, VersionOlder, CandidateNotPrepared, AnnounceFails,
           preparation_fails, restore_backup
      <3> QED BY <1>0, <3>1 DEF ValueType
    <2>3. CASE PreparationTimesOut(p)
      <3>1. UNCHANGED <<executable, version, operations>>
        BY <2>3, Zenon DEF PreparationTimesOut
      <3>2. /\ task[p].stage \in {"updating", "installed"}
            /\ late' = [late EXCEPT ![p] = <<task[p].stage, task[p].backup>>]
        BY <2>3 DEF PreparationTimesOut
      <3> QED BY <1>0, <3>1, <3>2 DEF ValueType
    <2>4. CASE LateUpdaterInstalls(p)
      <3>1. UNCHANGED <<version, operations>> /\ executable' \in Versions
        BY <2>4, Zenon DEF LateUpdaterInstalls
      <3>2. late' = [late EXCEPT ![p][1] = "installed"]
        BY <2>4 DEF LateUpdaterInstalls
      <3> QED BY <1>0, <3>1, <3>2 DEF ValueType, Versions
    <2>5. CASE LatePreparationDropped(p)
      <3>1. UNCHANGED <<version, operations>> /\ executable' = late[p][2] /\ late' = [late EXCEPT ![p] = <<"none", None>>]
        BY <2>5, Zenon DEF LatePreparationDropped
      <3> QED BY <1>0, <3>1 DEF ValueType, None
    <2>6. CASE \E c \in Processes : CandidatePrepared(p, c)
      <3> PICK c \in Processes : CandidatePrepared(p, c)
        BY <2>6
      <3>1. UNCHANGED <<late, executable, operations>> /\ version' = [version EXCEPT ![c] = executable]
        BY Zenon DEF CandidatePrepared
      <3> QED BY <1>0, <3>1 DEF ValueType
    <2> QED BY <1>5, <2>1, <2>2, <2>3, <2>4, <2>5, <2>6, Zenon DEF Preparation
  <1>6. ASSUME NEW p \in Processes, Supervisor(p) \/ Settle(p) \/ SignalTaken(p) \/ Crash(p) PROVE ValueType'
    BY <1>0, <1>6, SupervisorValues DEF ValueType, None, abandoned
  <1>7. ASSUME NEW p \in Processes, OrphanInstalls(p) PROVE ValueType'
    <2>1. UNCHANGED <<late, version, operations>> /\ executable' \in Versions
      BY <1>7, Zenon DEF OrphanInstalls
    <2> QED BY <1>0, <2>1 DEF ValueType, Versions
  <1> QED BY <1>1, <1>2, <1>3, <1>4, <1>5, <1>6, <1>7, Zenon DEF Next

LEMMA BaseFacts ==
    ASSUME BaseInv
    PROVE  /\ phase \in [Processes -> Phases] /\ task \in [Processes -> TaskState]
           /\ commands \in [Processes -> Seq(Commands)]
           /\ disposition \in [Processes -> {"none", "pending", "committed", "aborted"}]
           /\ parent \in [Processes -> Processes \cup {None}]
           /\ BirthInv /\ TaskInv /\ CommitInv
  BY DEF BaseInv, HandoffType, ProcessType

LEMMA CommandsOf ==
    ASSUME BaseInv, NEW c \in Processes, NEW command \in Commands
    PROVE  /\ Append(commands[c], command) \in Seq(Commands) /\ Append(commands[c], command) # <<>>
           /\ holds(Append(commands[c], command), "commit") <=> (sent(c, "commit") \/ command = "commit")
           /\ commands[c] # <<>> => /\ Tail(commands[c]) \in Seq(Commands)
                                    /\ holds(Tail(commands[c]), "commit") => sent(c, "commit")
                                    /\ Head(commands[c]) = "commit" => sent(c, "commit")
           /\ commands[c] = <<>> => ~sent(c, "commit")
           /\ <<>> \in Seq(Commands) /\ ~holds(<<>>, "commit")
  <1>1. commands[c] \in Seq(Commands)
    BY DEF BaseInv, HandoffType, ProcessType
  <1>2. holds(Append(commands[c], command), "commit") <=> (holds(commands[c], "commit") \/ command = "commit")
    BY <1>1, SentCommands
  <1>3. Append(commands[c], command) \in Seq(Commands) /\ Append(commands[c], command) # <<>>
    BY <1>1, SentCommands, Zenon
  <1>4. commands[c] # <<>> => Tail(commands[c]) \in Seq(Commands) /\ (holds(Tail(commands[c]), "commit") => holds(commands[c], "commit"))
    BY <1>1, SentCommands, Zenon
  <1>5. commands[c] # <<>> /\ Head(commands[c]) = "commit" => holds(commands[c], "commit")
    BY <1>1, SentCommands, ZenonT(30)
  <1>6. <<>> \in Seq(Commands) /\ ~holds(<<>>, "commit")
    BY <1>1, SentCommands, Zenon
  <1> QED BY <1>2, <1>3, <1>4, <1>5, <1>6 DEF sent

Base == ProcessType /\ BirthInv /\ TaskInv /\ CommitInv

LEMMA EndsBase ==
    ASSUME BaseInv, NEW x \in Processes, Ends(x)
    PROVE  Base'
  <1> USE BaseFacts
  <1>1. /\ \A q \in Processes : phase'[q] = IF q = x THEN "dead" ELSE phase[q]
        /\ \A q \in Processes : task'[q] = IF q = x THEN NoTask ELSE task[q]
        /\ phase[x] \notin {"unborn", "dead"} /\ UNCHANGED <<commands, disposition, parent>>
    BY DEF Ends, alive
  <1>2. ProcessType'
    BY Kinds DEF Ends, ProcessType, Phases
  <1>3. BirthInv'
    BY <1>1, Kinds DEF BirthInv
  <1>4. TaskInv'
    <2> SUFFICES ASSUME NEW p \in Processes PROVE Candidacy(p)' /\ Stages(p)'
      BY DEF TaskInv
    <2>1. Candidacy(p) /\ Stages(p)
      BY DEF TaskInv
    <2>2. CASE p = x
      BY <1>1, <2>2, Kinds DEF Candidacy, Stages, Handing, Coordinating, Draining, Preparing
    <2>3. CASE p # x
      BY <1>1, <2>1, <2>3 DEF Candidacy, Stages
    <2> QED BY <2>2, <2>3
  <1>5. CommitInv'
    BY <1>1 DEF CommitInv, sent, Final
  <1> QED BY <1>2, <1>3, <1>4, <1>5 DEF Base

LEMMA PreparesBase ==
    ASSUME BaseInv, NEW p \in Processes, NEW t \in TaskState, Prepares(p, t)
    PROVE  Base'
  <1> USE BaseFacts
  <1>1. /\ \A q \in Processes : task'[q] = IF q = p THEN t ELSE task[q]
        /\ t.stage \in Early /\ t.candidate = None /\ task[p].stage \in Early
        /\ task[p].stage = "none" => reachable(p)
        /\ UNCHANGED <<phase, commands, disposition, parent>>
    BY DEF Prepares
  <1>2. phase[p] \in {"serving", "draining shutdown", "draining aborted"}
    BY <1>1, TaskOf DEF Stages, Early, Preparing, Draining, reachable
  <1>3. ProcessType'
    BY DEF Prepares, ProcessType
  <1>4. BirthInv'
    BY <1>1, <1>2 DEF BirthInv
  <1>5. TaskInv'
    <2> SUFFICES ASSUME NEW q \in Processes PROVE Candidacy(q)' /\ Stages(q)'
      BY DEF TaskInv
    <2>1. Candidacy(q) /\ Stages(q)
      BY DEF TaskInv
    <2>2. CASE q = p
      BY <1>1, <1>2, <2>2 DEF Candidacy, Stages, Handing, Coordinating, Draining, Preparing, Early
    <2>3. CASE q # p
      BY <1>1, <2>1, <2>3 DEF Candidacy, Stages
    <2> QED BY <2>2, <2>3
  <1>6. CommitInv'
    BY <1>1 DEF CommitInv, sent
  <1> QED BY <1>3, <1>4, <1>5, <1>6 DEF Base

LEMMA MovesBase ==
    ASSUME BaseInv, NEW p \in Processes, NEW place \in Phases, Moves(p, place)
    PROVE  Base'
  <1> USE BaseFacts
  <1>1. /\ \A q \in Processes : phase'[q] = IF q = p THEN place ELSE phase[q]
        /\ UNCHANGED <<task, commands, disposition, parent>>
        /\ phase[p] \in {"serving", "binding", "readiness", "supervising"}
        /\ phase[p] = "serving" => place \in Draining /\ (place = "draining handoff" => task[p].stage = "queued")
        /\ phase[p] = "binding" => place = "serving"
        /\ phase[p] = "readiness" => place = "consumer"
        /\ phase[p] = "supervising" => place = "stopping"
    BY DEF Moves, Draining
  <1>2. ProcessType'
    BY DEF Moves, ProcessType
  <1>3. BirthInv'
    BY <1>1 DEF BirthInv, Draining
  <1>4. TaskInv'
    <2> SUFFICES ASSUME NEW q \in Processes PROVE Candidacy(q)' /\ Stages(q)'
      BY DEF TaskInv
    <2>1. Candidacy(q) /\ Stages(q)
      BY DEF TaskInv
    <2>2. Candidacy(q)'
      BY <1>1, <2>1 DEF Candidacy, Draining
    <2>3. Stages(q)'
      BY <1>1, <2>1 DEF Stages, Handing, Coordinating, Draining, Preparing
    <2> QED BY <2>2, <2>3
  <1>5. CommitInv'
    BY <1>1 DEF CommitInv, sent, Final
  <1> QED BY <1>2, <1>3, <1>4, <1>5 DEF Base

LEMMA SpawnsBase ==
    ASSUME BaseInv, NEW p \in Processes, NEW c \in Processes, NEW t \in TaskState, Spawns(p, c, t)
    PROVE  Base'
  <1> USE BaseFacts
  <1>1. /\ \A q \in Processes : phase'[q] = IF q = c THEN "waiting" ELSE phase[q]
        /\ \A q \in Processes : task'[q] = IF q = p THEN t ELSE task[q]
        /\ \A q \in Processes : parent'[q] = IF q = c THEN p ELSE parent[q]
        /\ t.stage = "announcing" /\ t.candidate = c /\ task[p].stage = "verified"
        /\ phase[c] = "unborn" /\ \A q \in Processes : q < c => phase[q] # "unborn"
        /\ UNCHANGED <<commands, disposition>>
    BY DEF Spawns
  <1>2. phase[p] \in {"serving"} \cup Draining /\ phase[p] # "draining handoff"
    BY <1>1, TaskOf DEF Stages, Preparing
  <1>3. p < c /\ p # c /\ commands[c] = <<>> /\ disposition[c] = "none" /\ ~sent(c, "commit")
    <2>1. phase[p] \notin {"unborn", "waiting"}
      BY <1>2 DEF Draining
    <2>2. p \in Nat /\ c \in Nat /\ p # c /\ ~(c < p)
      BY <1>1, <2>1 DEF BirthInv, Processes
    <2>3. commands[c] = <<>> /\ disposition[c] = "none"
      BY <1>1 DEF BirthInv
    <2>4. ~holds(<<>>, "commit")
      BY DEF holds
    <2> QED BY <2>2, <2>3, <2>4 DEF sent
  <1>4. ProcessType'
    BY DEF Spawns, ProcessType, Phases
  <1>5. BirthInv'
    <2>1. phase'[p] \notin {"unborn", "waiting"}
      BY <1>1, <1>2, <1>3 DEF Draining
    <2>2. \A r, q \in Processes : r < q /\ phase'[q] # "unborn" => phase'[r] # "unborn"
      BY <1>1 DEF BirthInv
    <2>3. \A q \in Processes : phase'[q] \in {"unborn", "waiting"} => task'[q].stage = "none" /\ disposition'[q] = "none"
      BY <1>1, <1>3, <2>1 DEF BirthInv
    <2>4. \A q \in Processes : phase'[q] = "unborn" => commands'[q] = <<>>
      BY <1>1 DEF BirthInv
    <2> QED BY <2>2, <2>3, <2>4 DEF BirthInv
  <1>6. TaskInv'
    <2> SUFFICES ASSUME NEW q \in Processes PROVE Candidacy(q)' /\ Stages(q)'
      BY DEF TaskInv
    <2>1. Candidacy(q) /\ Stages(q)
      BY DEF TaskInv
    <2>2. CASE q = p
      BY <1>1, <1>2, <1>3, <2>2 DEF Candidacy, Stages, Handing, Coordinating, Draining, Preparing
    <2>3. CASE q # p
      <3>1. q = c => task[q].stage = "none"
        BY <1>1 DEF BirthInv
      <3>2. Candidacy(q)'
        BY <1>1, <2>1, <2>3 DEF Candidacy
      <3>3. Stages(q)'
        BY <1>1, <2>1, <2>3, <3>1 DEF Stages, Handing, Coordinating, Draining, Preparing
      <3> QED BY <3>2, <3>3
    <2> QED BY <2>2, <2>3
  <1>7. CommitInv'
    <2> SUFFICES ASSUME NEW x \in Processes, sent(x, "commit") \/ disposition[x] = "committed"
                 PROVE  parent'[x] \in Processes /\ phase'[parent'[x]] \in Final
      BY <1>1 DEF CommitInv, sent
    <2>1. parent[x] \in Processes /\ phase[parent[x]] \in Final /\ x # c
      BY <1>3 DEF CommitInv
    <2>2. parent[x] # c
      BY <1>1, <2>1 DEF Final
    <2> QED BY <1>1, <2>1, <2>2
  <1> QED BY <1>4, <1>5, <1>6, <1>7 DEF Base

LEMMA QueuesBase ==
    ASSUME BaseInv, NEW p \in Processes, NEW t \in TaskState, Queues(p, t) \/ Supervises(p, t)
    PROVE  Base'
  <1> USE BaseFacts
  <1>1. /\ \A q \in Processes : task'[q] = IF q = p THEN t ELSE task[q]
        /\ t.candidate = task[p].candidate
        /\ UNCHANGED <<commands, disposition, parent>>
    BY DEF Queues, Supervises
  <1>2. \/ task[p].stage = "announcing" /\ t.stage = "queued" /\ phase' = phase
        \/ /\ t.stage = task[p].stage /\ phase[p] = "acknowledgement"
           /\ \A q \in Processes : phase'[q] = IF q = p THEN "supervising" ELSE phase[q]
    BY DEF Queues, Supervises
  <1>3. ProcessType'
    BY ZenonT(30) DEF Queues, Supervises, ProcessType, Phases, Handing
  <1>4. BirthInv'
    BY <1>1, <1>2, ZenonT(30) DEF BirthInv
  <1>5. TaskInv'
    <2> SUFFICES ASSUME NEW q \in Processes PROVE Candidacy(q)' /\ Stages(q)'
      BY DEF TaskInv
    <2>1. Candidacy(q) /\ Stages(q)
      BY DEF TaskInv
    <2>2. Candidacy(q)'
      BY <1>1, <1>2, <2>1 DEF Candidacy
    <2>3. Stages(q)'
      BY <1>1, <1>2, <2>1 DEF Stages, Handing, Coordinating, Draining, Preparing
    <2> QED BY <2>2, <2>3
  <1>6. CommitInv'
    BY <1>1, <1>2 DEF CommitInv, sent, Final
  <1> QED BY <1>3, <1>4, <1>5, <1>6 DEF Base

LEMMA DropsBase ==
    ASSUME BaseInv, NEW p \in Processes, Drops(p) \/ Closes(p)
    PROVE  Base'
  <1> USE BaseFacts
  <1> DEFINE gone(q) == (q = p /\ Closes(p)) \/ q = task[p].candidate
  <1>1. /\ \A q \in Processes : task'[q] = IF q = p THEN NoTask ELSE task[q]
        /\ UNCHANGED <<commands, disposition, parent>>
        /\ task[p].stage \in {"announcing", "none", "queued"}
    BY DEF Drops, Closes
  <1>2. phase[p] \in {"serving"} \cup Draining
    BY TaskOf DEF Drops, Closes, Stages, Preparing, Draining
  <1>3. /\ task[p].candidate \in Processes => phase[task[p].candidate] \in {"waiting", "dead"} /\ p # task[p].candidate
        /\ task[p].stage = "announcing" => task[p].candidate \in Processes
    BY <1>1, TaskOf DEF Candidacy, None, Processes
  <1>4. \A q \in Processes : phase'[q] = IF gone(q) THEN "dead" ELSE phase[q]
    BY <1>3 DEF Drops, Closes
  <1>5. \A q \in Processes : gone(q) => phase[q] # "unborn"
    BY <1>2, <1>3 DEF Draining
  <1>6. p # task[p].candidate /\ (gone(p) \/ task[p].stage = "announcing")
    BY <1>1, <1>3 DEF Drops
  <1>7. \A q \in Processes : gone(q) /\ q # p => task[q].stage = "none"
    <2> SUFFICES ASSUME NEW q \in Processes, q = task[p].candidate PROVE task[q].stage = "none"
      OBVIOUS
    <2>1. phase[q] \in {"waiting", "dead"} /\ Stages(q) /\ task[q] \in TaskState
      BY <1>3, TaskOf
    <2>2. CASE phase[q] = "waiting"
      BY <2>2 DEF BirthInv
    <2>3. CASE phase[q] = "dead"
      BY <2>1, <2>3 DEF Stages, Handing, Coordinating, Draining, Preparing, TaskState
    <2> QED BY <2>1, <2>2, <2>3
  <1> HIDE DEF gone
  <1>8. ProcessType'
    <2>1. phase' \in [Processes -> Phases]
      <3>1. "dead" \in Phases
        BY DEF Phases
      <3>2. CASE Drops(p)
        BY <3>1, <3>2 DEF Drops
      <3>3. CASE Closes(p)
        BY <3>1, <3>3 DEF Closes
      <3> QED BY <3>2, <3>3
    <2> QED BY <2>1, Kinds, ZenonT(30) DEF Drops, Closes, ProcessType
  <1>9. BirthInv'
    BY <1>1, <1>4, <1>5, Kinds DEF BirthInv
  <1>10. TaskInv'
    <2> SUFFICES ASSUME NEW q \in Processes PROVE Candidacy(q)' /\ Stages(q)'
      BY DEF TaskInv
    <2>1. Candidacy(q) /\ Stages(q)
      BY DEF TaskInv
    <2>2. CASE q = p
      BY <1>1, <1>2, <1>4, <1>6, <2>1, <2>2, Kinds DEF Candidacy, Stages, Handing, Coordinating, Draining, Preparing
    <2>3. CASE q # p
      <3>1. Candidacy(q)'
        BY <1>1, <1>4, <2>1, <2>3 DEF Candidacy
      <3>2. Stages(q)'
        BY <1>1, <1>4, <1>7, <2>1, <2>3 DEF Stages, Handing, Coordinating, Draining, Preparing
      <3> QED BY <3>1, <3>2
    <2> QED BY <2>2, <2>3
  <1>11. CommitInv'
    BY <1>1, <1>4 DEF CommitInv, sent, Final
  <1> QED BY <1>8, <1>9, <1>10, <1>11 DEF Base

LEMMA CutsOverBase ==
    ASSUME BaseInv, NEW p \in Processes, NEW t \in TaskState, CutsOver(p, t)
    PROVE  Base'
  <1> USE BaseFacts
  <1> DEFINE c == task[p].candidate
  <1>1. phase[p] = "draining handoff" /\ task[p].stage = "queued" /\ t.stage = "handoff" /\ t.candidate = c
    BY TaskOf DEF CutsOver, Stages
  <1>2. c \in Processes /\ p < c /\ p # c /\ parent[c] = p /\ phase[c] \in {"waiting", "dead"} /\ commands[c] = <<>>
    BY <1>1, CandidateOf, TaskOf DEF Candidacy
  <1>3. /\ \A q \in Processes : phase'[q] = IF q = p THEN "readiness" ELSE phase[q]
        /\ \A q \in Processes : task'[q] = IF q = p THEN t ELSE task[q]
        /\ \A q \in Processes : commands'[q] = IF q = c THEN Append(commands[c], "activate") ELSE commands[q]
        /\ UNCHANGED <<disposition, parent>>
    BY <1>2 DEF CutsOver, send_command
  <1>4. /\ Append(commands[c], "activate") \in Seq(Commands)
        /\ ~holds(Append(commands[c], "activate"), "commit") /\ "activate" # "commit"
    BY <1>2, CommandsOf DEF Commands
  <1> HIDE DEF c
  <1>5. ProcessType'
    BY <1>3, <1>4 DEF CutsOver, ProcessType, Phases, Handing, Coordinating, send_command, c
  <1>6. BirthInv'
    <2>1. \A r, q \in Processes : r < q /\ phase'[q] # "unborn" => phase'[r] # "unborn"
      BY <1>1, <1>3 DEF BirthInv
    <2>2. \A q \in Processes : phase'[q] \in {"unborn", "waiting"} => task'[q].stage = "none" /\ disposition'[q] = "none"
      BY <1>3 DEF BirthInv
    <2>3. \A q \in Processes : phase'[q] = "unborn" => commands'[q] = <<>>
      BY <1>2, <1>3 DEF BirthInv
    <2> QED BY <2>1, <2>2, <2>3 DEF BirthInv
  <1>7. TaskInv'
    <2> SUFFICES ASSUME NEW q \in Processes PROVE Candidacy(q)' /\ Stages(q)'
      BY DEF TaskInv
    <2>1. Candidacy(q) /\ Stages(q)
      BY DEF TaskInv
    <2>2. CASE q = p
      BY <1>1, <1>2, <1>3, <2>2, ZenonT(30) DEF Candidacy, Stages, Handing, Coordinating, Draining, Preparing
    <2>3. CASE q # p
      <3>1. task[q].stage \in {"announcing", "queued", "handoff"} => task[q].candidate \in Processes /\ task[q].candidate # c
        BY <1>2, <2>1, <2>3 DEF Candidacy
      <3>2. Candidacy(q)'
        <4>1. task'[q] = task[q] /\ parent' = parent
          BY <1>3, <2>3
        <4>2. CASE task[q].stage \in {"announcing", "queued", "handoff"}
          <5> DEFINE d == task[q].candidate
          <5>1. /\ d \in Processes /\ q < d /\ parent[d] = q /\ phase[d] # "unborn" /\ d # c
                /\ task[q].stage # "handoff" => phase[d] \in {"waiting", "dead"} /\ commands[d] = <<>>
            BY <2>1, <3>1, <4>2 DEF Candidacy
          <5>2. commands'[d] = commands[d] /\ phase'[d] # "unborn" /\ (phase[d] \in {"waiting", "dead"} => phase'[d] = phase[d])
            BY <1>1, <1>3, <5>1
          <5> QED BY <4>1, <4>2, <5>1, <5>2 DEF Candidacy
        <4>3. CASE task[q].stage \notin {"announcing", "queued", "handoff"}
          BY <2>1, <4>1, <4>3 DEF Candidacy
        <4> QED BY <4>2, <4>3
      <3>3. Stages(q)'
        <4>1. phase'[q] = phase[q] /\ task'[q] = task[q]
          BY <1>3, <2>3
        <4> QED BY <2>1, <4>1 DEF Stages
      <3> QED BY <3>2, <3>3
    <2> QED BY <2>2, <2>3
  <1>8. CommitInv'
    BY <1>1, <1>3, <1>4 DEF CommitInv, sent, Final
  <1> QED BY <1>5, <1>6, <1>7, <1>8 DEF Base

LEMMA KeepsCandidate ==
    ASSUME BaseInv, NEW q \in Processes, task'[q] = task[q], parent' = parent,
           task[q].stage \in {"announcing", "queued", "handoff"} => phase'[task[q].candidate] # "unborn",
           task[q].stage \in {"announcing", "queued"} =>
               phase'[task[q].candidate] \in {"waiting", "dead"} /\ commands'[task[q].candidate] = <<>>
    PROVE  Candidacy(q)'
  BY TaskOf DEF Candidacy

LEMMA DecidesBase ==
    ASSUME BaseInv, NEW p \in Processes, NEW place \in Phases, NEW command \in {"commit", "abort"},
           Decides(p, place, command)
    PROVE  Base'
  <1> USE BaseFacts
  <1> DEFINE c == task[p].candidate
  <1>1. /\ phase[p] \in {"readiness", "consumer"}
        /\ \/ place = "acknowledgement" /\ command = "commit"
           \/ place = "aborting" /\ command = "abort"
    BY DEF Decides
  <1>2. task[p].stage = "handoff"
    BY <1>1, TaskOf DEF Stages, Handing, Coordinating
  <1>3. c \in Processes /\ p < c /\ p # c /\ parent[c] = p /\ phase[c] # "unborn"
    BY <1>2, CandidateOf
  <1>4. /\ \A q \in Processes : phase'[q] = IF q = p THEN place ELSE phase[q]
        /\ \A q \in Processes : commands'[q] = IF q = c THEN Append(commands[c], command) ELSE commands[q]
        /\ UNCHANGED <<task, disposition, parent>>
    BY <1>3 DEF Decides, send_command
  <1>5. /\ Append(commands[c], command) \in Seq(Commands)
        /\ holds(Append(commands[c], command), "commit") <=> (sent(c, "commit") \/ command = "commit")
    <2>1. command \in Commands
      BY DEF Commands
    <2> QED BY <2>1, <1>3, CommandsOf
  <1>6. ProcessType'
    BY <1>5 DEF Decides, ProcessType, send_command
  <1> HIDE DEF c
  <1>7. BirthInv'
    <2>1. \A r, q \in Processes : r < q /\ phase'[q] # "unborn" => phase'[r] # "unborn"
      BY <1>1, <1>4 DEF BirthInv
    <2>2. \A q \in Processes : phase'[q] \in {"unborn", "waiting"} => task'[q].stage = "none" /\ disposition'[q] = "none"
      BY <1>1, <1>4 DEF BirthInv
    <2>3. \A q \in Processes : phase'[q] = "unborn" => commands'[q] = <<>>
      BY <1>1, <1>3, <1>4 DEF BirthInv
    <2> QED BY <2>1, <2>2, <2>3 DEF BirthInv
  <1>8. TaskInv'
    <2> SUFFICES ASSUME NEW q \in Processes PROVE Candidacy(q)' /\ Stages(q)'
      BY DEF TaskInv
    <2>1. Candidacy(q) /\ Stages(q)
      BY DEF TaskInv
    <2>2. Candidacy(q)'
      <3>1. ASSUME task[q].stage \in {"announcing", "queued", "handoff"} PROVE phase'[task[q].candidate] # "unborn"
        BY <1>1, <1>4, <2>1, <3>1 DEF Candidacy
      <3>2. ASSUME task[q].stage \in {"announcing", "queued"}
            PROVE  phase'[task[q].candidate] \in {"waiting", "dead"} /\ commands'[task[q].candidate] = <<>>
        <4>1. q # p /\ task[q].candidate \in Processes /\ parent[task[q].candidate] = q /\ task[q].candidate # c
          BY <1>2, <1>3, <2>1, <3>2 DEF Candidacy
        <4>2. phase[task[q].candidate] \in {"waiting", "dead"} /\ commands[task[q].candidate] = <<>>
          BY <2>1, <3>2 DEF Candidacy
        <4> QED BY <1>1, <1>4, <4>1, <4>2
      <3> QED BY <1>4, <3>1, <3>2, KeepsCandidate
    <2>3. Stages(q)'
      <3>1. CASE q = p
        BY <1>1, <1>2, <1>4, <2>1, <3>1 DEF Stages, Handing, Coordinating, Preparing
      <3>2. CASE q # p
        BY <1>4, <2>1, <3>2 DEF Stages
      <3> QED BY <3>1, <3>2
    <2> QED BY <2>2, <2>3
  <1>9. CommitInv'
    <2> SUFFICES ASSUME NEW x \in Processes, sent(x, "commit")' \/ disposition[x] = "committed"
                 PROVE  parent[x] \in Processes /\ phase'[parent[x]] \in Final
      BY <1>4 DEF CommitInv
    <2>1. CASE sent(x, "commit") \/ disposition[x] = "committed"
      <3>1. parent[x] \in Processes /\ phase[parent[x]] \in Final
        BY <2>1 DEF CommitInv
      <3>2. parent[x] # p
        BY <1>1, <3>1 DEF Final
      <3> QED BY <1>4, <3>1, <3>2
    <2>2. CASE ~sent(x, "commit") /\ disposition[x] # "committed"
      <3>1. x = c /\ command = "commit"
        BY <1>4, <1>5, <2>2 DEF sent
      <3> QED BY <1>1, <1>3, <1>4, <3>1 DEF Final
    <2> QED BY <2>1, <2>2
  <1> QED BY <1>6, <1>7, <1>8, <1>9 DEF Base

LEMMA ReturnsBase ==
    ASSUME BaseInv, NEW p \in Processes, Returns(p)
    PROVE  Base'
  <1> USE BaseFacts
  <1>1. /\ phase[p] = "aborting"
        /\ \A q \in Processes : phase'[q] = IF q = p THEN "binding" ELSE phase[q]
        /\ \A q \in Processes : task'[q] = IF q = p THEN NoTask ELSE task[q]
        /\ \A q \in Processes : disposition'[q] = IF q = p THEN "none" ELSE disposition[q]
        /\ UNCHANGED <<commands, parent>>
    BY DEF Returns
  <1>2. ProcessType'
    BY Kinds DEF Returns, ProcessType, Phases, HoldsEndpoint
  <1>3. BirthInv'
    BY <1>1, Kinds DEF BirthInv
  <1>4. TaskInv'
    <2> SUFFICES ASSUME NEW q \in Processes PROVE Candidacy(q)' /\ Stages(q)'
      BY DEF TaskInv
    <2>1. Candidacy(q) /\ Stages(q)
      BY DEF TaskInv
    <2>2. CASE q = p
      BY <1>1, <2>2, Kinds DEF Candidacy, Stages, Handing, Coordinating, Preparing
    <2>3. CASE q # p
      BY <1>1, <2>1, <2>3 DEF Candidacy, Stages
    <2> QED BY <2>2, <2>3
  <1>5. CommitInv'
    BY <1>1 DEF CommitInv, sent, Final
  <1> QED BY <1>2, <1>3, <1>4, <1>5 DEF Base

LEMMA ActivatesBase ==
    ASSUME BaseInv, NEW c \in Processes, Activates(c)
    PROVE  Base'
  <1> USE BaseFacts
  <1>1. /\ phase[c] = "waiting" /\ commands[c] # <<>>
        /\ \A q \in Processes : phase'[q] = IF q = c THEN "binding" ELSE phase[q]
        /\ \A q \in Processes : commands'[q] = IF q = c THEN Tail(commands[c]) ELSE commands[q]
        /\ \A q \in Processes : disposition'[q] = IF q = c THEN "pending" ELSE disposition[q]
        /\ UNCHANGED <<task, parent>>
    BY DEF Activates
  <1>2. Tail(commands[c]) \in Seq(Commands) /\ (holds(Tail(commands[c]), "commit") => sent(c, "commit"))
    <2>1. "abort" \in Commands
      BY DEF Commands
    <2> QED BY <1>1, <2>1, CommandsOf
  <1>3. ProcessType'
    BY <1>2 DEF Activates, ProcessType, Phases, HoldsEndpoint
  <1>4. BirthInv'
    BY <1>1, SMTT(30) DEF BirthInv
  <1>5. TaskInv'
    <2> SUFFICES ASSUME NEW q \in Processes PROVE Candidacy(q)' /\ Stages(q)'
      BY DEF TaskInv
    <2>1. Candidacy(q) /\ Stages(q)
      BY DEF TaskInv
    <2>2. Candidacy(q)'
      BY <1>1, <2>1 DEF Candidacy
    <2>3. Stages(q)'
      BY <1>1, <2>1 DEF Stages, Handing, Coordinating, Draining, Preparing, BirthInv
    <2> QED BY <2>2, <2>3
  <1>6. CommitInv'
    <2> SUFFICES ASSUME NEW x \in Processes, sent(x, "commit")' \/ disposition'[x] = "committed"
                 PROVE  parent[x] \in Processes /\ phase'[parent[x]] \in Final
      BY <1>1 DEF CommitInv
    <2>1. sent(x, "commit") \/ disposition[x] = "committed"
      BY <1>1, <1>2 DEF sent
    <2>2. parent[x] \in Processes /\ phase[parent[x]] \in Final
      BY <2>1 DEF CommitInv
    <2> QED BY <1>1, <2>2 DEF Final
  <1> QED BY <1>3, <1>4, <1>5, <1>6 DEF Base

LEMMA SettlesBase ==
    ASSUME BaseInv, NEW c \in Processes, Settles(c)
    PROVE  Base'
  <1> USE BaseFacts
  <1>1. /\ disposition[c] = "pending"
        /\ \A q \in Processes : commands'[q] = IF q = c THEN <<>> ELSE commands[q]
        /\ \A q \in Processes : disposition'[q] = IF q = c THEN settled_by(c) ELSE disposition[q]
        /\ UNCHANGED <<phase, task, parent>>
    BY DEF Settles, is_pending
  <1>2. /\ settled_by(c) \in {"committed", "aborted"} /\ (settled_by(c) = "committed" => sent(c, "commit"))
        /\ ~holds(<<>>, "commit") /\ <<>> \in Seq(Commands)
    <2>1. "abort" \in Commands
      BY DEF Commands
    <2> QED BY <2>1, CommandsOf DEF settled_by
  <1>3. ProcessType'
    BY <1>2 DEF Settles, ProcessType
  <1>4. BirthInv'
    BY <1>1 DEF BirthInv
  <1>5. TaskInv'
    <2> SUFFICES ASSUME NEW q \in Processes PROVE Candidacy(q)' /\ Stages(q)'
      BY DEF TaskInv
    <2>1. Candidacy(q) /\ Stages(q)
      BY DEF TaskInv
    <2> QED BY <1>1, <2>1 DEF Candidacy, Stages
  <1>6. CommitInv'
    <2> SUFFICES ASSUME NEW x \in Processes, sent(x, "commit")' \/ disposition'[x] = "committed"
                 PROVE  parent[x] \in Processes /\ phase[parent[x]] \in Final
      BY <1>1 DEF CommitInv
    <2>1. sent(x, "commit") \/ disposition[x] = "committed"
      BY <1>1, <1>2 DEF sent
    <2> QED BY <2>1 DEF CommitInv
  <1> QED BY <1>3, <1>4, <1>5, <1>6 DEF Base

LEMMA StillBase ==
    ASSUME BaseInv, Still
    PROVE  Base'
  BY DEF BaseInv, HandoffType, ProcessType, BirthInv, TaskInv, Candidacy, Stages, CommitInv, sent, Base, Still

LEMMA BaseInductive ==
    ASSUME BaseInv, [Next]_vars
    PROVE  BaseInv'
  <1>1. ValueType'
    BY ValuesStep
  <1>2. Base'
    <2>1. ASSUME NEW p \in Processes, Step(p) PROVE Base'
      BY <2>1, EndsBase, DropsBase, ReturnsBase, ActivatesBase, SettlesBase, MovesBase, DecidesBase,
         PreparesBase, QueuesBase, CutsOverBase, SpawnsBase, Zenon DEF Step
    <2> QED BY <2>1, EveryStep, StillBase
  <1> QED BY <1>1, <1>2 DEF Base, BaseInv, HandoffType

LEMMA BaseInit ==
    ASSUME Init
    PROVE  BaseInv
  <1>1. /\ \A p \in Processes : /\ task[p].stage = "none" /\ task[p].candidate = None
                                /\ disposition[p] = "none" /\ commands[p] = <<>>
                                /\ phase[p] = IF p = 1 THEN "binding" ELSE "unborn"
    BY Kinds DEF Init
  <1>2. ProcessType
    BY <1>1, Kinds DEF Init, ProcessType, Phases, HoldsEndpoint
  <1>3. ValueType
    BY DEF Init, ValueType, None
  <1>4. BirthInv
    BY <1>1 DEF BirthInv, Processes
  <1>5. TaskInv
    BY <1>1 DEF TaskInv, Candidacy, Stages, Preparing, Handing, Coordinating
  <1>6. CommitInv
    BY <1>1 DEF CommitInv, sent, holds
  <1> QED BY <1>2, <1>3, <1>4, <1>5, <1>6 DEF BaseInv, HandoffType

LEMMA AlwaysBase == Spec => []BaseInv
  BY BaseInit, BaseInductive, PTL DEF Spec

\* A committed candidate is never rolled back: whatever deadline, crash or lost answer
\* raced the commit, its parent only supervises it from then on.
THEOREM CommitsAreFinal == Spec => []CommitIsFinal
  <1>1. BaseInv => CommitIsFinal
    BY DEF BaseInv, CommitInv, CommitIsFinal, Final
  <1> QED BY <1>1, AlwaysBase, PTL

----------------------------------------------------------------------------
(* One process at most holds the endpoint.                                   *)

LEMMA EndpointFrame ==
    ASSUME EndpointInv,
           \A q \in Processes :
               /\ Holds(q)' => Holds(q)
               /\ Active(q)' => Active(q)
               /\ phase'[q] \in Undecided =>
                     phase[q] \in Undecided /\ task'[q].candidate = task[q].candidate
    PROVE  EndpointInv'
  BY DEF EndpointInv

LEMMA UndecidedOf ==
    ASSUME BaseInv, TokenInv, NEW p \in Processes, phase[p] \in Undecided
    PROVE  LET c == task[p].candidate
           IN  /\ c \in Processes /\ p < c /\ p # c /\ parent[c] = p
               /\ phase[c] \in {"waiting", "binding", "serving", "draining shutdown", "draining aborted", "dead"}
               /\ disposition[c] = "none" => phase[c] \in {"waiting", "dead"}
               /\ phase[c] = "waiting" => commands[c] # <<>>
               /\ disposition[c] # "committed" /\ Decidable(c)
  <1>1. task[p].stage = "handoff"
    BY TaskOf DEF Stages, Undecided, Handing, Coordinating
  <1>2. disposition[task[p].candidate] # "committed"
    BY <1>1, CandidateOf DEF BaseInv, CommitInv, Undecided, Final
  <1> QED BY <1>1, <1>2, CandidateOf DEF TokenInv, UndecidedInv, Decidable

\* A server that is about to hand over, or to decide over its candidate, is not the
\* candidate of an undecided one.
LEMMA NotUnderDecision ==
    ASSUME BaseInv, TokenInv, NEW p \in Processes, NEW r \in Processes, phase[r] \in Undecided,
           \/ phase[p] \in {"draining handoff"} \cup Handing
           \/ phase[p] = "serving" /\ task[p].stage = "queued" /\ disposition[p] # "aborted"
    PROVE  p # task[r].candidate
  <1>1. disposition[p] = "pending" => task[p].stage = "none"
    BY DEF TokenInv, DispositionInv
  <1>2. disposition[p] \in {"none", "pending", "committed", "aborted"}
    BY BaseFacts
  <1> QED BY <1>1, <1>2, UndecidedOf, ZenonT(30) DEF Handing, Coordinating

LEMMA EndsToken ==
    ASSUME BaseInv, TokenInv, NEW x \in Processes, Ends(x)
    PROVE  TokenInv'
  <1> USE BaseFacts DEF TokenInv
  <1>1. /\ \A q \in Processes : phase'[q] = IF q = x THEN "dead" ELSE phase[q]
        /\ \A q \in Processes : task'[q] = IF q = x THEN NoTask ELSE task[q]
        /\ UNCHANGED <<commands, disposition, parent>>
    BY DEF Ends
  <1>2. DispositionInv'
    BY <1>1, Kinds DEF DispositionInv
  <1>3. UndecidedInv'
    <2> SUFFICES ASSUME NEW p \in Processes, phase'[p] \in Undecided
                 PROVE  Decidable(task[p].candidate)'
      BY DEF UndecidedInv
    <2>1. phase[p] \in Undecided /\ task'[p] = task[p]
      BY <1>1 DEF Undecided
    <2>2. Decidable(task[p].candidate) /\ task[p].candidate \in Processes
      BY <2>1, UndecidedOf
    <2> QED BY <1>1, <2>1, <2>2 DEF Decidable
  <1>4. EndpointInv'
    <2>1. \A q \in Processes : /\ (Holds(q)' => Holds(q)) /\ (Active(q)' => Active(q))
                               /\ phase'[q] \in Undecided => q # x /\ phase[q] \in Undecided
      BY <1>1 DEF Holds, Active, HoldsEndpoint, Draining, Handing, Coordinating, Undecided
    <2> QED BY <1>1, <2>1, EndpointFrame
  <1> QED BY <1>2, <1>3, <1>4

LEMMA PreparesToken ==
    ASSUME BaseInv, TokenInv, NEW p \in Processes, NEW t \in TaskState, Prepares(p, t) \/ Queues(p, t)
    PROVE  TokenInv'
  <1> USE BaseFacts DEF TokenInv
  <1>1. /\ \A q \in Processes : task'[q] = IF q = p THEN t ELSE task[q]
        /\ UNCHANGED <<phase, commands, disposition, parent>>
    BY DEF Prepares, Queues
  <1>2. disposition[p] = "pending" => t.stage = "none" \/ task[p].stage # "none"
    BY DEF Prepares, Queues
  <1>3. phase[p] \notin Undecided
    BY TaskOf DEF Prepares, Queues, Stages, Early, Undecided, Handing, Coordinating
  <1>4. DispositionInv'
    BY <1>1, <1>2 DEF DispositionInv
  <1>5. UndecidedInv'
    BY <1>1, <1>3 DEF UndecidedInv, Decidable
  <1>6. EndpointInv'
    <2>1. \A q \in Processes : (Holds(q)' => Holds(q)) /\ (Active(q)' => Active(q))
      BY <1>1 DEF Holds, Active
    <2> QED BY <1>1, <1>3, <2>1, EndpointFrame
  <1> QED BY <1>4, <1>5, <1>6

LEMMA SpawnsToken ==
    ASSUME BaseInv, TokenInv, NEW p \in Processes, NEW c \in Processes, NEW t \in TaskState, Spawns(p, c, t)
    PROVE  TokenInv'
  <1> USE BaseFacts DEF TokenInv
  <1>1. /\ \A q \in Processes : phase'[q] = IF q = c THEN "waiting" ELSE phase[q]
        /\ \A q \in Processes : task'[q] = IF q = p THEN t ELSE task[q]
        /\ phase[c] = "unborn" /\ task[p].stage = "verified"
        /\ UNCHANGED <<commands, disposition>>
    BY DEF Spawns
  <1>2. phase[p] \notin Undecided /\ commands[c] = <<>> /\ disposition[c] = "none"
    BY <1>1, TaskOf DEF Stages, Undecided, Handing, Coordinating, BirthInv
  <1>3. DispositionInv'
    BY <1>1, <1>2 DEF DispositionInv
  <1>4. UndecidedInv'
    <2> SUFFICES ASSUME NEW q \in Processes, phase'[q] \in Undecided
                 PROVE  Decidable(task[q].candidate)'
      BY DEF UndecidedInv
    <2>1. phase[q] \in Undecided /\ task'[q] = task[q]
      BY <1>1, <1>2 DEF Undecided
    <2>2. Decidable(task[q].candidate) /\ task[q].candidate # c /\ task[q].candidate \in Processes
      BY <1>1, <2>1, UndecidedOf
    <2> QED BY <1>1, <2>1, <2>2 DEF Decidable
  <1>5. EndpointInv'
    <2>1. \A q \in Processes : /\ (Holds(q)' => Holds(q)) /\ (Active(q)' => Active(q))
                               /\ phase'[q] \in Undecided => q # p /\ phase[q] \in Undecided
      BY <1>1, <1>2 DEF Holds, Active, HoldsEndpoint, Draining, Handing, Coordinating, Undecided
    <2> QED BY <1>1, <2>1, EndpointFrame
  <1> QED BY <1>3, <1>4, <1>5

LEMMA DropsToken ==
    ASSUME BaseInv, TokenInv, NEW p \in Processes, Drops(p) \/ Closes(p)
    PROVE  TokenInv'
  <1> USE BaseFacts DEF TokenInv
  <1>1. /\ \A q \in Processes : task'[q] = IF q = p THEN NoTask ELSE task[q]
        /\ UNCHANGED <<commands, disposition, parent>>
        /\ task[p].stage \in {"announcing", "none", "queued"}
        /\ \A q \in Processes : phase'[q] \in {"dead", phase[q]}
    BY DEF Drops, Closes
  <1>2. phase[p] \notin Undecided
    BY <1>1, TaskOf DEF Stages, Undecided, Handing, Coordinating
  <1>3. DispositionInv'
    BY <1>1, Kinds DEF DispositionInv
  <1>4. UndecidedInv'
    <2> SUFFICES ASSUME NEW q \in Processes, phase'[q] \in Undecided
                 PROVE  Decidable(task[q].candidate)'
      BY DEF UndecidedInv
    <2>1. phase[q] \in Undecided /\ task'[q] = task[q]
      BY <1>1, <1>2 DEF Undecided
    <2>2. Decidable(task[q].candidate) /\ task[q].candidate \in Processes
      BY <2>1, UndecidedOf
    <2> QED BY <1>1, <2>1, <2>2 DEF Decidable
  <1>5. EndpointInv'
    <2>1. \A q \in Processes : /\ (Holds(q)' => Holds(q)) /\ (Active(q)' => Active(q))
                               /\ phase'[q] \in Undecided => q # p /\ phase[q] \in Undecided
      BY <1>1, <1>2 DEF Holds, Active, HoldsEndpoint, Draining, Handing, Coordinating, Undecided
    <2> QED BY <1>1, <2>1, EndpointFrame
  <1> QED BY <1>3, <1>4, <1>5

LEMMA MovesToken ==
    ASSUME PromptAbort, BaseInv, TokenInv, NEW p \in Processes, NEW place \in Phases, Moves(p, place)
    PROVE  TokenInv'
  <1> USE BaseFacts DEF TokenInv
  <1>1. /\ \A q \in Processes : phase'[q] = IF q = p THEN place ELSE phase[q]
        /\ UNCHANGED <<task, commands, disposition, parent>>
    BY DEF Moves
  <1>2. \/ phase[p] = "serving" /\ place = "draining handoff" /\ task[p].stage = "queued" /\ disposition[p] # "aborted"
        \/ phase[p] = "serving" /\ place \in {"draining shutdown", "draining aborted"}
        \/ phase[p] = "binding" /\ place = "serving"
        \/ phase[p] = "readiness" /\ place = "consumer"
        \/ phase[p] = "supervising" /\ place = "stopping"
    BY DEF Moves
  <1>3. DispositionInv'
    BY <1>1, <1>2 DEF DispositionInv
  <1>4. UndecidedInv'
    <2> SUFFICES ASSUME NEW q \in Processes, phase'[q] \in Undecided
                 PROVE  Decidable(task[q].candidate)'
      BY DEF UndecidedInv
    <2>1. phase[q] \in Undecided /\ task'[q] = task[q]
      BY <1>1, <1>2 DEF Undecided
    <2> DEFINE c == task[q].candidate
    <2>2. /\ Decidable(c) /\ c \in Processes
          /\ phase[p] \in {"readiness", "supervising"} \/ place = "draining handoff" => p # c
      BY <1>2, <2>1, UndecidedOf, NotUnderDecision, ZenonT(30) DEF Handing, Coordinating
    <2> QED BY <1>1, <1>2, <2>1, <2>2 DEF Decidable
  <1>5. EndpointInv'
    <2>1. \A q \in Processes : /\ (Holds(q)' => Holds(q)) /\ (Active(q)' => Active(q))
                               /\ phase'[q] \in Undecided => phase[q] \in Undecided
      BY <1>1, <1>2 DEF Holds, Active, HoldsEndpoint, Draining, Handing, Coordinating, Undecided
    <2> QED BY <1>1, <2>1, EndpointFrame
  <1> QED BY <1>3, <1>4, <1>5

\* The old endpoint was the last active process: after the cutover its candidate is.
LEMMA CutsOverToken ==
    ASSUME BaseInv, TokenInv, NEW p \in Processes, NEW t \in TaskState, CutsOver(p, t)
    PROVE  TokenInv'
  <1> USE BaseFacts DEF TokenInv
  <1> DEFINE c == task[p].candidate
  <1>1. phase[p] = "draining handoff" /\ task[p].stage = "queued" /\ t.stage = "handoff" /\ t.candidate = c
    BY TaskOf DEF CutsOver, Stages
  <1>2. c \in Processes /\ p < c /\ p # c /\ parent[c] = p /\ phase[c] \in {"waiting", "dead"} /\ commands[c] = <<>>
    BY <1>1, CandidateOf, TaskOf DEF Candidacy
  <1>3. /\ \A q \in Processes : phase'[q] = IF q = p THEN "readiness" ELSE phase[q]
        /\ \A q \in Processes : task'[q] = IF q = p THEN t ELSE task[q]
        /\ \A q \in Processes : commands'[q] = IF q = c THEN Append(commands[c], "activate") ELSE commands[q]
        /\ UNCHANGED <<disposition, parent>>
    BY <1>2 DEF CutsOver, send_command
  <1>4. Append(commands[c], "activate") # <<>>
    BY <1>2, CommandsOf DEF Commands
  <1> HIDE DEF c
  <1>5. Holds(p) /\ Active(p) /\ ~Holds(p)'
    BY <1>1, <1>3 DEF Holds, Active, HoldsEndpoint, Draining
  <1>6. \A q \in Processes : p < q => ~Active(q)
    BY <1>5 DEF EndpointInv
  <1>7. \A q \in Processes : q < p => ~Holds(q) /\ phase[q] \notin Undecided
    BY <1>1, <1>5, NotUnderDecision DEF EndpointInv
  <1>8. DispositionInv'
    BY <1>1, <1>3 DEF DispositionInv
  <1>9. UndecidedInv'
    <2> SUFFICES ASSUME NEW q \in Processes, phase'[q] \in Undecided
                 PROVE  Decidable(task[q].candidate)'
      BY DEF UndecidedInv
    <2>1. CASE q = p
      BY <1>1, <1>2, <1>3, <1>4, <2>1, ZenonT(30) DEF Decidable
    <2>2. CASE q # p
      <3>1. phase[q] \in Undecided /\ task'[q] = task[q]
        BY <1>3, <2>2
      <3>2. Active(q)
        BY <3>1 DEF Active, Undecided, Handing, Coordinating
      <3>3. FALSE
        BY <1>6, <1>7, <2>2, <3>1, <3>2 DEF Processes
      <3> QED BY <3>3
    <2> QED BY <2>1, <2>2
  <1>10. \A q \in Processes : (q # c => (Holds(q)' => Holds(q))) /\ (q \notin {c, p} => (Active(q)' => Active(q)))
    BY <1>3, <1>5 DEF Holds, Active
  <1>11. EndpointInv'
    <2> SUFFICES ASSUME NEW r \in Processes, NEW q \in Processes, r < q, Active(q)'
                 PROVE  /\ ~Holds(r)'
                        /\ phase'[r] \in Undecided => q = task'[r].candidate
      BY DEF EndpointInv
    <2>1. q = p \/ q = c \/ q < p
      BY <1>6, <1>10 DEF Processes
    <2>2. r # c
      <3>1. r = c => q # c /\ q # p /\ ~(q < p)
        BY <1>2 DEF Processes
      <3> QED BY <2>1, <3>1
    <2>3. ~Holds(r)'
      <3>1. CASE r = p
        BY <1>5, <3>1
      <3>2. CASE r < p
        BY <1>7, <1>10, <2>2, <3>2
      <3>3. CASE p < r
        <4>1. ~Holds(r)
          BY <1>6, <3>3 DEF Active
        <4> QED BY <1>10, <2>2, <4>1
      <3> QED BY <3>1, <3>2, <3>3 DEF Processes
    <2>4. ASSUME phase'[r] \in Undecided PROVE q = task'[r].candidate
      <3>1. r = p
        <4>1. ASSUME r # p PROVE phase[r] \in Undecided /\ Active(r)
          BY <1>3, <2>4, <4>1 DEF Active, Undecided, Handing, Coordinating
        <4> QED BY <1>6, <1>7, <4>1 DEF Processes
      <3>2. q = c
        BY <2>1, <3>1 DEF Processes
      <3> QED BY <1>1, <1>3, <3>1, <3>2
    <2> QED BY <2>3, <2>4
  <1> QED BY <1>8, <1>9, <1>11

LEMMA DecidesToken ==
    ASSUME BaseInv, TokenInv, NEW p \in Processes, NEW place \in Phases, NEW command \in {"commit", "abort"},
           Decides(p, place, command)
    PROVE  TokenInv'
  <1> USE BaseFacts DEF TokenInv
  <1> DEFINE c == task[p].candidate
  <1>1. phase[p] \in {"readiness", "consumer"} /\ phase[p] \in Undecided /\ place \in {"acknowledgement", "aborting"}
    BY DEF Decides, Undecided
  <1>2. c \in Processes /\ p < c /\ p # c /\ Decidable(c)
    BY <1>1, UndecidedOf
  <1>3. /\ \A q \in Processes : phase'[q] = IF q = p THEN place ELSE phase[q]
        /\ \A q \in Processes : commands'[q] = IF q = c THEN Append(commands[c], command) ELSE commands[q]
        /\ UNCHANGED <<task, disposition, parent>>
    BY <1>2 DEF Decides, send_command
  <1>4. Append(commands[c], command) # <<>>
    <2>1. command \in Commands
      BY DEF Commands
    <2> QED BY <1>2, <2>1, CommandsOf
  <1> HIDE DEF c
  <1>5. DispositionInv'
    BY <1>1, <1>3 DEF DispositionInv
  <1>6. UndecidedInv'
    <2> SUFFICES ASSUME NEW q \in Processes, phase'[q] \in Undecided
                 PROVE  Decidable(task[q].candidate)'
      BY DEF UndecidedInv
    <2>1. phase[q] \in Undecided /\ task'[q] = task[q]
      BY <1>1, <1>3
    <2>2. Decidable(task[q].candidate) /\ task[q].candidate \in Processes /\ task[q].candidate # p
      BY <1>1, <2>1, UndecidedOf, NotUnderDecision DEF Handing, Coordinating
    <2> QED BY <1>3, <1>4, <2>1, <2>2 DEF Decidable
  <1>7. EndpointInv'
    <2>1. \A q \in Processes : /\ (Holds(q)' => Holds(q)) /\ (Active(q)' => Active(q))
                               /\ phase'[q] \in Undecided => phase[q] \in Undecided
      <3> SUFFICES ASSUME NEW q \in Processes
                   PROVE  /\ (Holds(q)' => Holds(q)) /\ (Active(q)' => Active(q))
                          /\ phase'[q] \in Undecided => phase[q] \in Undecided
        OBVIOUS
      <3>1. CASE q = p
        BY <1>1, <1>2, <1>3, <3>1 DEF Holds, Active, HoldsEndpoint, Draining, Handing, Coordinating
      <3>2. CASE q # p
        BY <1>2, <1>3, <3>2 DEF Holds, Active, Decidable
      <3> QED BY <3>1, <3>2
    <2> QED BY <1>3, <2>1, EndpointFrame
  <1> QED BY <1>5, <1>6, <1>7

\* Nobody is active after a server whose candidate is gone.
LEMMA ReturnsToken ==
    ASSUME BaseInv, TokenInv, NEW p \in Processes, Returns(p)
    PROVE  TokenInv'
  <1> USE BaseFacts DEF TokenInv
  <1> DEFINE c == task[p].candidate
  <1>1. /\ phase[p] = "aborting" /\ phase[c] \in {"unborn", "dead"}
        /\ \A q \in Processes : phase'[q] = IF q = p THEN "binding" ELSE phase[q]
        /\ \A q \in Processes : task'[q] = IF q = p THEN NoTask ELSE task[q]
        /\ \A q \in Processes : disposition'[q] = IF q = p THEN "none" ELSE disposition[q]
        /\ UNCHANGED <<commands, parent>>
    BY DEF Returns, alive
  <1>2. phase[p] \in Undecided /\ Active(p) /\ ~Active(c)
    BY <1>1 DEF Undecided, Active, Holds, Handing, Coordinating, HoldsEndpoint, Draining
  <1>3. \A q \in Processes : p < q => ~Active(q)
    BY <1>2 DEF EndpointInv
  <1>4. \A q \in Processes : q < p => ~Holds(q) /\ phase[q] \notin Undecided
    <2>1. phase[p] \in {"draining handoff"} \cup Handing
      BY <1>1 DEF Handing, Coordinating
    <2> QED BY <1>2, <2>1, NotUnderDecision DEF EndpointInv
  <1>5. \A q \in Processes : phase[q] \in Undecided => q = p
    BY <1>3, <1>4 DEF Processes, Active, Undecided, Handing, Coordinating
  <1>6. DispositionInv'
    BY <1>1, Kinds DEF DispositionInv
  <1>7. \A q \in Processes : phase'[q] \notin Undecided
    BY <1>1, <1>5 DEF Undecided
  <1>8. UndecidedInv'
    BY <1>7 DEF UndecidedInv
  <1>9. \A q \in Processes : q # p => (Holds(q)' <=> Holds(q)) /\ (Active(q)' <=> Active(q))
    BY <1>1 DEF Holds, Active
  <1>10. EndpointInv'
    <2> SUFFICES ASSUME NEW r \in Processes, NEW q \in Processes, r < q, Active(q)' PROVE ~Holds(r)'
      BY <1>7 DEF EndpointInv
    <2>1. q = p \/ q < p
      BY <1>3, <1>9 DEF Processes
    <2>2. r < p /\ r # p
      BY <2>1 DEF Processes
    <2> QED BY <1>4, <1>9, <2>2
  <1> QED BY <1>6, <1>8, <1>10

LEMMA SupervisesToken ==
    ASSUME BaseInv, TokenInv, NEW p \in Processes, NEW t \in TaskState, Supervises(p, t)
    PROVE  TokenInv'
  <1> USE BaseFacts DEF TokenInv
  <1>1. /\ phase[p] = "acknowledgement"
        /\ \A q \in Processes : phase'[q] = IF q = p THEN "supervising" ELSE phase[q]
        /\ \A q \in Processes : task'[q] = IF q = p THEN t ELSE task[q]
        /\ UNCHANGED <<commands, disposition, parent>>
    BY DEF Supervises
  <1>2. DispositionInv'
    BY <1>1 DEF DispositionInv
  <1>3. UndecidedInv'
    <2> SUFFICES ASSUME NEW q \in Processes, phase'[q] \in Undecided
                 PROVE  Decidable(task[q].candidate)'
      BY DEF UndecidedInv
    <2>1. phase[q] \in Undecided /\ task'[q] = task[q]
      BY <1>1 DEF Undecided
    <2>2. Decidable(task[q].candidate) /\ task[q].candidate \in Processes /\ task[q].candidate # p
      BY <1>1, <2>1, UndecidedOf, NotUnderDecision DEF Handing, Coordinating
    <2> QED BY <1>1, <2>1, <2>2 DEF Decidable
  <1>4. EndpointInv'
    <2>1. \A q \in Processes : /\ (Holds(q)' => Holds(q)) /\ (Active(q)' => Active(q))
                               /\ phase'[q] \in Undecided => q # p /\ phase[q] \in Undecided
      BY <1>1 DEF Holds, Active, HoldsEndpoint, Draining, Handing, Coordinating, Undecided
    <2> QED BY <1>1, <2>1, EndpointFrame
  <1> QED BY <1>2, <1>3, <1>4

LEMMA ActivatesToken ==
    ASSUME BaseInv, TokenInv, NEW c \in Processes, Activates(c) \/ Settles(c)
    PROVE  TokenInv'
  <1> USE BaseFacts DEF TokenInv
  <1>1. /\ \A q \in Processes \ {c} : /\ phase'[q] = phase[q] /\ commands'[q] = commands[q]
                                      /\ disposition'[q] = disposition[q]
        /\ task' = task /\ disposition'[c] \in {"pending", "committed", "aborted"}
        /\ disposition'[c] = "pending" => task[c].stage = "none"
        /\ \/ phase[c] = "waiting" /\ commands[c] # <<>> /\ phase'[c] = "binding"
           \/ phase'[c] = phase[c] /\ disposition[c] = "pending"
    BY DEF Activates, Settles, settled_by, BirthInv, is_pending
  <1>2. phase'[c] \in {"binding", "serving", "draining shutdown", "draining aborted", "dead"}
    BY <1>1 DEF DispositionInv
  <1>3. DispositionInv'
    BY <1>1, <1>2 DEF DispositionInv
  <1>4. UndecidedInv'
    <2> SUFFICES ASSUME NEW q \in Processes, phase'[q] \in Undecided
                 PROVE  Decidable(task[q].candidate)'
      BY DEF UndecidedInv
    <2>1. phase[q] \in Undecided /\ task'[q] = task[q]
      BY <1>1, <1>2 DEF Undecided
    <2>2. Decidable(task[q].candidate) /\ task[q].candidate \in Processes
      BY <2>1, UndecidedOf
    <2> QED BY <1>1, <1>2, <2>1, <2>2 DEF Decidable
  <1>5. EndpointInv'
    <2>1. \A q \in Processes : /\ (Holds(q)' => Holds(q)) /\ (Active(q)' => Active(q))
                               /\ phase'[q] \in Undecided => phase[q] \in Undecided
      BY <1>1, <1>2 DEF Holds, Active, HoldsEndpoint, Draining, Handing, Coordinating, Undecided
    <2> QED BY <1>1, <2>1, EndpointFrame
  <1> QED BY <1>3, <1>4, <1>5

LEMMA TokenInductive ==
    ASSUME PromptAbort, BaseInv, TokenInv, [Next]_vars
    PROVE  TokenInv'
  <1>1. ASSUME NEW p \in Processes, Step(p) PROVE TokenInv'
    BY <1>1, EndsToken, DropsToken, ReturnsToken, ActivatesToken, MovesToken, DecidesToken,
       PreparesToken, CutsOverToken, SupervisesToken, SpawnsToken, Zenon DEF Step
  <1>2. ASSUME Still PROVE TokenInv'
    BY <1>2 DEF Still, TokenInv, DispositionInv, UndecidedInv, Decidable, EndpointInv, Holds, Active
  <1> QED BY <1>1, <1>2, EveryStep

LEMMA TokenInit ==
    ASSUME Init
    PROVE  TokenInv
  <1>1. \A p \in Processes : /\ disposition[p] = "none" /\ phase[p] = (IF p = 1 THEN "binding" ELSE "unborn")
                             /\ commands[p] = <<>>
    BY DEF Init
  <1>2. \A p \in Processes : p # 1 => ~Active(p)
    BY <1>1 DEF Active, Holds, HoldsEndpoint, Draining, Handing, Coordinating
  <1>3. \A p \in Processes : phase[p] \notin Undecided
    BY <1>1 DEF Undecided
  <1>4. \A p, q \in Processes : p < q => q # 1
    BY DEF Processes
  <1>5. EndpointInv
    BY <1>2, <1>4 DEF EndpointInv
  <1> QED BY <1>1, <1>3, <1>5 DEF TokenInv, DispositionInv, UndecidedInv

LEMMA AlwaysToken == PromptAbort => (Spec => [](BaseInv /\ TokenInv))
  <1> SUFFICES ASSUME PromptAbort PROVE Spec => [](BaseInv /\ TokenInv)
    OBVIOUS
  <1>1. Init => BaseInv /\ TokenInv
    BY BaseInit, TokenInit
  <1>2. BaseInv /\ TokenInv /\ [Next]_vars => (BaseInv /\ TokenInv)'
    BY BaseInductive, TokenInductive
  <1> QED BY <1>1, <1>2, PTL DEF Spec

\* At most one process binds, serves or drains the endpoint, provided an aborted
\* candidate leaves serve_endpoint before it prepares an update of its own.
THEOREM OneEndpoint == PromptAbort => (Spec => []AtMostOneEndpoint)
  <1>1. BaseInv /\ TokenInv => AtMostOneEndpoint
    <2> SUFFICES ASSUME TokenInv, NEW p \in Processes, NEW q \in Processes, p < q,
                        phase[p] \in HoldsEndpoint, phase[q] \in HoldsEndpoint
                 PROVE  FALSE
      BY DEF AtMostOneEndpoint, Processes
    <2> QED BY DEF TokenInv, EndpointInv, Active, Holds
  <1> QED BY <1>1, AlwaysToken, PTL

----------------------------------------------------------------------------
(* What serves is what is installed.                                         *)

LEMMA OneHolder ==
    ASSUME TokenInv, NEW p \in Processes, NEW q \in Processes, Holds(p), Holds(q)
    PROVE  p = q
  BY DEF TokenInv, EndpointInv, Active, Processes

LEMMA PreparingHolds ==
    ASSUME BaseInv, NEW p \in Processes, reachable(p) \/ task[p].stage \in Preparing
    PROVE  Holds(p) /\ phase[p] \notin Undecided
  BY TaskOf DEF Stages, reachable, Holds, HoldsEndpoint, Draining, Undecided

\* Nothing is installed, and nobody gets hold of the endpoint or starts to decide.
LEMMA InstalledFrame ==
    ASSUME InstalledInv, executable' = executable, version' = version,
           \A q \in Processes : late'[q][1] = "none",
           \A q \in Processes :
               /\ Holds(q)' => Holds(q)
               /\ phase'[q] \in Undecided => phase[q] \in Undecided
               /\ \/ task'[q] = task[q]
                  \/ task'[q].stage \notin Preparing /\ ~Holds(q)' /\ phase'[q] \notin Undecided
    PROVE  InstalledInv'
  <1> SUFFICES ASSUME NEW q \in Processes PROVE Installed(q)'
    BY DEF InstalledInv
  <1>1. Installed(q)
    BY DEF InstalledInv
  <1>2. CASE task'[q] = task[q]
    BY <1>1, <1>2 DEF Installed
  <1>3. CASE task'[q].stage \notin Preparing /\ ~Holds(q)' /\ phase'[q] \notin Undecided
    BY <1>1, <1>3 DEF Installed, Preparing
  <1> QED BY <1>2, <1>3

\* An updater is left without its process.
Orphaned == \E q \in Processes : late[q][1] = "orphan"

LEMMA LateNone ==
    ASSUME HandoffType, InstalledInv, ~Orphaned',
           late' = late \/ \E x : late' = [late EXCEPT ![x] = abandoned(x)]
    PROVE  \A q \in Processes : late'[q][1] = "none"
  <1>1. late \in [Processes -> {"none", "updating", "installed", "orphan"} \X Nat]
        /\ \A q \in Processes : late[q][1] = "none"
    BY DEF HandoffType, ValueType, InstalledInv, Installed
  <1>2. \A x : abandoned(x) = <<"none", None>> \/ abandoned(x) = <<"orphan", None>>
    BY DEF abandoned
  <1> QED BY <1>1, <1>2 DEF Orphaned

\* Nobody forgets it.
LEMMA OrphanedStays ==
    ASSUME BaseInv, Orphaned, [Next]_vars
    PROVE  Orphaned'
  <1> PICK q \in Processes : late[q][1] = "orphan"
    BY DEF Orphaned
  <1>0. late \in [Processes -> {"none", "updating", "installed", "orphan"} \X Nat]
    BY DEF BaseInv, HandoffType, ValueType
  <1> SUFFICES late'[q][1] = "orphan"
    BY DEF Orphaned
  <1> USE DEF identityVars, pipeVars, taskVars
  <1>1. CASE UNCHANGED vars
    BY <1>1 DEF vars
  <1>2. CASE \E k \in Clients : Consumer(k)
    <2>1. late' = late
      BY <1>2, ZenonT(30) DEF Consumer, ConfirmCandidate, ConfirmElsewhere, ConfirmCommitted, ConfirmAborted,
         ConfirmAttemptFails, ClientGivesUp
    <2> QED BY <2>1
  <1>3. CASE \E k \in Clients, p \in Processes : StartBusy(k, p) \/ StartAccepted(k, p)
    <2>1. late' = late
      BY <1>3, Zenon DEF StartBusy, StartAccepted
    <2> QED BY <2>1
  <1>4. CASE \E signal \in {"int", "term"} : SendSignal(signal)
    <2>1. late' = late
      BY <1>4, Zenon DEF SendSignal
    <2> QED BY <2>1
  <1>5. ASSUME NEW p \in Processes, Preparation(p) PROVE late'[q][1] = "orphan"
    <2>1. CASE PreparationTimesOut(p)
      <3>1. p # q /\ late' = [late EXCEPT ![p] = <<task[p].stage, task[p].backup>>]
        BY <2>1 DEF PreparationTimesOut
      <3> QED BY <1>0, <3>1
    <2>2. CASE LateUpdaterInstalls(p)
      <3>1. p # q /\ late' = [late EXCEPT ![p][1] = "installed"]
        BY <2>2 DEF LateUpdaterInstalls
      <3> QED BY <1>0, <3>1
    <2>3. CASE LatePreparationDropped(p)
      <3>1. p # q /\ late' = [late EXCEPT ![p] = <<"none", None>>]
        BY <2>3 DEF LatePreparationDropped
      <3> QED BY <1>0, <3>1
    <2>4. CASE ~(PreparationTimesOut(p) \/ LateUpdaterInstalls(p) \/ LatePreparationDropped(p))
      <3>1. late' = late
        BY <1>5, <2>4, Zenon DEF Preparation, UpdaterInstalls, UpdaterFails, VersionUnreadable, VersionOlder,
           PreparationCurrent, PreparationVerified, CandidatePrepared, CandidateNotPrepared, Announced,
           AnnounceFails, OperationForgotten, preparation_fails
      <3> QED BY <3>1
    <2> QED BY <2>1, <2>2, <2>3, <2>4
  <1>6. ASSUME NEW p \in Processes, Supervisor(p) \/ Settle(p) \/ SignalTaken(p) \/ Crash(p)
        PROVE  late'[q][1] = "orphan"
    <2>1. late' = late \/ \E x : late' = [late EXCEPT ![x] = abandoned(x)]
      BY <1>6, SupervisorValues
    <2>2. abandoned(q)[1] = "orphan"
      BY DEF abandoned
    <2> QED BY <1>0, <2>1, <2>2
  <1>7. ASSUME NEW p \in Processes, OrphanInstalls(p) PROVE late'[q][1] = "orphan"
    <2>1. late' = late
      BY <1>7, Zenon DEF OrphanInstalls
    <2> QED BY <2>1
  <1> QED BY <1>1, <1>2, <1>3, <1>4, <1>5, <1>6, <1>7, Zenon DEF Next

LEMMA ShrinkingSteps ==
    ASSUME BaseInv, TokenInv, NEW p \in Processes,
           \/ Still \/ Ends(p) \/ Activates(p) \/ Settles(p)
           \/ \E place \in Phases : Moves(p, place)
           \/ \E place \in Phases, command \in {"commit", "abort"} : Decides(p, place, command),
           NEW q \in Processes
    PROVE  /\ Holds(q)' => Holds(q)
           /\ phase'[q] \in Undecided => phase[q] \in Undecided
           /\ \/ task'[q] = task[q]
              \/ task'[q].stage \notin Preparing /\ ~Holds(q)' /\ phase'[q] \notin Undecided
  <1> USE BaseFacts
  <1>1. CASE Still
    BY <1>1 DEF Still, Holds
  <1>2. CASE Ends(p)
    BY <1>2, Kinds DEF Ends, Holds, HoldsEndpoint, Draining, Undecided, Preparing
  <1>3. CASE Activates(p)
    BY <1>3 DEF Activates, Holds, Undecided
  <1>4. CASE Settles(p)
    <2>1. phase[p] # "waiting"
      BY <1>4 DEF Settles, is_pending, BirthInv
    <2> QED BY <1>4, <2>1 DEF Settles, Holds
  <1>5. CASE \E place \in Phases : Moves(p, place)
    BY <1>5 DEF Moves, Holds, HoldsEndpoint, Draining, Undecided
  <1>6. CASE \E place \in Phases, command \in {"commit", "abort"} : Decides(p, place, command)
    <2> PICK place \in Phases, command \in {"commit", "abort"} : Decides(p, place, command)
      BY <1>6
    <2>1. phase[p] \in {"readiness", "consumer"} /\ place \in {"acknowledgement", "aborting"}
      BY DEF Decides
    <2>2. task[p].candidate \in Processes /\ Decidable(task[p].candidate)
      BY <2>1, UndecidedOf DEF Undecided
    <2> QED BY <2>1, <2>2 DEF Decides, Holds, Decidable, send_command, Undecided, HoldsEndpoint, Draining
  <1> QED BY <1>1, <1>2, <1>3, <1>4, <1>5, <1>6

LEMMA FrameActions ==
    ASSUME BaseInv, TokenInv, InstalledInv, ~Orphaned', NEW p \in Processes,
           \/ AbortTimesOut(p) \/ StopTimesOut(p) \/ NeverActivated(p) \/ BindFails(p)
           \/ RollBackFails(p) \/ CandidateExited(p) \/ Terminated(p) \/ Crash(p)
           \/ TakeHandoff(p) \/ CandidateAborted(p) \/ Interrupted(p) \/ Bound(p)
           \/ CandidateReady(p) \/ SignalForwarded(p) \/ SignalIgnored(p)
           \/ Commit(p) \/ CandidateRejected(p) \/ Activate(p) \/ Settle(p) \/ Acknowledged(p)
    PROVE  InstalledInv'
  <1>1. Supervisor(p) \/ Settle(p) \/ SignalTaken(p) \/ Crash(p)
    BY Zenon DEF Supervisor, SignalTaken
  <1>2. executable' = executable
    BY Zenon DEF AbortTimesOut, StopTimesOut, NeverActivated, BindFails, RollBackFails, CandidateExited,
       Terminated, Crash, TakeHandoff, CandidateAborted, Interrupted, Bound, CandidateReady, SignalForwarded,
       SignalIgnored, Commit, CandidateRejected, Activate, Settle, Acknowledged
  <1>3. version' = version /\ (late' = late \/ \E x : late' = [late EXCEPT ![x] = abandoned(x)])
    BY <1>1, SupervisorValues
  <1>4. \A q \in Processes : late'[q][1] = "none"
    BY <1>3, LateNone DEF BaseInv
  <1>5. CASE Acknowledged(p)
    <2>1. PICK t \in TaskState : Supervises(p, t)
      BY <1>5, AcknowledgedStep
    <2>2. task[p].stage = "handoff"
      BY <2>1, TaskOf DEF Supervises, Stages, Handing, Coordinating
    <2>3. \A q \in Processes :
               /\ Holds(q)' => Holds(q)
               /\ phase'[q] \in Undecided => phase[q] \in Undecided
               /\ \/ task'[q] = task[q]
                  \/ task'[q].stage \notin Preparing /\ ~Holds(q)' /\ phase'[q] \notin Undecided
      BY <2>1, <2>2, BaseFacts DEF Supervises, Holds, HoldsEndpoint, Draining, Undecided, Preparing
    <2> QED BY <1>2, <1>3, <1>4, <2>3, InstalledFrame
  <1>6. CASE ~Acknowledged(p)
    <2>1. \E x \in Processes : \/ Still \/ Ends(x) \/ Activates(x) \/ Settles(x)
                               \/ \E place \in Phases : Moves(x, place)
                               \/ \E place \in Phases, command \in {"commit", "abort"} : Decides(x, place, command)
      <3>1. CASE \/ AbortTimesOut(p) \/ StopTimesOut(p) \/ NeverActivated(p) \/ BindFails(p)
                 \/ RollBackFails(p) \/ CandidateExited(p) \/ Terminated(p) \/ Crash(p)
        BY <3>1, KillStep
      <3>2. CASE \/ TakeHandoff(p) \/ CandidateAborted(p) \/ Interrupted(p) \/ Bound(p)
                 \/ CandidateReady(p) \/ SignalForwarded(p)
        BY <3>2, MoveStep
      <3>3. CASE SignalIgnored(p)
        BY <3>3, Zenon DEF SignalIgnored, Still, identityVars, pipeVars, taskVars
      <3>4. CASE Commit(p) \/ CandidateRejected(p)
        BY <3>4, DecideStep
      <3>5. CASE Activate(p) \/ Settle(p)
        BY <3>5, Zenon DEF Activate, Activates, Settle, Settles, identityVars, taskVars
      <3> QED BY <1>6, <3>1, <3>2, <3>3, <3>4, <3>5
    <2> QED BY <1>2, <1>3, <1>4, <2>1, ShrinkingSteps, InstalledFrame
  <1> QED BY <1>5, <1>6

\* The endpoint is closed: nobody holds it.
LEMMA ClosedInstalled ==
    ASSUME BaseInv, TokenInv, InstalledInv, NEW p \in Processes, EndpointClosed(p)
    PROVE  InstalledInv'
  <1> USE BaseFacts
  <1>1. Closes(p) /\ UNCHANGED <<version, late>>
    BY Zenon DEF EndpointClosed, end_task, drained, Closes, identityVars, pipeVars
  <1>2. Holds(p) /\ phase[p] \notin Undecided
    BY <1>1 DEF Closes, Holds, HoldsEndpoint, Draining, Undecided
  <1> SUFFICES ASSUME NEW q \in Processes PROVE Installed(q)'
    BY DEF InstalledInv
  <1>3. Installed(q)
    BY DEF InstalledInv
  <1>4. /\ ~Holds(q)'
        /\ phase'[q] \in Undecided => phase[q] \in Undecided /\ q # p
        /\ task'[q] = IF q = p THEN NoTask ELSE task[q]
    BY <1>1, <1>2, OneHolder DEF Closes, Holds, HoldsEndpoint, Draining, Undecided
  <1>5. q # p => task[q].stage \notin Preparing
    BY <1>2, PreparingHolds, OneHolder
  <1> QED BY <1>1, <1>3, <1>4, <1>5, Kinds DEF Installed, Preparing

LEMMA CutoverInstalled ==
    ASSUME BaseInv, TokenInv, InstalledInv, NEW p \in Processes, Cutover(p)
    PROVE  InstalledInv'
  <1> USE BaseFacts
  <1> DEFINE c == task[p].candidate
  <1>1. phase[p] = "draining handoff" /\ task[p].stage = "queued" /\ UNCHANGED <<executable, version, late>>
    BY TaskOf DEF Cutover, Stages, identityVars
  <1>2. c \in Processes /\ p # c /\ phase[c] \in {"waiting", "dead"}
    BY <1>1, CandidateOf, TaskOf DEF Candidacy
  <1>3. /\ \A q \in Processes : phase'[q] = IF q = p THEN "readiness" ELSE phase[q]
        /\ \A q \in Processes : q # p => task'[q] = task[q]
        /\ task'[p].stage = "handoff" /\ task'[p].backup = task[p].backup
        /\ \A q \in Processes : q # c => commands'[q] = commands[q]
    BY <1>2 DEF Cutover, send_command, TaskState
  <1>4. executable = version[c] /\ task[p].backup = version[p] /\ late[p][1] = "none"
    BY <1>1 DEF InstalledInv, Installed, Preparing
  <1> HIDE DEF c
  <1>5. Installed(p)'
    BY <1>1, <1>3, <1>4 DEF Installed, Preparing
  <1>6. Holds(p) /\ ~Holds(p)'
    BY <1>1, <1>3 DEF Holds, HoldsEndpoint, Draining
  <1>7. ASSUME NEW q \in Processes, q # p PROVE Installed(q)'
    <2>1. Installed(q) /\ phase'[q] = phase[q] /\ task'[q] = task[q] /\ ~Holds(q) /\ task[q].stage \notin Preparing
      BY <1>3, <1>6, <1>7, OneHolder, PreparingHolds DEF InstalledInv
    <2>2. Holds(q)' => q = c
      BY <1>3, <2>1 DEF Holds
    <2> QED BY <1>1, <1>4, <2>1, <2>2 DEF Installed, Preparing
  <1> QED BY <1>5, <1>7 DEF InstalledInv

LEMMA RollBackInstalled ==
    ASSUME BaseInv, TokenInv, InstalledInv, NEW p \in Processes, RollBack(p)
    PROVE  InstalledInv'
  <1> USE BaseFacts
  <1>1. Returns(p) /\ executable' = task[p].backup /\ UNCHANGED <<version, late>>
    BY Zenon DEF RollBack, rolled_back, end_task, restore_backup, Returns, identityVars, pipeVars
  <1>2. phase[p] = "aborting" /\ task[p].backup = version[p] /\ Active(p)
    BY <1>1 DEF Returns, InstalledInv, Installed, Undecided, Active, Handing, Coordinating
  <1>3. ~Active(task[p].candidate)
    BY <1>1 DEF Returns, alive, Active, Holds, HoldsEndpoint, Draining, Handing, Coordinating
  <1>4. \A q \in Processes : ~Holds(q)
    <2>1. \A q \in Processes : q < p => ~Holds(q)
      BY <1>2 DEF TokenInv, EndpointInv
    <2>2. \A q \in Processes : p < q => ~Active(q)
      BY <1>2, <1>3 DEF TokenInv, EndpointInv, Undecided
    <2>3. ~Holds(p)
      BY <1>2 DEF Holds, HoldsEndpoint, Draining
    <2> QED BY <2>1, <2>2, <2>3 DEF Processes, Active
  <1>5. ASSUME NEW q \in Processes PROVE Installed(q)'
    <2>1. Installed(q) /\ ~Holds(q) /\ task[q].stage \notin Preparing
      BY <1>4, PreparingHolds DEF InstalledInv
    <2>2. CASE q = p
      BY <1>1, <1>2, <2>1, <2>2, Kinds DEF Returns, Installed, Preparing, Undecided
    <2>3. CASE q # p
      <3>1. phase'[q] = phase[q] /\ task'[q] = task[q] /\ ~Holds(q)'
        BY <1>1, <2>1, <2>3 DEF Returns, Holds
      <3> QED BY <1>1, <2>1, <3>1 DEF Installed, Preparing
    <2> QED BY <2>2, <2>3
  <1> QED BY <1>5 DEF InstalledInv

\* The task of the process that holds the endpoint is the only one that installs.
LEMMA PreparingFrame ==
    ASSUME BaseInv, TokenInv, InstalledInv, NEW p \in Processes,
           reachable(p) \/ task[p].stage \in Preparing,
           \A q \in Processes : q # p => (phase'[q] = phase[q] \/ phase'[q] = "dead") /\ task'[q] = task[q],
           UNCHANGED <<version, commands, late>>, Installed(p)'
    PROVE  InstalledInv'
  <1>1. Holds(p)
    BY PreparingHolds
  <1> SUFFICES ASSUME NEW q \in Processes, q # p PROVE Installed(q)'
    BY DEF InstalledInv
  <1>2. Installed(q) /\ ~Holds(q) /\ task[q].stage \notin Preparing
    BY <1>1, OneHolder, PreparingHolds DEF InstalledInv
  <1>3. ~Holds(q)' /\ (phase'[q] \in Undecided => phase[q] \in Undecided)
    BY <1>2 DEF Holds, HoldsEndpoint, Draining, Undecided
  <1> QED BY <1>2, <1>3 DEF Installed, Preparing

LEMMA PreparationInstalled ==
    ASSUME BaseInv, TokenInv, InstalledInv, NEW p \in Processes,
           \/ UpdaterInstalls(p) \/ UpdaterFails(p) \/ VersionUnreadable(p) \/ VersionOlder(p)
           \/ PreparationCurrent(p) \/ PreparationVerified(p) \/ CandidateNotPrepared(p)
           \/ Announced(p)
    PROVE  InstalledInv'
  <1> USE BaseFacts
  <1>1. /\ task[p].stage \in Preparing
        /\ task[p].stage \in {"updating", "installed", "verified", "announcing"}
    BY DEF UpdaterInstalls, UpdaterFails, VersionUnreadable, VersionOlder, PreparationCurrent,
       PreparationVerified, CandidateNotPrepared, Announced, Preparing
  <1>2. UNCHANGED <<phase, version, commands, late>>
    BY Zenon DEF UpdaterInstalls, UpdaterFails, VersionUnreadable, VersionOlder, PreparationCurrent,
       PreparationVerified, CandidateNotPrepared, Announced, preparation_fails, identityVars, pipeVars
  <1>3. Installed(p) /\ task[p].backup = version[p] /\ late[p][1] = "none" /\ task[p] \in TaskState
    BY <1>1 DEF InstalledInv, Installed
  <1>4. /\ \A q \in Processes : q # p => task'[q] = task[q]
        /\ Installed(p)'
    <2>1. CASE UpdaterInstalls(p) \/ PreparationVerified(p)
      <3>1. /\ \A q \in Processes : q # p => task'[q] = task[q]
            /\ task'[p].stage \in {"installed", "verified"} /\ task'[p].backup = task[p].backup
        BY <1>3, <2>1 DEF UpdaterInstalls, PreparationVerified, TaskState
      <3> QED BY <1>2, <1>3, <3>1 DEF Installed
    <2>2. CASE UpdaterFails(p) \/ VersionUnreadable(p) \/ VersionOlder(p) \/ CandidateNotPrepared(p) \/ PreparationCurrent(p)
      <3>1. task' = [task EXCEPT ![p] = NoTask]
        BY <2>2, Zenon DEF UpdaterFails, VersionUnreadable, VersionOlder, PreparationCurrent,
           CandidateNotPrepared, preparation_fails, release_permit
      <3>2. executable' = version[p]
        BY <1>3, <2>2, Zenon DEF UpdaterFails, VersionUnreadable, VersionOlder, PreparationCurrent,
           CandidateNotPrepared, preparation_fails, restore_backup
      <3>3. phase[p] \notin Undecided
        BY <1>1, PreparingHolds
      <3> QED BY <1>2, <1>3, <3>1, <3>2, <3>3, Kinds DEF Installed, Preparing
    <2>3. CASE Announced(p)
      <3>1. /\ \A q \in Processes : q # p => task'[q] = task[q]
            /\ task'[p].stage = "queued" /\ task'[p].backup = task[p].backup
            /\ task'[p].target = task[p].target /\ task'[p].candidate = task[p].candidate
            /\ executable' = executable /\ task[p].stage = "announcing"
        BY <1>3, <2>3 DEF Announced, TaskState
      <3> QED BY <1>2, <1>3, <3>1 DEF Installed, Preparing
    <2> QED BY <2>1, <2>2, <2>3
  <1> QED BY <1>1, <1>2, <1>4, PreparingFrame

LEMMA StartInstalled ==
    ASSUME BaseInv, TokenInv, InstalledInv, NEW p \in Processes, NEW k \in Clients, StartAccepted(k, p)
    PROVE  InstalledInv'
  <1> USE BaseFacts
  <1>1. /\ reachable(p) /\ task[p].stage = "none" /\ task' = [task EXCEPT ![p] = prepare_remote_update(k)]
        /\ UNCHANGED <<executable, phase, version, commands, late>>
    BY DEF StartAccepted, read_attached_update_request, busy, identityVars, pipeVars
  <1>2. prepare_remote_update(k).stage = "updating" /\ prepare_remote_update(k).backup = executable
    BY StartedTask
  <1>3. executable = version[p] /\ late[p][1] = "none"
    BY <1>1, PreparingHolds DEF InstalledInv, Installed
  <1>4. Installed(p)'
    BY <1>1, <1>2, <1>3 DEF Installed
  <1> QED BY <1>1, <1>4, PreparingFrame

LEMMA SpawnInstalled ==
    ASSUME BaseInv, TokenInv, InstalledInv, NEW p \in Processes, NEW c \in Processes, CandidatePrepared(p, c)
    PROVE  InstalledInv'
  <1> USE BaseFacts
  <1>1. /\ task[p].stage = "verified" /\ phase[c] = "unborn" /\ executable = task[p].target
        /\ \A q \in Processes : phase'[q] = IF q = c THEN "waiting" ELSE phase[q]
        /\ version' = [version EXCEPT ![c] = executable]
        /\ UNCHANGED <<executable, commands, late>>
    BY DEF CandidatePrepared, spawns, pipeVars
  <1>2. /\ \A q \in Processes : q # p => task'[q] = task[q]
        /\ task'[p].stage = "announcing" /\ task'[p].candidate = c /\ task'[p].target = task[p].target
        /\ task'[p].backup = task[p].backup
    BY TaskOf DEF CandidatePrepared, TaskState
  <1>3. commands[c] = <<>> /\ task[c].stage = "none" /\ p # c
    BY <1>1 DEF BirthInv
  <1>4. \A q \in Processes : version'[q] = IF q = c THEN executable ELSE version[q]
    BY <1>1 DEF BaseInv, HandoffType, ValueType
  <1>5. Installed(p)'
    BY <1>1, <1>2, <1>3, <1>4 DEF InstalledInv, Installed, Preparing
  <1>6. ASSUME NEW q \in Processes, q # p PROVE Installed(q)'
    <2>1. Holds(p)
      BY <1>1, PreparingHolds DEF Preparing
    <2>2. Installed(q) /\ ~Holds(q) /\ task[q].stage \notin Preparing
      BY <1>6, <2>1, OneHolder, PreparingHolds DEF InstalledInv
    <2>3. ~Holds(q)' /\ (phase'[q] \in Undecided => phase[q] \in Undecided /\ q # c)
      BY <1>1, <1>3, <2>2 DEF Holds, HoldsEndpoint, Draining, Undecided
    <2> QED BY <1>1, <1>2, <1>4, <1>6, <2>2, <2>3 DEF Installed, Preparing
  <1> QED BY <1>5, <1>6 DEF InstalledInv

LEMMA AnnounceFailsInstalled ==
    ASSUME BaseInv, TokenInv, InstalledInv, NEW p \in Processes, AnnounceFails(p)
    PROVE  InstalledInv'
  <1> USE BaseFacts
  <1>1. Drops(p) /\ executable' = task[p].backup /\ UNCHANGED <<version, late>>
    BY Zenon DEF AnnounceFails, end_task, restore_backup, Drops, identityVars, pipeVars
  <1>2. task[p].stage = "announcing" /\ task[p].stage \in Preparing
    BY <1>1 DEF Drops, Preparing
  <1>3. task[p].backup = version[p] /\ late[p][1] = "none" /\ phase[p] \notin Undecided
    BY <1>2, PreparingHolds DEF InstalledInv, Installed
  <1>4. /\ \A q \in Processes : (phase'[q] = phase[q] \/ phase'[q] = "dead")
        /\ \A q \in Processes : task'[q] = IF q = p THEN NoTask ELSE task[q]
        /\ commands' = commands
    BY <1>1 DEF Drops
  <1>5. Installed(p)'
    BY <1>1, <1>3, <1>4, Kinds DEF Installed, Preparing, Undecided
  <1> QED BY <1>1, <1>2, <1>4, <1>5, PreparingFrame

LEMMA InstalledInductive ==
    ASSUME PrepareWithinBudget, BaseInv, TokenInv, InstalledInv, [Next]_vars, ~Orphaned'
    PROVE  InstalledInv'
  <1>1. ASSUME Still, UNCHANGED <<executable, version, late>> PROVE InstalledInv'
    BY <1>1 DEF Still, InstalledInv, Installed, Holds
  <1>2. CASE UNCHANGED vars
    BY <1>1, <1>2, Zenon DEF vars, Still
  <1>3. CASE \E k \in Clients : Consumer(k)
    BY <1>1, <1>3, ZenonT(30) DEF Consumer, ConfirmCandidate, ConfirmElsewhere, ConfirmCommitted, ConfirmAborted,
       ConfirmAttemptFails, ClientGivesUp, Still, identityVars, pipeVars, taskVars
  <1>4. CASE \E k \in Clients, p \in Processes : StartBusy(k, p) \/ StartAccepted(k, p)
    <2>1. CASE \E k \in Clients, p \in Processes : StartBusy(k, p)
      BY <1>1, <2>1, Zenon DEF StartBusy, Still, identityVars, pipeVars, taskVars
    <2> QED BY <1>4, <2>1, StartInstalled
  <1>5. CASE \E signal \in {"int", "term"} : SendSignal(signal)
    BY <1>1, <1>5, Zenon DEF SendSignal, Still, identityVars, pipeVars, taskVars
  <1>6. ASSUME NEW p \in Processes, Preparation(p) PROVE InstalledInv'
    <2>1. CASE OperationForgotten(p)
      BY <1>1, <2>1, Zenon DEF OperationForgotten, Still, identityVars, pipeVars
    <2>2. ~PreparationTimesOut(p)
      BY DEF PreparationTimesOut
    <2>3. ~LateUpdaterInstalls(p) /\ ~LatePreparationDropped(p)
      BY DEF LateUpdaterInstalls, LatePreparationDropped, InstalledInv, Installed
    <2> QED BY <1>6, <2>1, <2>2, <2>3, PreparationInstalled, SpawnInstalled, AnnounceFailsInstalled, Zenon
            DEF Preparation
  <1>7. ASSUME NEW p \in Processes, Supervisor(p) \/ Settle(p) \/ SignalTaken(p) \/ Crash(p) PROVE InstalledInv'
    BY <1>7, FrameActions, ClosedInstalled, CutoverInstalled, RollBackInstalled, Zenon DEF Supervisor, SignalTaken
  <1>8. ASSUME NEW p \in Processes PROVE ~OrphanInstalls(p)
    BY DEF OrphanInstalls, InstalledInv, Installed
  <1> QED BY <1>2, <1>3, <1>4, <1>5, <1>6, <1>7, <1>8, Zenon DEF Next

LEMMA InstalledInit ==
    ASSUME Init
    PROVE  InstalledInv
  <1> SUFFICES ASSUME NEW p \in Processes PROVE Installed(p)
    BY DEF InstalledInv
  <1>1. /\ phase[p] = (IF p = 1 THEN "binding" ELSE "unborn") /\ task[p].stage = "none"
        /\ commands[p] = <<>> /\ executable = 1 /\ version[p] = (IF p = 1 THEN 1 ELSE None)
        /\ late[p] = <<"none", None>>
    BY Kinds DEF Init
  <1>2. late[p][1] = "none"
    BY <1>1
  <1> QED BY <1>1, <1>2 DEF Installed, Preparing, Undecided, Holds, HoldsEndpoint, Draining

\* Outside an update what serves is what is installed, until a process is killed while its
\* updater runs, provided the preparation ends within its budget and an aborted candidate
\* leaves before it prepares an update.
THEOREM ServesWhatIsInstalled ==
    PromptAbort /\ PrepareWithinBudget => (Spec => []RunningIsInstalled)
  <1> SUFFICES ASSUME PromptAbort, PrepareWithinBudget PROVE Spec => []RunningIsInstalled
    OBVIOUS
  <1> DEFINE IInv == BaseInv /\ TokenInv /\ (Orphaned \/ InstalledInv)
  <1>1. Init => IInv
    BY BaseInit, TokenInit, InstalledInit
  <1>2. IInv /\ [Next]_vars => IInv'
    BY BaseInductive, TokenInductive, InstalledInductive, OrphanedStays
  <1>3. IInv => RunningIsInstalled
    BY DEF Orphaned, InstalledInv, Installed, RunningIsInstalled, Holds, HoldsEndpoint
  <1> HIDE DEF IInv
  <1> QED BY <1>1, <1>2, <1>3, PTL DEF Spec

----------------------------------------------------------------------------
(* What clients are told.                                                    *)

LEMMA OutcomeValues ==
    /\ start_outcome("current") = "updated" /\ start_outcome("failed") = "failed"
    /\ start_outcome("busy") = "failed" /\ start_outcome("restarting") = "confirming"
    /\ confirm_outcome("committed") = "updated" /\ confirm_outcome("failed") = "failed"
    /\ confirm_outcome("waiting") = "confirming"
  BY DEF start_outcome, confirm_outcome

\* A task keeps its operation and its candidate until it ends.
Track(q) ==
    \/ /\ task'[q].operation = task[q].operation /\ task'[q].candidate = task[q].candidate
       /\ task'[q].stage = "none" <=> task[q].stage = "none"
    \/ task'[q] = NoTask

\* Processes that are past the point of no return, or have started to serve, stay so.
LEMMA PhasesStay ==
    ASSUME BaseInv, [Next]_vars, NEW q \in Processes
    PROVE  /\ phase[q] \in Final => phase'[q] \in Final
           /\ phase[q] \notin {"unborn", "waiting"} =>
                 phase'[q] \notin {"unborn", "waiting"} /\ (disposition'[q] # "none" => disposition[q] # "none")
  <1> USE BaseFacts
  <1>0. CASE Still
    BY <1>0 DEF Still
  <1> SUFFICES ASSUME NEW p \in Processes, Step(p)
               PROVE  /\ phase[q] \in Final => phase'[q] \in Final
                      /\ phase[q] \notin {"unborn", "waiting"} =>
                            /\ phase'[q] \notin {"unborn", "waiting"}
                            /\ disposition'[q] # "none" => disposition[q] # "none"
    BY <1>0, EveryStep
  <1>1. CASE Ends(p) \/ Drops(p) \/ Closes(p)
    <2>1. phase'[q] \in {phase[q], "dead"} /\ disposition' = disposition
      BY <1>1 DEF Ends, Drops, Closes
    <2> QED BY <2>1 DEF Final
  <1>2. CASE Returns(p)
    BY <1>2 DEF Returns, Final
  <1>3. CASE Activates(p)
    BY <1>3 DEF Activates, Final
  <1>4. CASE Settles(p)
    BY <1>4 DEF Settles, is_pending
  <1>5. CASE \E place \in Phases : Moves(p, place)
    BY <1>5 DEF Moves, Final
  <1>6. CASE \E place \in Phases, command \in {"commit", "abort"} : Decides(p, place, command)
    BY <1>6 DEF Decides, Final
  <1>7. CASE \E t \in TaskState : Prepares(p, t) \/ Queues(p, t)
    BY <1>7 DEF Prepares, Queues
  <1>8. CASE \E t \in TaskState : CutsOver(p, t) \/ Supervises(p, t)
    BY <1>8 DEF CutsOver, Supervises, Final
  <1>9. CASE \E t \in TaskState, c \in Processes : Spawns(p, c, t)
    BY <1>9 DEF Spawns, Final
  <1> QED BY <1>1, <1>2, <1>3, <1>4, <1>5, <1>6, <1>7, <1>8, <1>9 DEF Step

\* Only a commit commits.
LEMMA ToldStep ==
    ASSUME BaseInv, [Next]_vars, NEW c \in Processes, told(c)', ~told(c)
    PROVE  \E p \in Processes : /\ phase[p] = "consumer" /\ phase'[p] = "acknowledgement"
                                /\ task' = task /\ c = task[p].candidate
  <1> USE BaseFacts DEF told
  <1>0. ~Still
    BY DEF Still, sent
  <1>1. PICK p \in Processes : Step(p)
    BY <1>0, EveryStep
  <1>2. /\ ~Ends(p) /\ ~Drops(p) /\ ~Closes(p) /\ ~\E place \in Phases : Moves(p, place)
        /\ ~\E t \in TaskState : Prepares(p, t) \/ Queues(p, t) \/ Supervises(p, t)
        /\ ~\E t \in TaskState, d \in Processes : Spawns(p, d, t)
    BY DEF Ends, Drops, Closes, Moves, Prepares, Queues, Supervises, Spawns, sent
  <1>3. ~Returns(p)
    BY DEF Returns, sent
  <1>4. ~Activates(p)
    <2>1. "abort" \in Commands
      BY DEF Commands
    <2>2. commands[p] # <<>> /\ holds(Tail(commands[p]), "commit") => sent(p, "commit")
      BY <2>1, CommandsOf
    <2> QED BY <2>2 DEF Activates, sent
  <1>5. ~Settles(p)
    <2>1. "abort" \in Commands
      BY DEF Commands
    <2>2. (settled_by(p) = "committed" => sent(p, "commit")) /\ ~holds(<<>>, "commit")
      BY <2>1, CommandsOf DEF settled_by
    <2> QED BY <2>2 DEF Settles, sent
  <1>6. ASSUME NEW t \in TaskState PROVE ~CutsOver(p, t)
    <2> SUFFICES ASSUME CutsOver(p, t) PROVE FALSE
      OBVIOUS
    <2>1. task[p].stage = "queued"
      BY TaskOf DEF CutsOver, Stages
    <2>2. task[p].candidate \in Processes
      BY <2>1, CandidateOf
    <2>3. "activate" \in Commands /\ "activate" # "commit"
      BY DEF Commands
    <2>4. holds(Append(commands[task[p].candidate], "activate"), "commit") <=> sent(task[p].candidate, "commit")
      BY <2>2, <2>3, CommandsOf
    <2> QED BY <2>2, <2>4 DEF CutsOver, send_command, sent
  <1>7. PICK place \in Phases, command \in {"commit", "abort"} : Decides(p, place, command)
    BY <1>1, <1>2, <1>3, <1>4, <1>5, <1>6, Zenon DEF Step
  <1>8. phase[p] \in {"consumer", "readiness"}
    BY <1>7 DEF Decides
  <1>9. task[p].stage = "handoff"
    BY <1>8, TaskOf DEF Stages, Handing, Coordinating
  <1>10. task[p].candidate \in Processes
    BY <1>9, CandidateOf
  <1>11. holds(Append(commands[task[p].candidate], command), "commit") <=> (sent(task[p].candidate, "commit") \/ command = "commit")
    <2>1. command \in Commands
      BY DEF Commands
    <2> QED BY <2>1, <1>10, CommandsOf
  <1>12. c = task[p].candidate /\ command = "commit"
    BY <1>7, <1>10, <1>11 DEF Decides, send_command, sent
  <1> QED BY <1>7, <1>12 DEF Decides

\* Operations are named, given to a candidate and rolled back by one action each.
LEMMA OperationsStep ==
    ASSUME BaseInv, [Next]_vars
    PROVE  \/ \E k \in Clients, p \in Processes : StartAccepted(k, p)
           \/ \E p, c \in Processes : CandidatePrepared(p, c)
           \/ \E p \in Processes : RollBack(p)
           \/ UNCHANGED <<operations, rollback, operation>> /\ \A q \in Processes : Track(q)
  <1> USE BaseFacts DEF identityVars, pipeVars, taskVars
  <1>1. ASSUME task' = task PROVE \A q \in Processes : Track(q)
    BY <1>1 DEF Track
  <1>2. ASSUME NEW p \in Processes, task' = [task EXCEPT ![p] = NoTask] PROVE \A q \in Processes : Track(q)
    BY <1>2 DEF Track
  <1>3. CASE UNCHANGED vars
    BY <1>1, <1>3, Zenon DEF vars
  <1>4. CASE \E k \in Clients : Consumer(k)
    <2>1. UNCHANGED <<task, operations, rollback, operation>>
      BY <1>4, ZenonT(30) DEF Consumer, ConfirmCandidate, ConfirmElsewhere, ConfirmCommitted, ConfirmAborted,
         ConfirmAttemptFails, ClientGivesUp
    <2> QED BY <1>1, <2>1
  <1>5. CASE \E k \in Clients, p \in Processes : StartBusy(k, p)
    BY <1>1, <1>5, Zenon DEF StartBusy
  <1>6. CASE \E signal \in {"int", "term"} : SendSignal(signal)
    BY <1>1, <1>6, Zenon DEF SendSignal
  <1>7. ASSUME NEW p \in Processes, Preparation(p), ~\E c \in Processes : CandidatePrepared(p, c)
        PROVE  UNCHANGED <<operations, rollback, operation>> /\ \A q \in Processes : Track(q)
    <2>1. UNCHANGED <<operations, rollback, operation>>
      BY <1>7, Zenon DEF Preparation, UpdaterInstalls, UpdaterFails, VersionUnreadable, VersionOlder,
         PreparationCurrent, PreparationVerified, PreparationTimesOut, LateUpdaterInstalls,
         LatePreparationDropped, CandidateNotPrepared, Announced, AnnounceFails, OperationForgotten,
         preparation_fails
    <2>2. CASE LateUpdaterInstalls(p) \/ LatePreparationDropped(p) \/ OperationForgotten(p)
      <3>1. task' = task
        BY <2>2, Zenon DEF LateUpdaterInstalls, LatePreparationDropped, OperationForgotten
      <3> QED BY <1>1, <2>1, <3>1
    <2>3. CASE AnnounceFails(p)
      <3>1. task' = [task EXCEPT ![p] = NoTask]
        BY <2>3, Zenon DEF AnnounceFails, end_task
      <3> QED BY <1>2, <2>1, <3>1
    <2>4. CASE Announced(p)
      <3>1. /\ \A q \in Processes : q # p => task'[q] = task[q]
            /\ task'[p].stage = "queued" /\ task'[p].operation = task[p].operation
            /\ task'[p].candidate = task[p].candidate /\ task[p].stage = "announcing"
        BY <2>4, TaskOf DEF Announced, TaskState
      <3> QED BY <2>1, <3>1 DEF Track
    <2>5. CASE \/ UpdaterInstalls(p) \/ UpdaterFails(p) \/ VersionUnreadable(p)
               \/ VersionOlder(p) \/ PreparationCurrent(p) \/ PreparationVerified(p)
               \/ PreparationTimesOut(p) \/ CandidateNotPrepared(p)
      <3>1. PICK t \in TaskState : Prepares(p, t)
        BY <2>5, PrepareStep
      <3>2. task[p].stage # "none" /\ task[p].candidate = None
        BY <2>5, TaskOf DEF UpdaterInstalls, UpdaterFails, VersionUnreadable, VersionOlder, PreparationCurrent,
           PreparationVerified, PreparationTimesOut, CandidateNotPrepared, Candidacy
      <3>3. /\ task' = [task EXCEPT ![p] = t] /\ t.candidate = None
            /\ t = NoTask \/ (t.stage # "none" /\ t.operation = task[p].operation)
        BY <3>1, <3>2 DEF Prepares
      <3> QED BY <2>1, <3>2, <3>3 DEF Track
    <2> QED BY <1>7, <2>2, <2>3, <2>4, <2>5, Zenon DEF Preparation
  <1>8. ASSUME NEW p \in Processes, Supervisor(p) \/ Settle(p) \/ SignalTaken(p) \/ Crash(p), ~RollBack(p)
        PROVE  UNCHANGED <<operations, rollback, operation>> /\ \A q \in Processes : Track(q)
    <2>1. UNCHANGED <<operations, rollback, operation>>
      BY <1>8, Zenon DEF Supervisor, SignalTaken, TakeHandoff, CandidateAborted, EndpointClosed, Cutover,
         CandidateReady, Commit, CandidateRejected, AbortTimesOut, RollBackFails, Acknowledged,
         CandidateExited, StopTimesOut, Activate, NeverActivated, Bound, BindFails, Settle, SignalForwarded,
         Interrupted, SignalIgnored, Terminated, Crash
    <2>2. CASE Acknowledged(p)
      <3>1. PICK t \in TaskState : Supervises(p, t)
        BY <2>2, AcknowledgedStep
      <3> QED BY <2>1, <3>1 DEF Supervises, Track
    <2>3. CASE Cutover(p)
      <3>1. task[p].stage = "queued"
        BY <2>3, TaskOf DEF Cutover, Stages
      <3>2. /\ \A q \in Processes : q # p => task'[q] = task[q]
            /\ task'[p].stage = "handoff" /\ task'[p].operation = task[p].operation
            /\ task'[p].candidate = task[p].candidate
        BY <2>3, TaskOf DEF Cutover, TaskState
      <3> QED BY <2>1, <3>1, <3>2 DEF Track
    <2>4. CASE EndpointClosed(p)
      <3>1. task' = [task EXCEPT ![p] = NoTask]
        BY <2>4, Zenon DEF EndpointClosed, end_task
      <3> QED BY <1>2, <2>1, <3>1
    <2>5. CASE \/ AbortTimesOut(p) \/ StopTimesOut(p) \/ NeverActivated(p) \/ BindFails(p)
               \/ RollBackFails(p) \/ CandidateExited(p) \/ Terminated(p) \/ Crash(p)
      <3>1. PICK x \in Processes : Ends(x)
        BY <2>5, KillStep
      <3>2. task' = [task EXCEPT ![x] = NoTask]
        BY <3>1 DEF Ends
      <3> QED BY <1>2, <2>1, <3>2
    <2>6. CASE \/ TakeHandoff(p) \/ CandidateAborted(p) \/ Interrupted(p) \/ Bound(p) \/ CandidateReady(p)
               \/ SignalForwarded(p) \/ SignalIgnored(p) \/ Commit(p) \/ CandidateRejected(p) \/ Activate(p)
               \/ Settle(p)
      <3>1. task' = task
        BY <2>6, Zenon DEF TakeHandoff, CandidateAborted, Interrupted, Bound, CandidateReady, SignalForwarded,
           SignalIgnored, Commit, CandidateRejected, Activate, Settle
      <3> QED BY <1>1, <2>1, <3>1
    <2> QED BY <1>8, <2>2, <2>3, <2>4, <2>5, <2>6, Zenon DEF Supervisor, SignalTaken
  <1>9. ASSUME NEW p \in Processes, OrphanInstalls(p)
        PROVE  UNCHANGED <<operations, rollback, operation>> /\ \A q \in Processes : Track(q)
    <2>1. UNCHANGED <<task, operations, rollback, operation>>
      BY <1>9, Zenon DEF OrphanInstalls
    <2> QED BY <1>1, <2>1
  <1> QED BY <1>3, <1>4, <1>5, <1>6, <1>7, <1>8, <1>9, Zenon DEF Next

\* What each of the three does.
LEMMA StartOperation ==
    ASSUME BaseInv, NEW k \in Clients, NEW p \in Processes, StartAccepted(k, p)
    PROVE  /\ \A q \in Processes : q # p => task'[q] = task[q]
           /\ task'[p].operation = operations + 1 /\ task'[p].stage = "updating" /\ task'[p].candidate = None
           /\ operations' = operations + 1 /\ task[p].stage = "none"
           /\ UNCHANGED <<phase, rollback, operation, disposition, commands>>
  <1>1. /\ task' = [task EXCEPT ![p] = prepare_remote_update(k)] /\ operations' = operations + 1
        /\ task[p].stage = "none" /\ UNCHANGED <<phase, rollback, operation, disposition, commands>>
    BY DEF StartAccepted, busy, new_operation_id, pipeVars
  <1> QED BY <1>1, StartedTask, BaseFacts

LEMMA SpawnOperation ==
    ASSUME BaseInv, NEW p \in Processes, NEW c \in Processes, CandidatePrepared(p, c)
    PROVE  /\ \A q \in Processes : q # p => task'[q] = task[q]
           /\ task'[p].operation = task[p].operation /\ task'[p].candidate = c
           /\ task'[p].stage = "announcing" /\ task[p].stage = "verified"
           /\ operation' = [operation EXCEPT ![c] = task[p].operation]
           /\ phase[c] = "unborn" /\ commands[c] = <<>> /\ disposition[c] = "none"
           /\ UNCHANGED <<operations, rollback, disposition, commands>>
  <1>1. /\ operation' = [operation EXCEPT ![c] = task[p].operation] /\ phase[c] = "unborn"
        /\ task[p].stage = "verified" /\ UNCHANGED <<operations, rollback, disposition, commands>>
    BY Zenon DEF CandidatePrepared, spawns, pipeVars
  <1>2. /\ \A q \in Processes : q # p => task'[q] = task[q]
        /\ task'[p].operation = task[p].operation /\ task'[p].candidate = c /\ task'[p].stage = "announcing"
    BY TaskOf DEF CandidatePrepared, TaskState
  <1>3. commands[c] = <<>> /\ disposition[c] = "none"
    BY <1>1, BaseFacts DEF BirthInv
  <1> QED BY <1>1, <1>2, <1>3

LEMMA RollBackOperation ==
    ASSUME BaseInv, NEW p \in Processes, RollBack(p)
    PROVE  /\ phase[p] = "aborting" /\ task[p].stage = "handoff"
           /\ \A q \in Processes : task'[q] = IF q = p THEN NoTask ELSE task[q]
           /\ rollback' = [rollback EXCEPT ![p] = task[p].operation]
           /\ operation' = [operation EXCEPT ![p] = None]
           /\ \A q \in Processes : disposition'[q] = IF q = p THEN "none" ELSE disposition[q]
           /\ UNCHANGED <<operations, commands>>
  <1>1. /\ phase[p] = "aborting" /\ task' = [task EXCEPT ![p] = NoTask]
        /\ rollback' = [rollback EXCEPT ![p] = task[p].operation]
        /\ operation' = [operation EXCEPT ![p] = None]
        /\ disposition' = [disposition EXCEPT ![p] = "none"]
        /\ UNCHANGED <<operations, commands>>
    BY Zenon DEF RollBack, rolled_back, end_task, pipeVars
  <1>2. task[p].stage = "handoff"
    BY <1>1, TaskOf DEF Stages, Handing, Coordinating
  <1> QED BY <1>1, <1>2, BaseFacts

\* An operation that is kept stays kept: its task is past the point of no return, and a
\* new operation has a new name.
LEMMA KeptStays ==
    ASSUME BaseInv, OperationInv, [Next]_vars, NEW o \in 0..operations, o # None, Kept(o)
    PROVE  Kept(o)'
  <1> SUFFICES ASSUME NEW q \in Processes
               PROVE  rollback'[q] # o /\ (task'[q].operation = o => phase'[q] \in Final)
    BY DEF Kept
  <1>0. /\ rollback[q] # o /\ (task[q].operation = o => phase'[q] \in Final)
        /\ operations \in Nat /\ rollback \in [Processes -> 0..operations]
    BY PhasesStay DEF Kept, BaseInv, HandoffType, ValueType, OperationInv
  <1>1. CASE \E k \in Clients, p \in Processes : StartAccepted(k, p)
    <2> PICK k \in Clients, p \in Processes : StartAccepted(k, p)
      BY <1>1
    <2>1. rollback' = rollback /\ (task'[q].operation = operations + 1 \/ task'[q] = task[q])
      BY StartOperation
    <2> QED BY <1>0, <2>1
  <1>2. CASE \E p, c \in Processes : CandidatePrepared(p, c)
    <2> PICK p \in Processes, c \in Processes : CandidatePrepared(p, c)
      BY <1>2
    <2>1. rollback' = rollback /\ task'[q].operation = task[q].operation
      BY SpawnOperation
    <2> QED BY <1>0, <2>1
  <1>3. CASE \E p \in Processes : RollBack(p)
    <2> PICK p \in Processes : RollBack(p)
      BY <1>3
    <2>1. /\ phase[p] = "aborting" /\ rollback' = [rollback EXCEPT ![p] = task[p].operation]
          /\ task'[q] = IF q = p THEN NoTask ELSE task[q]
      BY RollBackOperation
    <2>2. task[p].operation # o
      BY <2>1 DEF Kept, Final
    <2> QED BY <1>0, <2>1, <2>2, Kinds
  <1>4. CASE UNCHANGED <<operations, rollback, operation>> /\ \A r \in Processes : Track(r)
    <2>1. task'[q].operation \in {task[q].operation, None}
      BY <1>4, Kinds DEF Track
    <2> QED BY <1>0, <1>4, <2>1
  <1> QED BY <1>1, <1>2, <1>3, <1>4, OperationsStep

LEMMA OperationFacts ==
    ASSUME BaseInv, OperationInv
    PROVE  /\ operations \in Nat
           /\ rollback \in [Processes -> 0..operations] /\ operation \in [Processes -> 0..operations]
           /\ \A p \in Processes : /\ task[p].operation \in 0..operations
                                   /\ task[p].stage = "none" <=> task[p].operation = None
           /\ \A p, q \in Processes : task[p].operation # None =>
                 /\ rollback[q] # task[p].operation
                 /\ task[q].operation = task[p].operation => p = q
           /\ \A p \in Processes : task[p].candidate # None =>
                 operation[task[p].candidate] \in {None, task[p].operation}
           /\ \A p \in Processes : task[p].candidate # None =>
                 task[p].candidate \in Processes /\ task[p].stage # "none"
  <1>1. ASSUME NEW p \in Processes, task[p].candidate # None
        PROVE  task[p].candidate \in Processes /\ task[p].stage # "none"
    BY <1>1, TaskOf DEF Candidacy
  <1> QED BY <1>1 DEF OperationInv, BaseInv, HandoffType, ValueType

\* What was committed before a step is kept after it.
LEMMA ToldKept ==
    ASSUME BaseInv, OperationInv, [Next]_vars, NEW c \in Processes, told(c), operation[c] # None,
           operation'[c] = operation[c]
    PROVE  Kept(operation[c])'
  <1>1. Kept(operation[c]) /\ operation[c] \in 0..operations
    BY DEF OperationInv
  <1> QED BY <1>1, KeptStays

LEMMA StartKeepsOperations ==
    ASSUME BaseInv, OperationInv, [Next]_vars, NEW k \in Clients, NEW p \in Processes, StartAccepted(k, p)
    PROVE  OperationInv'
  <1> USE OperationFacts
  <1>1. /\ \A q \in Processes : q # p => task'[q] = task[q]
        /\ task'[p].operation = operations + 1 /\ task'[p].stage = "updating" /\ task'[p].candidate = None
        /\ operations' = operations + 1 /\ UNCHANGED <<phase, rollback, operation, disposition, commands>>
    BY StartOperation
  <1>2. \A n \in 0..operations : n \in 0..(operations + 1) /\ n # operations + 1
    OBVIOUS
  <1>3. rollback' \in [Processes -> 0..operations'] /\ operation' \in [Processes -> 0..operations']
    BY <1>1, <1>2
  <1>4. \A q \in Processes : /\ task'[q].operation \in 0..operations'
                             /\ task'[q].stage = "none" <=> task'[q].operation = None
    BY <1>1, <1>2 DEF None
  <1>5. ASSUME NEW q \in Processes, NEW r \in Processes, task'[q].operation # None
        PROVE  rollback'[r] # task'[q].operation /\ (task'[r].operation = task'[q].operation => q = r)
    BY <1>1, <1>2, <1>5
  <1>6. \A q \in Processes : task'[q].candidate # None => operation'[task'[q].candidate] \in {None, task'[q].operation}
    BY <1>1
  <1>7. ASSUME NEW c \in Processes, operation'[c] # None, told(c)' PROVE Kept(operation[c])'
    <2>1. told(c) /\ operation'[c] = operation[c]
      BY <1>1, <1>7 DEF told, sent
    <2> QED BY <1>7, <2>1, ToldKept
  <1> QED BY <1>3, <1>4, <1>5, <1>6, <1>7 DEF OperationInv

LEMMA SpawnKeepsOperations ==
    ASSUME BaseInv, OperationInv, [Next]_vars, NEW p \in Processes, NEW c \in Processes, CandidatePrepared(p, c)
    PROVE  OperationInv'
  <1> USE OperationFacts
  <1>1. /\ \A q \in Processes : q # p => task'[q] = task[q]
        /\ task'[p].operation = task[p].operation /\ task'[p].candidate = c
        /\ task'[p].stage = "announcing" /\ task[p].stage = "verified"
        /\ operation' = [operation EXCEPT ![c] = task[p].operation]
        /\ phase[c] = "unborn" /\ commands[c] = <<>> /\ disposition[c] = "none"
        /\ UNCHANGED <<operations, rollback, disposition, commands>>
    BY SpawnOperation
  <1>2. ~told(c)'
    <2>1. ~holds(<<>>, "commit")
      BY DEF holds
    <2> QED BY <1>1, <2>1 DEF told, sent
  <1>3. rollback' \in [Processes -> 0..operations'] /\ operation' \in [Processes -> 0..operations']
    BY <1>1
  <1>4. \A q \in Processes : task'[q].operation = task[q].operation /\ (task'[q].stage = "none" <=> task[q].stage = "none")
    BY <1>1
  <1>5. \A q \in Processes : task'[q].candidate # None => operation'[task'[q].candidate] \in {None, task'[q].operation}
    <2> SUFFICES ASSUME NEW q \in Processes, task'[q].candidate # None
                 PROVE  operation'[task'[q].candidate] \in {None, task'[q].operation}
      OBVIOUS
    <2>1. CASE q = p
      BY <1>1, <2>1
    <2>2. CASE q # p
      <3>1. task'[q] = task[q] /\ task[q].candidate \in Processes /\ phase[task[q].candidate] # "unborn"
        BY <1>1, <2>2, TaskOf DEF Candidacy
      <3>2. task[q].candidate # c
        BY <1>1, <3>1
      <3> QED BY <1>1, <3>1, <3>2
    <2> QED BY <2>1, <2>2
  <1>6. ASSUME NEW d \in Processes, operation'[d] # None, told(d)' PROVE Kept(operation[d])'
    <2>1. d # c
      BY <1>2, <1>6
    <2>2. told(d) /\ operation'[d] = operation[d]
      BY <1>1, <1>6, <2>1 DEF told, sent
    <2> QED BY <1>6, <2>2, ToldKept
  <1> QED BY <1>1, <1>3, <1>4, <1>5, <1>6, SMTT(30) DEF OperationInv

LEMMA RollBackKeepsOperations ==
    ASSUME BaseInv, OperationInv, [Next]_vars, NEW p \in Processes, RollBack(p)
    PROVE  OperationInv'
  <1> USE OperationFacts
  <1>1. /\ phase[p] = "aborting" /\ task[p].stage = "handoff"
        /\ \A q \in Processes : task'[q] = IF q = p THEN NoTask ELSE task[q]
        /\ rollback' = [rollback EXCEPT ![p] = task[p].operation]
        /\ operation' = [operation EXCEPT ![p] = None]
        /\ \A q \in Processes : disposition'[q] = IF q = p THEN "none" ELSE disposition[q]
        /\ UNCHANGED <<operations, commands>>
    BY RollBackOperation
  <1>2. 0 \in 0..operations
    OBVIOUS
  <1>3. rollback' \in [Processes -> 0..operations'] /\ operation' \in [Processes -> 0..operations']
    BY <1>1, <1>2 DEF None
  <1>4. \A q \in Processes : /\ task'[q].operation \in 0..operations'
                             /\ task'[q].stage = "none" <=> task'[q].operation = None
    BY <1>1, <1>2, Kinds DEF None
  <1>5. ASSUME NEW q \in Processes, NEW r \in Processes, task'[q].operation # None
        PROVE  rollback'[r] # task'[q].operation /\ (task'[r].operation = task'[q].operation => q = r)
    <2>1. q # p /\ task'[q] = task[q]
      BY <1>1, <1>5, Kinds
    <2>2. task[p].operation # task[q].operation /\ rollback[r] # task[q].operation
      BY <1>5, <2>1
    <2>3. task'[r].operation \in {None, task[r].operation} /\ rollback'[r] \in {rollback[r], task[p].operation}
      BY <1>1, Kinds
    <2> QED BY <1>5, <2>1, <2>2, <2>3
  <1>6. ASSUME NEW q \in Processes, task'[q].candidate # None
        PROVE  operation'[task'[q].candidate] \in {None, task'[q].operation}
    <2>1. q # p /\ task'[q] = task[q] /\ task[q].candidate \in Processes
      BY <1>1, <1>6, Kinds
    <2>2. operation'[task[q].candidate] \in {operation[task[q].candidate], None}
      BY <1>1, <2>1
    <2> QED BY <1>6, <2>1, <2>2
  <1>7. ASSUME NEW d \in Processes, operation'[d] # None, told(d)' PROVE Kept(operation[d])'
    <2>1. d # p
      BY <1>1, <1>7
    <2>2. told(d) /\ operation'[d] = operation[d]
      BY <1>1, <1>7, <2>1 DEF told, sent
    <2> QED BY <1>7, <2>2, ToldKept
  <1> QED BY <1>3, <1>4, <1>5, <1>6, <1>7 DEF OperationInv

LEMMA OperationInductive ==
    ASSUME BaseInv, OperationInv, [Next]_vars
    PROVE  OperationInv'
  <1> USE OperationFacts
  <1>1. CASE UNCHANGED <<operations, rollback, operation>> /\ \A q \in Processes : Track(q)
    <2>1. \A q \in Processes : \/ task'[q] = NoTask
                               \/ /\ task'[q].operation = task[q].operation /\ task'[q].candidate = task[q].candidate
                                  /\ task'[q].stage = "none" <=> task[q].stage = "none"
      BY <1>1 DEF Track
    <2>2. 0 \in 0..operations
      OBVIOUS
    <2>3. rollback' \in [Processes -> 0..operations'] /\ operation' \in [Processes -> 0..operations']
      BY <1>1
    <2>4. \A q \in Processes : /\ task'[q].operation \in 0..operations'
                               /\ task'[q].stage = "none" <=> task'[q].operation = None
      BY <1>1, <2>1, <2>2, Kinds DEF None
    <2>5. ASSUME NEW q \in Processes, NEW r \in Processes, task'[q].operation # None
          PROVE  rollback'[r] # task'[q].operation /\ (task'[r].operation = task'[q].operation => q = r)
      <3>1. task'[q].operation = task[q].operation /\ task'[r].operation \in {task[r].operation, None}
        BY <2>1, <2>5, Kinds
      <3> QED BY <1>1, <2>5, <3>1
    <2>6. ASSUME NEW q \in Processes, task'[q].candidate # None
          PROVE  operation'[task'[q].candidate] \in {None, task'[q].operation}
      BY <1>1, <2>1, <2>6, Kinds
    <2>7. ASSUME NEW d \in Processes, operation'[d] # None, told(d)' PROVE Kept(operation[d])'
      <3>1. operation'[d] = operation[d]
        BY <1>1
      <3>2. CASE told(d)
        BY <2>7, <3>1, <3>2, ToldKept
      <3>3. CASE ~told(d)
        <4>1. PICK p \in Processes : /\ phase[p] = "consumer" /\ phase'[p] = "acknowledgement"
                                     /\ task' = task /\ d = task[p].candidate
          BY <2>7, <3>3, ToldStep
        <4>2. d # None /\ operation[d] = task[p].operation
          <5>1. task[p].stage = "handoff"
            BY <4>1, TaskOf DEF Stages, Handing, Coordinating
          <5>2. d # None
            BY <4>1, <5>1, CandidateOf DEF Processes, None
          <5> QED BY <2>7, <3>1, <4>1, <5>2
        <4>3. ASSUME NEW q \in Processes
              PROVE  rollback'[q] # operation[d] /\ (task'[q].operation = operation[d] => phase'[q] \in Final)
          BY <1>1, <2>7, <3>1, <4>1, <4>2 DEF Final
        <4> QED BY <3>1, <4>3 DEF Kept
      <3> QED BY <3>2, <3>3
    <2> QED BY <2>3, <2>4, <2>5, <2>6, <2>7 DEF OperationInv
  <1> QED BY <1>1, OperationsStep, StartKeepsOperations, SpawnKeepsOperations, RollBackKeepsOperations

LEMMA EndedStep ==
    ASSUME BaseInv, [Next]_vars,
           ended \in [Processes -> SUBSET ((Clients \cup {None}) \X {"failed", "current"})]
    PROVE  ended' \in [Processes -> SUBSET ((Clients \cup {None}) \X {"failed", "current"})]
  <1> USE DEF identityVars, pipeVars, taskVars
  <1>1. ASSUME NEW p \in Processes, NEW answer \in {"failed", "current"}, release_permit(p, answer)
        PROVE  ended' \in [Processes -> SUBSET ((Clients \cup {None}) \X {"failed", "current"})]
    <2>1. task[p].client \in Clients \cup {None}
      BY TaskOf DEF TaskState
    <2>2. ended' = [ended EXCEPT ![p] = @ \cup {<<task[p].client, answer>>}]
      BY <1>1 DEF release_permit
    <2> QED BY <2>1, <2>2
  <1>2. ASSUME NEW x, ended' = [ended EXCEPT ![x] = {}]
        PROVE  ended' \in [Processes -> SUBSET ((Clients \cup {None}) \X {"failed", "current"})]
    BY <1>2
  <1>3. CASE UNCHANGED vars
    BY <1>3 DEF vars
  <1>4. CASE \E k \in Clients : Consumer(k)
    <2>1. ended' = ended
      BY <1>4, ZenonT(30) DEF Consumer, ConfirmCandidate, ConfirmElsewhere, ConfirmCommitted, ConfirmAborted,
         ConfirmAttemptFails, ClientGivesUp
    <2> QED BY <2>1
  <1>5. CASE \E k \in Clients, p \in Processes : StartBusy(k, p) \/ StartAccepted(k, p)
    <2>1. ended' = ended
      BY <1>5, Zenon DEF StartBusy, StartAccepted
    <2> QED BY <2>1
  <1>6. CASE \E signal \in {"int", "term"} : SendSignal(signal)
    <2>1. ended' = ended
      BY <1>6, Zenon DEF SendSignal
    <2> QED BY <2>1
  <1>7. ASSUME NEW p \in Processes, Preparation(p)
        PROVE  ended' \in [Processes -> SUBSET ((Clients \cup {None}) \X {"failed", "current"})]
    <2>1. CASE UpdaterFails(p) \/ VersionUnreadable(p) \/ VersionOlder(p) \/ PreparationTimesOut(p) \/ CandidateNotPrepared(p)
      <3>1. release_permit(p, "failed")
        BY <2>1, Zenon DEF UpdaterFails, VersionUnreadable, VersionOlder, PreparationTimesOut,
           CandidateNotPrepared, preparation_fails
      <3> QED BY <1>1, <3>1
    <2>2. CASE PreparationCurrent(p)
      <3>1. release_permit(p, "current")
        BY <2>2, Zenon DEF PreparationCurrent
      <3> QED BY <1>1, <3>1
    <2>3. CASE OperationForgotten(p)
      <3>1. \E end : ended' = [ended EXCEPT ![p] = @ \ {end}]
        BY <2>3, Zenon DEF OperationForgotten
      <3> QED BY <3>1
    <2>4. CASE \/ UpdaterInstalls(p) \/ PreparationVerified(p) \/ LateUpdaterInstalls(p)
               \/ LatePreparationDropped(p) \/ (\E c \in Processes : CandidatePrepared(p, c))
               \/ Announced(p) \/ AnnounceFails(p)
      <3>1. ended' = ended
        BY <2>4, Zenon DEF UpdaterInstalls, PreparationVerified, LateUpdaterInstalls, LatePreparationDropped,
           CandidatePrepared, Announced, AnnounceFails
      <3> QED BY <3>1
    <2> QED BY <1>7, <2>1, <2>2, <2>3, <2>4, Zenon DEF Preparation
  <1>8. ASSUME NEW p \in Processes, Supervisor(p) \/ Settle(p) \/ SignalTaken(p) \/ Crash(p)
        PROVE  ended' \in [Processes -> SUBSET ((Clients \cup {None}) \X {"failed", "current"})]
    <2>1. ended' = ended \/ \E x : ended' = [ended EXCEPT ![x] = {}]
      BY <1>8, Zenon DEF Supervisor, SignalTaken, TakeHandoff, CandidateAborted, EndpointClosed, Cutover,
         CandidateReady, Commit, CandidateRejected, AbortTimesOut, RollBack, RollBackFails, Acknowledged,
         CandidateExited, StopTimesOut, Activate, NeverActivated, Bound, BindFails, Settle, SignalForwarded,
         Interrupted, SignalIgnored, Terminated, Crash, kill, exits
    <2> QED BY <1>2, <2>1
  <1>9. ASSUME NEW p \in Processes, OrphanInstalls(p) PROVE ended' = ended
    BY <1>9, Zenon DEF OrphanInstalls
  <1> QED BY <1>3, <1>4, <1>5, <1>6, <1>7, <1>8, <1>9, Zenon DEF Next

\* A client that is not concerned by a step.
LEMMA InformedStays ==
    ASSUME BaseInv, OperationInv, [Next]_vars, NEW k \in Clients, Informed(k), client'[k] = client[k]
    PROVE  Informed(k)'
  <1> USE BaseFacts
  <1>1. client[k].operation \in 0..operations'
    <2>1. operations \in Nat /\ operations' \in {operations, operations + 1}
      BY OperationsStep, StartOperation, SpawnOperation, RollBackOperation DEF BaseInv, HandoffType, ValueType
    <2>2. client[k].operation \in 0..operations
      BY DEF Informed
    <2> QED BY <2>1, <2>2
  <1>2. ASSUME client[k].state = "waiting"
        PROVE  /\ client[k].server \in Processes /\ phase'[client[k].server] \notin {"unborn", "waiting"}
               /\ disposition'[client[k].server] # "none" => operation'[client[k].server] = client[k].operation
    <2> DEFINE s == client[k].server
    <2>1. /\ s \in Processes /\ phase[s] \notin {"unborn", "waiting"}
          /\ disposition[s] # "none" => operation[s] = client[k].operation
      BY <1>2 DEF Informed
    <2> HIDE DEF s
    <2>2. phase'[s] \notin {"unborn", "waiting"} /\ (disposition'[s] # "none" => disposition[s] # "none")
      BY <2>1, PhasesStay
    <2>3. disposition'[s] # "none" => operation'[s] = operation[s]
      <3>1. operation \in [Processes -> 0..operations]
        BY OperationFacts
      <3>2. ASSUME NEW p \in Processes, NEW c \in Processes, CandidatePrepared(p, c) PROVE operation'[s] = operation[s]
        BY <2>1, <3>1, <3>2, SpawnOperation
      <3>3. ASSUME NEW p \in Processes, RollBack(p), disposition'[s] # "none" PROVE operation'[s] = operation[s]
        BY <2>1, <3>1, <3>3, RollBackOperation
      <3> QED BY <3>2, <3>3, OperationsStep, StartOperation
    <2> QED BY <2>1, <2>2, <2>3 DEF s
  <1>3. ASSUME client[k].state = "updated", client[k].operation # None PROVE Kept(client[k].operation)'
    <2>1. Kept(client[k].operation) /\ client[k].operation \in 0..operations
      BY <1>3 DEF Informed
    <2> QED BY <1>3, <2>1, KeptStays
  <1>4. client[k].state \in {"idle", "starting"} => client[k].operation = None
    BY DEF Informed
  <1> QED BY <1>1, <1>2, <1>3, <1>4 DEF Informed

\* A client that is told nothing of an operation it asked about.
LEMMA InformedOtherwise ==
    ASSUME BaseInv, OperationInv, [Next]_vars, NEW k \in Clients, Informed(k),
           client'[k].operation \in 0..operations, client'[k].state \notin {"waiting"},
           client'[k].state \in {"idle", "starting"} => client'[k].operation = None,
           client'[k].state = "updated" => client'[k].operation = None
    PROVE  Informed(k)'
  <1>1. operations \in Nat /\ operations' \in {operations, operations + 1}
    BY OperationsStep, StartOperation, SpawnOperation, RollBackOperation DEF BaseInv, HandoffType, ValueType
  <1> QED BY <1>1 DEF Informed

LEMMA RespondFields ==
    ASSUME client \in [Clients -> ClientState], NEW k \in Clients,
           NEW outcome \in {"idle", "starting", "confirming", "waiting", "updated", "failed"}, respond(k, outcome)
    PROVE  /\ client' \in [Clients -> ClientState]
           /\ client'[k].state = outcome /\ client'[k].operation = client[k].operation
           /\ \A j \in Clients : j # k => client'[j] = client[j]
  <1> DEFINE d == [client[k] EXCEPT !.state = outcome]
  <1>1. client' = [client EXCEPT ![k] = d]
    BY DEF respond
  <1>2. d \in ClientState /\ d.state = outcome /\ d.operation = client[k].operation
    BY DEF ClientState
  <1> HIDE DEF d
  <1> QED BY <1>1, <1>2

Clientele ==
    /\ client \in [Clients -> ClientState]
    /\ \A k \in Clients : Informed(k)

\* The answer that a client waits for, or its own deadline, tells it nothing good.
LEMMA TurnedDown ==
    ASSUME BaseInv, OutcomeInv, [Next]_vars, NEW k \in Clients,
           respond(k, "failed") \/ respond(k, "confirming")
    PROVE  Clientele'
  <1>1. client \in [Clients -> ClientState] /\ \A j \in Clients : Informed(j)
    BY DEF OutcomeInv, ClientInv
  <1>2. /\ client' \in [Clients -> ClientState]
        /\ client'[k].state \in {"failed", "confirming"} /\ client'[k].operation = client[k].operation
        /\ \A j \in Clients : j # k => client'[j] = client[j]
    BY <1>1, RespondFields
  <1>3. Informed(k)'
    <2>1. client[k].operation \in 0..operations
      BY <1>1 DEF Informed
    <2> QED BY <1>1, <1>2, <2>1, InformedOtherwise DEF OutcomeInv
  <1>4. \A j \in Clients : j # k => Informed(j)'
    BY <1>1, <1>2, InformedStays DEF OutcomeInv
  <1> QED BY <1>2, <1>3, <1>4 DEF Clientele

LEMMA StartClients ==
    ASSUME BaseInv, OutcomeInv, [Next]_vars, NEW k \in Clients, NEW p \in Processes, StartAccepted(k, p)
    PROVE  Clientele'
  <1> DEFINE d == [client[k] EXCEPT !.state = "starting", !.server = p]
  <1>1. client \in [Clients -> ClientState] /\ \A j \in Clients : Informed(j)
    BY DEF OutcomeInv, ClientInv
  <1>2. client' = [client EXCEPT ![k] = d]
    BY <1>1 DEF StartAccepted
  <1>3. d \in ClientState /\ d.state = "starting" /\ d.operation = client[k].operation
    BY <1>1 DEF ClientState
  <1> HIDE DEF d
  <1>4. client[k].state = "idle"
    BY DEF StartAccepted, read_attached_update_request, write_attached_update_request, update
  <1>5. client[k].operation = None /\ client[k].operation \in 0..operations
    BY <1>1, <1>4 DEF Informed
  <1>6. Informed(k)'
    BY <1>1, <1>2, <1>3, <1>5, InformedOtherwise DEF OutcomeInv
  <1>7. \A j \in Clients : j # k => Informed(j)'
    BY <1>1, <1>2, InformedStays DEF OutcomeInv
  <1> QED BY <1>1, <1>2, <1>3, <1>6, <1>7 DEF Clientele

\* A client waits at the candidate of its operation.
LEMMA ConfirmClients ==
    ASSUME BaseInv, OutcomeInv, [Next]_vars, NEW k \in Clients, NEW p \in Processes, ConfirmCandidate(k, p)
    PROVE  Clientele'
  <1> DEFINE first == is_pending(p) /\ ~announced[p]
             d == [client[k] EXCEPT !.state = "waiting", !.server = p, !.notify = first]
  <1>1. client \in [Clients -> ClientState] /\ \A j \in Clients : Informed(j)
    BY DEF OutcomeInv, ClientInv
  <1>2. client' = [client EXCEPT ![k] = d]
    BY <1>1 DEF ConfirmCandidate
  <1>3. d \in ClientState /\ d.state = "waiting" /\ d.operation = client[k].operation /\ d.server = p
    <2>1. first \in BOOLEAN
      OBVIOUS
    <2> HIDE DEF first
    <2> QED BY <1>1, <2>1 DEF ClientState
  <1> HIDE DEF d
  <1>4. /\ phase[p] \notin {"unborn", "waiting"} /\ operation[p] = client[k].operation
        /\ UNCHANGED <<phase, disposition, operation, operations>>
    BY DEF ConfirmCandidate, read_attached_update_request, reachable, for_candidate, Draining, taskVars
  <1>5. client[k].operation \in 0..operations
    BY <1>1 DEF Informed
  <1>6. Informed(k)'
    BY <1>1, <1>2, <1>3, <1>4, <1>5 DEF Informed
  <1>7. \A j \in Clients : j # k => Informed(j)'
    BY <1>1, <1>2, InformedStays DEF OutcomeInv
  <1> QED BY <1>1, <1>2, <1>3, <1>6, <1>7 DEF Clientele

\* A client is told of an operation whose candidate is committed.
LEMMA CommittedClients ==
    ASSUME BaseInv, OutcomeInv, [Next]_vars, NEW k \in Clients, ConfirmCommitted(k)
    PROVE  Clientele'
  <1>1. client \in [Clients -> ClientState] /\ \A j \in Clients : Informed(j)
    BY DEF OutcomeInv, ClientInv
  <1> DEFINE s == client[k].server
  <1>2. respond(k, "updated")
    BY OutcomeValues DEF ConfirmCommitted
  <1>3. /\ client' \in [Clients -> ClientState]
        /\ client'[k].state = "updated" /\ client'[k].operation = client[k].operation
        /\ \A j \in Clients : j # k => client'[j] = client[j]
    BY <1>1, <1>2, RespondFields
  <1>4. client[k].state = "waiting" /\ disposition[s] = "committed"
    BY DEF ConfirmCommitted
  <1>5. s \in Processes /\ operation[s] = client[k].operation /\ told(s) /\ client[k].operation \in 0..operations
    BY <1>1, <1>4 DEF Informed, told
  <1>6. client[k].operation # None => Kept(client[k].operation)
    BY <1>5 DEF OutcomeInv, OperationInv
  <1>7. UNCHANGED <<phase, operations, rollback, task>>
    BY Zenon DEF ConfirmCommitted, taskVars
  <1>8. ASSUME client[k].operation # None PROVE Kept(client[k].operation)'
    BY <1>3, <1>6, <1>7, <1>8 DEF Kept
  <1>9. Informed(k)'
    BY <1>3, <1>5, <1>7, <1>8 DEF Informed
  <1>10. \A j \in Clients : j # k => Informed(j)'
    BY <1>1, <1>3, InformedStays DEF OutcomeInv
  <1> QED BY <1>3, <1>9, <1>10 DEF Clientele

\* The answer to a Start names no operation.
LEMMA ForgottenClients ==
    ASSUME BaseInv, OutcomeInv, [Next]_vars, NEW p \in Processes, OperationForgotten(p)
    PROVE  Clientele'
  <1>1. client \in [Clients -> ClientState] /\ \A j \in Clients : Informed(j)
    BY DEF OutcomeInv, ClientInv
  <1>2. PICK end \in ended[p] :
            client' = [client EXCEPT ![end[1]].state =
                          IF @ = "starting" THEN start_outcome(end[2]) ELSE @]
    BY Zenon DEF OperationForgotten
  <1>3. end[2] \in {"failed", "current"}
    BY DEF OutcomeInv, ClientInv
  <1>4. start_outcome(end[2]) \in {"failed", "updated"}
    BY <1>3, OutcomeValues
  <1>5. CASE end[1] \notin Clients
    <2>1. client' = client
      BY <1>1, <1>2, <1>5
    <2> QED BY <1>1, <2>1, InformedStays DEF Clientele, OutcomeInv
  <1>6. CASE end[1] \in Clients /\ client[end[1]].state # "starting"
    <2>1. client' = client
      <3>1. client[end[1]] = [client[end[1]] EXCEPT !.state = client[end[1]].state]
        BY <1>1, <1>6 DEF ClientState
      <3> QED BY <1>1, <1>2, <1>6, <3>1
    <2> QED BY <1>1, <2>1, InformedStays DEF Clientele, OutcomeInv
  <1>7. CASE end[1] \in Clients /\ client[end[1]].state = "starting"
    <2>1. respond(end[1], start_outcome(end[2]))
      BY <1>1, <1>2, <1>7 DEF respond
    <2>2. /\ client' \in [Clients -> ClientState]
          /\ client'[end[1]].state \in {"failed", "updated"} /\ client'[end[1]].operation = client[end[1]].operation
          /\ \A j \in Clients : j # end[1] => client'[j] = client[j]
      BY <1>1, <1>4, <1>7, <2>1, RespondFields
    <2>3. client[end[1]].operation = None /\ client[end[1]].operation \in 0..operations
      BY <1>1, <1>7 DEF Informed
    <2>4. Informed(end[1])'
      <3>1. PICK k \in Clients : k = end[1]
        BY <1>7
      <3>2. Informed(k)'
        BY <1>1, <2>2, <2>3, <3>1, InformedOtherwise DEF OutcomeInv
      <3> QED BY <3>1, <3>2
    <2>5. \A j \in Clients : j # end[1] => Informed(j)'
      BY <1>1, <2>2, InformedStays DEF OutcomeInv
    <2> QED BY <2>2, <2>4, <2>5 DEF Clientele
  <1> QED BY <1>5, <1>6, <1>7

LEMMA AnnouncedClients ==
    ASSUME BaseInv, OutcomeInv, [Next]_vars, NEW p \in Processes, answer_start(p, Confirming(p))
    PROVE  Clientele'
  <1>1. client \in [Clients -> ClientState] /\ \A j \in Clients : Informed(j)
    BY DEF OutcomeInv, ClientInv
  <1>2. task[p].operation \in 0..operations /\ task[p].operation \in Nat /\ task[p].target \in Nat
    BY TaskOf, OperationFacts DEF OutcomeInv, TaskState
  <1>3. Confirming(p) \in ClientState /\ Confirming(p).state = "confirming" /\ Confirming(p).operation = task[p].operation
    <2>1. Idle \in ClientState
      BY DEF Idle, ClientState, None
    <2> QED BY <1>2, <2>1, OutcomeValues DEF Confirming, ClientState
  <1>4. client' = [k \in Clients |-> IF k = task[p].client /\ client[k].state = "starting" THEN Confirming(p)
                                     ELSE client[k]]
    BY DEF answer_start
  <1>5. ASSUME NEW k \in Clients PROVE Informed(k)'
    <2>1. CASE client'[k] = client[k]
      BY <1>1, <2>1, InformedStays DEF OutcomeInv
    <2>2. CASE client'[k] = Confirming(p)
      BY <1>1, <1>2, <1>3, <2>2, InformedOtherwise DEF OutcomeInv
    <2> QED BY <1>4, <2>1, <2>2
  <1>6. client' \in [Clients -> ClientState]
    BY <1>1, <1>3, <1>4
  <1> QED BY <1>5, <1>6 DEF Clientele

LEMMA ClientInductive ==
    ASSUME BaseInv, OutcomeInv, [Next]_vars
    PROVE  ClientInv'
  <1> USE DEF identityVars, pipeVars, taskVars
  <1>1. ended' \in [Processes -> SUBSET ((Clients \cup {None}) \X {"failed", "current"})]
    BY EndedStep DEF OutcomeInv, ClientInv
  <1>2. ASSUME client' = client PROVE Clientele'
    BY <1>2, InformedStays DEF Clientele, OutcomeInv, ClientInv
  <1>3. CASE UNCHANGED vars
    BY <1>1, <1>2, <1>3 DEF vars, Clientele, ClientInv
  <1>4. ASSUME NEW k \in Clients, Consumer(k) PROVE Clientele'
    <2>1. CASE ConfirmAborted(k) \/ ConfirmAttemptFails(k) \/ ClientGivesUp(k)
      BY <2>1, OutcomeValues, TurnedDown DEF ConfirmAborted, ConfirmAttemptFails, ClientGivesUp
    <2>2. ASSUME NEW p \in Processes, ConfirmElsewhere(k, p) PROVE Clientele'
      BY <2>2, OutcomeValues, TurnedDown DEF ConfirmElsewhere
    <2> QED BY <1>4, <2>1, <2>2, ConfirmClients, CommittedClients, Zenon DEF Consumer
  <1>5. ASSUME NEW k \in Clients, NEW p \in Processes, StartBusy(k, p) PROVE Clientele'
    BY <1>5, OutcomeValues, TurnedDown DEF StartBusy
  <1>6. CASE \E signal \in {"int", "term"} : SendSignal(signal)
    <2>1. client' = client
      BY <1>6, Zenon DEF SendSignal
    <2> QED BY <1>1, <1>2, <2>1 DEF Clientele, ClientInv
  <1>7. ASSUME NEW p \in Processes, Preparation(p) PROVE Clientele'
    <2>1. \/ OperationForgotten(p) \/ client' = client \/ answer_start(p, Confirming(p))
      BY <1>7, Zenon DEF Preparation, UpdaterInstalls, UpdaterFails, VersionUnreadable, VersionOlder,
         PreparationCurrent, PreparationVerified, PreparationTimesOut, LateUpdaterInstalls,
         LatePreparationDropped, CandidatePrepared, CandidateNotPrepared, Announced, AnnounceFails,
         preparation_fails
    <2> QED BY <1>2, <2>1, ForgottenClients, AnnouncedClients
  <1>8. ASSUME NEW p \in Processes, Supervisor(p) \/ Settle(p) \/ SignalTaken(p) \/ Crash(p) PROVE Clientele'
    <2>1. client' = client
      BY <1>8, Zenon DEF Supervisor, SignalTaken, TakeHandoff, CandidateAborted, EndpointClosed, Cutover,
         CandidateReady, Commit, CandidateRejected, AbortTimesOut, RollBack, RollBackFails, Acknowledged,
         CandidateExited, StopTimesOut, Activate, NeverActivated, Bound, BindFails, Settle, SignalForwarded,
         Interrupted, SignalIgnored, Terminated, Crash
    <2> QED BY <1>2, <2>1
  <1>9. Clientele' => ClientInv'
    BY <1>1 DEF Clientele, ClientInv
  <1>10. ASSUME NEW p \in Processes, OrphanInstalls(p) PROVE client' = client
    BY <1>10, Zenon DEF OrphanInstalls
  <1> QED BY <1>2, <1>3, <1>4, <1>5, <1>6, <1>7, <1>8, <1>9, <1>10, StartClients, Zenon DEF Next

LEMMA OutcomeInit ==
    ASSUME Init
    PROVE  OutcomeInv
  <1>1. \A p \in Processes : /\ task[p].operation = None /\ task[p].stage = "none" /\ task[p].candidate = None
                             /\ operation[p] = None
    BY Kinds DEF Init
  <1>2. operations = 0 /\ 0 \in 0..0
    BY DEF Init
  <1>3. OperationInv
    BY <1>1, <1>2 DEF Init, OperationInv, None
  <1>4. Idle \in ClientState /\ Idle.state = "idle" /\ Idle.operation = None
    BY DEF Idle, ClientState, None
  <1>5. client = [k \in Clients |-> Idle] /\ ended = [p \in Processes |-> {}]
    BY DEF Init
  <1>6. ClientInv
    BY <1>2, <1>4, <1>5 DEF ClientInv, Informed, None
  <1> QED BY <1>3, <1>6 DEF OutcomeInv

\* Client and server agree: an operation a client was told is committed is neither
\* rolled back nor about to be, whatever was lost, late or killed in between.
THEOREM ClientsAndServersAgree == Spec => []OutcomesAgree
  <1> DEFINE IInv == BaseInv /\ OutcomeInv
  <1>1. Init => IInv
    BY BaseInit, OutcomeInit
  <1>2. IInv /\ [Next]_vars => IInv'
    BY BaseInductive, OperationInductive, ClientInductive DEF OutcomeInv
  <1>3. IInv => OutcomesAgree
    BY DEF OutcomeInv, ClientInv, Informed, Kept, OutcomesAgree, Final
  <1> HIDE DEF IInv
  <1> QED BY <1>1, <1>2, <1>3, PTL DEF Spec
=============================================================================
