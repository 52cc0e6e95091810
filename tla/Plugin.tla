--------------------------------- MODULE Plugin ---------------------------------
(***************************************************************************)
(* The Herdr discovery worker (crates/herdr-plugin): it reads the report the  *)
(* SSH exporter writes, registers a machine for every host it names, and      *)
(* removes the ones it registered when their host has gone (discovery.rs).    *)
(*                                                                           *)
(* The same reconciler works on two registries.  The legacy plugin            *)
(* (lifecycle.rs, herdr.rs) gets from Herdr an identifier nobody else has; the *)
(* desktop mod (app.rs, core.rs) knows a registration of herdr-core by its     *)
(* contents and removes it by name.  Every command is a process of its own:   *)
(* the user and other programs change the registry between any two of them,   *)
(* and the worker may be killed between any two.                              *)
(***************************************************************************)
EXTENDS Naturals, FiniteSets, Sequences, SequencesExt

CONSTANTS
    Hosts,          \* endpoint identities; the worker names a machine by its endpoint
    Mine,           \* a name of the user's own choice
    Label,          \* the label all the hosts carry
    Nothing,
    MAX_ATTEMPTS,   \* registrations tried in one check
    MISSES,         \* complete reports without a host before it is removed
    MAX_USER,       \* bound: what the user does
    MAX_FLIPS,      \* bound: reports that say something else than the one before
    MAX_FAULTS,     \* bound: kills, failed commands
    MAX_CHANGES     \* bound: all of these together

ASSUME PluginBounds ==
    /\ MAX_ATTEMPTS \in Nat \ {0} /\ MISSES \in Nat \ {0}
    /\ MAX_USER \in Nat /\ MAX_FLIPS \in Nat /\ MAX_FAULTS \in Nat /\ MAX_CHANGES \in Nat

\* A report names finitely many hosts; no machine of the worker has the user's name, and
\* a name that is free leads nowhere.
ASSUME PluginNames ==
    IsFiniteSet(Hosts) /\ Mine \notin Hosts /\ Nothing \notin Hosts \cup {Label}

VARIABLES
    legacy,     \* which of the two programs this is
    down,       \* hosts that cannot be registered: no tunnel, or no core there
    machines,   \* the registry: the target each name leads to
    by,         \* ghost: who registered each
    file,       \* discovery-state.json: the hosts dealt with, the machines owned
    report,     \* discovery.json; new: not the generation the worker last finished
    exporter,   \* who runs the exporter, if anybody
    enabled,    \* the lease, or the plugin's switch
    worker,     \* where the worker is in its check
    retry,      \* hosts tried before: still cooling down, or due, oldest first
    missing,    \* complete reports that lacked a managed host
    absent,     \* ghost: the same, told from the reports alone
    dismissed,  \* ghost: hosts whose machine the user ever removed; and, known to the worker
    raced,      \* ghost: the user touched the name that is about to be removed
    orphaned,   \* ghost: hosts a kill caught between a command and its record
    budget      \* ghost: what the user, the publishers and the faults did

vars == <<legacy, down, machines, by, file, report, exporter, enabled, worker, retry, missing,
          absent, dismissed, raced, orphaned, budget>>

registry == <<machines, by>>
ghosts == <<absent, dismissed, raced, orphaned, budget>>
fixed == <<legacy, down>>

----------------------------------------------------------------------------
Names == Hosts \cup {Mine}

\* The part of a check the worker is in: what it read and what it has left.
at(place) == worker.at = place

idle == [at |-> "none", report |-> Nothing, current |-> FALSE, listed |-> Nothing,
         todo |-> <<>>, attempts |-> 0]

sleep == [idle EXCEPT !.at = "sleep"]

no_absence == [h \in Hosts |-> 0]

nothing_tried == [cooling |-> {}, due |-> <<>>]

written(complete, hosts) == [fresh |-> TRUE, complete |-> complete, hosts |-> hosts, new |-> TRUE]

withdrawn == written(FALSE, {})

Init ==
    /\ legacy \in BOOLEAN
    /\ down \in {{}, {CHOOSE h \in Hosts : TRUE}}
    /\ machines = [n \in Names |-> Nothing]
    /\ by = [n \in Names |-> Nothing]
    /\ file = [seen |-> {}, managed |-> {}]
    /\ report \in {written(TRUE, hosts) : hosts \in SUBSET Hosts}
    /\ exporter = "user"
    /\ enabled = TRUE
    /\ worker = idle
    /\ retry = nothing_tried
    /\ missing = no_absence
    /\ absent = no_absence
    /\ dismissed = [known |-> {}, ever |-> {}]
    /\ raced = FALSE
    /\ orphaned = {}
    /\ budget = [user |-> 0, flips |-> 0, faults |-> 0]

spend(what, bound) ==
    /\ budget[what] < bound
    /\ budget.user + budget.flips + budget.faults < MAX_CHANGES
    /\ budget' = [budget EXCEPT ![what] = @ + 1]

head == Head(worker.todo)

\* `machine list`, `machine add` and `machine remove` of either program.
saved == machines

add(h) ==
    /\ machines' = [machines EXCEPT ![h] = h]
    /\ by' = [by EXCEPT ![h] = "worker"]

remove(n) ==
    /\ machines' = [machines EXCEPT ![n] = Nothing]
    /\ by' = [by EXCEPT ![n] = Nothing]

\* A listing has the machine added for h as it was: its name for its target.  What
\* identifies a registration of herdr-core is all it says.
owns(listing, h) == listing[h] = h

\* The loop over hosts goes on.
next_host == [worker EXCEPT !.at = IF at("poll") \/ at("adding") \/ at("added") THEN "poll" ELSE "prune",
                            !.todo = Tail(@)]

----------------------------------------------------------------------------
(* The worker's life: lifecycle.rs worker, app.rs worker.                    *)

\* The lock is an OS lock: a second candidate ends at once.  What a worker knew
\* of absences and retries was in its memory.
try_lock == at("none")

Start ==
    /\ try_lock
    /\ legacy \/ enabled
    /\ worker' = sleep
    /\ retry' = nothing_tried
    /\ missing' = no_absence
    /\ absent' = no_absence
    /\ report' = [report EXCEPT !.new = TRUE]
    /\ UNCHANGED <<fixed, registry, file, exporter, enabled, dismissed, raced, orphaned, budget>>

\* Exporter::ensure leaves an exporter that runs alone, whoever started it.
ensured == IF exporter = Nothing THEN "worker" ELSE exporter

\* Exporter::stop ends the exporter this worker started, and no other; it takes
\* its report back.
stop_exporter ==
    /\ exporter' = IF exporter = "worker" THEN Nothing ELSE exporter
    /\ report' = IF exporter = "worker" THEN withdrawn ELSE report

reset_absences == no_absence

\* One turn of the loop: the exporter runs and its report is read; a report that
\* is missing, stale or from the future is an error.
Check ==
    /\ at("sleep") /\ enabled
    /\ exporter' = ensured
    /\ IF report.fresh
       THEN /\ worker' = [idle EXCEPT !.at = "begin", !.report = report, !.current = TRUE]
            /\ absent' = [h \in Hosts |->
                 IF ~report.complete \/ h \in report.hosts THEN 0
                 ELSE IF report.new /\ absent[h] < MISSES THEN absent[h] + 1 ELSE absent[h]]
            /\ UNCHANGED missing
       ELSE /\ missing' = reset_absences
            /\ absent' = no_absence
            /\ UNCHANGED worker
    /\ UNCHANGED <<fixed, registry, file, report, enabled, retry, dismissed, raced, orphaned, budget>>

\* A disabled legacy plugin keeps a dormant worker.
Dormant ==
    /\ legacy /\ at("sleep") /\ ~enabled
    /\ stop_exporter
    /\ missing' = reset_absences
    /\ absent' = no_absence
    /\ UNCHANGED <<fixed, registry, file, enabled, worker, retry, dismissed, raced, orphaned, budget>>

\* Where a kill loses what the registry was just told.
caught == IF at("added") \/ at("removed") THEN {head} ELSE {}

end_worker ==
    /\ worker' = idle
    /\ retry' = nothing_tried
    /\ missing' = no_absence
    /\ absent' = no_absence
    /\ orphaned' = orphaned \cup caught
    /\ UNCHANGED <<fixed, registry, file, enabled, dismissed, raced>>

\* until_inactive or a signal drops the check wherever it is.
Stop ==
    /\ ~at("none")
    /\ \/ ~legacy /\ ~enabled /\ UNCHANGED budget
       \/ spend("faults", MAX_FAULTS)
    /\ stop_exporter
    /\ end_worker

\* A reinstall put another executable in place: the worker that finds it makes
\* room for the new one.
Reinstalled ==
    /\ legacy /\ at("sleep")
    /\ spend("user", MAX_USER)
    /\ stop_exporter
    /\ end_worker

\* SIGKILL: the exporter is in a process group of its own and outlives the worker;
\* to the next worker it is somebody else's.
Kill ==
    /\ ~at("none")
    /\ spend("faults", MAX_FAULTS)
    /\ exporter' = IF exporter = "worker" THEN "user" ELSE exporter
    /\ end_worker
    /\ UNCHANGED report

----------------------------------------------------------------------------
(* Reconciler::check and poll                                                *)

\* Mutant: a report counts again at every check.
distinct_report_any == TRUE

\* The generation differs from the one the last finished check had.
distinct_report == worker.report.new

\* Mutant: hosts are tried in the order of the report.
candidates_in_order(hosts) == {SetToSeq(hosts)}

\* When a host may be tried again: nothing recorded comes before any deadline, and
\* deadlines that have passed before those that have not.
deadline(h) ==
    IF h \in retry.cooling THEN Len(retry.due) + 1
    ELSE Max({0} \cup {i \in DOMAIN retry.due : retry.due[i] = h})

\* Hosts never tried come first, then those that are due, oldest first.
candidates(hosts) ==
    {order \in SetToSeqs(hosts) :
        \A i, j \in DOMAIN order : i < j => deadline(order[i]) <= deadline(order[j])}

\* A listing fails: so does the check, and absences count from none again.
ListFails ==
    /\ at("begin") \/ (at("poll") /\ worker.todo = <<>> /\ worker.report.complete /\ distinct_report)
    /\ spend("faults", MAX_FAULTS)
    /\ worker' = sleep
    /\ missing' = reset_absences
    /\ absent' = no_absence
    /\ UNCHANGED <<fixed, registry, file, report, exporter, enabled, retry, dismissed, raced, orphaned>>

Poll ==
    /\ at("begin")
    /\ \E order \in candidates(worker.report.hosts) :
         worker' = [worker EXCEPT !.at = "poll", !.listed = saved, !.todo = order]
    /\ retry' = [cooling |-> retry.cooling \cap worker.report.hosts,
                 due |-> SelectSeq(retry.due, LAMBDA h : h \in worker.report.hosts)]
    /\ UNCHANGED <<fixed, registry, file, report, exporter, enabled, missing, ghosts>>

\* A machine of this host: by its identity, or by its label if no other host of
\* the report has it.
registered(h) ==
    \E n \in Names : \/ worker.listed[n] = h
                     \/ worker.listed[n] = Label /\ worker.report.hosts = {h}

Skip ==
    /\ at("poll") /\ worker.todo # <<>>
    /\ \/ head \in file.seen
       \/ ~registered(head) /\ (worker.attempts >= MAX_ATTEMPTS \/ head \in retry.cooling)
    /\ worker' = next_host
    /\ UNCHANGED <<fixed, registry, file, report, exporter, enabled, retry, missing, ghosts>>

\* A machine that is already there is remembered, never owned.
remembered(h) == [file EXCEPT !.seen = @ \cup {h}]

Remember ==
    /\ at("poll") /\ worker.todo # <<>>
    /\ head \notin file.seen /\ registered(head)
    /\ file' = remembered(head)
    /\ worker' = next_host
    /\ UNCHANGED <<fixed, registry, report, exporter, enabled, retry, missing, ghosts>>

\* Core::enroll lists the machines again: one registered meanwhile is left alone.
free_for(h) == legacy \/ (saved[h] = Nothing /\ \A n \in Names : saved[n] # h)

\* The tunnel of the host is set up: ssh would go through the exporter's proxy.
ready(h) == h \notin down

\* The deadline of the next attempt is set before this one.
Attempt ==
    /\ at("poll") /\ worker.todo # <<>>
    /\ head \notin file.seen /\ ~registered(head)
    /\ worker.attempts < MAX_ATTEMPTS /\ head \notin retry.cooling
    /\ retry' = [cooling |-> retry.cooling \cup {head},
                 due |-> SelectSeq(retry.due, LAMBDA h : h # head)]
    /\ worker' = [(IF ready(head) /\ free_for(head) THEN [worker EXCEPT !.at = "adding"] ELSE next_host)
                    EXCEPT !.attempts = @ + 1]
    /\ UNCHANGED <<fixed, registry, file, report, exporter, enabled, missing, ghosts>>

\* External: `machine add` saves the machine once the remote is prepared.
AddMachine ==
    /\ at("adding")
    /\ machines[head] = Nothing
    /\ add(head)
    /\ worker' = [worker EXCEPT !.at = "added"]
    /\ UNCHANGED <<fixed, file, report, exporter, enabled, retry, missing, ghosts>>

AddFails ==
    /\ at("adding")
    /\ \/ machines[head] # Nothing /\ UNCHANGED budget
       \/ spend("faults", MAX_FAULTS)
    /\ worker' = next_host
    /\ UNCHANGED <<fixed, registry, file, report, exporter, enabled, retry, missing, absent, dismissed, raced, orphaned>>

\* The answer does not say which machine was saved, or the command ran too long
\* after it: nothing is claimed.
AddedUnproven ==
    /\ at("added")
    /\ spend("faults", MAX_FAULTS)
    /\ worker' = next_host
    /\ orphaned' = orphaned \cup caught
    /\ UNCHANGED <<fixed, registry, file, report, exporter, enabled, retry, missing, absent, dismissed, raced>>

\* Ownership is saved before anything else is tried.
RecordAdd ==
    /\ at("added")
    /\ file' = [seen |-> file.seen \cup {head}, managed |-> file.managed \cup {head}]
    /\ worker' = next_host
    /\ UNCHANGED <<fixed, registry, report, exporter, enabled, retry, missing, ghosts>>

RetryDue(h) ==
    /\ h \in retry.cooling
    /\ retry' = [cooling |-> retry.cooling \ {h}, due |-> Append(retry.due, h)]
    /\ UNCHANGED <<fixed, registry, file, report, exporter, enabled, worker, missing, ghosts>>

----------------------------------------------------------------------------
(* Reconciler::prune                                                         *)

finish ==
    /\ worker' = sleep
    /\ report' = [report EXCEPT !.new = @ /\ ~worker.current]

Prune ==
    /\ at("poll") /\ worker.todo = <<>>
    /\ IF worker.report.complete /\ distinct_report
       THEN /\ \E order \in SetToSeqs(file.managed) :
                 worker' = [worker EXCEPT !.at = "prune", !.listed = saved, !.todo = order]
            /\ missing' = [h \in Hosts |-> IF h \in file.managed THEN missing[h] ELSE 0]
            /\ UNCHANGED report
       ELSE /\ missing' = IF worker.report.complete THEN missing ELSE reset_absences
            /\ finish
    /\ UNCHANGED <<fixed, registry, file, exporter, enabled, retry, ghosts>>

\* A machine the user removed or replaced is not the worker's any more; its host
\* stays dealt with.
Disown ==
    /\ at("prune") /\ worker.todo # <<>>
    /\ ~owns(worker.listed, head)
    /\ file' = [file EXCEPT !.managed = @ \ {head}]
    /\ missing' = [missing EXCEPT ![head] = 0]
    /\ worker' = next_host
    /\ UNCHANGED <<fixed, registry, report, exporter, enabled, retry, ghosts>>

\* Mutant: the mod removes what has the name without another look.
unchanged_machine_any(h) == TRUE

\* Core::remove lists the machines again before it removes by name.
unchanged_machine(h) == legacy \/ owns(saved, h)

Count ==
    LET misses == IF missing[head] < MISSES THEN missing[head] + 1 ELSE MISSES
    IN  /\ at("prune") /\ worker.todo # <<>>
        /\ owns(worker.listed, head)
        /\ IF head \in worker.report.hosts
           THEN missing' = [missing EXCEPT ![head] = 0] /\ worker' = next_host
           ELSE /\ missing' = [missing EXCEPT ![head] = misses]
                /\ worker' = IF misses = MISSES /\ unchanged_machine(head)
                             THEN [worker EXCEPT !.at = "removing"] ELSE next_host
        /\ raced' = FALSE
        /\ UNCHANGED <<fixed, registry, file, report, exporter, enabled, retry, absent, dismissed, orphaned, budget>>

\* External: `machine remove` by the identifier, `machine rm` by the name.
RemoveMachine ==
    /\ at("removing")
    /\ machines[head] # Nothing
    /\ remove(head)
    /\ worker' = [worker EXCEPT !.at = "removed"]
    /\ UNCHANGED <<fixed, file, report, exporter, enabled, retry, missing, ghosts>>

RemoveFails ==
    /\ at("removing")
    /\ \/ machines[head] = Nothing /\ UNCHANGED budget
       \/ spend("faults", MAX_FAULTS)
    /\ worker' = next_host
    /\ UNCHANGED <<fixed, registry, file, report, exporter, enabled, retry, missing, absent, dismissed, raced, orphaned>>

RecordRemove ==
    /\ at("removed")
    /\ file' = [seen |-> file.seen \ {head}, managed |-> file.managed \ {head}]
    /\ missing' = [missing EXCEPT ![head] = 0]
    /\ retry' = [cooling |-> retry.cooling \ {head},
                 due |-> SelectSeq(retry.due, LAMBDA h : h # head)]
    /\ worker' = next_host
    /\ UNCHANGED <<fixed, registry, report, exporter, enabled, ghosts>>

PruneEnds ==
    /\ at("prune") /\ worker.todo = <<>>
    /\ finish
    /\ UNCHANGED <<fixed, registry, file, exporter, enabled, retry, missing, ghosts>>

----------------------------------------------------------------------------
(* The exporter, the user, the publishers.                                   *)

\* Every report has a generation of its own, even if it says the same.  (One that
\* says the same as one not yet finished with is the same as one just after.)
Report ==
    /\ exporter # Nothing
    /\ \E complete \in BOOLEAN, hosts \in SUBSET Hosts :
         /\ report' = written(complete, hosts)
         /\ IF complete = report.complete /\ hosts = report.hosts
            THEN ~(report.new /\ report.fresh) /\ UNCHANGED budget
            ELSE spend("flips", MAX_FLIPS)
    /\ worker' = [worker EXCEPT !.current = FALSE]
    /\ UNCHANGED <<fixed, registry, file, exporter, enabled, retry, missing, absent, dismissed, raced, orphaned>>

\* Ninety seconds without an exporter.
Stale ==
    /\ exporter = Nothing /\ report.fresh
    /\ report' = [report EXCEPT !.fresh = FALSE]
    /\ UNCHANGED <<fixed, registry, file, exporter, enabled, worker, retry, missing, ghosts>>

\* The hosts whose machine n is: the one it leads to, or those the worker took it
\* for by their label, a listing it still works on included.
stands_for(n) ==
    IF machines[n] # Label THEN {machines[n]} \cap Hosts
    ELSE {h \in Hosts : \/ h \in file.seen \ file.managed
                        \/ at("poll") /\ worker.listed[n] = Label /\ worker.report.hosts = {h}}

\* Removing a machine whose host the worker dealt with is a decision about the
\* host, unless another one stands for it or the worker is just removing it itself;
\* registering one for the host again withdraws it.
dismiss(n, target) ==
    LET gone == IF machines[n] = target THEN {} ELSE stands_for(n)
        known == {h \in gone \cap file.seen :
                    /\ \A m \in Names \ {n} : machines[m] \notin {h, machines[n]}
                    /\ ~(worker.at \in {"removing", "removed"} /\ h = head)}
    IN  dismissed' = [known |-> (dismissed.known \cup known) \ {target},
                      ever |-> dismissed.ever \cup gone]

\* The user registers a machine, in place of the one that had the name.  Herdr's
\* identifiers are its own; herdr-core lets the user take any name.
UserAdds(n, target) ==
    /\ spend("user", MAX_USER)
    /\ legacy => n = Mine
    /\ machines' = [machines EXCEPT ![n] = target]
    /\ by' = [by EXCEPT ![n] = "user"]
    /\ dismiss(n, target)
    /\ raced' = (raced \/ (at("removing") /\ n = head))
    /\ UNCHANGED <<fixed, file, report, exporter, enabled, worker, retry, missing, absent, orphaned>>

UserRemoves(n) ==
    /\ spend("user", MAX_USER)
    /\ machines[n] # Nothing
    /\ remove(n)
    /\ dismiss(n, Nothing)
    /\ UNCHANGED <<fixed, file, report, exporter, enabled, worker, retry, missing, absent, raced, orphaned>>

\* Pause, unload, disable; and back.
Switch ==
    /\ IF enabled THEN spend("user", MAX_USER) ELSE UNCHANGED budget
    /\ enabled' = ~enabled
    /\ UNCHANGED <<fixed, registry, file, report, exporter, worker, retry, missing, absent, dismissed, raced, orphaned>>

\* The user's own exporter.
UserExports ==
    /\ spend("user", MAX_USER)
    /\ exporter' = IF exporter = Nothing THEN "user" ELSE Nothing
    /\ UNCHANGED <<fixed, registry, file, report, enabled, worker, retry, missing, absent, dismissed, raced, orphaned>>

----------------------------------------------------------------------------
Worker ==
    \/ Start \/ Check \/ Dormant \/ Poll \/ Skip \/ Remember \/ Attempt \/ AddMachine \/ RecordAdd
    \/ Prune \/ Disown \/ Count \/ RemoveMachine \/ RecordRemove \/ PruneEnds

Failures == Stop \/ Kill \/ ListFails \/ AddFails \/ AddedUnproven \/ RemoveFails

User ==
    \/ Switch \/ UserExports \/ Reinstalled
    \/ \E n \in Names : UserRemoves(n) \/ \E target \in Hosts \cup {Label} : UserAdds(n, target)

Next == Worker \/ Failures \/ User \/ Report \/ Stale \/ \E h \in Hosts : RetryDue(h)

Spec == Init /\ [][Next]_vars

\* The worker goes on, failed commands return, cool-downs end and an exporter
\* that runs writes its next report.
FairSpec ==
    /\ Spec
    /\ WF_vars(Worker) /\ WF_vars(AddFails \/ AddedUnproven \/ RemoveFails) /\ WF_vars(Report)
    /\ \A h \in Hosts : WF_vars(RetryDue(h))

----------------------------------------------------------------------------
(* Properties.                                                               *)

\* The worker removes only machines it registered itself, except one that takes
\* the name in the instant between herdr-core's last listing and the removal or
\* that has the very contents of the worker's; and it never brings back a
\* machine the user removed (prune, poll, Core::remove).
UsersChoicesStand ==
    [][/\ RemoveMachine => by[head] = "worker" \/ machines[head] = head \/ raced
       /\ AddMachine => head \notin dismissed.known]_vars

\* A machine is removed only after three complete reports in a row, of three
\* different generations and read by one worker, that lack its host: a partial or
\* stale report, a failed listing, a restart or a pause starts the count again.
RemovedAfterThreeAbsences == at("removing") => absent[head] >= MISSES

\* What else may have become of a host: the user removed a machine that stood for
\* it, by its identity or by its label (discovery.rs:125-134), has one with its
\* label, or has given its name to another; or a kill caught the host between a
\* command and its record.
dealt_with(h) ==
    \/ h \in dismissed.ever \cup orphaned
    \/ \E n \in Names : machines[n] = Label /\ (h \in file.seen \/ report.hosts = {h})
    \/ machines[h] # Nothing

\* Every host that stays in the reports and can be registered gets a machine, or
\* was dealt with: the ones that cannot be registered never keep the worker from
\* the others (Reconciler::poll).
HostsGetListed ==
    \A h \in Hosts :
        []<>( \/ h \in {machines[n] : n \in Names}
              \/ h \in down \/ h \notin report.hosts \/ ~enabled
              \/ dealt_with(h) )
=============================================================================
