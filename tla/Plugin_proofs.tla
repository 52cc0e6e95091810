------------------------------ MODULE Plugin_proofs ------------------------------
(***************************************************************************)
(* Proofs about Plugin, for any finite set of hosts, any threshold and any    *)
(* bounds: what the worker may remove, and what it never brings back.         *)
(***************************************************************************)
EXTENDS Plugin, FunctionTheorems, FiniteSetTheorems, SequenceTheorems, TLAPS

Polling == {"begin", "poll", "adding", "added"}
Pruning == {"prune", "removing", "removed"}

Reports == [fresh : BOOLEAN, complete : BOOLEAN, hosts : SUBSET Hosts, new : BOOLEAN]

\* Orders in which a loop goes over hosts: none comes twice.
Orders == {s \in Seq(Hosts) : \A i, j \in 1..Len(s) : s[i] = s[j] => i = j}

Listings == [Names -> Hosts \cup {Label, Nothing}]

WorkerState ==
    [at : {"none", "sleep"} \cup Polling \cup Pruning, report : Reports \cup {Nothing},
     current : BOOLEAN, listed : Listings \cup {Nothing}, todo : Orders, attempts : Nat]

\* The hosts a pass over the owned machines has still to look at.
Left == {worker.todo[i] : i \in (IF at("prune") THEN 1 ELSE 2)..Len(worker.todo)}

least(a, b) == IF a < b THEN a ELSE b

----------------------------------------------------------------------------
(* Absences.                                                                 *)

PluginType ==
    /\ worker \in WorkerState
    /\ worker.at \in Polling \cup Pruning => worker.report \in Reports
    /\ worker.at \in {"adding", "added", "removing", "removed"} => worker.todo # <<>>
    /\ machines \in Listings
    /\ file.managed \subseteq Hosts /\ file \in [seen : SUBSET Hosts, managed : SUBSET Hosts]
    /\ report \in Reports
    /\ missing \in [Hosts -> Nat] /\ absent \in [Hosts -> Nat]

\* The report a check works on is the one there is, or there is a newer one, and
\* the next check counts it.
ReportInv ==
    worker.at \in Polling \cup Pruning =>
        IF worker.current
        THEN /\ worker.report.complete = report.complete
             /\ worker.report.hosts = report.hosts
             /\ worker.report.new = report.new
        ELSE report.new

\* A host of the report the worker is done with has no absences.
DoneInv == ~report.new /\ report.complete => \A h \in report.hosts : missing[h] = 0

\* Between two checks the worker counts no more absences than there were.
SleepInv == worker.at \in {"none", "sleep"} => \A h \in Hosts : missing[h] <= absent[h]

\* A check of a report that counts has not counted it yet.
PollInv ==
    worker.at \in Polling /\ worker.report.complete =>
        \A h \in Hosts :
            IF worker.report.new
            THEN h \notin worker.report.hosts => least(missing[h] + 1, MISSES) <= absent[h]
            ELSE missing[h] <= absent[h]

\* The pass over the owned machines counts the report once for each of them.
PruneInv ==
    worker.at \in Pruning =>
        /\ worker.report.complete /\ worker.report.new
        /\ \A h \in Hosts :
             IF h \in worker.report.hosts THEN h \in Left \/ missing[h] = 0
             ELSE IF h \in Left THEN least(missing[h] + 1, MISSES) <= absent[h]
             ELSE missing[h] <= absent[h]
        /\ at("removing") => absent[head] >= MISSES

AbsenceInv == PluginType /\ ReportInv /\ DoneInv /\ SleepInv /\ PollInv /\ PruneInv

----------------------------------------------------------------------------
(* What the user decided.                                                    *)

\* The identifiers of Herdr are the worker's own; herdr-core's name was the
\* worker's a moment ago.
OwnedInv ==
    /\ legacy => \A h \in Hosts : machines[h] \in {h, Nothing}
    /\ at("removing") => machines[head] \in {head, Nothing} \/ raced

\* A host the user dismissed stays among the ones dealt with, and without a
\* machine; what is being registered is not, and what is being removed is forgotten
\* only if the user has not decided about it.
DismissedInv ==
    /\ dismissed.known \subseteq file.seen \ {Nothing}
    /\ \A h \in dismissed.known, n \in Names : machines[n] # h
    /\ at("adding") => head \notin file.seen
    /\ at("removed") => head \notin dismissed.known
    /\ at("removing") /\ (legacy => machines[head] # Nothing) => head \notin dismissed.known

ChoiceInv == PluginType /\ OwnedInv /\ DismissedInv

----------------------------------------------------------------------------
(* Orders of hosts and the records of the worker.                            *)

LEMMA EmptyOrder == <<>> \in Orders
  BY DEF Orders

LEMMA IdleType ==
    /\ idle \in WorkerState /\ idle.at = "none" /\ idle.current = FALSE /\ idle.todo = <<>>
    /\ sleep \in WorkerState /\ sleep.at = "sleep" /\ sleep.current = FALSE /\ sleep.todo = <<>>
  <1>1. idle \in WorkerState /\ idle.at = "none" /\ idle.current = FALSE /\ idle.todo = <<>>
    BY EmptyOrder DEF idle, WorkerState
  <1> QED BY <1>1 DEF sleep, WorkerState

\* What a loop has left after its first host.
LEMMA TailOrder ==
    ASSUME NEW s \in Orders, s # <<>>
    PROVE  /\ Head(s) \in Hosts /\ Head(s) = s[1] /\ Tail(s) \in Orders
           /\ {Tail(s)[i] : i \in 1..Len(Tail(s))} = {s[i] : i \in 2..Len(s)}
           /\ {s[i] : i \in 1..Len(s)} = {Head(s)} \cup {s[i] : i \in 2..Len(s)}
           /\ Head(s) \notin {s[i] : i \in 2..Len(s)}
  <1>1. s \in Seq(Hosts) /\ \A i, j \in 1..Len(s) : s[i] = s[j] => i = j
    BY DEF Orders
  <1>2. /\ Head(s) \in Hosts /\ Head(s) = s[1] /\ Tail(s) \in Seq(Hosts)
        /\ Len(s) \in Nat \ {0} /\ Len(Tail(s)) = Len(s) - 1
        /\ \A i \in 1..Len(Tail(s)) : Tail(s)[i] = s[i + 1]
    BY <1>1, HeadTailProperties, EmptySeq, LenProperties
  <1>3. Tail(s) \in Orders
    <2> SUFFICES ASSUME NEW i \in 1..Len(Tail(s)), NEW j \in 1..Len(Tail(s)), Tail(s)[i] = Tail(s)[j]
                 PROVE  i = j
      BY <1>2 DEF Orders
    <2>1. i + 1 \in 1..Len(s) /\ j + 1 \in 1..Len(s) /\ s[i + 1] = s[j + 1]
      BY <1>2
    <2>2. i + 1 = j + 1
      BY <1>1, <2>1
    <2> QED BY <2>2
  <1>4. \A h : (\E i \in 1..Len(Tail(s)) : h = Tail(s)[i]) <=> (\E i \in 2..Len(s) : h = s[i])
    <2> TAKE h
    <2>1. ASSUME NEW i \in 1..Len(Tail(s)), h = Tail(s)[i] PROVE \E j \in 2..Len(s) : h = s[j]
      <3>1. i + 1 \in 2..Len(s) /\ h = s[i + 1]
        BY <1>2, <2>1
      <3> QED BY <3>1
    <2>2. ASSUME NEW j \in 2..Len(s), h = s[j] PROVE \E i \in 1..Len(Tail(s)) : h = Tail(s)[i]
      <3>1. j - 1 \in 1..Len(Tail(s)) /\ h = Tail(s)[j - 1]
        BY <1>2, <2>2
      <3> QED BY <3>1
    <2> QED BY <2>1, <2>2
  <1>5. {s[i] : i \in 1..Len(s)} = {Head(s)} \cup {s[i] : i \in 2..Len(s)}
    <2>1. 1..Len(s) = {1} \cup 2..Len(s)
      BY <1>2
    <2> QED BY <1>2, <2>1
  <1>6. Head(s) \notin {s[i] : i \in 2..Len(s)}
    BY <1>1, <1>2
  <1> QED BY <1>2, <1>3, <1>4, <1>5, <1>6

\* An order of a finite set goes over all of it.
LEMMA OrderOfSet ==
    ASSUME NEW S \in SUBSET Hosts, NEW s \in SetToSeqs(S)
    PROVE  s \in Orders /\ {s[i] : i \in 1..Len(s)} = S
  <1> DEFINE n == Cardinality(S)
  <1>1. IsFiniteSet(S) /\ n \in Nat
    BY PluginNames, FS_Subset, FS_CardinalityType
  <1>2. s \in [1..n -> S] /\ \A i, j \in 1..n : i # j => s[i] # s[j]
    BY DEF SetToSeqs
  <1>3. s \in Injection(1..n, S)
    BY <1>2 DEF Injection, IsInjective
  <1>4. Cardinality(1..n) = n
    BY <1>1, FS_Interval
  <1>5. s \in Surjection(1..n, S)
    BY <1>1, <1>3, <1>4, FS_Injection
  <1>6. s \in Seq(Hosts) /\ Len(s) = n
    BY <1>1, <1>2
  <1> HIDE DEF n
  <1>7. s \in Orders
    BY <1>2, <1>6 DEF Orders
  <1>8. \A h \in S : \E i \in 1..n : s[i] = h
    BY <1>5 DEF Surjection
  <1> QED BY <1>2, <1>6, <1>7, <1>8

----------------------------------------------------------------------------
(* Every step keeps the types.                                               *)

\* Where the loops put the worker.
LEMMA NextHost ==
    ASSUME PluginType, worker.todo # <<>>, worker.at \in Polling \cup Pruning
    PROVE  /\ next_host \in WorkerState /\ head \in Hosts
           /\ next_host.at = (IF worker.at \in Pruning THEN "prune" ELSE
                              IF at("begin") THEN "prune" ELSE "poll")
           /\ next_host.report = worker.report /\ next_host.current = worker.current
           /\ next_host.todo = Tail(worker.todo)
  <1>1. worker \in WorkerState /\ worker.todo \in Orders
    BY DEF PluginType, WorkerState
  <1>2. Tail(worker.todo) \in Orders /\ Head(worker.todo) \in Hosts
    BY <1>1, TailOrder
  <1> QED BY <1>1, <1>2 DEF next_host, head, at, WorkerState, Polling, Pruning

LEMMA ReportsType == withdrawn \in Reports /\ withdrawn.new = TRUE /\ withdrawn.complete = FALSE
  BY DEF withdrawn, written, Reports

LEMMA InitTypes == Init => AbsenceInv /\ ChoiceInv
  <1> SUFFICES ASSUME Init PROVE AbsenceInv /\ ChoiceInv
    OBVIOUS
  <1>1. report \in Reports /\ report.new = TRUE
    <2>1. PICK hosts \in SUBSET Hosts : report = written(TRUE, hosts)
      BY Zenon DEF Init
    <2> QED BY <2>1 DEF written, Reports
  <1>2. worker \in WorkerState /\ worker.at = "none" /\ worker.todo = <<>>
    BY IdleType DEF Init
  <1>3. /\ machines \in Listings /\ \A n \in Names : machines[n] = Nothing
        /\ missing \in [Hosts -> Nat] /\ absent \in [Hosts -> Nat]
        /\ \A h \in Hosts : missing[h] = 0 /\ absent[h] = 0
    BY DEF Init, Listings, no_absence
  <1>4. /\ file \in [seen : SUBSET Hosts, managed : SUBSET Hosts]
        /\ file.managed \subseteq Hosts /\ dismissed.known = {}
    BY DEF Init
  <1>5. PluginType
    BY <1>1, <1>2, <1>3, <1>4 DEF PluginType, Polling, Pruning
  <1>6. ReportInv /\ PollInv /\ PruneInv
    BY <1>2 DEF ReportInv, PollInv, PruneInv, Polling, Pruning
  <1>7. DoneInv /\ SleepInv
    BY <1>1, <1>3 DEF DoneInv, SleepInv
  <1>8. OwnedInv /\ DismissedInv
    BY <1>2, <1>3, <1>4 DEF OwnedInv, DismissedInv, at, Names
  <1> QED BY <1>5, <1>6, <1>7, <1>8 DEF AbsenceInv, ChoiceInv

LEMMA TypeStep ==
    ASSUME PluginType, [Next]_vars
    PROVE  PluginType'
  <1>0. /\ worker \in WorkerState /\ worker.todo \in Orders
        /\ machines \in Listings /\ file \in [seen : SUBSET Hosts, managed : SUBSET Hosts]
        /\ report \in Reports /\ missing \in [Hosts -> Nat] /\ absent \in [Hosts -> Nat]
        /\ MISSES \in Nat
        /\ no_absence \in [Hosts -> Nat]
    BY PluginBounds DEF PluginType, WorkerState, no_absence
  <1>1. CASE Start
    <2>1. worker' = sleep /\ machines' = machines /\ file' = file
          /\ report' = [report EXCEPT !.new = TRUE] /\ missing' = no_absence /\ absent' = no_absence
      BY <1>1, Zenon DEF Start, registry
    <2>2. report' \in Reports
      BY <1>0, <2>1 DEF Reports
    <2> QED BY <1>0, <2>1, <2>2, IdleType DEF PluginType, Polling, Pruning
  <1>2. CASE Check
    <2>1. /\ machines' = machines /\ file' = file /\ report' = report
          /\ \/ /\ worker' = [idle EXCEPT !.at = "begin", !.report = report, !.current = TRUE]
                /\ missing' = missing
             \/ worker' = worker /\ missing' = no_absence
      BY <1>2 DEF Check, registry, reset_absences
    <2>2. absent' \in [Hosts -> Nat]
      BY <1>0, <1>2 DEF Check
    <2>3. CASE worker' = worker /\ missing' = no_absence
      BY <1>0, <2>1, <2>2, <2>3 DEF PluginType
    <2>4. CASE /\ worker' = [idle EXCEPT !.at = "begin", !.report = report, !.current = TRUE]
               /\ missing' = missing
      <3>1. worker' \in WorkerState /\ worker'.at = "begin" /\ worker'.report = report
        BY <1>0, <2>4, IdleType DEF WorkerState, Polling
      <3> QED BY <1>0, <2>1, <2>2, <2>4, <3>1 DEF PluginType
    <2> QED BY <2>1, <2>3, <2>4
  <1>3. CASE Dormant \/ Stop \/ Reinstalled \/ Kill
    <2>1. /\ machines' = machines /\ file' = file
          /\ worker' = worker \/ worker' = idle
          /\ missing' = no_absence /\ absent' = no_absence
          /\ report' = report \/ report' = withdrawn
      BY <1>3 DEF Dormant, Stop, Reinstalled, Kill, end_worker, stop_exporter, reset_absences, registry
    <2> QED BY <1>0, <2>1, IdleType, ReportsType DEF PluginType, Polling, Pruning
  <1>4. CASE ListFails
    <2>1. /\ machines' = machines /\ file' = file /\ worker' = sleep
          /\ missing' = no_absence /\ absent' = no_absence /\ report' = report
      BY <1>4 DEF ListFails, reset_absences, registry
    <2> QED BY <1>0, <2>1, IdleType DEF PluginType, Polling, Pruning
  <1>5. CASE Poll
    <2>1. PICK order \in candidates(worker.report.hosts) :
            worker' = [worker EXCEPT !.at = "poll", !.listed = saved, !.todo = order]
      BY <1>5, Zenon DEF Poll
    <2>2. at("begin") /\ UNCHANGED <<machines, file, report, missing, absent>>
      BY <1>5, Zenon DEF Poll, registry, ghosts
    <2>3. worker.report \in Reports
      BY <2>2 DEF PluginType, Polling, at
    <2>4. order \in Orders
      BY <2>1, <2>3, OrderOfSet DEF candidates, Reports
    <2>5. worker' \in WorkerState /\ worker'.at = "poll" /\ worker'.report = worker.report
      BY <1>0, <2>1, <2>4 DEF WorkerState, saved, Polling
    <2> QED BY <1>0, <2>2, <2>3, <2>5 DEF PluginType
  <1>6. CASE Skip \/ AddFails \/ AddedUnproven \/ RemoveFails
    <2>1. /\ worker' = next_host /\ UNCHANGED <<machines, file, report, missing, absent>>
          /\ worker.todo # <<>> /\ worker.at \in Polling \cup Pruning
      BY <1>6 DEF Skip, AddFails, AddedUnproven, RemoveFails, registry, ghosts, at, Polling, Pruning,
         PluginType
    <2> QED BY <1>0, <2>1, NextHost DEF PluginType, Polling, Pruning
  <1>7. CASE Remember \/ RecordAdd
    <2>1. /\ worker' = next_host /\ UNCHANGED <<machines, report, missing, absent>>
          /\ worker.todo # <<>> /\ worker.at \in Polling \cup Pruning
      BY <1>7 DEF Remember, RecordAdd, registry, ghosts, at, Polling, Pruning, PluginType
    <2>2. head \in Hosts
      BY <2>1, NextHost
    <2>3. file' \in [seen : SUBSET Hosts, managed : SUBSET Hosts]
      <3>1. \/ file' = [file EXCEPT !.seen = @ \cup {head}]
            \/ file' = [seen |-> file.seen \cup {head}, managed |-> file.managed \cup {head}]
        BY <1>7, Zenon DEF Remember, RecordAdd, remembered
      <3> QED BY <1>0, <2>2, <3>1
    <2> QED BY <1>0, <2>1, <2>3, NextHost DEF PluginType, Polling, Pruning
  <1>8. CASE Attempt
    <2>1. /\ worker' = [(IF ready(head) /\ free_for(head) THEN [worker EXCEPT !.at = "adding"] ELSE next_host)
                    EXCEPT !.attempts = @ + 1]
          /\ UNCHANGED <<machines, file, report, missing, absent>>
          /\ worker.todo # <<>> /\ worker.at = "poll"
      BY <1>8, Zenon DEF Attempt, registry, ghosts, at
    <2>2. /\ worker' \in WorkerState
          /\ worker'.at = "poll" \/ (worker'.at = "adding" /\ worker'.todo = worker.todo)
          /\ worker'.report = worker.report
      <3>1. next_host \in WorkerState /\ next_host.at = "poll" /\ next_host.report = worker.report
        BY <2>1, NextHost DEF Polling, Pruning, at
      <3> HIDE DEF next_host
      <3>2. CASE ready(head) /\ free_for(head)
        <4> DEFINE w == [worker EXCEPT !.at = "adding"]
        <4>1. w \in WorkerState /\ w.at = "adding" /\ w.todo = worker.todo /\ w.report = worker.report
          BY <1>0 DEF WorkerState, Polling
        <4>2. worker' = [w EXCEPT !.attempts = @ + 1]
          BY <2>1, <3>2
        <4> HIDE DEF w
        <4> QED BY <4>1, <4>2 DEF WorkerState
      <3>3. CASE ~(ready(head) /\ free_for(head))
        BY <2>1, <3>1, <3>3 DEF WorkerState
      <3> QED BY <3>2, <3>3
    <2> QED BY <1>0, <2>1, <2>2 DEF PluginType, Polling, Pruning
  <1>9. CASE AddMachine \/ RemoveMachine
    <2>1. /\ worker' = [worker EXCEPT !.at = "added"] \/ worker' = [worker EXCEPT !.at = "removed"]
          /\ UNCHANGED <<file, report, missing, absent>>
          /\ worker.todo # <<>> /\ worker.at \in Polling \cup Pruning
          /\ \/ machines' = [machines EXCEPT ![head] = head]
             \/ machines' = [machines EXCEPT ![head] = Nothing]
      BY <1>9 DEF AddMachine, RemoveMachine, add, remove, ghosts, at, Polling, Pruning, PluginType
    <2>2. head \in Hosts
      BY <2>1, NextHost
    <2>3. machines' \in Listings
      BY <1>0, <2>1, <2>2 DEF Listings, Names
    <2>4. worker' \in WorkerState /\ worker'.todo = worker.todo /\ worker'.report = worker.report
      BY <1>0, <2>1 DEF WorkerState, Polling, Pruning
    <2> QED BY <1>0, <2>1, <2>3, <2>4 DEF PluginType
  <1>10. CASE Prune
    <2>1. /\ UNCHANGED <<machines, file, absent>> /\ at("poll")
      BY <1>10 DEF Prune, registry, ghosts
    <2>2. missing' \in [Hosts -> Nat]
      <3>1. \/ missing' = [h \in Hosts |-> IF h \in file.managed THEN missing[h] ELSE 0]
            \/ missing' = missing \/ missing' = no_absence
        BY <1>10, Zenon DEF Prune, reset_absences
      <3> QED BY <1>0, <3>1
    <2>3. CASE worker.report.complete /\ distinct_report
      <3>1. PICK order \in SetToSeqs(file.managed) :
                 worker' = [worker EXCEPT !.at = "prune", !.listed = saved, !.todo = order]
        BY <1>10, <2>3 DEF Prune
      <3>2. order \in Orders
        BY <3>1, <1>0, OrderOfSet
      <3>3. worker' \in WorkerState /\ worker'.at = "prune" /\ worker'.report = worker.report
        BY <1>0, <3>1, <3>2 DEF WorkerState, saved, Pruning
      <3>4. report' = report
        BY <1>10, <2>3 DEF Prune
      <3> QED BY <1>0, <2>1, <2>2, <3>3, <3>4 DEF PluginType, Polling, at
    <2>4. CASE ~(worker.report.complete /\ distinct_report)
      <3>1. worker' = sleep /\ report' = [report EXCEPT !.new = @ /\ ~worker.current]
        BY <1>10, <2>4 DEF Prune, finish
      <3>2. report' \in Reports
        BY <1>0, <3>1 DEF Reports
      <3> QED BY <1>0, <2>1, <2>2, <3>1, <3>2, IdleType DEF PluginType, Polling, Pruning
    <2> QED BY <2>3, <2>4
  <1>11. CASE Disown \/ Count \/ RecordRemove
    <2>1. /\ UNCHANGED <<machines, report, absent>>
          /\ worker.todo # <<>> /\ worker.at \in Pruning
          /\ worker' = next_host \/ worker' = [worker EXCEPT !.at = "removing"]
      BY <1>11, Zenon DEF Disown, Count, RecordRemove, registry, ghosts, at, Pruning, PluginType
    <2>2. head \in Hosts
      BY <2>1, NextHost
    <2>3. missing' \in [Hosts -> Nat]
      <3>1. CASE Disown
        BY <1>0, <2>2, <3>1 DEF Disown
      <3>2. CASE Count
        <4>1. \/ missing' = [missing EXCEPT ![head] = 0]
              \/ missing' = [missing EXCEPT ![head] = IF missing[head] < MISSES THEN missing[head] + 1 ELSE MISSES]
          BY <3>2, Zenon DEF Count
        <4> QED BY <1>0, <2>2, <4>1
      <3>3. CASE RecordRemove
        <4>1. missing' = [missing EXCEPT ![head] = 0]
          BY <3>3, Zenon DEF RecordRemove
        <4> QED BY <1>0, <2>2, <4>1
      <3> QED BY <1>11, <3>1, <3>2, <3>3
    <2>4. file' \in [seen : SUBSET Hosts, managed : SUBSET Hosts]
      <3>1. \/ file' = [file EXCEPT !.managed = @ \ {head}]
            \/ file' = file
            \/ file' = [seen |-> file.seen \ {head}, managed |-> file.managed \ {head}]
        BY <1>11, Zenon DEF Disown, Count, RecordRemove
      <3> QED BY <1>0, <3>1
    <2>5. worker' \in WorkerState /\ worker'.report = worker.report
          /\ (worker'.at = "prune" \/ (worker'.at = "removing" /\ worker'.todo = worker.todo))
      BY <1>0, <2>1, NextHost DEF WorkerState, Pruning
    <2> QED BY <1>0, <2>1, <2>3, <2>4, <2>5 DEF PluginType, Polling, Pruning
  <1>12. CASE PruneEnds
    <2>1. /\ UNCHANGED <<machines, file, missing, absent>>
          /\ worker' = sleep /\ report' = [report EXCEPT !.new = @ /\ ~worker.current]
      BY <1>12 DEF PruneEnds, finish, registry, ghosts
    <2>2. report' \in Reports
      BY <1>0, <2>1 DEF Reports
    <2> QED BY <1>0, <2>1, <2>2, IdleType DEF PluginType, Polling, Pruning
  <1>13. CASE Report
    <2>1. PICK complete \in BOOLEAN, hosts \in SUBSET Hosts : report' = written(complete, hosts)
      BY <1>13, Zenon DEF Report
    <2>2. UNCHANGED <<machines, file, missing, absent>> /\ worker' = [worker EXCEPT !.current = FALSE]
      BY <1>13, Zenon DEF Report, registry
    <2>3. report' \in Reports
      BY <2>1 DEF written, Reports
    <2>4. worker' \in WorkerState /\ worker'.at = worker.at /\ worker'.report = worker.report
          /\ worker'.todo = worker.todo
      BY <1>0, <2>2 DEF WorkerState
    <2> QED BY <1>0, <2>2, <2>3, <2>4 DEF PluginType
  <1>14. CASE Stale
    <2>1. UNCHANGED <<machines, file, missing, absent, worker>> /\ report' = [report EXCEPT !.fresh = FALSE]
      BY <1>14, Zenon DEF Stale, registry, ghosts
    <2>2. report' \in Reports
      BY <1>0, <2>1 DEF Reports
    <2> QED BY <1>0, <2>1, <2>2 DEF PluginType
  <1>15. ASSUME NEW n \in Names, UserRemoves(n) \/ \E target \in Hosts \cup {Label} : UserAdds(n, target)
         PROVE  PluginType'
    <2>1. /\ UNCHANGED <<file, missing, absent, worker, report>>
          /\ \E target \in Hosts \cup {Label, Nothing} : machines' = [machines EXCEPT ![n] = target]
      BY <1>15 DEF UserRemoves, UserAdds, remove
    <2>2. machines' \in Listings
      BY <1>0, <2>1 DEF Listings
    <2> QED BY <1>0, <2>1, <2>2 DEF PluginType
  <1>16. CASE Switch \/ UserExports \/ (\E h \in Hosts : RetryDue(h)) \/ UNCHANGED vars
    <2>1. UNCHANGED <<machines, file, missing, absent, worker, report>>
      BY <1>16, Zenon DEF Switch, UserExports, RetryDue, vars, registry, ghosts
    <2> QED BY <2>1 DEF PluginType
  <1> QED BY <1>1, <1>2, <1>3, <1>4, <1>5, <1>6, <1>7, <1>8, <1>9, <1>10, <1>11, <1>12, <1>13, <1>14,
             <1>15, <1>16, Zenon DEF Next, Worker, Failures, User

----------------------------------------------------------------------------
(* Absences are counted once.                                                *)

\* A worker that starts over has counted nothing.
LEMMA ResetStep ==
    ASSUME PluginType', worker'.at \in {"none", "sleep"}, missing' = no_absence, absent' = no_absence
    PROVE  AbsenceInv'
  <1>1. \A h \in Hosts : missing'[h] = 0 /\ absent'[h] = 0
    BY DEF no_absence
  <1>2. report'.hosts \subseteq Hosts
    BY DEF PluginType, Reports
  <1> QED BY <1>1, <1>2 DEF AbsenceInv, ReportInv, DoneInv, SleepInv, PollInv, PruneInv, Polling, Pruning

\* The steps of a poll count nothing.
LEMMA PollingStep ==
    ASSUME AbsenceInv, PluginType', worker.at \in Polling, worker'.at \in Polling,
           worker'.report = worker.report, worker'.current = worker.current,
           UNCHANGED <<report, missing, absent>>
    PROVE  AbsenceInv'
  BY DEF AbsenceInv, ReportInv, DoneInv, SleepInv, PollInv, PruneInv, Polling, Pruning

\* What is left of a pass when its first host is done with.
LEMMA LeftAfter ==
    ASSUME PluginType, worker.at \in Pruning, worker.todo # <<>>,
           \/ worker' = next_host
           \/ worker' = [worker EXCEPT !.at = "removing"]
           \/ worker' = [worker EXCEPT !.at = "removed"]
    PROVE  /\ Left' = Left \ {head} /\ head \in Hosts
           /\ head \in Left <=> at("prune")
           /\ worker'.at \in Pruning
           /\ worker'.report = worker.report /\ worker'.current = worker.current
  <1>1. worker \in WorkerState /\ worker.todo \in Orders
    BY DEF PluginType, WorkerState
  <1> DEFINE s == worker.todo
  <1>2. /\ Head(s) \in Hosts /\ Head(s) = s[1] /\ Tail(s) \in Orders
        /\ {Tail(s)[i] : i \in 1..Len(Tail(s))} = {s[i] : i \in 2..Len(s)}
        /\ {s[i] : i \in 1..Len(s)} = {Head(s)} \cup {s[i] : i \in 2..Len(s)}
        /\ Head(s) \notin {s[i] : i \in 2..Len(s)}
    BY <1>1, TailOrder
  <1>3. /\ at("prune") => Left = {s[i] : i \in 1..Len(s)}
        /\ ~at("prune") => Left = {s[i] : i \in 2..Len(s)}
    BY DEF Left
  <1>4. {s[i] : i \in 2..Len(s)} = Left \ {head} /\ (head \in Left <=> at("prune"))
    BY <1>2, <1>3 DEF head
  <1>5. CASE worker' = next_host
    <2>1. /\ worker'.at = "prune" /\ worker'.todo = Tail(s)
          /\ worker'.report = worker.report /\ worker'.current = worker.current
      BY <1>5, NextHost DEF Polling
    <2>2. Left' = {Tail(s)[i] : i \in 1..Len(Tail(s))}
      BY <2>1 DEF Left, at
    <2> QED BY <1>2, <1>4, <2>1, <2>2 DEF head, Pruning
  <1>6. CASE worker' = [worker EXCEPT !.at = "removing"] \/ worker' = [worker EXCEPT !.at = "removed"]
    <2>1. /\ worker'.at \in {"removing", "removed"} /\ worker'.todo = s
          /\ worker'.report = worker.report /\ worker'.current = worker.current
      BY <1>1, <1>6 DEF WorkerState
    <2>2. Left' = {s[i] : i \in 2..Len(s)}
      BY <2>1 DEF Left, at
    <2> QED BY <1>2, <1>4, <2>1, <2>2 DEF head, Pruning
  <1> QED BY <1>5, <1>6

\* The steps of a pass over the owned machines count at most once for the host
\* they are about.
LEMMA PruningStep ==
    ASSUME AbsenceInv, PluginType', worker.at \in Pruning, worker.todo # <<>>,
           \/ worker' = next_host
           \/ worker' = [worker EXCEPT !.at = "removing"] /\ absent[head] >= MISSES
           \/ worker' = [worker EXCEPT !.at = "removed"],
           UNCHANGED <<report, absent>>,
           \A h \in Hosts \ {head} : missing'[h] = missing[h],
           \/ missing'[head] = 0
           \/ head \notin Left /\ missing'[head] = missing[head]
           \/ head \notin worker.report.hosts /\ missing'[head] <= absent[head]
    PROVE  AbsenceInv'
  <1>1. /\ Left' = Left \ {head} /\ head \in Hosts
        /\ head \in Left <=> at("prune")
        /\ worker'.at \in Pruning
        /\ worker'.report = worker.report /\ worker'.current = worker.current
    BY LeftAfter DEF AbsenceInv
  <1>2. /\ worker.report.complete /\ worker.report.new
        /\ \A h \in Hosts :
             IF h \in worker.report.hosts THEN h \in Left \/ missing[h] = 0
             ELSE IF h \in Left THEN least(missing[h] + 1, MISSES) <= absent[h]
             ELSE missing[h] <= absent[h]
    BY DEF AbsenceInv, PruneInv
  <1>3. ReportInv'
    BY <1>1 DEF AbsenceInv, ReportInv
  <1>4. report.new
    BY <1>2 DEF AbsenceInv, ReportInv
  <1>5. DoneInv' /\ SleepInv' /\ PollInv'
    BY <1>1, <1>4 DEF DoneInv, SleepInv, PollInv, Polling, Pruning
  <1>6. missing \in [Hosts -> Nat] /\ absent \in [Hosts -> Nat]
    BY DEF AbsenceInv, PluginType
  <1>7. at("removing")' => absent'[head'] >= MISSES
    <2>1. ASSUME worker'.at = "removing" PROVE head' = head /\ absent[head] >= MISSES
      <3>1. worker \in WorkerState
        BY DEF AbsenceInv, PluginType
      <3>2. next_host.at = "prune"
        BY NextHost DEF AbsenceInv
      <3>3. worker' = [worker EXCEPT !.at = "removing"] /\ absent[head] >= MISSES
        BY <2>1, <3>1, <3>2 DEF WorkerState
      <3> QED BY <3>1, <3>3 DEF WorkerState, head
    <2> QED BY <2>1 DEF at
  <1>8. \A h \in Hosts :
             IF h \in worker'.report.hosts THEN h \in Left' \/ missing'[h] = 0
             ELSE IF h \in Left' THEN least(missing'[h] + 1, MISSES) <= absent'[h]
             ELSE missing'[h] <= absent'[h]
    <2> TAKE h \in Hosts
    <2>1. CASE h = head
      BY <1>1, <1>2, <1>6, <2>1
    <2>2. CASE h # head
      BY <1>1, <1>2, <2>2
    <2> QED BY <2>1, <2>2
  <1>9. PruneInv'
    BY <1>1, <1>2, <1>7, <1>8 DEF PruneInv
  <1> QED BY <1>3, <1>5, <1>9 DEF AbsenceInv

LEMMA AbsenceStep ==
    ASSUME AbsenceInv, [Next]_vars
    PROVE  AbsenceInv'
  <1>0. /\ PluginType /\ PluginType' /\ worker \in WorkerState
        /\ worker.report \in Reports \cup {Nothing} /\ report \in Reports /\ report' \in Reports
        /\ missing \in [Hosts -> Nat] /\ absent \in [Hosts -> Nat] /\ MISSES \in Nat \ {0}
    BY TypeStep, PluginBounds DEF AbsenceInv, PluginType, WorkerState
  <1>1. CASE Start \/ Dormant \/ Stop \/ Reinstalled \/ Kill \/ ListFails
    <2>1. /\ worker' \in {idle, sleep} \/ (worker' = worker /\ at("sleep"))
          /\ missing' = no_absence /\ absent' = no_absence
      BY <1>1, Zenon DEF Start, Dormant, Stop, Reinstalled, Kill, ListFails, end_worker, reset_absences
    <2> QED BY <1>0, <2>1, IdleType, ResetStep DEF at
  <1>2. CASE Check
    <2>1. CASE ~report.fresh
      <3>1. worker' = worker /\ at("sleep") /\ missing' = no_absence /\ absent' = no_absence
        BY <1>2, <2>1 DEF Check, reset_absences
      <3> QED BY <1>0, <3>1, ResetStep DEF at
    <2>2. CASE report.fresh
      <3>1. /\ worker' = [idle EXCEPT !.at = "begin", !.report = report, !.current = TRUE]
            /\ at("sleep") /\ missing' = missing /\ report' = report
            /\ absent' = [h \in Hosts |->
                 IF ~report.complete \/ h \in report.hosts THEN 0
                 ELSE IF report.new /\ absent[h] < MISSES THEN absent[h] + 1 ELSE absent[h]]
        BY <1>2, <2>2 DEF Check
      <3>2. worker'.at = "begin" /\ worker'.report = report /\ worker'.current = TRUE
        BY <3>1, IdleType DEF WorkerState
      <3>3. ReportInv'
        BY <3>1, <3>2 DEF ReportInv
      <3>4. DoneInv' /\ SleepInv' /\ PruneInv'
        BY <3>1, <3>2 DEF DoneInv, SleepInv, PruneInv, AbsenceInv, Pruning
      <3>5. PollInv'
        <4> SUFFICES ASSUME report.complete, NEW h \in Hosts
                     PROVE  IF report.new
                            THEN h \notin report.hosts => least(missing[h] + 1, MISSES) <= absent'[h]
                            ELSE missing[h] <= absent'[h]
          BY <3>1, <3>2 DEF PollInv
        <4>1. missing[h] <= absent[h] /\ missing[h] \in Nat /\ absent[h] \in Nat
          BY <1>0, <3>1 DEF AbsenceInv, SleepInv, at
        <4>2. CASE h \notin report.hosts
          BY <1>0, <3>1, <4>1, <4>2 DEF least
        <4>3. CASE h \in report.hosts
          BY <3>1, <4>1, <4>3 DEF AbsenceInv, DoneInv
        <4> QED BY <4>2, <4>3
      <3> QED BY <1>0, <3>3, <3>4, <3>5 DEF AbsenceInv
    <2> QED BY <2>1, <2>2
  <1>3. CASE Poll
    <2>1. PICK order : worker' = [worker EXCEPT !.at = "poll", !.listed = saved, !.todo = order]
      BY <1>3, Zenon DEF Poll
    <2>2. at("begin") /\ UNCHANGED <<report, missing, absent>>
      BY <1>3, Zenon DEF Poll, ghosts
    <2>3. worker'.at = "poll" /\ worker'.report = worker.report /\ worker'.current = worker.current
      BY <1>0, <2>1 DEF WorkerState
    <2> QED BY <1>0, <2>2, <2>3, PollingStep DEF at, Polling
  <1>4. CASE Skip \/ Remember \/ AddFails \/ AddedUnproven \/ RecordAdd
    <2>1. /\ worker' = next_host /\ UNCHANGED <<report, missing, absent>>
          /\ worker.todo # <<>> /\ worker.at \in Polling \ {"begin"}
      BY <1>0, <1>4 DEF Skip, Remember, AddFails, AddedUnproven, RecordAdd, ghosts, at, Polling, PluginType
    <2>2. worker'.at = "poll" /\ worker'.report = worker.report /\ worker'.current = worker.current
      BY <1>0, <2>1, NextHost DEF Polling, Pruning, at
    <2> QED BY <1>0, <2>1, <2>2, PollingStep DEF Polling
  <1>5. CASE Attempt
    <2>1. /\ worker' = [(IF ready(head) /\ free_for(head) THEN [worker EXCEPT !.at = "adding"] ELSE next_host)
                    EXCEPT !.attempts = @ + 1]
          /\ UNCHANGED <<report, missing, absent>>
          /\ worker.todo # <<>> /\ worker.at = "poll"
      BY <1>5, Zenon DEF Attempt, ghosts, at
    <2>2. /\ next_host \in WorkerState /\ next_host.at = "poll"
          /\ next_host.report = worker.report /\ next_host.current = worker.current
      BY <1>0, <2>1, NextHost DEF Polling, Pruning, at
    <2> DEFINE w == [worker EXCEPT !.at = "adding"]
    <2>3. w \in WorkerState /\ w.at = "adding" /\ w.report = worker.report /\ w.current = worker.current
      BY <1>0 DEF WorkerState, Polling
    <2>4. worker' = [w EXCEPT !.attempts = @ + 1] \/ worker' = [next_host EXCEPT !.attempts = @ + 1]
      BY <2>1
    <2> HIDE DEF w, next_host
    <2>5. worker'.at \in Polling /\ worker'.report = worker.report /\ worker'.current = worker.current
      BY <2>2, <2>3, <2>4 DEF WorkerState, Polling
    <2> QED BY <1>0, <2>1, <2>5, PollingStep DEF Polling
  <1>6. CASE AddMachine
    <2>1. /\ worker' = [worker EXCEPT !.at = "added"] /\ UNCHANGED <<report, missing, absent>>
          /\ worker.at = "adding"
      BY <1>6, Zenon DEF AddMachine, ghosts, at
    <2>2. worker'.at = "added" /\ worker'.report = worker.report /\ worker'.current = worker.current
      BY <1>0, <2>1 DEF WorkerState
    <2> QED BY <1>0, <2>1, <2>2, PollingStep DEF Polling
  <1>7. CASE Prune /\ worker.report.complete /\ distinct_report
    <2>1. PICK order \in SetToSeqs(file.managed) :
                 worker' = [worker EXCEPT !.at = "prune", !.listed = saved, !.todo = order]
      BY <1>7 DEF Prune
    <2>2. /\ missing' = [h \in Hosts |-> IF h \in file.managed THEN missing[h] ELSE 0]
          /\ UNCHANGED <<report, absent>> /\ worker.at = "poll"
      BY <1>7 DEF Prune, ghosts, at
    <2>3. {order[i] : i \in 1..Len(order)} = file.managed
      BY <1>0, <2>1, OrderOfSet DEF PluginType
    <2>4. /\ worker'.at = "prune" /\ worker'.report = worker.report
          /\ worker'.current = worker.current /\ worker'.todo = order
      BY <1>0, <2>1 DEF WorkerState
    <2>5. Left' = file.managed
      BY <2>3, <2>4 DEF Left, at
    <2>6. ReportInv' /\ report.new
      BY <1>7, <2>2, <2>4 DEF AbsenceInv, ReportInv, Polling, Pruning, distinct_report
    <2>7. DoneInv' /\ SleepInv' /\ PollInv'
      BY <2>2, <2>4, <2>6 DEF DoneInv, SleepInv, PollInv, Polling
    <2>8. ASSUME NEW h \in Hosts
          PROVE  IF h \in worker'.report.hosts THEN h \in Left' \/ missing'[h] = 0
                 ELSE IF h \in Left' THEN least(missing'[h] + 1, MISSES) <= absent'[h]
                 ELSE missing'[h] <= absent'[h]
      <3>1. h \notin worker.report.hosts => least(missing[h] + 1, MISSES) <= absent[h]
        BY <1>7, <2>2 DEF AbsenceInv, PollInv, Polling, distinct_report
      <3>2. absent[h] \in Nat
        BY <1>0
      <3>3. CASE h \in file.managed
        BY <2>2, <2>4, <2>5, <3>1, <3>3
      <3>4. CASE h \notin file.managed
        BY <2>2, <2>4, <2>5, <3>2, <3>4
      <3> QED BY <3>3, <3>4
    <2>9. PruneInv'
      BY <1>7, <2>4, <2>8 DEF PruneInv, distinct_report, at
    <2> QED BY <1>0, <2>6, <2>7, <2>9 DEF AbsenceInv
  <1>8. CASE Prune /\ ~(worker.report.complete /\ distinct_report)
    <2>1. /\ worker' = sleep /\ report' = [report EXCEPT !.new = @ /\ ~worker.current]
          /\ missing' = (IF worker.report.complete THEN missing ELSE no_absence)
          /\ absent' = absent /\ worker.at = "poll"
      BY <1>8 DEF Prune, finish, ghosts, at, reset_absences
    <2>2. /\ report'.new = (report.new /\ ~worker.current)
          /\ report'.complete = report.complete /\ report'.hosts = report.hosts
          /\ report.hosts \subseteq Hosts
      BY <1>0, <2>1 DEF Reports
    <2>3. worker'.at = "sleep"
      BY <2>1, IdleType
    <2>4. ReportInv' /\ PollInv' /\ PruneInv'
      BY <2>3 DEF ReportInv, PollInv, PruneInv, Polling, Pruning
    <2>5. SleepInv'
      <3> SUFFICES ASSUME NEW h \in Hosts PROVE missing'[h] <= absent[h]
        BY <2>1 DEF SleepInv
      <3>1. CASE worker.report.complete
        BY <1>8, <2>1, <3>1 DEF AbsenceInv, PollInv, Polling, distinct_report
      <3>2. CASE ~worker.report.complete
        BY <1>0, <2>1, <3>2 DEF no_absence
      <3> QED BY <3>1, <3>2
    <2>6. DoneInv'
      <3> SUFFICES ASSUME ~report'.new, report.complete, NEW h \in report.hosts PROVE missing'[h] = 0
        BY <2>2 DEF DoneInv
      <3>1. CASE ~worker.report.complete
        BY <2>1, <2>2, <3>1 DEF no_absence
      <3>2. CASE worker.report.complete
        <4>1. ~report.new
          BY <1>8, <2>1, <2>2, <3>2 DEF AbsenceInv, ReportInv, Polling, distinct_report
        <4> QED BY <2>1, <3>2, <4>1 DEF AbsenceInv, DoneInv
      <3> QED BY <3>1, <3>2
    <2> QED BY <1>0, <2>4, <2>5, <2>6 DEF AbsenceInv
  <1>9. CASE Disown \/ RecordRemove
    <2>1. /\ worker' = next_host /\ missing' = [missing EXCEPT ![head] = 0]
          /\ UNCHANGED <<report, absent>> /\ worker.at \in Pruning /\ worker.todo # <<>>
      BY <1>0, <1>9, Zenon DEF Disown, RecordRemove, ghosts, at, Pruning, PluginType
    <2>2. head \in Hosts
      BY <1>0, <2>1, NextHost
    <2>3. missing'[head] = 0 /\ \A h \in Hosts \ {head} : missing'[h] = missing[h]
      BY <1>0, <2>1, <2>2
    <2> QED BY <1>0, <2>1, <2>3, PruningStep
  <1>10. CASE Count
    <2> DEFINE misses == IF missing[head] < MISSES THEN missing[head] + 1 ELSE MISSES
    <2>1. /\ UNCHANGED <<report, absent>> /\ worker.at = "prune" /\ worker.todo # <<>>
          /\ IF head \in worker.report.hosts
             THEN missing' = [missing EXCEPT ![head] = 0] /\ worker' = next_host
             ELSE /\ missing' = [missing EXCEPT ![head] = misses]
                  /\ worker' = next_host \/ (worker' = [worker EXCEPT !.at = "removing"] /\ misses = MISSES)
      BY <1>10, Zenon DEF Count, at
    <2>2. head \in Hosts /\ head \in Left
      <3>1. head \in Hosts
        BY <1>0, <2>1, NextHost DEF Pruning
      <3>2. worker.todo \in Orders
        BY <1>0 DEF WorkerState
      <3>3. head \in Left
        BY <2>1, <3>2, TailOrder DEF Left, at, head
      <3> QED BY <3>1, <3>3
    <2>3. \A h \in Hosts \ {head} : missing'[h] = missing[h]
      BY <1>0, <2>1, <2>2
    <2>4. CASE head \in worker.report.hosts
      <3>1. missing'[head] = 0
        BY <1>0, <2>1, <2>2, <2>4
      <3> QED BY <1>0, <2>1, <2>3, <2>4, <3>1, PruningStep DEF Pruning
    <2>5. CASE head \notin worker.report.hosts
      <3>1. least(missing[head] + 1, MISSES) <= absent[head]
        BY <2>1, <2>2, <2>5 DEF AbsenceInv, PruneInv, Pruning
      <3>2. missing[head] \in Nat /\ absent[head] \in Nat
        BY <1>0, <2>2
      <3>3. misses <= absent[head]
        BY <1>0, <3>1, <3>2 DEF least
      <3>4. missing'[head] = misses
        BY <1>0, <2>1, <2>2, <2>5
      <3>5. worker' = next_host \/ (worker' = [worker EXCEPT !.at = "removing"] /\ misses = MISSES)
        BY <2>1, <2>5
      <3> HIDE DEF misses
      <3>6. worker' = next_host \/ (worker' = [worker EXCEPT !.at = "removing"] /\ absent[head] >= MISSES)
        BY <1>0, <3>2, <3>3, <3>5
      <3> QED BY <1>0, <2>1, <2>3, <2>5, <3>3, <3>4, <3>6, PruningStep DEF Pruning
    <2> QED BY <2>4, <2>5
  <1>11. CASE RemoveMachine \/ RemoveFails
    <2>1. /\ worker' = next_host \/ worker' = [worker EXCEPT !.at = "removed"]
          /\ UNCHANGED <<report, absent, missing>> /\ worker.at = "removing" /\ worker.todo # <<>>
      BY <1>0, <1>11, Zenon DEF RemoveMachine, RemoveFails, ghosts, at, PluginType
    <2>2. head \notin Left
      <3>1. worker.todo \in Orders
        BY <1>0 DEF WorkerState
      <3> QED BY <2>1, <3>1, TailOrder DEF Left, at, head
    <2> QED BY <1>0, <2>1, <2>2, PruningStep DEF Pruning
  <1>12. CASE PruneEnds
    <2>1. /\ worker' = sleep /\ report' = [report EXCEPT !.new = @ /\ ~worker.current]
          /\ UNCHANGED <<missing, absent>> /\ worker.at = "prune" /\ worker.todo = <<>>
      BY <1>12 DEF PruneEnds, finish, ghosts, at
    <2>2. /\ report'.new = (report.new /\ ~worker.current)
          /\ report'.complete = report.complete /\ report'.hosts = report.hosts
          /\ report.hosts \subseteq Hosts
      BY <1>0, <2>1 DEF Reports
    <2>3. worker'.at = "sleep"
      BY <2>1, IdleType
    <2>4. ReportInv' /\ PollInv' /\ PruneInv'
      BY <2>3 DEF ReportInv, PollInv, PruneInv, Polling, Pruning
    <2>5. Left = {}
      BY <2>1 DEF Left, at
    <2>6. \A h \in Hosts : IF h \in worker.report.hosts THEN missing[h] = 0 ELSE missing[h] <= absent[h]
      BY <2>1, <2>5 DEF AbsenceInv, PruneInv, Pruning
    <2>7. SleepInv'
      <3> SUFFICES ASSUME NEW h \in Hosts PROVE missing[h] <= absent[h]
        BY <2>1 DEF SleepInv
      <3>1. absent[h] \in Nat
        BY <1>0
      <3> QED BY <2>6, <3>1
    <2>8. DoneInv'
      <3> SUFFICES ASSUME ~report'.new, NEW h \in report.hosts PROVE missing[h] = 0
        BY <2>1, <2>2 DEF DoneInv
      <3>1. worker.current
        BY <2>1, <2>2 DEF AbsenceInv, ReportInv, Pruning
      <3>2. worker.report.hosts = report.hosts
        BY <2>1, <3>1 DEF AbsenceInv, ReportInv, Pruning
      <3> QED BY <2>2, <2>6, <3>2
    <2> QED BY <1>0, <2>4, <2>7, <2>8 DEF AbsenceInv
  <1>13. CASE Report
    <2>1. PICK complete, hosts : report' = written(complete, hosts)
      BY <1>13, Zenon DEF Report
    <2>2. UNCHANGED <<missing, absent>> /\ worker' = [worker EXCEPT !.current = FALSE]
      BY <1>13, Zenon DEF Report
    <2>3. report'.new = TRUE
      BY <2>1 DEF written
    <2>4. /\ worker'.at = worker.at /\ worker'.report = worker.report
          /\ worker'.todo = worker.todo /\ worker'.current = FALSE
      BY <1>0, <2>2 DEF WorkerState
    <2>5. Left' = Left /\ head' = head /\ at("removing")' = at("removing")
      BY <2>4 DEF Left, head, at
    <2>6. ReportInv' /\ DoneInv'
      BY <2>3, <2>4 DEF ReportInv, DoneInv
    <2>7. SleepInv' /\ PollInv'
      BY <2>2, <2>4 DEF AbsenceInv, SleepInv, PollInv
    <2>8. PruneInv'
      BY <2>2, <2>4, <2>5 DEF AbsenceInv, PruneInv
    <2> QED BY <1>0, <2>6, <2>7, <2>8 DEF AbsenceInv
  <1>14. CASE Stale
    <2>1. UNCHANGED <<missing, absent, worker>> /\ report' = [report EXCEPT !.fresh = FALSE]
      BY <1>14, Zenon DEF Stale, ghosts
    <2>2. /\ report'.new = report.new /\ report'.complete = report.complete
          /\ report'.hosts = report.hosts
      BY <1>0, <2>1 DEF Reports
    <2>3. Left' = Left /\ head' = head /\ at("removing")' = at("removing")
      BY <2>1 DEF Left, head, at
    <2>4. ReportInv' /\ DoneInv'
      BY <2>1, <2>2 DEF AbsenceInv, ReportInv, DoneInv
    <2>5. SleepInv' /\ PollInv' /\ PruneInv'
      BY <2>1, <2>3 DEF AbsenceInv, SleepInv, PollInv, PruneInv
    <2> QED BY <1>0, <2>4, <2>5 DEF AbsenceInv
  <1>15. CASE \/ \E n \in Names : UserRemoves(n) \/ \E target \in Hosts \cup {Label} : UserAdds(n, target)
              \/ Switch \/ UserExports \/ (\E h \in Hosts : RetryDue(h)) \/ UNCHANGED vars
    <2>1. UNCHANGED <<missing, absent, worker, report>>
      BY <1>15, Zenon DEF UserRemoves, UserAdds, Switch, UserExports, RetryDue, vars, ghosts
    <2>2. Left' = Left /\ head' = head /\ at("removing")' = at("removing")
      BY <2>1 DEF Left, head, at
    <2>3. ReportInv' /\ DoneInv' /\ SleepInv' /\ PollInv' /\ PruneInv'
      BY <2>1, <2>2 DEF AbsenceInv, ReportInv, DoneInv, SleepInv, PollInv, PruneInv
    <2> QED BY <1>0, <2>3 DEF AbsenceInv
  <1> QED BY <1>1, <1>2, <1>3, <1>4, <1>5, <1>6, <1>7, <1>8, <1>9, <1>10, <1>11, <1>12, <1>13, <1>14,
             <1>15, Zenon DEF Next, Worker, Failures, User

\* A machine is removed only after MISSES complete reports in a row without its
\* host, of different generations and read by one worker (Reconciler::prune).
THEOREM RemovalsAreEarned == Spec => []RemovedAfterThreeAbsences
  <1>1. Init => AbsenceInv
    BY InitTypes
  <1>2. AbsenceInv /\ [Next]_vars => AbsenceInv'
    BY AbsenceStep
  <1>3. AbsenceInv => RemovedAfterThreeAbsences
    BY DEF AbsenceInv, PruneInv, RemovedAfterThreeAbsences, at, Pruning
  <1> QED BY <1>1, <1>2, <1>3, PTL DEF Spec

----------------------------------------------------------------------------
(* What the user decided stands.                                             *)

\* The worker's own steps that neither touch the registry nor forget a host keep
\* the user's decisions, unless they start to register or to remove.
LEMMA ChoiceKept ==
    ASSUME ChoiceInv, PluginType', legacy' = legacy, machines' = machines, dismissed' = dismissed,
           file.seen \subseteq file'.seen,
           worker'.at \notin {"adding", "removing", "removed"}
    PROVE  ChoiceInv'
  BY DEF ChoiceInv, OwnedInv, DismissedInv, at, head

\* The user's own step, on the machine of name n.
LEMMA DismissKept ==
    ASSUME ChoiceInv, PluginType', NEW n \in Names, NEW target,
           dismiss(n, target), machines' = [machines EXCEPT ![n] = target],
           target = Nothing \/ target \in Hosts \cup {Label},
           target = Nothing => machines[n] # Nothing,
           legacy => target = Nothing \/ n = Mine,
           UNCHANGED <<legacy, file, worker>>,
           raced' = raced \/ raced' = (raced \/ (at("removing") /\ n = head)),
           target # Nothing => raced' = (raced \/ (at("removing") /\ n = head))
    PROVE  ChoiceInv'
  <1> DEFINE gone == IF machines[n] = target THEN {} ELSE stands_for(n)
             known == {h \in gone \cap file.seen :
                         /\ \A m \in Names \ {n} : machines[m] \notin {h, machines[n]}
                         /\ ~(worker.at \in {"removing", "removed"} /\ h = head)}
  <1>1. dismissed'.known = (dismissed.known \cup known) \ {target}
    BY DEF dismiss
  <1>14. \A g \in known : g \in Hosts /\ g \in file.seen /\ \A m \in Names \ {n} : machines[m] # g
    BY DEF stands_for
  <1>2. machines \in Listings /\ machines'[n] = target /\ \A m \in Names \ {n} : machines'[m] = machines[m]
    BY DEF ChoiceInv, PluginType, Listings
  <1>3. \A g \in dismissed.known : g \in file.seen /\ g # Nothing /\ \A m \in Names : machines[m] # g
    BY DEF ChoiceInv, DismissedInv
  <1>4. head' = head /\ worker'.at = worker.at /\ (worker.at \in {"adding", "removing", "removed"} => head \in Hosts)
    BY NextHost DEF head, ChoiceInv, PluginType, Polling, Pruning
  <1>5. \A g \in dismissed'.known : g \in dismissed.known \/ g \in known
    BY <1>1
  <1>6. dismissed'.known \subseteq file'.seen \ {Nothing}
    BY <1>3, <1>5, <1>14, PluginNames
  <1>7. ASSUME NEW g \in dismissed'.known, NEW m \in Names PROVE machines'[m] # g
    <2>1. g # target
      BY <1>1
    <2>2. CASE m = n
      BY <1>2, <2>1, <2>2
    <2>3. CASE m # n
      BY <1>2, <1>3, <1>5, <1>14, <2>3
    <2> QED BY <2>2, <2>3
  <1>8. worker.at \in {"removing", "removed"} => (head \in dismissed'.known => head \in dismissed.known)
    BY <1>5
  <1>9. at("removing")' /\ (legacy' => machines'[head'] # Nothing) => head' \notin dismissed'.known
    <2> SUFFICES ASSUME worker.at = "removing", legacy => machines'[head] # Nothing
                 PROVE  head \notin dismissed.known
      BY <1>4, <1>8 DEF at
    <2>1. head \in Hosts
      BY <1>4
    <2>2. legacy => machines[head] # Nothing
      <3> SUFFICES ASSUME legacy, machines[head] = Nothing PROVE FALSE
        OBVIOUS
      <3>1. n = head
        BY <1>2, <2>1 DEF Names
      <3>2. target # Nothing /\ n = Mine
        BY <1>2, <3>1
      <3> QED BY <2>1, <3>1, <3>2, PluginNames
    <2> QED BY <2>2 DEF ChoiceInv, DismissedInv, at
  <1> HIDE DEF known, gone
  <1>10. DismissedInv'
    BY <1>4, <1>6, <1>7, <1>8, <1>9 DEF ChoiceInv, DismissedInv, at
  <1>11. ASSUME legacy, NEW g \in Hosts PROVE machines'[g] \in {g, Nothing}
    <2>1. machines[g] \in {g, Nothing}
      BY <1>11 DEF ChoiceInv, OwnedInv
    <2> QED BY <1>2, <1>11, <2>1, PluginNames DEF Names
  <1>12. ASSUME worker.at = "removing" PROVE machines'[head] \in {head, Nothing} \/ raced'
    <2>1. machines[head] \in {head, Nothing} \/ raced
      BY <1>12 DEF ChoiceInv, OwnedInv, at
    <2>2. CASE n = head
      BY <1>2, <1>12, <2>1, <2>2 DEF at
    <2>3. CASE n # head
      <3>1. raced => raced'
        BY Zenon
      <3>2. machines'[head] = machines[head]
        BY <1>2, <1>4, <1>12, <2>3 DEF Names
      <3> QED BY <2>1, <3>1, <3>2, Zenon
    <2> QED BY <2>2, <2>3
  <1>13. OwnedInv'
    BY <1>4, <1>11, <1>12 DEF OwnedInv, at
  <1> QED BY <1>10, <1>13 DEF ChoiceInv

LEMMA ChoiceStep ==
    ASSUME ChoiceInv, [Next]_vars
    PROVE  ChoiceInv'
  <1>0. /\ PluginType /\ PluginType' /\ worker \in WorkerState /\ machines \in Listings
        /\ file \in [seen : SUBSET Hosts, managed : SUBSET Hosts]
    BY TypeStep DEF ChoiceInv, PluginType
  <1>1. CASE Start \/ Dormant \/ Stop \/ Reinstalled \/ Kill \/ ListFails
    <2>1. /\ worker' \in {idle, sleep} \/ (worker' = worker /\ at("sleep"))
          /\ UNCHANGED <<legacy, machines, dismissed, file>>
      BY <1>1, Zenon DEF Start, Dormant, Stop, Reinstalled, Kill, ListFails, end_worker, fixed, registry
    <2> QED BY <1>0, <2>1, IdleType, ChoiceKept DEF at
  <1>2. CASE Check
    <2>1. /\ worker' = [idle EXCEPT !.at = "begin", !.report = report, !.current = TRUE]
             \/ (worker' = worker /\ at("sleep"))
          /\ UNCHANGED <<legacy, machines, dismissed, file>>
      BY <1>2 DEF Check, fixed, registry
    <2>2. worker'.at \in {"begin", "sleep"}
      BY <2>1, IdleType DEF WorkerState, at
    <2> QED BY <1>0, <2>1, <2>2, ChoiceKept
  <1>3. CASE Poll
    <2>1. PICK order : worker' = [worker EXCEPT !.at = "poll", !.listed = saved, !.todo = order]
      BY <1>3, Zenon DEF Poll
    <2>2. UNCHANGED <<legacy, machines, dismissed, file>>
      BY <1>3, Zenon DEF Poll, ghosts, fixed, registry
    <2>3. worker'.at = "poll"
      BY <1>0, <2>1 DEF WorkerState
    <2> QED BY <1>0, <2>2, <2>3, ChoiceKept
  <1>4. CASE Skip \/ Remember \/ AddFails \/ AddedUnproven \/ RecordAdd \/ RemoveFails \/ Disown
    <2>1. /\ worker' = next_host /\ UNCHANGED <<legacy, machines, dismissed>>
          /\ worker.todo # <<>> /\ worker.at \in Polling \cup Pruning
      BY <1>0, <1>4, Zenon DEF Skip, Remember, AddFails, AddedUnproven, RecordAdd, RemoveFails, Disown,
         ghosts, fixed, registry, at, Polling, Pruning, PluginType
    <2>2. worker'.at \in {"poll", "prune"}
      BY <1>0, <2>1, NextHost
    <2>3. \/ file' = file \/ file' = [file EXCEPT !.seen = @ \cup {head}]
          \/ file' = [seen |-> file.seen \cup {head}, managed |-> file.managed \cup {head}]
          \/ file' = [file EXCEPT !.managed = @ \ {head}]
      BY <1>4, Zenon DEF Skip, Remember, AddFails, AddedUnproven, RecordAdd, RemoveFails, Disown, remembered
    <2>4. file.seen \subseteq file'.seen
      BY <1>0, <2>3
    <2> QED BY <1>0, <2>1, <2>2, <2>4, ChoiceKept
  <1>5. CASE Attempt
    <2>1. /\ worker' = [(IF ready(head) /\ free_for(head) THEN [worker EXCEPT !.at = "adding"] ELSE next_host)
                    EXCEPT !.attempts = @ + 1]
          /\ UNCHANGED <<legacy, machines, dismissed, file, raced>>
          /\ worker.todo # <<>> /\ worker.at = "poll" /\ head \notin file.seen
      BY <1>5, Zenon DEF Attempt, ghosts, fixed, registry, at
    <2>2. next_host \in WorkerState /\ next_host.at = "poll"
      BY <1>0, <2>1, NextHost DEF Polling, Pruning, at
    <2> DEFINE w == [worker EXCEPT !.at = "adding"]
    <2>3. w \in WorkerState /\ w.at = "adding" /\ w.todo = worker.todo
      BY <1>0 DEF WorkerState, Polling
    <2>4. worker' = [w EXCEPT !.attempts = @ + 1] \/ worker' = [next_host EXCEPT !.attempts = @ + 1]
      BY <2>1
    <2> HIDE DEF w, next_host
    <2>5. worker'.at = "poll" \/ (worker'.at = "adding" /\ worker'.todo = worker.todo)
      BY <2>2, <2>3, <2>4 DEF WorkerState
    <2>6. CASE worker'.at = "poll"
      BY <1>0, <2>1, <2>6, ChoiceKept
    <2>7. CASE worker'.at = "adding" /\ worker'.todo = worker.todo
      BY <1>0, <2>1, <2>7 DEF ChoiceInv, OwnedInv, DismissedInv, at, head
    <2> QED BY <2>5, <2>6, <2>7
  <1>6. CASE AddMachine
    <2>1. /\ worker' = [worker EXCEPT !.at = "added"]
          /\ UNCHANGED <<legacy, file, dismissed>> /\ at("adding")
          /\ machines' = [machines EXCEPT ![head] = head]
      BY <1>6, Zenon DEF AddMachine, add, ghosts, fixed
    <2>2. worker'.at = "added"
      BY <1>0, <2>1 DEF WorkerState
    <2>3. head \in Hosts /\ head \notin file.seen
      BY <1>0, <2>1, NextHost DEF ChoiceInv, DismissedInv, PluginType, Polling, at
    <2>4. machines'[head] = head /\ \A m \in Names \ {head} : machines'[m] = machines[m]
      BY <1>0, <2>1, <2>3 DEF Listings, Names
    <2>5. OwnedInv'
      BY <2>1, <2>2, <2>3, <2>4 DEF ChoiceInv, OwnedInv, at, Names
    <2>6. \A g \in dismissed.known, m \in Names : machines'[m] # g
      BY <2>3, <2>4 DEF ChoiceInv, DismissedInv
    <2>7. DismissedInv'
      BY <2>1, <2>2, <2>6 DEF ChoiceInv, DismissedInv, at
    <2> QED BY <1>0, <2>5, <2>7 DEF ChoiceInv
  <1>7. CASE Prune \/ PruneEnds
    <2>1. /\ worker' = sleep
             \/ \E order : worker' = [worker EXCEPT !.at = "prune", !.listed = saved, !.todo = order]
          /\ UNCHANGED <<legacy, file, dismissed, machines>>
      BY <1>7, Zenon DEF Prune, PruneEnds, finish, ghosts, fixed, registry
    <2>2. worker'.at \in {"sleep", "prune"}
      BY <1>0, <2>1, IdleType DEF WorkerState
    <2> QED BY <1>0, <2>1, <2>2, ChoiceKept
  <1>8. CASE Count
    <2>1. /\ worker' = next_host \/ (worker' = [worker EXCEPT !.at = "removing"] /\ unchanged_machine(head))
          /\ UNCHANGED <<legacy, file, dismissed, machines>> /\ at("prune") /\ worker.todo # <<>>
      BY <1>8, Zenon DEF Count, fixed, registry
    <2>2. head \in Hosts
      BY <1>0, <2>1, NextHost DEF Pruning, at
    <2>3. CASE worker' = next_host
      <3>1. worker'.at = "prune"
        BY <1>0, <2>1, <2>3, NextHost DEF Pruning, at
      <3> QED BY <1>0, <2>1, <3>1, ChoiceKept
    <2>4. CASE worker' = [worker EXCEPT !.at = "removing"] /\ unchanged_machine(head)
      <3>1. worker'.at = "removing" /\ worker'.todo = worker.todo
        BY <1>0, <2>4 DEF WorkerState
      <3>2. machines[head] \in {head, Nothing} /\ (~legacy => machines[head] = head)
        BY <2>2, <2>4 DEF unchanged_machine, owns, saved, ChoiceInv, OwnedInv
      <3>3. (legacy => machines[head] # Nothing) => head \notin dismissed.known
        BY <2>2, <3>2 DEF ChoiceInv, DismissedInv, Names
      <3> QED BY <1>0, <2>1, <3>1, <3>2, <3>3 DEF ChoiceInv, OwnedInv, DismissedInv, at, head
    <2> QED BY <2>1, <2>3, <2>4
  <1>9. CASE RemoveMachine
    <2>1. /\ worker' = [worker EXCEPT !.at = "removed"]
          /\ UNCHANGED <<legacy, file, dismissed>> /\ at("removing") /\ machines[head] # Nothing
          /\ machines' = [machines EXCEPT ![head] = Nothing]
      BY <1>9, Zenon DEF RemoveMachine, remove, ghosts, fixed
    <2>2. worker'.at = "removed" /\ worker'.todo = worker.todo
      BY <1>0, <2>1 DEF WorkerState
    <2>3. head \in Hosts /\ head \notin dismissed.known
      BY <1>0, <2>1, NextHost DEF ChoiceInv, DismissedInv, PluginType, Pruning, at
    <2>4. machines'[head] = Nothing /\ \A m \in Names \ {head} : machines'[m] = machines[m]
      BY <1>0, <2>1, <2>3 DEF Listings, Names
    <2>5. OwnedInv'
      BY <2>1, <2>2, <2>3, <2>4 DEF ChoiceInv, OwnedInv, at, Names
    <2>6. \A g \in dismissed.known, m \in Names : machines'[m] # g
      BY <2>4 DEF ChoiceInv, DismissedInv
    <2>7. DismissedInv'
      BY <2>1, <2>2, <2>3, <2>6 DEF ChoiceInv, DismissedInv, at, head
    <2> QED BY <1>0, <2>5, <2>7 DEF ChoiceInv
  <1>10. CASE RecordRemove
    <2>1. /\ worker' = next_host /\ UNCHANGED <<legacy, dismissed, machines>> /\ at("removed")
          /\ file' = [seen |-> file.seen \ {head}, managed |-> file.managed \ {head}]
      BY <1>10, Zenon DEF RecordRemove, ghosts, fixed, registry
    <2>2. worker'.at = "prune" /\ head \notin dismissed.known
      BY <1>0, <2>1, NextHost DEF ChoiceInv, DismissedInv, PluginType, Pruning, at
    <2> QED BY <1>0, <2>1, <2>2 DEF ChoiceInv, OwnedInv, DismissedInv, at
  <1>11. CASE Report
    <2>1. UNCHANGED <<legacy, file, dismissed, machines, raced>> /\ worker' = [worker EXCEPT !.current = FALSE]
      BY <1>11, Zenon DEF Report, fixed, registry
    <2>2. worker'.at = worker.at /\ worker'.todo = worker.todo
      BY <1>0, <2>1 DEF WorkerState
    <2> QED BY <1>0, <2>1, <2>2 DEF ChoiceInv, OwnedInv, DismissedInv, at, head
  <1>12. ASSUME NEW n \in Names, NEW target \in Hosts \cup {Label}, UserAdds(n, target) PROVE ChoiceInv'
    <2>1. CASE target # Nothing
      <3>1. /\ dismiss(n, target) /\ machines' = [machines EXCEPT ![n] = target] /\ (legacy => n = Mine)
            /\ UNCHANGED <<legacy, file, worker>> /\ raced' = (raced \/ (at("removing") /\ n = head))
        BY <1>12, Zenon DEF UserAdds, fixed
      <3> QED BY <1>0, <2>1, <3>1, DismissKept
    <2>2. CASE target = Nothing
      BY <2>2, PluginNames
    <2> QED BY <2>1, <2>2
  <1>13. ASSUME NEW n \in Names, UserRemoves(n) PROVE ChoiceInv'
    <2>1. /\ dismiss(n, Nothing) /\ machines' = [machines EXCEPT ![n] = Nothing] /\ machines[n] # Nothing
          /\ UNCHANGED <<legacy, file, worker>> /\ raced' = raced
      BY <1>13, Zenon DEF UserRemoves, remove, fixed
    <2> QED BY <1>0, <2>1, DismissKept
  <1>14. CASE Switch \/ UserExports \/ Stale \/ (\E h \in Hosts : RetryDue(h)) \/ UNCHANGED vars
    <2>1. UNCHANGED <<legacy, file, dismissed, machines, raced, worker>>
      BY <1>14, Zenon DEF Switch, UserExports, Stale, RetryDue, vars, ghosts, fixed, registry
    <2> QED BY <1>0, <2>1 DEF ChoiceInv, OwnedInv, DismissedInv, at, head
  <1> QED BY <1>1, <1>2, <1>3, <1>4, <1>5, <1>6, <1>7, <1>8, <1>9, <1>10, <1>11, <1>12, <1>13, <1>14,
             Zenon DEF Next, Worker, Failures, User

\* The worker removes only what it registered or cannot tell from it, unless the
\* user slipped in after the last listing; and it never brings back a machine the
\* user removed (Reconciler::poll, prune, Core::remove).
THEOREM ChoicesStand == Spec => UsersChoicesStand
  <1> DEFINE Stands == /\ RemoveMachine => by[head] = "worker" \/ machines[head] = head \/ raced
                       /\ AddMachine => head \notin dismissed.known
  <1>1. Init => ChoiceInv
    BY InitTypes
  <1>2. ChoiceInv /\ [Next]_vars => ChoiceInv'
    BY ChoiceStep
  <1>3. ChoiceInv /\ [Next]_vars => [Stands]_vars
    <2> SUFFICES ASSUME ChoiceInv PROVE Stands
      OBVIOUS
    <2>1. RemoveMachine => at("removing") /\ machines[head] # Nothing
      BY DEF RemoveMachine
    <2>2. AddMachine => at("adding")
      BY DEF AddMachine
    <2> QED BY <2>1, <2>2 DEF ChoiceInv, OwnedInv, DismissedInv
  <1> QED BY <1>1, <1>2, <1>3, PTL DEF Spec, UsersChoicesStand
=============================================================================
