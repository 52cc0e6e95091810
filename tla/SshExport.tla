-------------------------------- MODULE SshExport --------------------------------
(***************************************************************************)
(* `attached export-ssh-config`: the foreground process that discovers the    *)
(* account's hosts, prepares one local SSH broker per host and keeps a        *)
(* managed OpenSSH configuration that names them (crates/cli/src/ssh/         *)
(* export.rs, client.rs Broker, configuration.rs, state.rs pin_host).         *)
(*                                                                           *)
(* One turn of the select loop in export.rs is one action: the event it took *)
(* and everything the loop does before it waits again.  Brokers, preparations *)
(* and the discovery task run between turns.  The user, the publishers and a  *)
(* suspended computer are the environment; `changes` bounds what they do.     *)
(***************************************************************************)
EXTENDS Naturals, FiniteSets, FiniteSetsExt, Sequences, SequencesExt, Functions

CONSTANTS
    Targets,                \* endpoint identities
    Labels,                 \* host labels; the ones in Targets are shaped like an identity
    Slots,                  \* brokers of one host that exist at the same time
    Nothing,
    PREPARE_CONCURRENCY,    \* hosts prepared at the same time
    MAX_PERMITS,            \* proxied connections of one broker
    MAX_EDITS,              \* bound: edits of the user's file
    MAX_CHANGES             \* bound: what else the environment changes

ASSUME SshExportBounds ==
    /\ PREPARE_CONCURRENCY \in Nat \ {0} /\ MAX_PERMITS \in Nat \ {0}
    /\ MAX_EDITS \in Nat /\ MAX_CHANGES \in Nat

VARIABLES
    world,      \* what each publisher is: advertised, label, reachable, host key
    pins,       \* ssh-pins.json
    trusted,    \* ghost: every host key the pins ever held
    user,       \* ~/.ssh/config: the user's edits and the managed block
    edits,      \* ghost: the edits the user made
    slipped,    \* ghost: one of them fell between the last look and the rename
    config,     \* ~/.ssh/attached/config: the hosts it names
    report,     \* discovery.json
    exporter,   \* the process: where it is, what it read of the user's file
    known,      \* the last snapshot
    discovery,  \* the discovery task's result on its way
    preparing,  \* preparations begun: pending, or their result
    retries,    \* retry_after in the order of its deadlines
    waiting,    \* the hosts whose deadline is still to come
    running,    \* the broker each name leads to
    broker,     \* the brokers
    slept,      \* the computer was suspended since the last tick
    changes     \* ghost: what the environment changed

vars == <<world, pins, trusted, user, edits, slipped, config, report, exporter, known, discovery,
          preparing, retries, waiting, running, broker, slept, changes>>

files == <<user, edits, slipped>>
loop == <<config, report, known, discovery, preparing, retries, waiting, running>>
trust == <<pins, trusted>>

----------------------------------------------------------------------------
no_broker == [state |-> "none", key |-> Nothing, setups |-> 0, streams |-> {}, retired |-> FALSE]

pending == [state |-> "pending", key |-> Nothing]

empty == [t \in {} |-> Nothing]

Init ==
    /\ world \in [Targets -> [advertised : {TRUE}, label : Labels,
                              reachable : {TRUE}, key : {1}]]
    /\ pins = [t \in Targets |-> Nothing]
    /\ trusted = [t \in Targets |-> {}]
    /\ user = [edits |-> 0, block |-> FALSE, edited |-> FALSE]
    /\ edits = 0
    /\ slipped = FALSE
    /\ config = {}
    /\ report = [complete |-> FALSE, hosts |-> {}]
    /\ exporter = [at |-> "down", read |-> Nothing, crashed |-> FALSE, exit |-> Nothing]
    /\ known = empty
    /\ discovery = Nothing
    /\ preparing = empty
    /\ retries = <<>>
    /\ waiting = {}
    /\ running = empty
    /\ broker = [b \in Targets \X Slots |-> no_broker]
    /\ slept = FALSE
    /\ changes = 0

at(place) == exporter.at = place

go(place) == exporter' = [exporter EXCEPT !.at = place]

change == changes < MAX_CHANGES /\ changes' = changes + 1

----------------------------------------------------------------------------
(* configuration.rs: the Include in the user's own file.                     *)

\* Under the exporter lock: an edited or duplicated block is refused; a crashed
\* exporter's aliases are cleared before the Include can name them again.
Install ==
    /\ at("down")
    /\ ~user.edited
    /\ config' = {}
    /\ exporter' = [exporter EXCEPT !.at = "installing", !.read = user]
    /\ UNCHANGED <<world, trust, files, report, known, discovery, preparing, retries, waiting,
                   running, broker, slept, changes>>

\* Mutant: the file is replaced without looking at it again.
unchanged_since_unchecked == TRUE

\* replace_config reads the file again before it renames the new one over it.
unchanged_since == user = exporter.read

\* An Include that is already there is not written again.
CheckInstall ==
    /\ at("installing")
    /\ exporter' = [exporter EXCEPT !.at =
         IF exporter.read.block THEN "started" ELSE IF unchanged_since THEN "including" ELSE "failed"]
    /\ UNCHANGED <<world, trust, files, loop, broker, slept, changes>>

Include ==
    /\ at("including")
    /\ user' = [exporter.read EXCEPT !.block = TRUE]
    /\ go("started")
    /\ UNCHANGED <<world, trust, edits, slipped, loop, broker, slept, changes>>

\* A failed installation drops the lock; nothing else was set up.
InstallFails ==
    /\ at("failed")
    /\ go("down")
    /\ UNCHANGED <<world, trust, files, loop, broker, slept, changes>>

\* cleanup: a block the user edited or removed is left to the user.
Cleanup ==
    /\ at("unpublished")
    /\ report' = [complete |-> FALSE, hosts |-> {}]
    /\ config' = {}
    /\ exporter' = [exporter EXCEPT !.at = IF user.block THEN "cleaning" ELSE "down", !.read = user]
    /\ UNCHANGED <<world, trust, files, known, discovery, preparing, retries, waiting, running,
                   broker, slept, changes>>

CheckCleanup ==
    /\ at("cleaning")
    /\ go(IF unchanged_since THEN "excluding" ELSE "down")
    /\ UNCHANGED <<world, trust, files, loop, broker, slept, changes>>

Exclude ==
    /\ at("excluding")
    /\ user' = [exporter.read EXCEPT !.block = FALSE]
    /\ go("down")
    /\ UNCHANGED <<world, trust, edits, slipped, loop, broker, slept, changes>>

----------------------------------------------------------------------------
(* export.rs: the loop.                                                      *)

\* Mutant: only hosts that run count as holders of a label.
aliases_of_running(hosts, t) ==
    {t} \cup {n \in {hosts[t].label} \ Targets :
                 \A other \in DOMAIN running \cap DOMAIN hosts : hosts[other].label = n => other = t}

\* The stable name, and the label where it is unique and not shaped like an
\* identity.
aliases(hosts, t) ==
    {t} \cup {n \in {hosts[t].label} \ Targets :
                 \A other \in DOMAIN hosts : hosts[other].label = n => other = t}

\* Mutant: hosts are tried in no particular order and at once.
preparation_order_any(hosts, order, cooling) == [t \in DOMAIN hosts |-> 0]

\* preparation_order: the hosts whose deadline has passed, the ones never tried
\* before the others, the others by deadline.
preparation_order(hosts, order, cooling) ==
    [t \in DOMAIN hosts \ cooling |-> IF Contains(order, t) THEN IndexFirstSubSeq(<<t>>, order) ELSE 0]

last_in(order, t) == Append(SelectSeq(order, LAMBDA u : u # t), t)

\* The Host section of one broker: its socket and keys under the names it has.
configuration(t, slot, names) == [target |-> t, slot |-> slot, names |-> names]

\* What every turn does after its event: expire, retire, start preparations and
\* publish the configuration.
Turn(hosts, run, prep, order, cooling) ==
    LET alive == Restrict(hosts, {t \in DOMAIN hosts : hosts[t].live})
        kept == Restrict(run, DOMAIN run \cap DOMAIN alive)
        tried == SelectSeq(order, LAMBDA t : t \in DOMAIN alive)
        rank == preparation_order(alive, tried, cooling)
        ready == DOMAIN rank \ (DOMAIN kept \cup DOMAIN prep)
        free == Min({PREPARE_CONCURRENCY - Cardinality(DOMAIN prep), Cardinality(ready)})
    IN  \E start \in kSubset(free, ready) :
          /\ \A s \in start, t \in ready \ start : rank[s] <= rank[t]
          /\ known' = alive
          /\ running' = kept
          /\ preparing' = [t \in DOMAIN prep \cup start |-> IF t \in start THEN pending ELSE prep[t]]
          /\ retries' = SelectSeq(tried, LAMBDA t : t \notin start) \o SetToSeq(start)
          /\ waiting' = (cooling \cap DOMAIN alive) \cup start
          /\ config' = {configuration(t, kept[t], aliases(alive, t)) : t \in DOMAIN kept}

\* A host dropped from running has its broker's token cancelled.
retire(brokers, run) ==
    [b \in DOMAIN brokers |->
        IF brokers[b].state = "serving" /\ ~(b[1] \in DOMAIN run /\ run[b[1]] = b[2])
        THEN [brokers[b] EXCEPT !.retired = TRUE] ELSE brokers[b]]

\* The end of install: only now is a killed exporter's report withdrawn.
Begin ==
    /\ at("started")
    /\ exporter' = [exporter EXCEPT !.at = "running", !.crashed = FALSE]
    /\ report' = [complete |-> FALSE, hosts |-> {}]
    /\ UNCHANGED <<world, trust, files, config, known, discovery, preparing, retries, waiting,
                   running, broker, slept, changes>>

\* The tick compares wall-clock times: after a suspension everything is rebuilt.
Tick ==
    /\ at("running")
    /\ \/ /\ slept
          /\ exporter' = [exporter EXCEPT !.at = "stopping", !.exit = "resumed"]
          /\ slept' = FALSE
          /\ UNCHANGED <<loop, broker>>
       \/ /\ ~slept
          /\ Turn(known, running, preparing, retries, waiting)
          /\ broker' = retire(broker, running')
          /\ UNCHANGED <<exporter, slept, report, discovery>>
    /\ UNCHANGED <<world, trust, files, changes>>

\* A failed discovery keeps the hosts and withdraws the report.
Discovered ==
    /\ at("running")
    /\ discovery # Nothing
    /\ discovery' = Nothing
    /\ report' = IF discovery.failed THEN [complete |-> FALSE, hosts |-> {}]
                 ELSE [complete |-> discovery.complete, hosts |-> DOMAIN discovery.hosts]
    /\ Turn(IF discovery.failed THEN known ELSE discovery.hosts, running, preparing, retries, waiting)
    /\ broker' = retire(broker, running')
    /\ UNCHANGED <<world, trust, files, exporter, slept, changes>>

still_wanted(t) == t \in DOMAIN known

\* A preparation ended.  The broker that comes of it starts to serve, unless the
\* host was removed or revoked meanwhile.
Prepared(t) ==
    LET prep == Restrict(preparing, DOMAIN preparing \ {t})
        failed == preparing[t].state = "failed"
        order == IF failed THEN last_in(retries, t) ELSE retries
        cooling == IF failed THEN waiting \cup {t} ELSE waiting
    IN  /\ at("running")
        /\ t \in DOMAIN preparing /\ preparing[t].state # "pending"
        /\ \/ /\ ~failed /\ still_wanted(t)
              /\ \E s \in Slots :
                   LET run == [u \in DOMAIN running \cup {t} |-> IF u = t THEN s ELSE running[u]]
                   IN  /\ broker[<<t, s>>].state = "none"
                       /\ \A other \in Slots : other < s => broker[<<t, other>>].state # "none"
                       /\ Turn(known, run, prep, order, cooling)
                       /\ broker' = retire([broker EXCEPT ![<<t, s>>] =
                              [no_broker EXCEPT !.state = "serving", !.key = preparing[t].key]], running')
           \/ /\ failed \/ ~still_wanted(t)
              /\ Turn(known, running, prep, order, cooling)
              /\ broker' = retire(broker, running')
        /\ UNCHANGED <<world, trust, files, report, discovery, exporter, slept, changes>>

\* Mutant: the host is forgotten whichever of its brokers ended.
own_broker_any(t, s) == t \in DOMAIN running

\* The generation of the broker that ended is the one the name leads to.
own_broker(t, s) == t \in DOMAIN running /\ running[t] = s

\* A broker task ended: its host is forgotten only if it is still this broker's.
Finished(t, s) ==
    LET run == IF own_broker(t, s) THEN Restrict(running, DOMAIN running \ {t}) ELSE running
    IN  /\ at("running")
        /\ broker[<<t, s>>].state = "ended"
        /\ Turn(known, run, preparing, retries, waiting)
        /\ broker' = retire([broker EXCEPT ![<<t, s>>] = no_broker], running')
        /\ UNCHANGED <<world, trust, files, report, discovery, exporter, slept, changes>>

\* A signal.
Shutdown ==
    /\ at("running")
    /\ change
    /\ exporter' = [exporter EXCEPT !.at = "stopping", !.exit = "shutdown"]
    /\ UNCHANGED <<world, trust, files, loop, broker, slept>>

\* run's end: cancel, drop the brokers and the preparations, and wait for all
\* of them and for the discovery task.
TearDown ==
    /\ at("stopping")
    /\ go("draining")
    /\ broker' = [b \in DOMAIN broker |->
                    IF broker[b].state = "none" THEN no_broker ELSE [no_broker EXCEPT !.state = "ended"]]
    /\ preparing' = empty
    /\ running' = empty
    /\ known' = empty
    /\ retries' = <<>>
    /\ waiting' = {}
    /\ discovery' = Nothing
    /\ UNCHANGED <<world, trust, files, config, report, slept, changes>>

\* export's loop: no stale name stays published while the brokers are rebuilt.
Unpublish ==
    /\ at("draining")
    /\ broker' = [b \in DOMAIN broker |-> no_broker]
    /\ config' = {}
    /\ report' = [complete |-> FALSE, hosts |-> {}]
    /\ go(IF exporter.exit = "resumed" THEN "running" ELSE "unpublished")
    /\ UNCHANGED <<world, trust, files, known, discovery, preparing, retries, waiting, running, slept,
                   changes>>

----------------------------------------------------------------------------
(* The tasks beside the loop.                                                *)

\* discover: the catalog after a refresh.  A record that could not be fetched
\* keeps the row it had, and the report says so.
Discover ==
    /\ at("running")
    /\ discovery = Nothing
    /\ \E missing \in SUBSET Targets :
         LET fresh == {t \in Targets \ missing : world[t].advertised}
             old == {t \in missing \cap DOMAIN known : known[t].live}
         IN  /\ discovery' = [failed |-> FALSE, complete |-> missing = {},
                     hosts |-> [t \in fresh \cup old |->
                         IF t \in fresh THEN [label |-> world[t].label, live |-> TRUE] ELSE known[t]]]
             /\ IF missing = {} THEN UNCHANGED changes ELSE change
    /\ UNCHANGED <<world, trust, files, config, report, exporter, known, preparing, retries, waiting,
                   running, broker, slept>>

DiscoverFails ==
    /\ at("running")
    /\ discovery = Nothing
    /\ change
    /\ discovery' = [failed |-> TRUE]
    /\ UNCHANGED <<world, trust, files, config, report, exporter, known, preparing, retries, waiting,
                   running, broker, slept>>

\* canonical_host_key: the key the publisher shows, whatever its comment says.
host_key(t) == world[t].key

\* pin_host without trust_new_host_key: the first key is pinned, a different
\* one is refused.
pin_allows(t, key) == pins[t] \in {Nothing, key}

pin(t, key) ==
    /\ pins' = [pins EXCEPT ![t] = key]
    /\ trusted' = [trusted EXCEPT ![t] = @ \cup {key}]

\* Broker::prepare: connect, pin the host key, write the key files and bind.
Prepare(t) ==
    LET key == host_key(t)
    IN  /\ at("running")
        /\ t \in DOMAIN preparing /\ preparing[t].state = "pending"
        /\ IF world[t].reachable /\ pin_allows(t, key)
           THEN preparing' = [preparing EXCEPT ![t] = [state |-> "ready", key |-> key]] /\ pin(t, key)
           ELSE preparing' = [preparing EXCEPT ![t].state = "failed"] /\ UNCHANGED trust
        /\ UNCHANGED <<world, files, config, report, exporter, known, discovery, retries, waiting,
                       running, broker, slept, changes>>

\* refresh_interval has passed since a host was last tried.
RetryDue(t) ==
    /\ t \in waiting
    /\ waiting' = waiting \ {t}
    /\ UNCHANGED <<world, trust, files, config, report, exporter, known, discovery, preparing,
                   retries, running, broker, slept, changes>>

in_use(b) == broker[b].setups + Cardinality(broker[b].streams)

only_broker(b, next) ==
    /\ broker' = [broker EXCEPT ![b] = next]
    /\ UNCHANGED <<world, trust, files, loop, exporter, slept, changes>>

\* The helper of an OpenSSH process connects to the socket and carries bytes
\* until either side ends: one more setup for the broker.
local_proxy(b) == [broker[b] EXCEPT !.setups = @ + 1]

\* Broker::serve accepts the connection of an OpenSSH process that read the
\* configuration at any time; over the limit it is dropped.
Accept(b) ==
    /\ broker[b].state = "serving" /\ ~broker[b].retired
    /\ in_use(b) < MAX_PERMITS
    /\ only_broker(b, local_proxy(b))

\* Mutant: the identity found at setup is not compared with the prepared one.
same_identity_unchecked(b) == TRUE

\* The host key the publisher shows at this setup.
same_identity(b) == host_key(b[1]) = broker[b].key

SetUp(b) ==
    /\ broker[b].setups > 0 /\ ~broker[b].retired
    /\ world[b[1]].reachable /\ same_identity(b)
    /\ only_broker(b, [broker[b] EXCEPT !.setups = @ - 1, !.streams = @ \cup {host_key(b[1])}])

\* Unreachable, another identity, a timeout, or a token that was cancelled.
SetupFails(b) ==
    /\ broker[b].setups > 0
    /\ only_broker(b, [broker[b] EXCEPT !.setups = @ - 1])

StreamEnds(b) ==
    \E key \in broker[b].streams :
        only_broker(b, [broker[b] EXCEPT !.streams = @ \ {key}])

\* Retirement ends admission and removes the socket; the streams go on.
StopAccepting(b) ==
    /\ broker[b].state = "serving" /\ broker[b].retired
    /\ only_broker(b, [broker[b] EXCEPT !.state = "retired"])

ServeEnds(b) ==
    /\ broker[b].state = "retired"
    /\ in_use(b) = 0
    /\ only_broker(b, [broker[b] EXCEPT !.state = "ended"])

\* The listener fails; the broker's connections are dropped with their tasks.
ServeFails(b) ==
    /\ broker[b].state = "serving"
    /\ change
    /\ broker' = [broker EXCEPT ![b] = [no_broker EXCEPT !.state = "ended"]]
    /\ UNCHANGED <<world, trust, files, loop, exporter, slept>>

----------------------------------------------------------------------------
(* The environment.                                                          *)

\* A publisher stops or comes back, is renamed, is cut off, or has a new key.
PublisherChanges(t) ==
    /\ change
    /\ \/ world' = [world EXCEPT ![t].advertised = ~@]
       \/ \E label \in Labels \ {world[t].label} : world' = [world EXCEPT ![t].label = label]
       \/ world' = [world EXCEPT ![t].reachable = ~@]
       \/ world' = [world EXCEPT ![t].key = 2]
    /\ UNCHANGED <<trust, files, loop, exporter, broker, slept>>

\* A lease runs out in the snapshots that hold it.
Lapse(t) ==
    LET lapsed(hosts) == [u \in DOMAIN hosts |->
                            IF u = t THEN [hosts[u] EXCEPT !.live = FALSE] ELSE hosts[u]]
    IN  /\ t \in DOMAIN known /\ known[t].live
        /\ change
        /\ known' = lapsed(known)
        /\ discovery' = IF discovery = Nothing \/ discovery.failed THEN discovery
                        ELSE [discovery EXCEPT !.hosts = lapsed(@)]
        /\ UNCHANGED <<world, trust, files, config, report, exporter, preparing, retries, waiting,
                       running, broker, slept>>

\* state_catalog::host: the live rows a name selects.  What is shaped like an
\* identity is never taken for a label.
host(rows, name) ==
    {t \in DOMAIN rows : rows[t].live /\ IF name \in Targets THEN t = name ELSE rows[t].label = name}

\* ssh_host: the cached row if there is exactly one, otherwise what a refresh finds.
ssh_host(name, no_cache) ==
    LET cached == host(known, name)
        advertised == [t \in {u \in Targets : world[u].advertised} |->
                         [label |-> world[t].label, live |-> TRUE]]
    IN  IF ~no_cache /\ Cardinality(cached) = 1 THEN cached ELSE host(advertised, name)

\* `attached ssh`: a broker of its own for one command.  An ambiguous name fails.
\* The preparation pins the key it meets first; only --trust-new-host-key replaces
\* a pin.
OneShot(t, trust_new_host_key) ==
    /\ \E name \in Labels \cup Targets, no_cache \in BOOLEAN : ssh_host(name, no_cache) = {t}
    /\ world[t].reachable
    /\ pin_allows(t, host_key(t)) \/ trust_new_host_key
    /\ pins[t] # host_key(t)
    /\ pin(t, host_key(t))
    /\ IF pins[t] = Nothing THEN change ELSE UNCHANGED changes
    /\ UNCHANGED <<world, files, loop, exporter, broker, slept>>

\* The user edits their file, inside or outside the managed block.
Edit ==
    /\ edits < MAX_EDITS
    /\ edits' = edits + 1
    /\ \E block \in {user.block, FALSE}, edited \in {user.edited, user.block} :
         user' = [edits |-> user.edits + 1, block |-> block /\ ~edited, edited |-> edited]
    /\ slipped' = (slipped \/ exporter.at \in {"including", "excluding"})
    /\ UNCHANGED <<world, trust, loop, exporter, broker, slept, changes>>

Sleep ==
    /\ at("running") /\ ~slept
    /\ change
    /\ slept' = TRUE
    /\ UNCHANGED <<world, trust, files, loop, exporter, broker>>

\* SIGKILL: the lock goes, the files stay as they are.
Crash ==
    /\ ~at("down")
    /\ change
    /\ exporter' = [exporter EXCEPT !.at = "down", !.crashed = TRUE]
    /\ broker' = [b \in DOMAIN broker |-> no_broker]
    /\ known' = empty /\ running' = empty /\ preparing' = empty
    /\ retries' = <<>> /\ waiting' = {} /\ discovery' = Nothing
    /\ slept' = FALSE
    /\ UNCHANGED <<world, trust, files, config, report>>

----------------------------------------------------------------------------
Files == Install \/ CheckInstall \/ Include \/ InstallFails \/ Cleanup \/ CheckCleanup \/ Exclude

Turns ==
    \/ Begin \/ Tick \/ Discovered \/ TearDown \/ Unpublish
    \/ \E t \in Targets : Prepared(t) \/ \E s \in Slots : Finished(t, s)

Tasks ==
    \/ Discover \/ DiscoverFails
    \/ \E t \in Targets : Prepare(t) \/ RetryDue(t)
    \/ \E b \in DOMAIN broker :
         \/ Accept(b) \/ SetUp(b) \/ SetupFails(b) \/ StreamEnds(b)
         \/ StopAccepting(b) \/ ServeEnds(b) \/ ServeFails(b)

Environment ==
    \/ Shutdown \/ Edit \/ Sleep \/ Crash
    \/ \E t \in Targets : \/ PublisherChanges(t) \/ Lapse(t)
                           \/ \E trust_new_host_key \in BOOLEAN : OneShot(t, trust_new_host_key)

Next == Files \/ Turns \/ Tasks \/ Environment

Spec == Init /\ [][Next]_vars

\* The process and its tasks go on: every poll of the service answers in the
\* end, the interval ticks and what is ready is taken (the environment's
\* failures are bounded by MAX_CHANGES).
FairSpec ==
    /\ Spec
    /\ WF_vars(Files \/ Begin \/ TearDown \/ Unpublish)
    /\ WF_vars(Tick)
    /\ WF_vars(Discover \/ Discovered)
    /\ WF_vars(\E t \in Targets, s \in Slots : Finished(t, s))
    /\ \A t \in Targets : WF_vars(Prepare(t) \/ Prepared(t)) /\ WF_vars(RetryDue(t))

----------------------------------------------------------------------------
(* Properties.                                                               *)

\* An edit the user made to ~/.ssh/config is still there, however the exporter's
\* installation and cleanup interleave with it and with crashes, except one that
\* falls between replace_config's second look and its rename.
UserEditsKept == user.edits = edits \/ slipped

\* Every proxied SSH connection goes to a host key that was pinned on first use
\* or trusted by the user, although the publisher may change its key between the
\* preparation of a broker and any later connection (Broker::serve, pin_host).
OnlyTrustedKeys == \A b \in DOMAIN broker : broker[b].streams \subseteq trusted[b[1]]

\* A name in the configuration leads to one host: the one with that identity, or
\* the only known host with that label.  While the loop runs each name leads to a
\* broker that exists, and an exporter that was not killed leaves no name and no
\* report that looks complete behind.
Truthful ==
    /\ at("running") => \A entry \in config :
         /\ broker[<<entry.target, entry.slot>>].state # "none"
         /\ entry.target \in DOMAIN known
         /\ entry.names \cap Targets = {entry.target}
         /\ \A n \in entry.names \ Targets : {t \in DOMAIN known : known[t].label = n} = {entry.target}
    /\ at("down") /\ ~exporter.crashed => config = {} /\ ~report.complete

\* While the loop runs a host stays in the configuration, and on its broker, until
\* the host is not known any more or that very broker has ended: an older broker of
\* the host that drained its last stream and ends late (export.rs:268), or a
\* preparation that ends late, takes no name away from its successor.
NamesStay ==
    at("running") /\ at("running")' => \A entry \in config :
        \/ entry.target \notin DOMAIN known'
        \/ broker[<<entry.target, entry.slot>>].state = "ended"
        \/ \E next \in config' : next.target = entry.target /\ next.slot = entry.slot

\* What a step leaves in the managed configuration is true of the exporter's state,
\* and a step takes a name away only for cause (aliases, run, export, ManagedConfig).
ConfigIsTruthful == [][Truthful' /\ NamesStay]_vars

\* No host starves: one that stays advertised, reachable and of the pinned
\* identity gets its name again and again while the exporter runs, although
\* unreachable hosts before it in the catalog are retried for ever
\* (preparation_order and retry_after).
HostsGetServed ==
    \A t \in Targets :
        []<>( \/ \E entry \in config : entry.target = t
              \/ ~at("running")
              \/ ~(world[t].advertised /\ world[t].reachable /\ pins[t] \in {Nothing, world[t].key}) )
=============================================================================
