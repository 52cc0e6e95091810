# Formal models of Attached

TLA+ models of the parts of this repository whose correctness depends on the
order in which several processes act. TLC checks them on small instances; TLAPS proves
every safety property of every module, and the refinement of an abstract specification by
the descriptor cache, for all values of the constants. Liveness is checked by TLC only.
The models are written from the Rust sources; `PROJECT.json` maps each definition to its lines.

## The system

A *publisher* runs `attached serve`: an iroh endpoint that accepts authenticated
tunnels (SSH, Herdr, TCP forwards). It publishes a sealed *host access descriptor*
to the synchronization service, a Cloudflare worker that stores ciphertext under
record IDs. *Consumers* download and open those descriptors, cache them, and
connect. Everything a consumer runs (CLI, SSH exporter, Herdr plugin) shares files
in one state directory.

| Component | State | Operations | Interaction | Hard behaviour |
|---|---|---|---|---|
| Sync service (`session-sync-worker`) | account row, record rows with revisions | create account, list, get, put | HTTP | quotas, a stored write whose answer is lost, retries of issuance |
| Sync protocol | – | seal/open, canonical encodings | library | revision is not sealed with the envelope |
| Refresh and catalog (`sync/refresh.rs`, `state_catalog.rs`) | encrypted catalog file with generation | load, list, fetch, reconcile, save | HTTP, file locks | overlapping refreshes, index and record read at different times |
| Publisher (`sync/publisher.rs`, `publisher_descriptor.rs`) | last digest, next refresh; the client's shared descriptor | publish, observe, refresh | HTTP, shared cache | late requests, timeout and cancellation of a shared refresh, lifetime against republication |
| Server and handoff (`server.rs`, `serve_handoff.rs`, `installation.rs`, `endpoint_registry.rs`) | endpoint, update permit, active operation, candidate process | start, confirm, cut over, commit, roll back, supervise | pipes, signals, tunnels | timeouts racing answers, crashes, signals, blocking threads |
| SSH server and TCP forwarding (`ssh/mod.rs`, `ssh/exec.rs`, `forward.rs`) | connections, permits, channels, commands, streams | admit, authenticate, execute, forward, recheck, drain | streams, account file | an account removed under an open session, a library task that outlives its session |
| Client broker (`client_broker.rs`, `client_transport.rs`) | leases, cached connections, lock files | acquire, connect, idle exit | Unix socket, file locks | idle exit racing a lease, several starters |
| Account and local state (`sync/state.rs`, `secure_state.rs`, `local_encryption.rs`) | account slot, identity, key | create, import, load, migrate, uninstall | lock files, atomic renames, 1Password, HTTP | kills between two files, keys cached across an uninstallation |
| SSH exporter (`ssh/export.rs`, `client.rs`, `configuration.rs`, `state.rs`) | brokers, pins, managed configuration, retry queue | install, discover, prepare, serve, retire, clean up | files the user edits, sockets, child processes | edits beside a rename, changed keys, starvation |
| Herdr plugin | worker lock and lease, managed machines, counts of absences | poll, register, remember, prune | child processes, a registry other programs change | kills between a command and its record, replacements under the same name |
| Command line, account export, test harness, JS app | – | – | – | not modelled |

What makes them correct: the cached catalog never shows what was not published nor
anything older than what it showed; overlapping refreshes neither resurrect nor lose
records, and whatever they leave behind is repaired; a refresh ends. A publisher that
serves is advertised truthfully soon after any disturbance; connection setups find a
publisher that restarted, share one bounded refresh, and fail only for a reason. At most
one process holds the endpoint of an identity; an update is either committed, with both
sides agreeing, or rolled back with the old binary on disk; the service comes back;
nothing is left running without a parent. Commands and sockets of a publisher end soon
after the account that authorized them is gone, and with the server. The consumer's
commands share one broker: at most one process holds the consumer's endpoint, the socket
leads to it, a broker does not leave while a lease is held, every command that asks for
a lease gets one, and the broker ends when nobody needs it. The secrets of a directory
can always be opened with the salt and the password that are there; an account that the
service issued can be installed and stays valid; no account replaces another; no command
waits forever. The exporter keeps the user's edits, connects to trusted keys only and
writes true names; the plugin removes only what it registered and respects what the user
removed; neither lets one host starve another.

## Modules

**RecordStore** – the record table of one account object (`storage.rs`,
`model.rs`). `store` is a function from the IDs that have a row to a revision and
an envelope. `put_record` is one step because SQL in a Durable Object is
synchronous. There is no delete in the worker. An envelope is abstracted to
whether it opens with the account's key and when its descriptor expires.

**CatalogRefresh** – extends RecordStore with any number of refreshing processes
and the shared catalog file. Each action is a section between two points where
`refresh.rs` can be overtaken: `Start` (reads the clock), `Load` (shared lock),
`ListRecords`, the concurrent fetches `GetRecord` / `RecheckIndex` /
`FetchUnavailable` (one small state machine per changed record), `Save` (exclusive
lock, re-reads the catalog, merges, renames) and `Listing` (after the lock is
released). `Abandon` is any failure that ends the refresh, a crash included: before
the rename it leaves no trace, after it the save is complete. `Faithful = FALSE`
replaces the answers of the worker by those of a service that hides records and
answers any envelope it ever stored, under any revision.

**Handoff** – the self-update: a chain of server processes, the pipes between a
parent and its candidate, the update task with its permit, the retained binary,
the consumers, signals and crashes. Each wait in the code has a deadline; the
model lets each deadline fire at any time. Two assumptions on time are constants:

- `PrepareWithinBudget`: the blocking preparation ends within its 130 s budget.
  Its own timeouts (120 s for the updater) make this the normal case; when it does
  not hold, the abandoned thread restores its backup later.
- `PromptAbort`: an aborted candidate leaves `serve_endpoint` before an update it
  accepted after the abort has been prepared. The aborted candidate no longer
  counts as pending, so it may accept a Start during its grace period.

A killed process does not take its updater with it, which runs in a process group of its
own (`bounded_process.rs:50`): `late` remembers the orphan, which may install at any later
time (`OrphanInstalls`), also after the parent has restored the backup. Nothing in the code
prevents that, and `RunningIsInstalled` is about the states before an updater was orphaned.

`ended` stands for tasks that have given the permit back and have not yet reset
`active_operation`: two statements of one task on a multi-threaded runtime, between
which another connection's Start may run.

**Broker** – the consumer's background process (`client_broker.rs`,
`client_transport.rs`, `client_ipc.rs`) and the commands that use it. They share two
lock files and a socket file: `startup.lock` serialises the commands that start a
broker, `owner.lock` is held by the broker from before it binds the socket until it
has removed it. A broker goes through `starting`, `locked`, `binding`,
`serving` (with excursions to `rebuilding` after a suspension), `leaving`,
`closing`, `closed` and `unlinked`; each is a point between two awaits of
`run_background`. A command goes from its first attempt (`attach`) through the
startup lock (`queue`) and the retry loop (`poll`, `probe`, `probed`, `spawn`) to
`held`. `leases` holds the lease streams of a broker, those in the socket's backlog
(`queued`) and those accepted (`leased`), each alive or hung up by its command; the
requests that one command abandoned at the same stage are one element. A command has
one publisher connection at a time. Any process may be killed and any bind may fail,
up to `MAX_FAULTS`; a machine may be suspended up to `MAX_RESUMES` times. Broker
names are used again once no command remembers them. One constant is about time:

- `Patient`: no 15 s deadline passes, and a serving broker answers within the 2 s
  of an attach, which is retried every 20 ms, before it has been idle for 2 s.

After a suspension the endpoint is replaced, and the old one is given 3 s to close. If it
takes longer, a Connect task may hold its clone (`client_broker.rs:163`, state `stale`)
beside the new endpoint. The comment at line 302 says that "even a timed-out close cannot
overlap the new relay registration", which the clone does not guarantee; whether they really
overlap depends on how iroh closes an endpoint, which is outside this code. So `OneEndpoint`
is about processes, and what is checked of the replaced endpoint (in `BrokerEnds`) is that
no task keeps it.

**LocalState** – the account and the endpoint identity of one state directory, and the
account issuance of the worker (`sync/account.rs`, `sync/state.rs`, `identity.rs`,
`local_encryption.rs`, `secure_state.rs`, `installation.rs`; `api.rs`, `issuance.rs` and
`storage.rs` of the worker). A file is absent, torn (created in place and not yet
written), the plaintext of an older version, or an envelope of a bundle under a key; a
key is the pair of the salt and the 1Password item it was derived from. A process runs
one command at a time: `create`, `install` (import of a scoped bundle), `load`,
`identity` or `uninstall`. `cmd[p].pc` is the point between two steps on shared files,
locks or the service; `cmd[p].key` outlives the command, as the cache of
`PasswordMasterKeyStore` does, and dies with the process. Three lock files are modelled:
`sync-account-mutation.lock`, the lock of the secret, and `local-master-key.lock`.
Uninstall unlinks the account's lock file by name, so `inode` says which file the name
leads to and `held` which one a process locked; a process that waited for the old one
fails (`verify_locked_path`). The unlinks happen one at a time in the order of
`OWNED_STATE_FILES`, and `Exit` may end a process between any two steps. The service
has one row per identifier with the number of the issuance whose tokens it holds.

LocalState also has what the Worker in front answers before it reaches an account
object: a directory that cannot be used, the rate limit, and refusals (`DirectoryRefused`,
`RateLimited`, `ReadRefused`, `Refused`).

**Publication** – one publisher's record and the connection setups of a client that
need it. The publisher side is `run_supervisor`, `run_publisher` and `sync/publisher.rs`:
`publish_snapshot` compares a digest and a deadline, a PUT travels, is stored or refused,
and its answer arrives or does not; a request may outlive the process that sent it. The
client side is `Descriptors::get_with` in `publisher_descriptor.rs` with its mutex,
cooldown, timeout and cancellation, the exporter's observations, and `open_current` in
`ssh/client.rs` with its second attempt. Time is counted in intervals of 30 s, the tick of
the publisher and the renewal; a descriptor lives three of them. What is shorter (2 s, 10 s,
20 s) is an order of steps within an interval and the next. A tick and the deadline that the
tick before it set lie 30 s after the same instant, so either may come first.

**Lease** – what the descriptor cache promises its callers: it is never ahead of the
service, moves to later revisions only, and is handed out only while it is live. How a
renewal is fetched, shared, bounded or cancelled is left open. `RefinesLease` in Publication
maps `cache` and the callers' descriptors to it.

**SshExport** – `attached export-ssh-config`: installation and cleanup of the managed block
in `~/.ssh/config`, the select loop (one turn is one action: the event and everything done
before the loop waits again), the discovery task, preparations, brokers with their sockets
and streams, pins, and `attached ssh` with and without `--trust-new-host-key`, which
resolves its host by identity or unique label. The user, the publishers and a suspended
computer are the environment.

**Plugin** – the discovery worker of `herdr-plugin`: its lock, lease, exporter child and
state file, and the reconciler that registers and removes machines. The variable `legacy`
chooses the registry: Herdr's, in which a machine has an identifier of its own, or that of
herdr-core, in which a machine is known by its contents and removed by name. Each command is
a process, so the registry changes between any two of them and the worker may be killed
between any two. At the start the report file may hold an earlier exporter's report, of any
hosts. A machine stands for a host under the host's identity or its label, whoever registered
it (`stands_for`, `discovery.rs:127-131`), and once it was seen the host is dealt with: when
the user removes such a machine the worker does not list the host again, and `HostsGetListed`
asks for a host to be registered unless it was dealt with in that way or caught by a kill.
With three changes by others instead of the run's two it holds as well (10.5 million states,
13 minutes, too long for a run).

**Sessions** – what a publisher serves (`serve_endpoint`, `ssh/mod.rs`, `ssh/exec.rs`,
`forward.rs`): admission with its permits, SSH sessions with the library's own task,
channels and commands, forwarded streams, the recheck of the account at every tick and the
shutdown; and the forwarding client with the one connection it shares and sets up again. A
second passes when the ticks that were due and the cancelled tasks of the one before are
done.

**MC\*** – constants and symmetry for TLC. **CatalogRefresh_proofs**, **Broker_proofs**,
**LocalState_proofs**, **Publication_proofs**, **SshExport_proofs**, **Plugin_proofs**,
**Sessions_proofs** and **Handoff_proofs** – the theorems, each module extending the one it
is about.

Operators whose comment begins with "Mutant" are plausible defects of the operator
that follows them. They are used by no specification: each one, put in the place of
the operator, makes the property listed with it in `PROJECT.json` fail, which shows
that the property depends on that code.

## Runs

| Run | Question | Bounds |
|---|---|---|
| CatalogRefresh | all safety properties of refresh and catalog | 2 refreshers, 1 record, 2 revisions, 3 generations, 1 clock tick, three kinds of envelope; store and catalog at their quota |
| CatalogRefreshUntrusted | what holds whatever the service answers, that no fetch asks more often than `MAX_FETCH_ATTEMPTS`, and that a refresh ends | 1 refresher, 5 revisions, 2 generations, 2 attempts |
| Handoff | one endpoint, and the running binary is the installed one (unless an updater was orphaned), under the two timing assumptions | 3 processes, 3 versions, 2 operations, 2 clients, 1 crash, 1 signal |
| HandoffLive | outcome agreement, termination and return of service without them | 3 processes, 2 versions, 2 operations, 2 clients, 1 crash |
| HandoffStop | the README's promise about stopping a server (violated) | 2 processes, 1 operation, 1 signal |
| Broker | one endpoint, an honest socket, no lease lost to an idle exit | 2 commands, 2 brokers, 1 lease at most, 2 faults, 1 suspension; not `Patient` |
| BrokerLive | every acquisition succeeds; the broker, its connections and a replaced endpoint end | 2 commands, 2 brokers, 4 leases, no fault, 1 suspension; `Patient` |
| LocalState | secrets that open, accounts that stay, commands that end | 2 processes, 1 identifier, 1 foreign bundle, 2 issued accounts, 2 issuance attempts, 1 uninstallation |
| Publication | true advertisement, justified failures, spaced refreshes, the lease | 2 setups, 5 intervals, 2 runs of the publisher, 1 fault |
| SshExport | edits, keys, names that are true and stay, fairness among hosts | 2 hosts, labels of which one is shaped like an identity, 2 brokers per host, 1 preparation and 1 connection at a time, 1 edit, 1 change |
| Plugin | the user's choices, three absences, every host listed | 2 hosts, 1 attempt per check, 3 absences, 2 acts of the user, 2 reports that differ from the one before, 1 fault, 2 of these together |
| Sessions | revocation, shutdown, ownership of connections | 2 connections, 2 channels or streams each, 1 permit of each kind, three budgets of account changes, peers and forwarded connections |

Why the bounds suffice: the merge of `save_refresh` looks at one record at a time
(the quota aside), so one record shows every merge. A stale refresher needs one other save
that drops a record and one that brings it back: three generations. Five revisions outlast
two attempts: a fetch that went on asking would make a third request before they run out. Three processes are needed for a committed candidate that is itself updated,
two operations for one that overtakes another. Two brokers are enough for one that leaves
beside one that starts, and names come back; a limit of one lease makes the second command
meet the quota. One identifier makes every second issuance meet an existing row; two
processes are enough for a command beside an uninstallation or a competing command, and a
process begins several commands with the key it kept. A descriptor lives three intervals, so
five see one expire and its successor; two runs give a late request of the first and a
capability the client does not know. Two hosts with one preparation slot starve each other
if anything does, and two brokers of a host are a retired one and its successor. One attempt
per check makes the second host of the plugin wait for the first. One permit of each kind
and one channel put every limit of Sessions at its edge; the budgets are an account that
comes back, a forwarding client that needs a second connection, and one peer of each kind.
`EditsBesideLoop` in MCSshExport leaves out the edits made while the loop runs, which
neither reads nor writes the user's file. Symmetry is used in runs without liveness only.

Deadlock is checked for CatalogRefresh, Publication and Plugin. In the others the system may
stop: processes may all have ended, operations are bounded and a command need not be started.

Fairness: a refresh that began keeps moving, because each HTTP request ends in an
answer or a timeout and the catalog lock is held for one save only. In Handoff,
processes are scheduled, each wait has a deadline and clients give up. Nothing says
that a request, a crash or a signal happens, or that a fetch succeeds. In Broker, a
command keeps acquiring and a broker keeps moving; the listener accepts in order, so
each queued request is accepted; the task of a lease ends when its command hangs up;
connection tasks end; an idle broker exits. Taking the startup lock is strongly
fair, because the command tries it again and again and each holder gives it back.
Nothing says that a command gives its lease back. In LocalState a command that waits for
nobody keeps moving, because each request and each call of `op` ends; taking a lock is
strongly fair, because `flock` grants a lock that is given back again and again to each
process that waits for it. Nothing says that a process exits or a command begins. In
SshExport the loop, its tasks and its timers go on, and the failures of the environment are
bounded. In Plugin the worker goes on, a failing command returns, cool-downs end and a
running exporter writes its next report. In Sessions deadlines pass, cancelled tasks run and
closed connections are noticed; nothing is assumed of what peers, commands and users decide.
Publication has no fairness: its promises about time are invariants, because an interval
ends only when the publisher has ticked in it and the requests of the one before are over.

### Finding

`HandoffStop`: after a commit the old server waits for the client's success or its
deadline (`server.rs:448`) before `CandidateProcess::supervise` (`server.rs:477`)
installs its SIGTERM handler. A SIGTERM in that window ends the process the user
started, and the committed candidate, which has been told to survive the loss of
its parent, goes on serving. `README.md:160` says "To end SSH access, stop
`attached serve` on each publisher."

## Proofs

The theorems hold for every value of the constants that satisfies the named assumptions of
the modules: bounds and limits are natural numbers (positive where the code divides work by
them), `None`, `Nothing` and the user's names are no process, host or descriptor
(`NothingIsNone`, `PluginNames`, `SessionPlaces`), and the sets a single step runs through
(records, hosts of a report, channels of a connection) are finite. Each inductive invariant
was checked by TLC on a small instance before it was proved.

| Module | Theorem | States |
|---|---|---|
| CatalogRefresh | TypeCorrect | TypeOK |
| | RevisionsOnlyGrow, NoResurrection, OnlyOpenedIsCached | CachedRevisionsOnlyGrow, NoStaleResurrection, OnlyAuthenticCached, with any service |
| | RequestsAreLimited | the safety half of RefreshEnds (RequestsRunOut), with any service |
| | CatalogIsPublished, CatalogNeverOlder, ListingIsCurrent, StoredRecordsSurvive, QuietRefreshRepairs | CachedAsPublished, NeverOlderThanBefore, ListsWhatItAccepted, ConcurrentRecordsSurvive, QuietRefreshConverges, with the repository's worker |
| Broker | SocketLeadsToServer, OneEndpointPerIdentity, IdleExitEvictsNobody | SocketIsServers, OneEndpoint, NoIdleEviction |
| LocalState | SecretsOpen, IssuedIsUsable, AccountsStay | SealedOpens, IssuedAccountsUsable, AccountNeverReplaced |
| Publication | AlwaysAdvertised, SetupsFailForCause, RefreshesAreSpaced, CacheIsALease | ServingIsAdvertised, FailedSetupHadCause, RefreshesSpaced, RefinesLease |
| SshExport | EditsAreKept, KeysAreTrusted, NamesAreTrue | UserEditsKept, OnlyTrustedKeys, ConfigIsTruthful |
| Plugin | RemovalsAreEarned, ChoicesStand | RemovedAfterThreeAbsences, UsersChoicesStand |
| Sessions | RevokedInTwoSeconds, ForwarderAnswersForAll | AccessIsRevoked, ForwarderOwnsConnections |
| Handoff | CommitsAreFinal, ClientsAndServersAgree | CommitIsFinal, OutcomesAgree |
| | OneEndpoint | AtMostOneEndpoint, if PromptAbort |
| | ServesWhatIsInstalled | RunningIsInstalled, if PromptAbort and PrepareWithinBudget |

**CatalogRefresh.** `GenerationInv` adds to the types that a row was fetched for every
fetch past its GET; that the generations a refresher loaded and listed at, and those at
which records were stored and dropped, are all at most the current one and in order; and
that the catalog is unchanged for a refresher whose loaded generation is still the current
one. It is what makes a resurrection impossible: a record that `selected_records` lets in
while absent was listed at the generation at which it is stored. `FaithfulInv` adds, for the
repository's worker, that every row a refresher holds was published; that the store holds
the newest of them; that the revision floor of a fetch is below the row it returned; and
that the catalog is never below its own past. `CatalogNeverOlder` needs both: a returning
record is at least at its old revision because the listing that brought it back is newer
than the save that dropped it, and the service never goes back. NoStaleResurrection is
checked by TLC with the repository's worker, where a resurrection needs three generations,
and proved for any service. `AuthenticInv` is about the catalog and its copies; a fetched
row need not be authentic, it is opened first. `ListingInv` strengthens
ListsWhatItAccepted for records that are not cached at the moment: each refresh that could
bring one back has a floor at least as high. `SurvivalInv` says what can have become of a
row that a refresher loaded: it is still cached, has expired, was overtaken, or is gone for
good because only a later revision can return. The property is stated for records that
have not expired at the time of the save, not for those that had not expired when the
refresh began: with three refreshers one may drop a record as expired, one that began
earlier bring it back at the same revision, and the third, which loaded before, takes that
row for the one it knows and drops it. `QuietInv` follows an undisturbed refresh point by
point: at its save every record of the service is either fetched as it is or in the baseline
as it is.

**Broker.** The locks are the argument. The invariant is the types, `LockInv` (a broker in a
phase between `locked` and `unlinked` is the owner of `owner.lock`; so is a command
that probes it) and `SocketIsServers` itself. Without `LockInv` the socket property is not
inductive: nothing else says that the broker that unlinks the socket is the one that bound
it. `LeaseInv` is the other half: the broker of a command that believes to hold a lease has
that lease until it aborts its tasks, so the count that the idle exit looks at is not zero.

**LocalState.** An envelope is written several steps after its key was derived. The
invariant of SealedOpens adds `MasterInv` (a command between `LockMaster` and the end of its
section is the holder of `local-master-key.lock`) and `PhaseInv`, what that holder knows: a
torn salt while it writes one, a salt while it asks for the password, a key of the present
salt while it seals, and no envelope left when uninstall goes on from the secrets to the
lock file and the salt. Only the holder changes the files, so the other commands matter
only through their cached passwords, which are those of items that 1Password still has. The
locks of the secrets are not needed for this: the master key lock alone protects the
envelopes. The account needs the other two. `AccountInv` says that a command which creates
or imports an account holds the mutation lock from its second look at the slot on
(`ProgressInv`); that, before any uninstallation, whoever has read the account file holds
its lock, alone (`LockInv`); that the plaintext a migration will seal is still the one it
read, or gone (`MigrateInv`, an uninstallation killed halfway is why it may be gone); that
while an account is being issued the slot is empty and no migration is under way
(`SlotInv`); that nobody touches a file that is being written (`WriteInv`); and that every
bundle anywhere carries the token of its row (`TokenInv`). SlotInv is where the second look
under the account lock matters: it is taken when nobody holds that lock, and every
migration does.

**Publication.** `ServiceInv` follows the clock of the publisher: it ticked in this interval
or the one before (`TickInv`), a publication under way carries what the consent still is
unless something disturbed it (`PublishingInv`), and no tick beyond the deadline went by
without a publication (`ServedInv`). `LeaseInv` says of the client that a revision stands
for one descriptor, that none is ahead of the service, and that what a fetch read is not
older than the cache; `CauseInv` gives for each setup that is not excused the reason why its
next step cannot fail; `CoolInv` that the cache remembers an attempt for 2 s. `CacheIsALease`
proves the refinement step by step: initial states map to initial states, and each action of
publisher, service, clock and setups is a step of Lease or leaves its variables alone. Lease
has no fairness.

**SshExport.** `FileInv`: between its second look and the rename the exporter has what the
user has. `ExportInv` is `SnapshotInv` (what the last discovery found, and what one on its way
brings, is one row per identity), `KeyInv` (a broker that serves, or sets a stream up, checks against
a trusted key) and `NamesInv` (what the configuration holds at each point of installation,
loop and cleanup). A kill is remembered until the next loop begins. That a name stays until
its host is unknown or its broker has ended is an action property: each turn of the loop
publishes what `running` says, and takes from it only hosts that are not known and brokers
that ended (`PublishedStays`).

**Plugin.** `AbsenceInv` relates the worker's counts to the reports there were, at each point
of a check: before the report is counted, while it is counted machine by machine, and after.
`ChoiceInv` relates the state file to the registry: what the worker owns carries its
identifier, and what the user dismissed stays among the hosts dealt with, or is one of the
cases that a kill or herdr-core's names make indistinguishable.

**Sessions.** `SessionInv` says for each connection where its tick is relative to the disk:
one that has not noticed a lost account is at most a second behind, and it was admitted for
the identity and capability it uses; and it counts channels against running commands.
`ForwardInv`: whoever sets a connection up does so because the last one is gone, which it
stays.

**Handoff.** `BaseInv` orders the chain: processes are born in order, a task's candidate is
later than the process and was started by it, and whoever was sent Commit, or read it, has a
parent past the point of no return. `TokenInv` is the endpoint as a token: the holder is the
last of the active processes, and a server that may take the endpoint back has at most its
candidate after it. It needs `PromptAbort`, because an aborted candidate that began an update
of its own would have a candidate too. `InstalledInv` says that an executable which is not
the holder's has a backup that is; it holds until an updater is orphaned, which is never
forgotten (`OrphanedStays`). `OutcomeInv` gives each task an operation of its own and
says of every client that was told of success that this operation is neither rolled back nor
going to be. The steps of all actions are first summarised by what they do to phases, tasks,
commands and dispositions (`Step`), so that the invariants are proved on thirteen kinds of
step.

The hypotheses `PromptAbort` and `PrepareWithinBudget` are the timing
assumptions described with the modules; the runs that check the same properties make them
too, and the theorems without hypothesis do not.

Only model-checked: the liveness half of RefreshEnds, UpdateSettles, ServiceReturns, OrphansEnd, AcquireSucceeds,
BrokerEnds, CommandsEnd, HostsGetServed, HostsGetListed and StoppedServerIsQuiet are liveness
under fairness, which is out of the prover's reach (as is ENABLED and induction over data).
StopEndsService is the violated promise of the finding. No module uses a RECURSIVE operator.

## Abstractions

- One clock for all processes; `issued_at` in the future is not modelled.
- Labels, the SSH filter and the suppression of local endpoints in the listing, and the
  migration of a legacy account are left out of CatalogRefresh.
- A descriptor that opens but cannot be stored for its size cannot occur.
- An encrypted catalog that does not open makes every save fail, as the test
  `refresh_rejects_magic_corrupted_envelope_without_replacing_it` demands.
- The rename that restores a binary succeeds, except in the rollback, where the
  failure path is `RollBackFails`.
- SIGHUP, a manual `attached update` beside the running server, and the transport
  of a connection itself are not modelled. A candidate's `Failed` event and a
  closed pipe are the same step.
- In Broker, tunnel streams (`Open`), `Status` and `Inspect`, the limits on
  connections and on IPC requests, and the checks of versions and peers are left out.
- LocalState has the 1Password provider only: a typed password is whatever the user
  enters, and nothing ties it to the envelopes. Items are not deleted or duplicated by
  the user. A torn locator file is ignored by the code and therefore the same as none.
  Other secrets sealed with the same key (catalog, SSH host key) and the bytes of an
  envelope are left out. `IssuedAccountsUsable` and `AccountNeverReplaced` are stated for
  directories that nobody uninstalls meanwhile: without that condition they fail, because
  uninstall removes `sync-account.lock` under a command that holds it.
- A row that the worker created stays: there is no removal of accounts.
- In Publication the service answers a refresh with its record, which may be replaced while the answer
  travels, or with an error; sealing and opening a descriptor is a value with a lifetime. `quiet` counts the
  intervals since the last disturbance; `ServingIsAdvertised` speaks of three of them.
- In SshExport the text of the configuration, the key files and the diagnostic probe are left
  out, and the streams of a broker are the set of keys they check against: how many streams
  check against the same key is not told apart, and no property depends on it. A save of the user's file between the second look of `replace_config` and its rename
  is lost; `slipped` marks it and `UserEditsKept` excludes exactly that case.
- In Plugin toasts, notices and the installation of the mod are left out. The exporter of a
  killed worker outlives it and is somebody else's to the next one. A replacement with the
  very contents of the worker's machine, or one between herdr-core's last listing and the
  removal, cannot be told apart; the comment in `core.rs` says so. Contents are a name and
  a target: a replacement that differs only in its session, via or temporary settings
  (`core.rs:184-201`) is treated as one with the same contents, so the excluded case is
  wider than in the code, which would notice the difference.
- In Sessions the copied bytes, environment requests, terminal modes and the keepalives of
  the SSH library are left out. The library's task may still open channels of a cancelled
  session; their commands find a cancelled token. The forwarding client learns at once that
  the publisher ended its connection (`usable`), where the code learns it from
  `close_reason` (`forward.rs:208`) when the close has reached it.

## Not modelled, and the plan

Cryptography and encodings, terminal and argument handling, reports, the export of accounts
and the clipboard helper, the end-to-end harness and the JavaScript front end have no protocol
state of their own and stay out. Inside modelled components the gaps are the ones listed
above and in the notes of `PROJECT.json`: tunnel streams of the broker, typed passwords, the
comparison of tokens and limits on bodies, and the migration of a legacy account.

Every safety property that a run checks is proved. What remains for proofs is the parts of
the liveness arguments that are safety: the measures that the fair steps decrease (commands
left in a pipe, locks in the order in which they are taken).
