--------------------------------- MODULE LocalState ---------------------------------
(***************************************************************************)
(* The secrets of one state directory: the account slot and the endpoint   *)
(* identity, sealed under a key derived from a salt file and a password    *)
(* kept in 1Password, and the commands that create, import, load, migrate  *)
(* and uninstall them (sync/account.rs, sync/state.rs, identity.rs,        *)
(* local_encryption.rs, secure_state.rs, installation.rs), together with   *)
(* the account issuance of the service (session-sync-worker).              *)
(*                                                                         *)
(* Commands run in processes that share files and three kinds of lock      *)
(* files.  Any process may be killed between two steps.  Each file that is *)
(* created in place is torn between its creation and its write; a file     *)
(* that is replaced changes atomically.                                    *)
(***************************************************************************)
EXTENDS Integers, FiniteSets

CONSTANTS Processes,
          None,
          Ids,            \* account identifiers that may be drawn
          Scoped,         \* bundles exported by another machine
          MAX_ACCOUNT_ISSUANCE_ATTEMPTS,
          MAX_ISSUED,     \* bound: accounts the service creates
          MAX_UNINSTALLS  \* bound: uninstallations that reach the lock file

ASSUME LocalStateAssumption ==
    /\ None \notin Processes /\ None \notin Scoped
    /\ MAX_ACCOUNT_ISSUANCE_ATTEMPTS \in Nat \ {0}
    /\ MAX_ISSUED \in Nat \ {0} /\ MAX_UNINSTALLS \in Nat

VARIABLES
    files,      \* the sealed files by name
    salt,       \* encryption-salt.argon2id-v1
    salts,      \* how many salts were drawn
    items,      \* 1Password items with the tag, each one password
    locator,    \* one-password-item.json
    inode,      \* which file sync-account.lock names: it is unlinked by uninstall
    held,       \* the inode of the secret's lock file a process holds, 0 if none
    mutation,   \* holder of sync-account-mutation.lock
    master,     \* holder of local-master-key.lock
    cmd,        \* what each process does
    remote,     \* tokens of the account rows of the service
    issued      \* how many accounts the service created

locks == <<held, mutation, master>>
disk == <<files, salt, salts, items, locator, inode>>
service == <<remote, issued>>
vars == <<disk, locks, cmd, service>>

NoSalt == 0
TornSalt == -1

Owner == [id : Ids, token : Nat]
Key == [salt : Nat, item : Nat]
\* What a secret file holds: nothing, part of an envelope, the plaintext of an older
\* version, or an envelope of its plaintext under a key.
File == [kind : {"none", "torn", "legacy", "sealed"},
         bundle : Owner \cup Scoped \cup {None}, key : Key \cup {None}]
Absent == [kind |-> "none", bundle |-> None, key |-> None]
Torn == [Absent EXCEPT !.kind = "torn"]
Legacy(b) == [Absent EXCEPT !.kind = "legacy", !.bundle = b]
seal(b, k) == [kind |-> "sealed", bundle |-> b, key |-> k]

Names == {"account", "identity"}
Ops == {"create", "install", "load", "identity", "uninstall"}
\* What the master key is wanted for.
Goals == {"none", "prepare", "open", "install", "replace"}
Idle == [op |-> "none", pc |-> "idle", goal |-> "none", bundle |-> None,
         key |-> None, attempts |-> 0]

PCs == {"idle", "slot", "mutation", "issue", "reply", "lock", "read", "master", "salt",
        "saltwrite", "password", "readback", "operate", "write",
        "unlinkidentity", "unlinkaccount", "unlinklock", "unlinksalt", "unlinklocator"}

TypeOK ==
    /\ files \in [Names -> File]
    /\ salt \in {TornSalt} \cup (0..salts) /\ salts \in 0..inode
    /\ items \subseteq Nat /\ locator \in {0} \cup items
    /\ inode \in 1..(MAX_UNINSTALLS + 1)
    /\ held \in [Processes -> 0..inode]
    /\ mutation \in Processes \cup {None} /\ master \in Processes \cup {None}
    /\ cmd \in [Processes ->
         [op : Ops \cup {"none"}, pc : PCs, goal : Goals,
          bundle : Owner \cup Scoped \cup {None}, key : Key \cup {None},
          attempts : 0..MAX_ACCOUNT_ISSUANCE_ATTEMPTS]]
    /\ remote \in [Ids -> 0..issued] /\ issued \in 0..MAX_ISSUED

\* A fresh directory, or one an older version left in plaintext, with an account that it
\* imported or created.
Init ==
    /\ \/ /\ files = [n \in Names |-> Absent]
          /\ remote = [i \in Ids |-> 0] /\ issued = 0
       \/ \E b \in Scoped :
            /\ files = [n \in Names |-> Legacy(IF n = "account" THEN b ELSE None)]
            /\ remote = [i \in Ids |-> 0] /\ issued = 0
       \/ \E id \in Ids :
            /\ files = [n \in Names |-> Legacy(IF n = "account"
                                              THEN [id |-> id, token |-> 1] ELSE None)]
            /\ remote = [i \in Ids |-> IF i = id THEN 1 ELSE 0] /\ issued = 1
    /\ salt = NoSalt /\ salts = 0
    /\ items = {} /\ locator = 0
    /\ inode = 1
    /\ held = [p \in Processes |-> 0]
    /\ mutation = None /\ master = None
    /\ cmd = [p \in Processes |-> Idle]

----------------------------------------------------------------------------
(* Steps of a command and its end.                                         *)

at(p, pc) == cmd[p].pc = pc
name(p) == IF cmd[p].op = "identity" THEN "identity" ELSE "account"
goto(p, pc) == cmd' = [cmd EXCEPT ![p].pc = pc]
want(p, goal) == cmd' = [cmd EXCEPT ![p].pc = "master", ![p].goal = goal]
release(lock, p) == IF lock = p THEN None ELSE lock

\* The command returns, with a result or an error, and its guards are dropped. The
\* process keeps the key it derived.
ends(p) ==
    /\ cmd' = [cmd EXCEPT ![p] = [Idle EXCEPT !.key = cmd[p].key]]
    /\ held' = [held EXCEPT ![p] = 0]
    /\ mutation' = release(mutation, p)
    /\ master' = release(master, p)

first(op) == CASE op = "create" -> "slot"
               [] op = "install" -> "mutation"
               [] op = "uninstall" -> "master"
               [] OTHER -> "lock"

\* A process begins a command; a long-lived one runs several.
Start(p, op, b) ==
    /\ at(p, "idle")
    /\ b \in (IF op = "install" THEN Scoped ELSE {None})
    /\ op = "uninstall" =>
         inode <= MAX_UNINSTALLS /\ \A q \in Processes : cmd[q].op # "uninstall"
    /\ cmd' = [cmd EXCEPT ![p].op = op, ![p].pc = first(op), ![p].bundle = b]
    /\ UNCHANGED <<disk, locks, service>>

\* A process exits, or is killed: the kernel drops its locks.
Exit(p) ==
    /\ cmd[p] # Idle
    /\ cmd' = [cmd EXCEPT ![p] = Idle]
    /\ held' = [held EXCEPT ![p] = 0]
    /\ mutation' = release(mutation, p)
    /\ master' = release(master, p)
    /\ UNCHANGED <<disk, service>>

----------------------------------------------------------------------------
(* Lock files.                                                             *)

\* The lock file of a secret: identity's is never unlinked.
lock_file(p) == IF name(p) = "account" THEN inode ELSE 1
free(p) == \A q \in Processes : held[q] = lock_file(p) => name(q) # name(p)

\* verify_locked_path: the file was unlinked while the process waited for it (or, more than
\* the code does, before).
LockPathChanged(p) ==
    /\ cmd[p].pc \in {"slot", "lock"} /\ name(p) = "account" /\ inode > 1
    /\ ends(p)
    /\ UNCHANGED <<disk, service>>

\* The directory that is opened before a lock, component by component, or the lock file
\* is not a private one of this user.
DirectoryRefused(p) ==
    /\ cmd[p].pc \in {"slot", "mutation", "lock", "master"}
    /\ ends(p)
    /\ UNCHANGED <<disk, service>>

\* ensure_account_slot_available: any file, readable or not, fills the slot.
EnsureAccountSlotAvailable(p) ==
    /\ at(p, "slot") /\ free(p)
    /\ IF files["account"].kind # "none" THEN ends(p)
       ELSE /\ IF mutation = p THEN goto(p, "issue") ELSE want(p, "prepare")
            /\ UNCHANGED locks
    /\ UNCHANGED <<disk, service>>

\* Mutant: no second look at the slot.
LockMutationOnly(p) ==
    /\ at(p, "mutation") /\ mutation = None
    /\ mutation' = p
    /\ goto(p, IF cmd[p].op = "create" THEN "issue" ELSE "lock")
    /\ UNCHANGED <<disk, held, master, service>>

\* AccountMutationGuard::acquire.
LockMutation(p) ==
    /\ at(p, "mutation") /\ mutation = None
    /\ mutation' = p
    /\ goto(p, IF cmd[p].op = "create" THEN "slot" ELSE "lock")
    /\ UNCHANGED <<disk, held, master, service>>

\* Mutant: loads share the lock.
LockFileShared(p) ==
    /\ at(p, "lock")
    /\ free(p) \/ \E q \in Processes : held[q] = lock_file(p) /\ cmd[q].op = "load"
    /\ held' = [held EXCEPT ![p] = lock_file(p)]
    /\ goto(p, "read")
    /\ UNCHANGED <<disk, mutation, master, service>>

\* with_exclusive_lock, with_locked_existing.
LockFile(p) ==
    /\ at(p, "lock") /\ free(p)
    /\ held' = [held EXCEPT ![p] = lock_file(p)]
    /\ goto(p, "read")
    /\ UNCHANGED <<disk, mutation, master, service>>

LockMaster(p) ==
    /\ at(p, "master") /\ master = None
    /\ master' = p
    /\ goto(p, IF cmd[p].op = "uninstall" THEN "unlinkidentity" ELSE "salt")
    /\ UNCHANGED <<disk, held, mutation, service>>

----------------------------------------------------------------------------
(* Issuance by the service.                                                *)

\* INSERT ... ON CONFLICT DO NOTHING of a row with fresh tokens.
initialize(i) ==
    /\ issued < MAX_ISSUED /\ remote[i] = 0
    /\ issued' = issued + 1
    /\ remote' = [remote EXCEPT ![i] = issued + 1]

more_attempts(p) == cmd[p].attempts < MAX_ACCOUNT_ISSUANCE_ATTEMPTS

CreateAccount(p, i) ==
    /\ at(p, "issue") /\ more_attempts(p)
    /\ initialize(i)
    /\ cmd' = [cmd EXCEPT ![p].pc = "reply", ![p].attempts = 0,
                              ![p].bundle = [id |-> i, token |-> issued']]
    /\ UNCHANGED <<disk, locks>>

\* The identifier exists: the next attempt.
AlreadyExists(p, i) ==
    /\ at(p, "issue") /\ remote[i] # 0 /\ more_attempts(p)
    /\ cmd' = [cmd EXCEPT ![p].attempts = @ + 1]
    /\ UNCHANGED <<disk, locks, service>>

\* The service is unavailable, out of attempts, or its answer is lost or not valid.
CreationFails(p) ==
    /\ cmd[p].pc \in {"issue", "reply"}
    /\ ends(p)
    /\ UNCHANGED <<disk, service>>

\* Attempts are charged before anything is drawn; a limiter that fails allows none.
RateLimited(p) ==
    /\ at(p, "issue") /\ cmd[p].attempts = 0
    /\ ends(p)
    /\ UNCHANGED <<disk, service>>

Reply(p) ==
    /\ at(p, "reply")
    /\ goto(p, "lock")
    /\ UNCHANGED <<disk, locks, service>>

\* Another machine creates an account.
IssueElsewhere(i) ==
    /\ initialize(i)
    /\ UNCHANGED <<disk, locks, cmd>>

----------------------------------------------------------------------------
(* The secret file: what is there decides what the master key is for.      *)

\* An import is idempotent; a created account never meets another one.
accepts(p) ==
    /\ cmd[p].op # "create"
    /\ cmd[p].op = "install" => files["account"].bundle = cmd[p].bundle

\* Part of an envelope may look like one, and then it is not opened before the key is there.
Read(p) ==
    /\ at(p, "read")
    /\ LET file == files[name(p)]
           use(goal, b) == /\ cmd' = [cmd EXCEPT ![p].pc = "master", ![p].goal = goal,
                                                 ![p].bundle = b]
                           /\ UNCHANGED locks
       IN  CASE file.kind = "none" /\ cmd[p].op # "load" -> use("install", cmd[p].bundle)
             [] file.kind = "sealed" -> use("open", cmd[p].bundle)
             [] file.kind = "torn" -> use("open", cmd[p].bundle) \/ ends(p)
             [] file.kind = "legacy" /\ accepts(p) -> use("replace", file.bundle)
             [] OTHER -> ends(p)
    /\ UNCHANGED <<disk, service>>

\* The file is a link, not private, not this user's or too long.
ReadRefused(p) ==
    /\ at(p, "read")
    /\ ends(p)
    /\ UNCHANGED <<disk, service>>

----------------------------------------------------------------------------
(* The master key, under local-master-key.lock.                            *)

creating(p) == cmd[p].goal # "open"

\* load_or_create_kdf_salt.
LoadSalt(p) ==
    /\ at(p, "salt")
    /\ CASE salt > 0 -> goto(p, "password") /\ UNCHANGED <<salt, locks>>
         [] salt = NoSalt /\ creating(p) ->
              salt' = TornSalt /\ goto(p, "saltwrite") /\ UNCHANGED locks
         [] OTHER -> ends(p) /\ UNCHANGED salt
    /\ UNCHANGED <<files, salts, items, locator, inode, service>>

WriteSalt(p) ==
    /\ at(p, "saltwrite")
    /\ salts' = salts + 1
    /\ salt' = salts'
    /\ goto(p, "password")
    /\ UNCHANGED <<files, items, locator, inode, locks, service>>

\* create_noclobber removes what it could not write.
SaltWriteFails(p) ==
    /\ at(p, "saltwrite")
    /\ salt' = NoSalt
    /\ ends(p)
    /\ UNCHANGED <<files, salts, items, locator, inode, service>>

has_key(p, item) ==
    cmd' = [cmd EXCEPT ![p].pc = "operate", ![p].key = [salt |-> salt, item |-> item]]

\* Mutant: the cached key is used whatever the salt is.
UseAnyCachedKey(p) ==
    /\ at(p, "password") /\ cmd[p].key # None
    /\ goto(p, "operate")
    /\ UNCHANGED <<disk, locks, service>>

\* The process has the password, and the key if the salt is the one it knows.
UseCachedPassword(p) ==
    /\ at(p, "password") /\ cmd[p].key # None
    /\ has_key(p, cmd[p].key.item)
    /\ UNCHANGED <<disk, locks, service>>

\* The cached locator leads to the item.
ReadLocatedItem(p) ==
    /\ at(p, "password") /\ cmd[p].key = None /\ locator # 0
    /\ has_key(p, locator)
    /\ UNCHANGED <<disk, locks, service>>

\* Without a locator, or when it does not work, items are listed: exactly one is wanted,
\* and its locator is stored. A torn locator is ignored, so it is as good as none.
ReadListedItem(p) ==
    /\ cmd[p].pc \in {"password", "readback"} /\ cmd[p].key = None
    /\ \E item \in items : /\ items = {item}
                           /\ locator' = item
                           /\ has_key(p, item)
    /\ UNCHANGED <<files, salt, salts, items, inode, locks, service>>

CreateItem(p) ==
    /\ at(p, "password") /\ cmd[p].key = None /\ creating(p) /\ items = {}
    /\ items' = {1}
    /\ goto(p, "readback")
    /\ UNCHANGED <<files, salt, salts, locator, inode, locks, service>>

\* 1Password is locked, has no item to read, or has several.
PasswordFails(p) ==
    /\ cmd[p].pc \in {"password", "readback"} /\ cmd[p].key = None
    /\ ends(p)
    /\ UNCHANGED <<disk, service>>

----------------------------------------------------------------------------
(* What the key is used for.                                               *)

\* prepare_encrypted_account_storage.
Prepared(p) ==
    /\ at(p, "operate") /\ cmd[p].goal = "prepare"
    /\ goto(p, "mutation")
    /\ master' = None
    /\ UNCHANGED <<disk, held, mutation, service>>

\* The envelope opens or not, the account is the one imported or not: the command ends.
Open(p) ==
    /\ at(p, "operate") /\ cmd[p].goal = "open"
    /\ ends(p)
    /\ UNCHANGED <<disk, service>>

\* create_noclobber of a new secret; a file that appeared meanwhile stays.
CreateFile(p) ==
    /\ at(p, "operate") /\ cmd[p].goal = "install"
    /\ IF files[name(p)].kind = "none"
       THEN /\ files' = [files EXCEPT ![name(p)] = Torn]
            /\ goto(p, "write")
            /\ UNCHANGED locks
       ELSE ends(p) /\ UNCHANGED files
    /\ UNCHANGED <<salt, salts, items, locator, inode, service>>

WriteFile(p) ==
    /\ at(p, "write")
    /\ files' = [files EXCEPT ![name(p)] = seal(cmd[p].bundle, cmd[p].key)]
    /\ ends(p)
    /\ UNCHANGED <<salt, salts, items, locator, inode, service>>

FileWriteFails(p) ==
    /\ at(p, "write")
    /\ files' = [files EXCEPT ![name(p)] = Absent]
    /\ ends(p)
    /\ UNCHANGED <<salt, salts, items, locator, inode, service>>

\* Migration of the plaintext that was read: atomic_replace.
ReplaceFile(p) ==
    /\ at(p, "operate") /\ cmd[p].goal = "replace"
    /\ files' = [files EXCEPT ![name(p)] = seal(cmd[p].bundle, cmd[p].key)]
    /\ ends(p)
    /\ UNCHANGED <<salt, salts, items, locator, inode, service>>

\* Migration that fails before the rename leaves the plaintext.
ReplaceFails(p) ==
    /\ at(p, "operate") /\ cmd[p].goal = "replace"
    /\ ends(p)
    /\ UNCHANGED <<disk, service>>

----------------------------------------------------------------------------
(* uninstall: remove_owned_state in the order of OWNED_STATE_FILES, under   *)
(* the master key lock only. sync-account-mutation.lock and the lock of the *)
(* identity stay.                                                           *)

Unlink(p, file, pc, next) ==
    /\ at(p, pc)
    /\ files' = [files EXCEPT ![file] = Absent]
    /\ goto(p, next)
    /\ UNCHANGED <<salt, salts, items, locator, inode, locks, service>>

\* Mutant: uninstall waits for the account lock while it holds the master key lock.
UnlinkAccountLocked(p) ==
    /\ \A q \in Processes : held[q] # inode \/ name(q) # "account"
    /\ Unlink(p, "account", "unlinkaccount", "unlinklock")

UnlinkIdentity(p) == Unlink(p, "identity", "unlinkidentity", "unlinkaccount")
UnlinkAccount(p) == Unlink(p, "account", "unlinkaccount", "unlinklock")

UnlinkLock(p) ==
    /\ at(p, "unlinklock")
    /\ inode' = inode + 1
    /\ goto(p, "unlinksalt")
    /\ UNCHANGED <<files, salt, salts, items, locator, locks, service>>

UnlinkSalt(p) ==
    /\ at(p, "unlinksalt")
    /\ salt' = NoSalt
    /\ goto(p, "unlinklocator")
    /\ UNCHANGED <<files, salts, items, locator, inode, locks, service>>

\* The locator, then the executable. The item is kept for other directories.
UnlinkLocator(p) ==
    /\ at(p, "unlinklocator")
    /\ locator' = 0
    /\ ends(p)
    /\ UNCHANGED <<files, salt, salts, items, inode, service>>

----------------------------------------------------------------------------
Blocking(p) == \/ EnsureAccountSlotAvailable(p) \/ LockMutation(p)
               \/ LockFile(p) \/ LockMaster(p)

Moving(p) ==
    \/ \E i \in Ids : CreateAccount(p, i) \/ AlreadyExists(p, i)
    \/ CreationFails(p) \/ Reply(p)
    \/ Read(p)
    \/ LoadSalt(p) \/ WriteSalt(p) \/ SaltWriteFails(p)
    \/ UseCachedPassword(p) \/ ReadLocatedItem(p) \/ ReadListedItem(p)
    \/ CreateItem(p) \/ PasswordFails(p)
    \/ Prepared(p) \/ Open(p) \/ CreateFile(p) \/ WriteFile(p) \/ FileWriteFails(p)
    \/ ReplaceFile(p) \/ ReplaceFails(p)
    \/ UnlinkIdentity(p) \/ UnlinkAccount(p) \/ UnlinkLock(p) \/ UnlinkSalt(p)
    \/ UnlinkLocator(p)

Refused(p) == LockPathChanged(p) \/ DirectoryRefused(p) \/ RateLimited(p) \/ ReadRefused(p)

Next ==
    \/ \E p \in Processes :
         \/ \E op \in Ops, b \in Scoped \cup {None} : Start(p, op, b)
         \/ Exit(p) \/ Refused(p) \/ Blocking(p) \/ Moving(p)
    \/ \E i \in Ids : IssueElsewhere(i)

Spec == Init /\ [][Next]_vars

\* Requests end in an answer or a timeout and a process keeps running; a lock file that
\* is given back again and again is granted to each process that waits for it.
FairSpec ==
    /\ Spec
    /\ \A p \in Processes :
         WF_vars(Moving(p)) /\ SF_vars(Blocking(p))

----------------------------------------------------------------------------
(* Properties.                                                             *)

reachable(item) == locator = item \/ (locator = 0 /\ items = {item})

\* Every envelope opens with the key that a new process derives: the salt beside it is the
\* one it was sealed under and the password is found. Neither a kill at any step, nor an
\* uninstallation that stops halfway or overtakes a command with a cached key (the cache
\* of load_or_create in local_encryption.rs), leaves a secret nobody can open.
SealedOpens ==
    \A n \in Names : files[n].kind = "sealed" =>
        files[n].key.salt = salt /\ reachable(files[n].key.item)

\* An account the service has just created can be installed: no other command takes its
\* slot (comment at the recheck in create_with_store), as long as nobody uninstalls.  And
\* the credentials a directory or a command holds are those of the account's row at the
\* service: no later issuance takes an identifier over (storage.rs, initialize).
IssuedAccountsUsable ==
    /\ inode = 1 => \A p \in Processes :
         cmd[p].op = "create" /\ cmd[p].bundle # None /\ cmd[p].pc # "write" =>
             files["account"].kind = "none"
    /\ \A b \in {files["account"].bundle} \cup {cmd[p].bundle : p \in Processes} :
         b \notin Scoped \cup {None} => remote[b.id] = b.token

configured == files["account"].kind \in {"legacy", "sealed"}

\* A configured account is never replaced by a different one, by an import, a creation or
\* a migration of what was read before ("a different synchronization account is already
\* configured" in install_account), as long as nobody uninstalls.
AccountNeverReplaced ==
    [][inode = 1 /\ configured /\ configured' =>
          files'["account"].bundle = files["account"].bundle]_vars

\* No command waits forever: the locks are taken in one order, account mutations, a
\* secret's file, the master key, by commands that end or are killed.
CommandsEnd == \A p \in Processes : ~at(p, "idle") ~> at(p, "idle")

=============================================================================
