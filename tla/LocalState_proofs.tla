----------------------------- MODULE LocalState_proofs -----------------------------
(***************************************************************************)
(* Proofs about LocalState, for any number of processes, identifiers, bundles *)
(* and uninstallations: no secret is left that nobody can open, an issued     *)
(* account can be installed, and no account takes the place of another.        *)
(***************************************************************************)
EXTENDS LocalState, TLAPS

Cmd == [op : Ops \cup {"none"}, pc : PCs, goal : Goals,
        bundle : Owner \cup Scoped \cup {None}, key : Key \cup {None}, attempts : Nat]

\* The part of the types the argument needs, and that there is at most one item.
TypeInv ==
    /\ files \in [Names -> File]
    /\ salt \in Int /\ salts \in Nat /\ issued \in Nat
    /\ items \in {{}, {1}} /\ locator \in {0} \cup items
    /\ cmd \in [Processes -> Cmd]

\* Between LockMaster and its end a command holds the master key lock.
InMaster == {"salt", "saltwrite", "password", "readback", "operate", "write",
             "unlinkidentity", "unlinkaccount", "unlinklock", "unlinksalt",
             "unlinklocator"}

MasterInv == \A p \in Processes : cmd[p].pc \in InMaster => master = p

\* What the holder of the master key lock knows of the salt and the files, and that
\* every cached password is one of 1Password.
PhaseOf(p) ==
    /\ cmd[p].pc = "saltwrite" => salt = TornSalt
    /\ cmd[p].pc \in {"password", "readback"} => salt > 0
    /\ cmd[p].pc \in {"operate", "write"} =>
         /\ cmd[p].key \in Key /\ cmd[p].key.salt = salt /\ salt > 0
         /\ cmd[p].key.item \in items
    /\ cmd[p].key # None => cmd[p].key.item \in items
    /\ cmd[p].pc = "unlinkaccount" => files["identity"].kind # "sealed"
    /\ cmd[p].pc \in {"unlinklock", "unlinksalt"} =>
         \A n \in Names : files[n].kind # "sealed"

PhaseInv == \A p \in Processes : PhaseOf(p)

SealedInv == \A n \in Names : files[n].kind = "sealed" =>
    /\ files[n].key \in Key
    /\ files[n].key.salt = salt /\ salt > 0
    /\ files[n].key.item \in items

IInv == TypeInv /\ MasterInv /\ PhaseInv /\ SealedInv

LEMMA FileConstants == /\ Absent \in File /\ Absent.kind = "none"
                       /\ Torn \in File /\ Torn.kind = "torn"
                       /\ \A b \in Owner \cup Scoped \cup {None} :
                            Legacy(b) \in File /\ Legacy(b).kind = "legacy"
                       /\ \A b \in Owner \cup Scoped \cup {None}, k \in Key :
                            /\ seal(b, k) \in File
                            /\ seal(b, k).kind = "sealed" /\ seal(b, k).key = k
  BY DEF Absent, Torn, Legacy, seal, File

LEMMA IdleCmd == /\ Idle \in Cmd /\ Idle.pc = "idle" /\ Idle.key = None
  BY DEF Idle, Cmd, PCs, Goals

LEMMA InitInv == Init => IInv
  <1> SUFFICES ASSUME Init PROVE IInv
    OBVIOUS
  <1> DEFINE plain == /\ files \in [Names -> File]
                      /\ \A n \in Names : files[n].kind # "sealed"
                      /\ issued \in Nat
  <1>1. ASSUME files = [n \in Names |-> Absent], issued = 0
        PROVE  plain
    BY <1>1, FileConstants
  <1>2. ASSUME NEW b \in Owner \cup Scoped, issued \in Nat,
               files = [n \in Names |-> Legacy(IF n = "account" THEN b ELSE None)]
        PROVE  plain
    <2>1. \A n \in Names :
            Legacy(IF n = "account" THEN b ELSE None) \in File
            /\ Legacy(IF n = "account" THEN b ELSE None).kind = "legacy"
      BY FileConstants
    <2> QED
      BY <1>2, <2>1
  <1>3. ASSUME NEW id \in Ids, issued = 1,
               files = [n \in Names |-> Legacy(IF n = "account"
                                              THEN [id |-> id, token |-> 1] ELSE None)]
        PROVE  plain
    <2>1. [id |-> id, token |-> 1] \in Owner
      BY DEF Owner
    <2> QED
      BY <1>2, <1>3, <2>1
  <1>4. plain
    <2>1. CASE files = [n \in Names |-> Absent] /\ issued = 0
      BY <2>1, <1>1
    <2>2. CASE \E b \in Scoped :
                 /\ files = [n \in Names |-> Legacy(IF n = "account" THEN b ELSE None)]
                 /\ issued = 0
      BY <2>2, <1>2
    <2>3. CASE \E id \in Ids :
                 /\ files = [n \in Names |-> Legacy(IF n = "account"
                                              THEN [id |-> id, token |-> 1] ELSE None)]
                 /\ issued = 1
      BY <2>3, <1>3, Zenon
    <2> HIDE DEF plain
    <2> QED
      BY <2>1, <2>2, <2>3, Zenon DEF Init
  <1>5. TypeInv
    BY <1>4, IdleCmd DEF Init, TypeInv, NoSalt
  <1> QED
    BY <1>4, <1>5, IdleCmd DEF Init, IInv, MasterInv, PhaseInv, PhaseOf, SealedInv, InMaster

\* A step of p that leaves the disk alone and does not end inside the section of the
\* master key lock.
LEMMA OutsideStep ==
  ASSUME IInv, NEW p \in Processes, NEW c \in Cmd,
         cmd' = [cmd EXCEPT ![p] = c], c.pc \notin InMaster,
         c.key = None \/ c.key = cmd[p].key,
         master' = master \/ master = p,
         UNCHANGED <<files, salt, salts, items, locator>>, issued' \in Nat
  PROVE  IInv'
  <1>1. /\ cmd' \in [Processes -> Cmd] /\ cmd'[p] = c
        /\ \A q \in Processes : q # p => cmd'[q] = cmd[q]
    BY DEF IInv, TypeInv
  <1>2. TypeInv'
    BY <1>1 DEF IInv, TypeInv
  <1>3. MasterInv'
    BY <1>1 DEF IInv, MasterInv
  <1>4. PhaseInv'
    BY <1>1 DEF IInv, PhaseInv, PhaseOf, InMaster
  <1>5. SealedInv'
    BY DEF IInv, SealedInv
  <1> QED
    BY <1>2, <1>3, <1>4, <1>5 DEF IInv

\* A command that returns gives its locks back.
LEMMA Ends ==
  ASSUME IInv, NEW p \in Processes, ends(p), UNCHANGED <<disk, service>>
  PROVE  IInv'
  <1> DEFINE c == [Idle EXCEPT !.key = cmd[p].key]
  <1>1. c \in Cmd /\ c.pc = "idle" /\ c.key = cmd[p].key
    BY DEF IInv, TypeInv, Cmd, Idle, PCs, Goals
  <1>2. cmd' = [cmd EXCEPT ![p] = c] /\ (master' = master \/ master = p)
    BY DEF ends, release
  <1>3. UNCHANGED <<files, salt, salts, items, locator>> /\ issued' \in Nat
    BY DEF disk, service, IInv, TypeInv
  <1> QED
    BY <1>1, <1>2, <1>3, OutsideStep DEF InMaster

\* A step of the holder of the master key lock: the other commands are outside, so that
\* only their cached keys see what it does to the disk.
LEMMA InsideStep ==
  ASSUME IInv, NEW p \in Processes, NEW c \in Cmd, master = p,
         cmd' = [cmd EXCEPT ![p] = c],
         c.pc \in InMaster => master' = p,
         files' \in [Names -> File], salt' \in Int, salts' \in Nat, issued' \in Nat,
         items' \in {{}, {1}}, items \subseteq items', locator' \in {0} \cup items',
         c.pc = "saltwrite" => salt' = TornSalt,
         c.pc \in {"password", "readback"} => salt' > 0,
         c.pc \in {"operate", "write"} =>
           /\ c.key \in Key /\ c.key.salt = salt' /\ salt' > 0
           /\ c.key.item \in items',
         c.key # None => c.key.item \in items',
         c.pc = "unlinkaccount" => files'["identity"].kind # "sealed",
         c.pc \in {"unlinklock", "unlinksalt"} =>
           \A n \in Names : files'[n].kind # "sealed",
         SealedInv'
  PROVE  IInv'
  <1>1. /\ cmd' \in [Processes -> Cmd] /\ cmd'[p] = c
        /\ \A q \in Processes : q # p => cmd'[q] = cmd[q] /\ cmd[q].pc \notin InMaster
    BY DEF IInv, TypeInv, MasterInv
  <1>2. TypeInv'
    BY <1>1 DEF TypeInv
  <1>3. MasterInv'
    BY <1>1 DEF MasterInv
  <1>4. PhaseInv'
    <2> SUFFICES ASSUME NEW q \in Processes PROVE PhaseOf(q)'
      BY DEF PhaseInv
    <2>1. CASE q = p
      BY <1>1, <2>1 DEF PhaseOf
    <2>2. CASE q # p
      <3>1. cmd'[q] = cmd[q] /\ cmd[q].pc \notin InMaster
        BY <1>1, <2>2
      <3>2. cmd[q].key # None => cmd[q].key.item \in items
        BY DEF IInv, PhaseInv, PhaseOf
      <3> QED
        BY <3>1, <3>2 DEF PhaseOf, InMaster
    <2> QED
      BY <2>1, <2>2
  <1> QED
    BY <1>2, <1>3, <1>4 DEF IInv

\* What every case below starts from.
LEMMA Facts ==
  ASSUME IInv, NEW p \in Processes
  PROVE  /\ cmd[p] \in Cmd /\ PhaseOf(p) /\ SealedInv /\ TypeInv
         /\ cmd[p].pc \in InMaster => master = p
  BY DEF IInv, TypeInv, MasterInv, PhaseInv

\* Commands outside the section of the master key lock.
LEMMA Outside ==
  ASSUME IInv, NEW p \in Processes,
         \/ \E op \in Ops, b \in Scoped \cup {None} : Start(p, op, b)
         \/ Exit(p) \/ Refused(p) \/ EnsureAccountSlotAvailable(p)
         \/ LockMutation(p) \/ LockFile(p)
         \/ \E i \in Ids : CreateAccount(p, i) \/ AlreadyExists(p, i)
         \/ CreationFails(p) \/ Reply(p) \/ Read(p) \/ Prepared(p) \/ Open(p)
         \/ PasswordFails(p) \/ ReplaceFails(p)
  PROVE  IInv'
  <1>1. cmd[p] \in Cmd
    BY Facts
  <1>2. ASSUME NEW c \in Cmd, cmd' = [cmd EXCEPT ![p] = c], c.pc \notin InMaster,
               c.key = None \/ c.key = cmd[p].key, master' = master \/ master = p,
               UNCHANGED disk, issued' \in Nat
        PROVE  IInv'
    BY <1>2, OutsideStep DEF disk
  <1>3. ASSUME ends(p), UNCHANGED <<disk, service>>
        PROVE  IInv'
    BY <1>3, Ends
  <1>4. ASSUME NEW pc \in PCs \ InMaster, goto(p, pc), UNCHANGED <<disk, service>>,
               master' = master \/ master = p
        PROVE  IInv'
    <2> DEFINE c == [cmd[p] EXCEPT !.pc = pc]
    <2>1. c \in Cmd /\ c.pc = pc /\ c.key = cmd[p].key
      BY <1>1 DEF Cmd
    <2>2. cmd' = [cmd EXCEPT ![p] = c]
      BY <1>4 DEF goto
    <2>3. issued' \in Nat
      BY <1>4 DEF service, IInv, TypeInv
    <2> HIDE DEF c
    <2> QED
      BY <1>2, <1>4, <2>1, <2>2, <2>3
  <1>5. ASSUME NEW op \in Ops, NEW b \in Scoped \cup {None}, Start(p, op, b)
        PROVE  IInv'
    <2> DEFINE c == [cmd[p] EXCEPT !.op = op, !.pc = first(op), !.bundle = b]
    <2>0. first(op) \in PCs \ InMaster
      BY DEF first, Ops, PCs, InMaster
    <2>1. c \in Cmd /\ c.pc = first(op) /\ c.key = cmd[p].key
      BY <1>1, <2>0 DEF Cmd
    <2>2. cmd' = [cmd EXCEPT ![p] = c] /\ UNCHANGED disk /\ master' = master
          /\ issued' \in Nat
      BY <1>5 DEF Start, locks, service, IInv, TypeInv
    <2> HIDE DEF c
    <2> QED
      BY <1>2, <2>0, <2>1, <2>2
  <1>6. ASSUME Exit(p) PROVE IInv'
    BY <1>2, <1>6, IdleCmd DEF Exit, release, service, IInv, TypeInv, InMaster
  <1>7. ASSUME \/ Refused(p) \/ CreationFails(p) \/ Open(p)
               \/ PasswordFails(p) \/ ReplaceFails(p)
        PROVE  IInv'
    BY <1>3, <1>7 DEF Refused, LockPathChanged, DirectoryRefused, RateLimited, ReadRefused,
                      CreationFails, Open, PasswordFails, ReplaceFails
  <1>8. ASSUME EnsureAccountSlotAvailable(p) PROVE IInv'
    <2>1. CASE ends(p)
      BY <1>3, <1>8, <2>1 DEF EnsureAccountSlotAvailable
    <2>2. CASE goto(p, "issue") /\ UNCHANGED locks
      BY <1>4, <1>8, <2>2 DEF EnsureAccountSlotAvailable, PCs, InMaster, locks
    <2>3. CASE want(p, "prepare") /\ UNCHANGED locks
      <3> DEFINE c == [cmd[p] EXCEPT !.pc = "master", !.goal = "prepare"]
      <3>1. c \in Cmd /\ c.pc = "master" /\ c.key = cmd[p].key
        BY <1>1 DEF Cmd, PCs, Goals
      <3>2. cmd' = [cmd EXCEPT ![p] = c] /\ UNCHANGED disk /\ master' = master
            /\ issued' \in Nat
        BY <1>8, <2>3 DEF EnsureAccountSlotAvailable, want, locks, service, IInv, TypeInv
      <3> HIDE DEF c
      <3> QED
        BY <1>2, <3>1, <3>2 DEF InMaster
    <2> QED
      BY <1>8, <2>1, <2>2, <2>3 DEF EnsureAccountSlotAvailable
  <1>9. ASSUME LockMutation(p) PROVE IInv'
    <2>1. (IF cmd[p].op = "create" THEN "slot" ELSE "lock") \in PCs \ InMaster
      BY DEF PCs, InMaster
    <2> QED
      BY <1>4, <1>9, <2>1 DEF LockMutation
  <1>10. ASSUME LockFile(p) PROVE IInv'
    BY <1>4, <1>10 DEF LockFile, PCs, InMaster
  <1>11. ASSUME NEW i \in Ids, CreateAccount(p, i) PROVE IInv'
    <2> DEFINE c == [cmd[p] EXCEPT !.pc = "reply", !.attempts = 0,
                                   !.bundle = [id |-> i, token |-> issued']]
    <2>1. issued' \in Nat
      <3>1. issued' = issued + 1
        BY <1>11, Zenon DEF CreateAccount, initialize
      <3>2. issued \in Nat
        BY DEF IInv, TypeInv
      <3> QED
        BY <3>1, <3>2
    <2>2. [id |-> i, token |-> issued'] \in Owner
      BY <2>1 DEF Owner
    <2>3. c \in Cmd /\ c.pc = "reply" /\ c.key = cmd[p].key
      BY <1>1, <2>2 DEF Cmd, PCs
    <2>4. cmd' = [cmd EXCEPT ![p] = c] /\ UNCHANGED disk /\ master' = master
      BY <1>11 DEF CreateAccount, locks
    <2> HIDE DEF c
    <2> QED
      BY <1>2, <2>1, <2>3, <2>4 DEF InMaster
  <1>12. ASSUME NEW i \in Ids, AlreadyExists(p, i) PROVE IInv'
    <2> DEFINE c == [cmd[p] EXCEPT !.attempts = @ + 1]
    <2>1. c \in Cmd /\ c.pc = cmd[p].pc /\ c.key = cmd[p].key
      BY <1>1 DEF Cmd
    <2>2. cmd' = [cmd EXCEPT ![p] = c] /\ UNCHANGED disk /\ master' = master
          /\ issued' \in Nat
      BY <1>12 DEF AlreadyExists, locks, service, IInv, TypeInv
    <2>3. cmd[p].pc \notin InMaster
      BY <1>12 DEF AlreadyExists, at, InMaster
    <2> HIDE DEF c
    <2> QED
      BY <1>2, <2>1, <2>2, <2>3
  <1>13. ASSUME Reply(p) PROVE IInv'
    BY <1>4, <1>13 DEF Reply, PCs, InMaster, locks
  <1>14. ASSUME Read(p) PROVE IInv'
    <2>1. files[name(p)] \in File
      BY DEF IInv, TypeInv, name, Names
    <2>2. ASSUME NEW goal \in Goals, NEW b \in Owner \cup Scoped \cup {None},
                 cmd' = [cmd EXCEPT ![p].pc = "master", ![p].goal = goal,
                                    ![p].bundle = b],
                 UNCHANGED locks
          PROVE  IInv'
      <3> DEFINE c == [cmd[p] EXCEPT !.pc = "master", !.goal = goal, !.bundle = b]
      <3>1. c \in Cmd /\ c.pc = "master" /\ c.key = cmd[p].key
        BY <1>1 DEF Cmd, PCs
      <3>2. cmd' = [cmd EXCEPT ![p] = c] /\ UNCHANGED disk /\ master' = master
            /\ issued' \in Nat
        BY <1>14, <2>2 DEF Read, locks, service, IInv, TypeInv
      <3> HIDE DEF c
      <3> QED
        BY <1>2, <3>1, <3>2 DEF InMaster
    <2>3. /\ files[name(p)].bundle \in Owner \cup Scoped \cup {None}
          /\ cmd[p].bundle \in Owner \cup Scoped \cup {None}
          /\ {"install", "open", "replace"} \subseteq Goals
      BY <1>1, <2>1 DEF File, Cmd, Goals
    <2>4. CASE ends(p)
      BY <1>3, <1>14, <2>4 DEF Read
    <2> QED
      BY <1>14, <2>2, <2>3, <2>4 DEF Read
  <1>15. ASSUME Prepared(p) PROVE IInv'
    <2>1. master = p
      BY <1>15, Facts DEF Prepared, at, InMaster
    <2> QED
      BY <1>4, <1>15, <2>1 DEF Prepared, PCs, InMaster
  <1> QED
    BY <1>5, <1>6, <1>7, <1>8, <1>9, <1>10, <1>11, <1>12, <1>13, <1>14, <1>15

\* The holder of the master key lock moves on with the files as they are.
LEMMA KeyStep ==
  ASSUME IInv, NEW p \in Processes,
         \/ LoadSalt(p) \/ WriteSalt(p) \/ SaltWriteFails(p)
         \/ UseCachedPassword(p) \/ ReadLocatedItem(p) \/ ReadListedItem(p)
         \/ CreateItem(p) \/ UnlinkLock(p) \/ UnlinkSalt(p) \/ UnlinkLocator(p)
  PROVE  IInv'
  <1>1. cmd[p] \in Cmd /\ PhaseOf(p) /\ SealedInv /\ TypeInv
    BY Facts
  <1>2. master = p
    BY Facts DEF LoadSalt, WriteSalt, SaltWriteFails, UseCachedPassword, ReadLocatedItem,
      ReadListedItem, CreateItem, UnlinkLock, UnlinkSalt, UnlinkLocator, at, InMaster
  \* The files are as before, and sealed only when the salt is.
  <1>3. ASSUME NEW c \in Cmd, cmd' = [cmd EXCEPT ![p] = c], files' = files,
               c.pc \in InMaster => master' = p,
               c.pc # "unlinkaccount", issued' = issued,
               salt' = salt \/ \A n \in Names : files[n].kind # "sealed",
               salt' \in Int, salts' \in Nat,
               items' \in {{}, {1}}, items \subseteq items', locator' \in {0} \cup items',
               c.pc = "saltwrite" => salt' = TornSalt,
               c.pc \in {"password", "readback"} => salt' > 0,
               c.pc \in {"operate", "write"} =>
                 /\ c.key \in Key /\ c.key.salt = salt' /\ salt' > 0
                 /\ c.key.item \in items',
               c.key # None => c.key.item \in items',
               c.pc \in {"unlinklock", "unlinksalt"} =>
                 \A n \in Names : files[n].kind # "sealed"
        PROVE  IInv'
    <2>1. SealedInv'
      BY <1>1, <1>3 DEF SealedInv
    <2>2. files' \in [Names -> File] /\ issued' \in Nat
      BY <1>1, <1>3 DEF TypeInv
    <2> QED
      BY <1>2, <1>3, <2>1, <2>2, InsideStep
  \* A step to a place where nothing more is asked of the key.
  <1>4. ASSUME NEW pc \in PCs, goto(p, pc), UNCHANGED <<files, locks, service>>,
               pc \notin {"unlinkaccount", "operate", "write"},
               salt' = salt \/ \A n \in Names : files[n].kind # "sealed",
               salt' \in Int, salts' \in Nat,
               items' \in {{}, {1}}, items \subseteq items', locator' \in {0} \cup items',
               pc = "saltwrite" => salt' = TornSalt,
               pc \in {"password", "readback"} => salt' > 0,
               pc \in {"unlinklock", "unlinksalt"} =>
                 \A n \in Names : files[n].kind # "sealed"
        PROVE  IInv'
    <2> DEFINE c == [cmd[p] EXCEPT !.pc = pc]
    <2>1. c \in Cmd /\ c.pc = pc /\ c.key = cmd[p].key
      BY <1>1 DEF Cmd
    <2>2. cmd' = [cmd EXCEPT ![p] = c] /\ master' = p /\ issued' = issued
      BY <1>2, <1>4 DEF goto, locks, service
    <2>3. c.key # None => c.key.item \in items'
      BY <1>1, <1>4, <2>1 DEF PhaseOf
    <2> HIDE DEF c
    <2> QED
      BY <1>3, <1>4, <2>1, <2>2, <2>3
  \* The command ends after it changed something other than the files.
  <1>5. ASSUME ends(p), UNCHANGED <<files, items, service>>,
               salt' = salt \/ \A n \in Names : files[n].kind # "sealed",
               salt' \in Int, salts' \in Nat, locator' \in {0} \cup items'
        PROVE  IInv'
    <2> DEFINE c == [Idle EXCEPT !.key = cmd[p].key]
    <2>1. c \in Cmd /\ c.pc = "idle" /\ c.key = cmd[p].key
      BY <1>1 DEF Cmd, Idle, PCs, Goals
    <2>2. cmd' = [cmd EXCEPT ![p] = c] /\ issued' = issued
      BY <1>5 DEF ends, service
    <2>3. c.key # None => c.key.item \in items'
      BY <1>1, <1>5, <2>1 DEF PhaseOf
    <2>4. items' \in {{}, {1}} /\ items \subseteq items'
      BY <1>1, <1>5 DEF TypeInv
    <2> HIDE DEF c
    <2> QED
      BY <1>3, <1>5, <2>1, <2>2, <2>3, <2>4 DEF InMaster
  <1>6. ASSUME NEW item \in items', has_key(p, item),
               UNCHANGED <<files, salt, salts, locks, service>>,
               items' \in {{}, {1}}, items \subseteq items', locator' \in {0} \cup items',
               cmd[p].pc \in {"password", "readback"}
        PROVE  IInv'
    <2> DEFINE c == [cmd[p] EXCEPT !.pc = "operate", !.key = [salt |-> salt, item |-> item]]
    <2>1. salt > 0 /\ salt \in Nat /\ item \in Nat /\ salts \in Nat
      BY <1>1, <1>6 DEF PhaseOf, TypeInv
    <2>2. [salt |-> salt, item |-> item] \in Key
      BY <2>1 DEF Key
    <2>3. c \in Cmd /\ c.pc = "operate" /\ c.key = [salt |-> salt, item |-> item]
      BY <1>1, <2>2 DEF Cmd, PCs
    <2>4. cmd' = [cmd EXCEPT ![p] = c] /\ master' = p /\ issued' = issued
      BY <1>2, <1>6 DEF has_key, locks, service
    <2>5. /\ c.key \in Key /\ c.key.salt = salt' /\ c.key.item \in items' /\ salt' > 0
          /\ salt' \in Int /\ salts' \in Nat /\ files' = files /\ salt' = salt
      BY <1>6, <2>1, <2>2, <2>3
    <2> HIDE DEF c
    <2> QED
      BY <1>3, <1>6, <2>3, <2>4, <2>5
  \* Without a salt, or with a torn one, no file is sealed.
  <1>7. ~(salt > 0) => \A n \in Names : files[n].kind # "sealed"
    BY <1>1 DEF SealedInv
  <1>8. ASSUME LoadSalt(p) PROVE IInv'
    <2>0. /\ salts' = salts /\ salts \in Nat /\ items' = items /\ locator' = locator
          /\ salt \in Int /\ items' \in {{}, {1}} /\ items \subseteq items'
          /\ locator' \in {0} \cup items'
          /\ UNCHANGED <<files, service>>
      BY <1>1, <1>8 DEF LoadSalt, TypeInv
    <2>1. CASE salt > 0 /\ goto(p, "password") /\ UNCHANGED <<salt, locks>>
      BY <1>4, <2>0, <2>1 DEF PCs
    <2>2. CASE salt = NoSalt /\ salt' = TornSalt /\ goto(p, "saltwrite") /\ UNCHANGED locks
      BY <1>4, <1>7, <2>0, <2>2 DEF PCs, NoSalt, TornSalt
    <2>3. CASE ends(p) /\ UNCHANGED salt
      BY <1>5, <2>0, <2>3
    <2> QED
      BY <1>8, <2>1, <2>2, <2>3 DEF LoadSalt
  <1>9. ASSUME WriteSalt(p) PROVE IInv'
    <2>1. salt = TornSalt
      BY <1>1, <1>9 DEF WriteSalt, at, PhaseOf
    <2>2. salts' = salts + 1 /\ salt' = salts' /\ salts \in Nat
      BY <1>1, <1>9 DEF WriteSalt, TypeInv
    <2>3. /\ goto(p, "password") /\ UNCHANGED <<files, locks, service>>
          /\ items' \in {{}, {1}} /\ items \subseteq items' /\ locator' \in {0} \cup items'
      BY <1>1, <1>9 DEF WriteSalt, TypeInv
    <2> QED
      BY <1>4, <1>7, <2>1, <2>2, <2>3 DEF PCs, TornSalt
  <1>10. ASSUME SaltWriteFails(p) PROVE IInv'
    <2>1. salt = TornSalt
      BY <1>1, <1>10 DEF SaltWriteFails, at, PhaseOf
    <2>2. /\ ends(p) /\ UNCHANGED <<files, items, service>> /\ salt' = NoSalt
          /\ salts' \in Nat /\ locator' \in {0} \cup items'
      BY <1>1, <1>10 DEF SaltWriteFails, TypeInv
    <2> QED
      BY <1>5, <1>7, <2>1, <2>2 DEF NoSalt, TornSalt
  <1>11. ASSUME UseCachedPassword(p) PROVE IInv'
    <2>1. cmd[p].key.item \in items'
      BY <1>1, <1>11 DEF UseCachedPassword, disk, PhaseOf
    <2>2. /\ has_key(p, cmd[p].key.item) /\ UNCHANGED <<files, salt, salts, locks, service>>
          /\ items' \in {{}, {1}} /\ items \subseteq items' /\ locator' \in {0} \cup items'
          /\ cmd[p].pc \in {"password", "readback"}
      BY <1>1, <1>11 DEF UseCachedPassword, disk, at, TypeInv
    <2> QED
      BY <1>6, <2>1, <2>2
  <1>12. ASSUME ReadLocatedItem(p) PROVE IInv'
    <2>1. /\ locator \in items'
          /\ has_key(p, locator) /\ UNCHANGED <<files, salt, salts, locks, service>>
          /\ items' \in {{}, {1}} /\ items \subseteq items' /\ locator' \in {0} \cup items'
          /\ cmd[p].pc \in {"password", "readback"}
      BY <1>1, <1>12 DEF ReadLocatedItem, disk, at, TypeInv
    <2> QED
      BY <1>6, <2>1
  <1>13. ASSUME ReadListedItem(p) PROVE IInv'
    <2>1. PICK item \in items : locator' = item /\ has_key(p, item)
      BY <1>13 DEF ReadListedItem
    <2>2. /\ item \in items' /\ UNCHANGED <<files, salt, salts, locks, service>>
          /\ items' \in {{}, {1}} /\ items \subseteq items' /\ locator' \in {0} \cup items'
          /\ cmd[p].pc \in {"password", "readback"}
      BY <1>1, <1>13, <2>1 DEF ReadListedItem, TypeInv
    <2> QED
      BY <1>6, <2>1, <2>2
  <1>14. ASSUME CreateItem(p) PROVE IInv'
    <2>1. /\ goto(p, "readback") /\ UNCHANGED <<files, locks, service>>
          /\ salt' = salt /\ salt > 0 /\ salt \in Int /\ salts' \in Nat
          /\ items' \in {{}, {1}} /\ items \subseteq items' /\ locator' \in {0} \cup items'
      BY <1>1, <1>14 DEF CreateItem, at, TypeInv, PhaseOf
    <2> QED
      BY <1>4, <2>1 DEF PCs
  <1>15. ASSUME UnlinkLock(p) PROVE IInv'
    <2>1. /\ goto(p, "unlinksalt") /\ UNCHANGED <<files, locks, service>>
          /\ salt' = salt /\ salt \in Int /\ salts' \in Nat
          /\ items' \in {{}, {1}} /\ items \subseteq items' /\ locator' \in {0} \cup items'
          /\ \A n \in Names : files[n].kind # "sealed"
      BY <1>1, <1>15 DEF UnlinkLock, at, TypeInv, PhaseOf
    <2> QED
      BY <1>4, <2>1 DEF PCs
  <1>16. ASSUME UnlinkSalt(p) PROVE IInv'
    <2>1. /\ goto(p, "unlinklocator") /\ UNCHANGED <<files, locks, service>>
          /\ salt' = NoSalt /\ salts' \in Nat
          /\ items' \in {{}, {1}} /\ items \subseteq items' /\ locator' \in {0} \cup items'
          /\ \A n \in Names : files[n].kind # "sealed"
      BY <1>1, <1>16 DEF UnlinkSalt, at, TypeInv, PhaseOf
    <2> QED
      BY <1>4, <2>1 DEF PCs, NoSalt
  <1>17. ASSUME UnlinkLocator(p) PROVE IInv'
    BY <1>1, <1>5, <1>17 DEF UnlinkLocator, TypeInv
  <1> QED
    BY <1>8, <1>9, <1>10, <1>11, <1>12, <1>13, <1>14, <1>15, <1>16, <1>17

\* The holder of the master key lock writes or unlinks a file.
LEMMA FileStep ==
  ASSUME IInv, NEW p \in Processes,
         \/ CreateFile(p) \/ WriteFile(p) \/ FileWriteFails(p) \/ ReplaceFile(p)
         \/ UnlinkIdentity(p) \/ UnlinkAccount(p)
  PROVE  IInv'
  <1>1. cmd[p] \in Cmd /\ PhaseOf(p) /\ SealedInv /\ TypeInv /\ name(p) \in Names
    BY Facts DEF name, Names
  <1>2. master = p
    BY Facts DEF CreateFile, WriteFile, FileWriteFails, ReplaceFile, UnlinkIdentity,
      UnlinkAccount, Unlink, at, InMaster
  <1>3. ASSUME NEW c \in Cmd, cmd' = [cmd EXCEPT ![p] = c],
               c.pc \in InMaster => master' = p, c.key = cmd[p].key,
               c.pc \notin {"saltwrite", "password", "readback", "operate"},
               c.pc = "write" => cmd[p].pc = "operate",
               UNCHANGED <<salt, salts, items, locator, service>>,
               NEW n \in Names, NEW f \in File, files' = [files EXCEPT ![n] = f],
               f.kind = "sealed" => /\ f.key \in Key /\ f.key.salt = salt /\ salt > 0
                                    /\ f.key.item \in items,
               c.pc = "unlinkaccount" => n = "identity" /\ f.kind # "sealed",
               c.pc = "unlinklock" => /\ n = "account" /\ f.kind # "sealed"
                                      /\ files["identity"].kind # "sealed",
               c.pc # "unlinksalt"
        PROVE  IInv'
    <2>1. /\ files' \in [Names -> File] /\ files'[n] = f
          /\ \A m \in Names : m # n => files'[m] = files[m]
      BY <1>1, <1>3 DEF TypeInv
    <2>2. SealedInv'
      BY <1>1, <1>3, <2>1 DEF SealedInv
    <2>3. /\ salt' \in Int /\ salts' \in Nat /\ issued' \in Nat
          /\ items' \in {{}, {1}} /\ items \subseteq items' /\ locator' \in {0} \cup items'
      BY <1>1, <1>3 DEF TypeInv, service
    <2>4. c.key # None => c.key.item \in items'
      BY <1>1, <1>3 DEF PhaseOf
    <2>5. c.pc \in {"operate", "write"} =>
            /\ c.key \in Key /\ c.key.salt = salt' /\ salt' > 0 /\ c.key.item \in items'
      BY <1>1, <1>3 DEF PhaseOf
    <2>6. c.pc = "unlinkaccount" => files'["identity"].kind # "sealed"
      BY <1>3, <2>1 DEF Names
    <2>7. c.pc = "unlinklock" => \A m \in Names : files'[m].kind # "sealed"
      BY <1>3, <2>1 DEF Names
    <2> QED
      BY <1>2, <1>3, <2>1, <2>2, <2>3, <2>4, <2>5, <2>6, <2>7, InsideStep
  \* The command ends with a file that is absent or sealed under its key.
  <1>4. ASSUME ends(p), UNCHANGED <<salt, salts, items, locator, service>>,
               NEW f \in File, files' = [files EXCEPT ![name(p)] = f],
               f.kind = "sealed" => /\ f.key \in Key /\ f.key.salt = salt /\ salt > 0
                                    /\ f.key.item \in items
        PROVE  IInv'
    <2> DEFINE c == [Idle EXCEPT !.key = cmd[p].key]
    <2>1. c \in Cmd /\ c.pc = "idle" /\ c.key = cmd[p].key
      BY <1>1 DEF Cmd, Idle, PCs, Goals
    <2>2. cmd' = [cmd EXCEPT ![p] = c]
      BY <1>4 DEF ends
    <2> HIDE DEF c
    <2> QED
      BY <1>1, <1>3, <1>4, <2>1, <2>2 DEF InMaster
  <1>5. ASSUME NEW pc \in PCs, goto(p, pc), UNCHANGED <<salt, salts, items, locator>>,
               UNCHANGED <<locks, service>>,
               NEW n \in Names, NEW f \in File, files' = [files EXCEPT ![n] = f],
               f.kind # "sealed",
               \/ pc = "write" /\ cmd[p].pc = "operate"
               \/ pc = "unlinkaccount" /\ n = "identity"
               \/ pc = "unlinklock" /\ n = "account" /\ cmd[p].pc = "unlinkaccount"
        PROVE  IInv'
    <2> DEFINE c == [cmd[p] EXCEPT !.pc = pc]
    <2>1. c \in Cmd /\ c.pc = pc /\ c.key = cmd[p].key
      BY <1>1 DEF Cmd
    <2>2. cmd' = [cmd EXCEPT ![p] = c] /\ master' = p
      BY <1>2, <1>5 DEF goto, locks
    <2>3. pc = "unlinklock" => files["identity"].kind # "sealed"
      BY <1>1, <1>5 DEF PhaseOf
    <2> HIDE DEF c
    <2> QED
      BY <1>3, <1>5, <2>1, <2>2, <2>3
  <1>6. cmd[p].bundle \in Owner \cup Scoped \cup {None}
    BY <1>1 DEF Cmd
  \* What the command seals.
  <1>7. ASSUME cmd[p].pc \in {"operate", "write"}
        PROVE  LET f == seal(cmd[p].bundle, cmd[p].key)
               IN  /\ f \in File
                   /\ f.key \in Key /\ f.key.salt = salt /\ salt > 0 /\ f.key.item \in items
    <2>1. /\ cmd[p].key \in Key /\ cmd[p].key.salt = salt /\ salt > 0
          /\ cmd[p].key.item \in items
      BY <1>1, <1>7 DEF PhaseOf
    <2>2. /\ seal(cmd[p].bundle, cmd[p].key) \in File
          /\ seal(cmd[p].bundle, cmd[p].key).key = cmd[p].key
      BY <1>6, <2>1, FileConstants
    <2> QED
      BY <2>1, <2>2
  <1>8. ASSUME CreateFile(p) PROVE IInv'
    <2>1. CASE ends(p) /\ UNCHANGED files
      <3>1. UNCHANGED <<files, salt, salts, items, locator, inode, service>>
        BY <1>8, <2>1 DEF CreateFile
      <3> QED
        BY <2>1, <3>1, Ends DEF disk
    <2>2. CASE /\ files' = [files EXCEPT ![name(p)] = Torn]
               /\ goto(p, "write") /\ UNCHANGED locks
      BY <1>1, <1>5, <1>8, <2>2, FileConstants DEF CreateFile, at, PCs
    <2> QED
      BY <1>8, <2>1, <2>2 DEF CreateFile
  <1>9. ASSUME WriteFile(p) PROVE IInv'
    BY <1>4, <1>7, <1>9 DEF WriteFile, at
  <1>10. ASSUME ReplaceFile(p) PROVE IInv'
    BY <1>4, <1>7, <1>10 DEF ReplaceFile, at
  <1>11. ASSUME FileWriteFails(p) PROVE IInv'
    BY <1>4, <1>11, FileConstants DEF FileWriteFails
  <1>12. ASSUME UnlinkIdentity(p) PROVE IInv'
    <2>1. /\ goto(p, "unlinkaccount") /\ UNCHANGED <<salt, salts, items, locator>>
          /\ UNCHANGED <<locks, service>> /\ files' = [files EXCEPT !["identity"] = Absent]
      BY <1>12 DEF UnlinkIdentity, Unlink
    <2>2. "unlinkaccount" \in PCs /\ "identity" \in Names
      BY DEF PCs, Names
    <2> QED
      BY <1>5, <2>1, <2>2, FileConstants
  <1>13. ASSUME UnlinkAccount(p) PROVE IInv'
    <2>1. /\ goto(p, "unlinklock") /\ UNCHANGED <<salt, salts, items, locator>>
          /\ UNCHANGED <<locks, service>> /\ files' = [files EXCEPT !["account"] = Absent]
          /\ cmd[p].pc = "unlinkaccount"
      BY <1>13 DEF UnlinkAccount, Unlink, at
    <2>2. "unlinklock" \in PCs /\ "account" \in Names
      BY DEF PCs, Names
    <2> QED
      BY <1>5, <2>1, <2>2, FileConstants
  <1> QED
    BY <1>8, <1>9, <1>10, <1>11, <1>12, <1>13

LEMMA Inductive == IInv /\ [Next]_vars => IInv'
  <1> SUFFICES ASSUME IInv, [Next]_vars PROVE IInv'
    OBVIOUS
  <1>1. CASE UNCHANGED vars
    <2>1. UNCHANGED <<files, salt, salts, items, locator, master, cmd, issued>>
      BY <1>1 DEF vars, disk, locks, service
    <2> QED
      BY <2>1 DEF IInv, TypeInv, MasterInv, PhaseInv, PhaseOf, SealedInv
  <1>2. ASSUME NEW p \in Processes, LockMaster(p) PROVE IInv'
    <2> DEFINE pc == IF cmd[p].op = "uninstall" THEN "unlinkidentity" ELSE "salt"
               c == [cmd[p] EXCEPT !.pc = pc]
    <2>1. cmd[p] \in Cmd /\ PhaseOf(p)
      BY Facts
    <2>2. /\ c \in Cmd /\ c.pc \in {"unlinkidentity", "salt"} /\ c.key = cmd[p].key
          /\ cmd' = [cmd EXCEPT ![p] = c]
      BY <1>2, <2>1 DEF LockMaster, goto, Cmd, PCs
    <2> HIDE DEF c
    <2>3. /\ cmd' \in [Processes -> Cmd] /\ cmd'[p] = c
          /\ \A q \in Processes : q # p => cmd'[q] = cmd[q]
      BY <2>2 DEF IInv, TypeInv
    <2>4. /\ master = None /\ master' = p
          /\ UNCHANGED <<files, salt, salts, items, locator, issued>>
      BY <1>2 DEF LockMaster, disk, service
    <2>5. \A q \in Processes : cmd[q].pc \notin InMaster
      BY <2>4, LocalStateAssumption DEF IInv, MasterInv
    <2>6. TypeInv' /\ SealedInv'
      BY <2>3, <2>4 DEF IInv, TypeInv, SealedInv
    <2>7. MasterInv'
      BY <2>3, <2>4, <2>5 DEF MasterInv
    <2>8. PhaseOf(p)'
      BY <2>1, <2>2, <2>3, <2>4 DEF PhaseOf
    <2>9. ASSUME NEW q \in Processes, q # p PROVE PhaseOf(q)'
      BY <2>3, <2>4, <2>9 DEF IInv, PhaseInv, PhaseOf
    <2> QED
      BY <2>6, <2>7, <2>8, <2>9 DEF IInv, PhaseInv
  <1>3. ASSUME NEW i \in Ids, IssueElsewhere(i) PROVE IInv'
    <2>1. UNCHANGED <<files, salt, salts, items, locator, master, cmd>>
      BY <1>3 DEF IssueElsewhere, disk, locks
    <2>2. issued' = issued + 1
      BY <1>3, Zenon DEF IssueElsewhere, initialize
    <2>3. TypeInv'
      BY <2>1, <2>2 DEF IInv, TypeInv
    <2> QED
      BY <2>1, <2>3 DEF IInv, MasterInv, PhaseInv, PhaseOf, SealedInv
  <1> QED
    BY <1>1, <1>2, <1>3, Outside, KeyStep, FileStep DEF Next, Blocking, Moving

\* Along every behaviour, for any number of processes, bundles and uninstallations, only
\* the holder of the master key lock is in its section, and what it knows of salt, files
\* and passwords holds.
THEOREM Invariant == Spec => []IInv
  <1> QED
    BY InitInv, Inductive, PTL DEF Spec

\* SealedOpens: the envelopes that seal writes beside the salt and the 1Password item stay
\* openable, whatever commands run, are killed, or uninstall the directory meanwhile.
THEOREM SecretsOpen == Spec => []SealedOpens
  <1>1. IInv => SealedOpens
    BY DEF IInv, TypeInv, SealedInv, SealedOpens, reachable
  <1> QED
    BY <1>1, Invariant, PTL
----------------------------------------------------------------------------
(* The account slot: who may fill it, and with which credentials.          *)

\* The credentials of an account are those of the row the service keeps for it.
Issued(b) == b \notin Scoped \cup {None} => b.token > 0 /\ remote[b.id] = b.token

TokenInv ==
    /\ remote \in [Ids -> Nat]
    /\ \A n \in Names : Issued(files[n].bundle)
    /\ \A p \in Processes : Issued(cmd[p].bundle)

\* The command has read the secret's file and decided what to do with it.
Decided == {"install", "open", "replace"}
nameOf(c) == IF c.op = "identity" THEN "identity" ELSE "account"

\* How far the command c of p can be with its locks: an idle one holds nothing, one that
\* creates or imports an account holds the mutation lock from its second look at the slot
\* on, and whoever has read the account file before any uninstallation holds its lock.
Progress(p, c, h, m) ==
    /\ c.pc = "idle" => c.op = "none" /\ c.goal = "none" /\ c.bundle = None /\ h = 0
    /\ c.pc \in {"slot", "issue", "reply"} \/ c.goal = "prepare" => c.op = "create"
    /\ c.pc = "mutation" => c.op \in {"create", "install"}
    /\ c.pc \in {"lock", "read"} => c.op \in {"create", "install", "load", "identity"}
    /\ c.pc = "write" => c.goal = "install"
    /\ c.goal = "install" => c.op \in {"create", "install", "identity"}
    /\ c.goal = "replace" => c.op # "create"
    /\ c.op = "install" /\ c.pc # "mutation" => m = p
    /\ c.op = "create" /\ (\/ c.pc \in {"issue", "reply", "lock", "read"}
                           \/ c.goal \in Decided \/ c.bundle # None) => m = p

ProgressInv == \A p \in Processes : Progress(p, cmd[p], held[p], mutation)

\* Before any uninstallation the lock file of the account excludes.
Locks(p) == held[p] = 1 /\ name(p) = "account"
LockInv ==
    /\ held \in [Processes -> Nat] /\ inode \in Nat \ {0}
    /\ inode = 1 => \A p, q \in Processes : Locks(p) /\ Locks(q) => p = q
    /\ inode = 1 => \A p \in Processes :
         name(p) = "account" /\ (at(p, "read") \/ cmd[p].goal \in Decided) => Locks(p)

\* A command that migrates the account, and one whose account is being issued.
Migrates(c) == c.goal = "replace" /\ nameOf(c) = "account"
Issues(c) == c.op = "create" /\ (c.pc = "issue" \/ c.bundle # None)

\* The plaintext a migration will seal is still there, unless an uninstallation removed it.
MigrateInv == inode = 1 => \A p \in Processes : Migrates(cmd[p]) =>
    \/ files["account"].kind = "none"
    \/ files["account"].kind = "legacy" /\ files["account"].bundle = cmd[p].bundle

\* The slot of an account that is being issued stays empty, and no migration can fill it.
SlotInv == inode = 1 => \A p \in Processes : Issues(cmd[p]) =>
    /\ ~at(p, "write") => files["account"].kind = "none"
    /\ \A q \in Processes : ~Migrates(cmd[q])

\* Nobody touches the file a command is writing.
WriteInv == \A p \in Processes :
    at(p, "write") /\ name(p) = "account" => files["account"].kind = "torn"

ClaimInv == ProgressInv /\ LockInv /\ MigrateInv /\ SlotInv /\ WriteInv

AccountInv == TokenInv /\ ClaimInv

\* Rows of the service are never rewritten: a bundle that was issued stays issued.
LEMMA StaysIssued ==
  ASSUME NEW b \in Owner \cup Scoped \cup {None}, Issued(b),
         \A i \in Ids : remote[i] # 0 => remote'[i] = remote[i]
  PROVE  Issued(b)'
  <1> SUFFICES ASSUME b \notin Scoped \cup {None}
               PROVE  b.token > 0 /\ remote'[b.id] = b.token
    BY DEF Issued
  <1>1. b.token > 0 /\ remote[b.id] = b.token
    BY DEF Issued
  <1>2. b.id \in Ids /\ b.token \in Nat
    BY DEF Owner
  <1>3. remote[b.id] # 0
    BY <1>1, <1>2
  <1> QED
    BY <1>1, <1>2, <1>3

LEMMA TokenStep ==
  ASSUME IInv, IInv', TokenInv, NEW p \in Processes, NEW c \in Cmd,
         cmd' = [cmd EXCEPT ![p] = c],
         remote' \in [Ids -> Nat], \A i \in Ids : remote[i] # 0 => remote'[i] = remote[i],
         Issued(c.bundle)',
         \A n \in Names : \/ files'[n].bundle = files[n].bundle
                          \/ files'[n].bundle \in {None, cmd[p].bundle}
  PROVE  TokenInv'
  <1>1. \A q \in Processes : cmd[q] \in Cmd /\ cmd'[q] = IF q = p THEN c ELSE cmd[q]
    BY DEF IInv, TypeInv
  <1>2. \A q \in Processes : cmd[q].bundle \in Owner \cup Scoped \cup {None}
    BY <1>1 DEF Cmd
  <1>3. \A n \in Names : files[n].bundle \in Owner \cup Scoped \cup {None}
    BY DEF IInv, TypeInv, File
  <1>4. \A q \in Processes : Issued(cmd[q].bundle)
    BY DEF TokenInv
  <1>5. ASSUME NEW q \in Processes, NEW b, b = cmd'[q].bundle PROVE Issued(b)'
    <2>1. CASE q = p
      BY <1>1, <1>5, <2>1
    <2>2. CASE q # p
      BY <1>1, <1>2, <1>4, <1>5, <2>2, StaysIssued
    <2> QED
      BY <2>1, <2>2
  <1>6. ASSUME NEW n \in Names, NEW b, b = files'[n].bundle PROVE Issued(b)'
    <2>1. CASE b = None
      BY <2>1 DEF Issued
    <2>2. CASE b = files[n].bundle
      BY <1>3, <2>2, StaysIssued DEF TokenInv
    <2>3. CASE b = cmd[p].bundle
      BY <1>2, <1>4, <2>3, StaysIssued
    <2> QED
      BY <1>6, <2>1, <2>2, <2>3
  <1>7. \A q \in Processes : Issued(cmd[q].bundle)'
    BY <1>5 DEF Issued
  <1>8. \A n \in Names : Issued(files[n].bundle)'
    BY <1>6 DEF Issued
  <1> QED
    BY <1>7, <1>8 DEF TokenInv

\* What a command knows of the mutation lock outlives the steps of the others.
LEMMA OthersProgress ==
  ASSUME ProgressInv, NEW p \in Processes, NEW q \in Processes, q # p, NEW m,
         m = mutation \/ mutation \in {None, p}
  PROVE  Progress(q, cmd[q], held[q], m)
  <1>1. Progress(q, cmd[q], held[q], mutation)
    BY DEF ProgressInv
  <1>2. mutation = q => m = q
    BY LocalStateAssumption
  <1> QED
    BY <1>1, <1>2 DEF Progress

\* A step of p that leaves the account file alone.
LEMMA ClaimStep ==
  ASSUME IInv, IInv', AccountInv,
         NEW p \in Processes, NEW c \in Cmd, NEW h \in Nat, NEW m,
         cmd' = [cmd EXCEPT ![p] = c], held' = [held EXCEPT ![p] = h], mutation' = m,
         m = mutation \/ mutation \in {None, p},
         inode' \in Nat \ {0}, inode' = 1 => inode = 1,
         files'["account"] = files["account"],
         files'["identity"].bundle \in {files["identity"].bundle, None, cmd[p].bundle},
         remote' \in [Ids -> Nat], \A i \in Ids : remote[i] # 0 => remote'[i] = remote[i],
         Issued(c.bundle)',
         Progress(p, c, h, m),
         inode = 1 /\ nameOf(c) = "account" =>
           /\ h = 1 => Locks(p) \/ \A q \in Processes : q # p => ~Locks(q)
           /\ c.pc = "read" \/ c.goal \in Decided => h = 1,
         c.pc = "write" => nameOf(c) # "account",
         inode = 1 /\ Migrates(c) =>
           \/ Migrates(cmd[p]) /\ c.bundle = cmd[p].bundle
           \/ files["account"].kind = "legacy" /\ files["account"].bundle = c.bundle,
         inode = 1 /\ Issues(c) =>
           \/ Issues(cmd[p]) /\ ~at(p, "write")
           \/ files["account"].kind = "none" /\ \A q \in Processes : ~Migrates(cmd[q])
  PROVE  AccountInv'
  <1>1. /\ cmd'[p] = c /\ held'[p] = h /\ held' \in [Processes -> Nat]
        /\ \A q \in Processes : q # p => cmd'[q] = cmd[q] /\ held'[q] = held[q]
    BY DEF IInv, TypeInv, AccountInv, ClaimInv, LockInv
  <1>2. TokenInv'
    <2>1. \A n \in Names : \/ files'[n].bundle = files[n].bundle
                           \/ files'[n].bundle \in {None, cmd[p].bundle}
      BY DEF Names
    <2> QED
      BY <2>1, TokenStep DEF AccountInv
  <1>3. ProgressInv'
    <2> SUFFICES ASSUME NEW q \in Processes
                 PROVE  Progress(q, cmd'[q], held'[q], mutation')
      BY DEF ProgressInv, Progress, Decided
    <2>1. CASE q = p
      BY <1>1, <2>1
    <2>2. CASE q # p
      BY <1>1, <2>2, OthersProgress DEF AccountInv, ClaimInv
    <2> QED
      BY <2>1, <2>2
  <1>4. \A q \in Processes : q # p => (Locks(q)' <=> Locks(q))
    BY <1>1 DEF Locks, name
  <1>5. Locks(p)' <=> h = 1 /\ nameOf(c) = "account"
    BY <1>1 DEF Locks, name, nameOf
  <1>6. LockInv'
    <2>1. inode = 1 => \A q, r \in Processes : Locks(q)' /\ Locks(r)' => q = r
      BY <1>4, <1>5 DEF AccountInv, ClaimInv, LockInv
    <2>2. ASSUME inode = 1, NEW q \in Processes,
                 name(q)' = "account" /\ (at(q, "read")' \/ cmd'[q].goal \in Decided)
          PROVE  Locks(q)'
      <3>1. CASE q = p
        BY <1>1, <1>5, <2>2, <3>1 DEF name, nameOf, at
      <3>2. CASE q # p
        BY <1>1, <1>4, <2>2, <3>2 DEF AccountInv, ClaimInv, LockInv, name, at
      <3> QED
        BY <3>1, <3>2
    <2> QED
      BY <1>1, <2>1, <2>2 DEF LockInv, Decided
  <1>7. MigrateInv'
    BY <1>1 DEF AccountInv, ClaimInv, MigrateInv, Migrates, nameOf
  <1>8. WriteInv'
    BY <1>1 DEF AccountInv, ClaimInv, WriteInv, at, name, nameOf
  <1>9. SlotInv'
    <2> SUFFICES ASSUME inode = 1, NEW q \in Processes, Issues(cmd'[q])
                 PROVE  /\ ~at(q, "write")' => files["account"].kind = "none"
                        /\ \A r \in Processes : ~Migrates(cmd'[r])
      BY DEF SlotInv, Issues, Migrates, nameOf
    <2>1. ~(Issues(c) /\ Migrates(c))
      BY DEF Issues, Migrates, Progress
    <2>2. \A r \in Processes : Issues(cmd[r]) =>
            /\ ~at(r, "write") => files["account"].kind = "none"
            /\ at(r, "write") => files["account"].kind = "torn"
            /\ \A s \in Processes : ~Migrates(cmd[s])
      BY DEF AccountInv, ClaimInv, SlotInv, WriteInv, Issues, name
    <2>3. CASE q = p
      <3>1. files["account"].kind = "none" /\ \A r \in Processes : ~Migrates(cmd[r])
        BY <1>1, <2>2, <2>3
      <3> QED
        BY <1>1, <2>1, <2>3, <3>1
    <2>4. CASE q # p
      <3>1. /\ Issues(cmd[q]) /\ (at(q, "write")' <=> at(q, "write"))
            /\ files["account"].kind # "legacy"
        BY <1>1, <2>2, <2>4 DEF at
      <3>2. ~Migrates(c)
        BY <2>2, <3>1
      <3> QED
        BY <1>1, <2>2, <3>1, <3>2
    <2> QED
      BY <2>3, <2>4
  <1> QED
    BY <1>2, <1>3, <1>6, <1>7, <1>8, <1>9 DEF AccountInv, ClaimInv

\* A step of the holder of the master key lock that changes the account file.
LEMMA ClaimFileStep ==
  ASSUME IInv, IInv', AccountInv,
         NEW p \in Processes, NEW c \in Cmd, NEW h \in Nat, NEW m, NEW f \in File,
         cmd' = [cmd EXCEPT ![p] = c], held' = [held EXCEPT ![p] = h], mutation' = m,
         m = mutation \/ mutation = p, master = p,
         inode' = inode, remote' = remote,
         files' = [files EXCEPT !["account"] = f], f.bundle \in {None, cmd[p].bundle},
         \/ c.pc = "idle" /\ h = 0
         \/ /\ h = held[p] /\ c.op = cmd[p].op /\ c.goal = cmd[p].goal
            /\ c.bundle = cmd[p].bundle /\ c.pc \in {"write", "unlinklock"},
         Progress(p, c, h, m), Migrates(c) => Migrates(cmd[p]) /\ f.kind = "none",
         c.pc = "write" => f.kind = "torn",
         Issues(c) /\ c.pc # "write" => f.kind = "none",
         inode = 1 /\ f.kind # "none" =>
           Locks(p) /\ \A q \in Processes : q # p => ~Issues(cmd[q])
  PROVE  AccountInv'
  <1>1. /\ cmd'[p] = c /\ held'[p] = h /\ held' \in [Processes -> Nat]
        /\ \A q \in Processes : q # p => cmd'[q] = cmd[q] /\ held'[q] = held[q]
    BY DEF IInv, TypeInv, AccountInv, ClaimInv, LockInv
  <1>2. files'["account"] = f /\ files'["identity"] = files["identity"]
    BY DEF IInv, TypeInv, Names
  <1>3. c.pc = "idle" => c.op = "none" /\ c.goal = "none" /\ c.bundle = None
    BY DEF Progress
  <1>4. TokenInv'
    <2>1. \A n \in Names : \/ files'[n].bundle = files[n].bundle
                           \/ files'[n].bundle \in {None, cmd[p].bundle}
      BY <1>2 DEF Names
    <2>2. Issued(c.bundle)'
      BY <1>3 DEF AccountInv, TokenInv, Issued
    <2>3. remote' \in [Ids -> Nat] /\ \A i \in Ids : remote[i] # 0 => remote'[i] = remote[i]
      BY DEF AccountInv, TokenInv
    <2> QED
      BY <2>1, <2>2, <2>3, TokenStep DEF AccountInv
  <1>5. ProgressInv'
    <2> SUFFICES ASSUME NEW q \in Processes
                 PROVE  Progress(q, cmd'[q], held'[q], mutation')
      BY DEF ProgressInv, Progress, Decided
    <2>1. CASE q = p
      BY <1>1, <2>1
    <2>2. CASE q # p
      BY <1>1, <2>2, OthersProgress DEF AccountInv, ClaimInv
    <2> QED
      BY <2>1, <2>2
  <1>6. \A q \in Processes : q # p => (Locks(q)' <=> Locks(q))
    BY <1>1 DEF Locks, name
  <1>7. Locks(p)' => Locks(p)
    BY <1>1 DEF Locks, name
  <1>8. LockInv'
    <2>1. inode = 1 => \A q, r \in Processes : Locks(q)' /\ Locks(r)' => q = r
      BY <1>6, <1>7 DEF AccountInv, ClaimInv, LockInv
    <2>2. ASSUME inode = 1, NEW q \in Processes,
                 name(q)' = "account" /\ (at(q, "read")' \/ cmd'[q].goal \in Decided)
          PROVE  Locks(q)'
      <3>1. CASE q = p
        BY <1>1, <1>3, <2>2, <3>1 DEF AccountInv, ClaimInv, LockInv, Locks, name, at, Decided
      <3>2. CASE q # p
        BY <1>1, <1>6, <2>2, <3>2 DEF AccountInv, ClaimInv, LockInv, name, at
      <3> QED
        BY <3>1, <3>2
    <2>3. inode' \in Nat \ {0}
      BY DEF AccountInv, ClaimInv, LockInv
    <2> QED
      BY <1>1, <2>1, <2>2, <2>3 DEF LockInv, Decided
  \* While p holds the lock of the account nobody else migrates it.
  <1>9. inode = 1 /\ Locks(p) => \A q \in Processes : q # p => ~Migrates(cmd[q])
    BY DEF AccountInv, ClaimInv, LockInv, Migrates, nameOf, name, Decided
  <1>10. MigrateInv'
    BY <1>1, <1>2, <1>9 DEF AccountInv, ClaimInv, MigrateInv, Migrates, nameOf
  <1>11. WriteInv'
    <2>1. \A q \in Processes : q # p => cmd[q].pc # "write"
      BY DEF IInv, MasterInv, InMaster
    <2> QED
      BY <1>1, <1>2, <2>1 DEF WriteInv, at, name
  <1>12. SlotInv'
    <2> SUFFICES ASSUME inode = 1, NEW q \in Processes, Issues(cmd'[q])
                 PROVE  /\ ~at(q, "write")' => f.kind = "none"
                        /\ \A r \in Processes : ~Migrates(cmd'[r])
      BY <1>2 DEF SlotInv, Issues, Migrates, nameOf
    <2>1. \A r \in Processes : Issues(cmd[r]) => \A s \in Processes : ~Migrates(cmd[s])
      BY DEF AccountInv, ClaimInv, SlotInv
    <2>2. CASE q = p
      <3>1. Issues(cmd[p])
        BY <1>1, <1>3, <2>2 DEF Issues
      <3> QED
        BY <1>1, <2>1, <2>2, <3>1 DEF at
    <2>3. CASE q # p
      <3>1. Issues(cmd[q]) /\ f.kind = "none"
        BY <1>1, <2>3
      <3> QED
        BY <1>1, <2>1, <3>1
    <2> QED
      BY <2>2, <2>3
  <1> QED
    BY <1>4, <1>5, <1>8, <1>10, <1>11, <1>12 DEF AccountInv, ClaimInv

LEMMA AccountInit == Init => AccountInv
  <1> SUFFICES ASSUME Init PROVE AccountInv
    OBVIOUS
  <1>1. /\ Idle.pc = "idle" /\ Idle.op = "none" /\ Idle.goal = "none" /\ Idle.bundle = None
    BY DEF Idle
  <1>2. /\ inode = 1 /\ held = [p \in Processes |-> 0] /\ cmd = [p \in Processes |-> Idle]
    BY DEF Init
  <1>3. ClaimInv
    BY <1>1, <1>2 DEF ClaimInv, ProgressInv, Progress, LockInv, Locks, MigrateInv, Migrates,
                      SlotInv, Issues, WriteInv, at, name, nameOf, Decided
  <1>4. Absent.bundle = None /\ \A b : Legacy(b).bundle = b
    BY DEF Absent, Legacy
  <1> DEFINE fine == /\ remote \in [Ids -> Nat]
                     /\ \A n \in Names : Issued(files[n].bundle)
  <1>5. ASSUME files = [n \in Names |-> Absent], remote = [i \in Ids |-> 0]
        PROVE  fine
    BY <1>4, <1>5 DEF Issued
  <1>6. ASSUME NEW b \in Scoped,
               files = [n \in Names |-> Legacy(IF n = "account" THEN b ELSE None)],
               remote = [i \in Ids |-> 0]
        PROVE  fine
    BY <1>4, <1>6 DEF Issued
  <1>7. ASSUME NEW id \in Ids,
               files = [n \in Names |-> Legacy(IF n = "account"
                                              THEN [id |-> id, token |-> 1] ELSE None)],
               remote = [i \in Ids |-> IF i = id THEN 1 ELSE 0]
        PROVE  fine
    <2>1. remote \in [Ids -> Nat] /\ remote[id] = 1
      BY <1>7
    <2>2. \A n \in Names : files[n].bundle \in {[id |-> id, token |-> 1], None}
      BY <1>4, <1>7
    <2> QED
      BY <2>1, <2>2 DEF Issued
  <1>8. fine
    <2> HIDE DEF fine
    <2> QED
      BY <1>5, <1>6, <1>7, Zenon DEF Init
  <1>9. TokenInv
    BY <1>1, <1>2, <1>8 DEF TokenInv, Issued
  <1> QED
    BY <1>3, <1>9 DEF AccountInv

\* A command that ends or is killed gives its locks back.
LEMMA ClaimEnds ==
  ASSUME IInv, IInv', AccountInv, NEW p \in Processes, NEW c \in Cmd,
         c.pc = "idle", c.op = "none", c.goal = "none", c.bundle = None,
         cmd' = [cmd EXCEPT ![p] = c], held' = [held EXCEPT ![p] = 0],
         mutation' = release(mutation, p), inode' = inode, remote' = remote,
         files'["account"] = files["account"],
         files'["identity"].bundle \in {files["identity"].bundle, None, cmd[p].bundle}
  PROVE  AccountInv'
  <1> DEFINE m == release(mutation, p)
  <1>1. m = mutation \/ mutation = p
    BY DEF release
  <1>2. Progress(p, c, 0, m) /\ ~Migrates(c) /\ ~Issues(c)
    BY DEF Progress, Migrates, Issues, Decided
  <1>3. /\ inode' \in Nat \ {0} /\ remote' \in [Ids -> Nat] /\ Issued(c.bundle)'
        /\ \A i \in Ids : remote[i] # 0 => remote'[i] = remote[i]
    BY DEF AccountInv, ClaimInv, LockInv, TokenInv, Issued
  <1>4. PICK k : k = m
    OBVIOUS
  <1>5. /\ mutation' = k /\ Progress(p, c, 0, k) /\ (k = mutation \/ mutation \in {None, p})
        /\ c.goal \notin Decided
    BY <1>1, <1>2, <1>4 DEF Decided
  <1> QED
    BY <1>2, <1>3, <1>5, ClaimStep

\* A command moves on inside the section of the master key lock, or to its door.
LEMMA ClaimMove ==
  ASSUME IInv, IInv', AccountInv, NEW p \in Processes, NEW c \in Cmd,
         cmd' = [cmd EXCEPT ![p] = c],
         c.op = cmd[p].op, c.goal = cmd[p].goal, c.bundle = cmd[p].bundle,
         cmd[p].pc \notin {"idle", "mutation", "write"},
         c.pc \in {"master"} \cup (InMaster \ {"write"}),
         held' = held, mutation' = mutation, remote' = remote,
         inode' \in Nat \ {0}, inode' = 1 => inode = 1,
         files'["account"] = files["account"],
         files'["identity"].bundle \in {files["identity"].bundle, None, cmd[p].bundle}
  PROVE  AccountInv'
  <1>1. PICK h : h = held[p]
    OBVIOUS
  <1>2. PICK m : m = mutation
    OBVIOUS
  <1>3. /\ h \in Nat /\ held' = [held EXCEPT ![p] = h] /\ mutation' = m
    BY <1>1, <1>2 DEF AccountInv, ClaimInv, LockInv
  <1>4. Progress(p, cmd[p], h, m)
    BY <1>1, <1>2 DEF AccountInv, ClaimInv, ProgressInv
  <1>5. Progress(p, c, h, m)
    BY <1>4 DEF Progress, InMaster
  <1>6. /\ remote' \in [Ids -> Nat] /\ \A i \in Ids : remote[i] # 0 => remote'[i] = remote[i]
        /\ Issued(c.bundle)'
    BY DEF AccountInv, TokenInv, Issued
  <1>7. nameOf(c) = name(p) /\ c.pc # "read" /\ c.pc # "write" /\ c.pc # "issue"
    BY DEF nameOf, name, InMaster
  <1>8. inode = 1 /\ nameOf(c) = "account" =>
          /\ h = 1 => Locks(p)
          /\ c.goal \in Decided => h = 1
    BY <1>1, <1>7 DEF AccountInv, ClaimInv, LockInv, Locks
  <1>9. /\ Migrates(c) => Migrates(cmd[p])
        /\ Issues(c) => Issues(cmd[p]) /\ ~at(p, "write")
    BY <1>7 DEF Migrates, Issues, nameOf, at
  <1> QED
    BY <1>2, <1>3, <1>5, <1>6, <1>7, <1>8, <1>9, ClaimStep

\* What the cases below start from.
LEMMA AccountFacts ==
  ASSUME IInv, AccountInv, NEW p \in Processes
  PROVE  /\ cmd[p] \in Cmd /\ held[p] \in Nat /\ inode \in Nat \ {0}
         /\ Progress(p, cmd[p], held[p], mutation)
         /\ remote \in [Ids -> Nat] /\ Issued(cmd[p].bundle)
         /\ nameOf(cmd[p]) = name(p)
  BY DEF IInv, TypeInv, AccountInv, ClaimInv, ProgressInv, LockInv, TokenInv, nameOf, name

LEMMA AccountEnds ==
  ASSUME IInv, IInv', AccountInv, NEW p \in Processes, ends(p) \/ Exit(p),
         inode' = inode, remote' = remote, files'["account"] = files["account"],
         files'["identity"].bundle \in {files["identity"].bundle, None, cmd[p].bundle}
  PROVE  AccountInv'
  <1>1. CASE ends(p)
    <2> DEFINE d == [Idle EXCEPT !.key = cmd[p].key]
    <2>0. cmd[p] \in Cmd
      BY AccountFacts
    <2>1. /\ d \in Cmd /\ d.pc = "idle" /\ d.op = "none" /\ d.goal = "none"
          /\ d.bundle = None
      BY <2>0 DEF Idle, Cmd, PCs, Goals
    <2>2. /\ cmd' = [cmd EXCEPT ![p] = d] /\ held' = [held EXCEPT ![p] = 0]
          /\ mutation' = release(mutation, p)
      BY <1>1 DEF ends
    <2>3. PICK c : c = d
      OBVIOUS
    <2> HIDE DEF d
    <2> QED
      BY <2>1, <2>2, <2>3, ClaimEnds
  <1>2. CASE Exit(p)
    <2>1. /\ Idle \in Cmd /\ Idle.pc = "idle" /\ Idle.op = "none" /\ Idle.goal = "none"
          /\ Idle.bundle = None
      BY DEF Idle, Cmd, PCs, Goals
    <2>2. /\ cmd' = [cmd EXCEPT ![p] = Idle] /\ held' = [held EXCEPT ![p] = 0]
          /\ mutation' = release(mutation, p)
      BY <1>2 DEF Exit
    <2> QED
      BY <2>1, <2>2, ClaimEnds
  <1> QED
    BY <1>1, <1>2

\* A step of p that touches neither disk nor service: what is left of ClaimStep.
LEMMA ClaimTurn ==
  ASSUME IInv, IInv', AccountInv,
         NEW p \in Processes, NEW c \in Cmd, NEW h \in Nat, NEW m,
         cmd' = [cmd EXCEPT ![p] = c], held' = [held EXCEPT ![p] = h], mutation' = m,
         m = mutation \/ mutation \in {None, p},
         UNCHANGED <<disk, service>>,
         Issued(c.bundle),
         Progress(p, c, h, m),
         inode = 1 /\ nameOf(c) = "account" =>
           /\ h = 1 => Locks(p) \/ \A q \in Processes : q # p => ~Locks(q)
           /\ c.pc = "read" \/ c.goal \in Decided => h = 1,
         c.pc # "write",
         inode = 1 /\ Migrates(c) =>
           \/ Migrates(cmd[p]) /\ c.bundle = cmd[p].bundle
           \/ files["account"].kind = "legacy" /\ files["account"].bundle = c.bundle,
         inode = 1 /\ Issues(c) =>
           \/ Issues(cmd[p]) /\ ~at(p, "write")
           \/ files["account"].kind = "none" /\ \A q \in Processes : ~Migrates(cmd[q])
  PROVE  AccountInv'
  <1>1. inode \in Nat \ {0} /\ remote \in [Ids -> Nat]
    BY AccountFacts
  <1>2. /\ inode' \in Nat \ {0} /\ (inode' = 1 => inode = 1)
        /\ files'["account"] = files["account"]
        /\ files'["identity"].bundle \in {files["identity"].bundle, None, cmd[p].bundle}
        /\ remote' \in [Ids -> Nat] /\ \A i \in Ids : remote[i] # 0 => remote'[i] = remote[i]
    BY <1>1 DEF disk, service
  <1>3. Issued(c.bundle)'
    BY DEF Issued, service
  <1> QED
    BY <1>2, <1>3, ClaimStep

\* A command begins.
LEMMA AccountStart ==
  ASSUME IInv, IInv', AccountInv, NEW p \in Processes,
         NEW op \in Ops, NEW b \in Scoped \cup {None}, Start(p, op, b)
  PROVE  AccountInv'
  <1>1. /\ cmd[p] \in Cmd /\ held[p] \in Nat /\ Progress(p, cmd[p], held[p], mutation)
    BY AccountFacts
  <1>2. /\ cmd[p].pc = "idle" /\ cmd[p].goal = "none" /\ held[p] = 0
        /\ op \in {"create", "load", "identity", "uninstall"} => b = None
    BY <1>1 DEF Start, at, Progress
  <1> DEFINE d == [cmd[p] EXCEPT !.op = op, !.pc = first(op), !.bundle = b]
  <1>3. first(op) \in PCs
    BY DEF first, Ops, PCs
  <1>4. /\ d \in Cmd /\ d.op = op /\ d.pc = first(op) /\ d.bundle = b /\ d.goal = "none"
    BY <1>1, <1>2, <1>3 DEF Cmd
  <1>5. /\ cmd' = [cmd EXCEPT ![p] = d] /\ UNCHANGED <<disk, locks, service>>
    BY DEF Start
  <1>6. PICK c : c = d
    OBVIOUS
  <1> HIDE DEF d
  <1>7. PICK m : m = mutation
    OBVIOUS
  <1>0. PICK h \in Nat : h = 0
    OBVIOUS
  <1>8. held' = [held EXCEPT ![p] = h] /\ mutation' = m
    BY <1>0, <1>2, <1>5, <1>7 DEF locks, AccountInv, ClaimInv, LockInv
  <1>9. Progress(p, c, h, m)
    BY <1>0, <1>2, <1>4, <1>6 DEF Progress, first, Ops, Decided
  <1>10. /\ Issued(c.bundle) /\ ~Migrates(c) /\ ~Issues(c) /\ c.goal \notin Decided
         /\ c.pc \notin {"read", "write"}
    BY <1>2, <1>4, <1>6 DEF Issued, Migrates, Issues, Decided, first, Ops
  <1>11. c \in Cmd /\ cmd' = [cmd EXCEPT ![p] = c] /\ UNCHANGED <<disk, service>>
    BY <1>4, <1>5, <1>6
  <1>12. c.pc # "read" /\ c.pc # "write" /\ h # 1
    BY <1>0, <1>10
  <1> QED
    BY <1>7, <1>8, <1>9, <1>10, <1>11, <1>12, ClaimTurn

\* A command takes the mutation lock, the lock of its secret or the master key lock.
LEMMA AccountLocks ==
  ASSUME IInv, IInv', AccountInv, NEW p \in Processes,
         LockMutation(p) \/ LockFile(p) \/ LockMaster(p)
  PROVE  AccountInv'
  <1>1. /\ cmd[p] \in Cmd /\ held[p] \in Nat /\ Progress(p, cmd[p], held[p], mutation)
        /\ Issued(cmd[p].bundle) /\ inode \in Nat \ {0} /\ nameOf(cmd[p]) = name(p)
    BY AccountFacts
  <1>2. inode = 1 /\ name(p) = "account" => (cmd[p].goal \in Decided => held[p] = 1)
    BY DEF AccountInv, ClaimInv, LockInv, Locks
  <1>3. ASSUME LockMutation(p) PROVE AccountInv'
    <2> DEFINE pc == IF cmd[p].op = "create" THEN "slot" ELSE "lock"
               d == [cmd[p] EXCEPT !.pc = pc]
    <2>1. /\ d \in Cmd /\ d.pc = pc /\ d.op = cmd[p].op /\ d.goal = cmd[p].goal
          /\ d.bundle = cmd[p].bundle /\ pc \in PCs
      BY <1>1 DEF Cmd, PCs
    <2>2. /\ cmd[p].pc = "mutation" /\ mutation = None /\ mutation' = p
          /\ cmd' = [cmd EXCEPT ![p] = d] /\ held' = held /\ UNCHANGED <<disk, service>>
      BY <1>3 DEF LockMutation, goto, at
    <2>3. PICK c : c = d
      OBVIOUS
    <2>4. PICK h : h = held[p]
      OBVIOUS
    <2>5. held' = [held EXCEPT ![p] = h] /\ h \in Nat
      BY <1>1, <2>2, <2>4 DEF AccountInv, ClaimInv, LockInv
    <2>6. /\ c \in Cmd /\ c.op = cmd[p].op /\ c.goal = cmd[p].goal
          /\ c.bundle = cmd[p].bundle
          /\ c.pc = IF cmd[p].op = "create" THEN "slot" ELSE "lock"
      BY <2>1, <2>3
    <2>7. cmd' = [cmd EXCEPT ![p] = c]
      BY <2>2, <2>3
    <2> HIDE DEF d, pc
    <2>8. Progress(p, c, h, p)
      BY <1>1, <2>2, <2>4, <2>6 DEF Progress
    <2>9. /\ c.pc \notin {"read", "write", "issue"} /\ nameOf(c) = name(p)
          /\ Issued(c.bundle)
          /\ Migrates(c) => Migrates(cmd[p])
          /\ Issues(c) => Issues(cmd[p]) /\ ~at(p, "write")
      BY <1>1, <2>2, <2>6 DEF nameOf, name, Migrates, Issues, at
    <2>10. inode = 1 /\ nameOf(c) = "account" =>
             (h = 1 => Locks(p)) /\ (c.goal \in Decided => h = 1)
      BY <1>2, <2>4, <2>6, <2>9 DEF Locks
    <2> QED
      BY <2>2, <2>5, <2>6, <2>7, <2>8, <2>9, <2>10, ClaimTurn
  <1>4. ASSUME LockFile(p) PROVE AccountInv'
    <2> DEFINE d == [cmd[p] EXCEPT !.pc = "read"]
    <2>1. /\ d \in Cmd /\ d.pc = "read" /\ d.op = cmd[p].op /\ d.goal = cmd[p].goal
          /\ d.bundle = cmd[p].bundle
      BY <1>1 DEF Cmd, PCs
    <2>2. /\ cmd[p].pc = "lock" /\ free(p) /\ mutation' = mutation
          /\ cmd' = [cmd EXCEPT ![p] = d] /\ held' = [held EXCEPT ![p] = lock_file(p)]
          /\ UNCHANGED <<disk, service>>
      BY <1>4 DEF LockFile, goto, at
    <2>3. PICK c : c = d
      OBVIOUS
    <2>4. PICK h : h = lock_file(p)
      OBVIOUS
    <2>5. PICK m : m = mutation
      OBVIOUS
    <2>6. /\ c \in Cmd /\ c.op = cmd[p].op /\ c.goal = cmd[p].goal
          /\ c.bundle = cmd[p].bundle /\ c.pc = "read"
          /\ cmd' = [cmd EXCEPT ![p] = c] /\ held' = [held EXCEPT ![p] = h]
          /\ mutation' = m
      BY <2>1, <2>2, <2>3, <2>4, <2>5
    <2> HIDE DEF d
    <2>7. h \in Nat /\ (inode = 1 => h = 1)
      BY <1>1, <2>4 DEF lock_file
    <2>8. Progress(p, c, h, m)
      BY <1>1, <2>2, <2>5, <2>6 DEF Progress
    <2>9. /\ nameOf(c) = name(p) /\ Issued(c.bundle)
          /\ Migrates(c) => Migrates(cmd[p])
          /\ Issues(c) => Issues(cmd[p]) /\ ~at(p, "write")
      BY <1>1, <2>2, <2>6 DEF nameOf, name, Migrates, Issues, at
    <2>10. inode = 1 /\ name(p) = "account" => \A q \in Processes : ~Locks(q)
      BY <2>2 DEF free, lock_file, Locks
    <2> QED
      BY <2>2, <2>5, <2>6, <2>7, <2>8, <2>9, <2>10, ClaimTurn
  <1>5. ASSUME LockMaster(p) PROVE AccountInv'
    <2> DEFINE pc == IF cmd[p].op = "uninstall" THEN "unlinkidentity" ELSE "salt"
               d == [cmd[p] EXCEPT !.pc = pc]
    <2>1. /\ d \in Cmd /\ d.pc \in InMaster \ {"write"}
          /\ d.op = cmd[p].op /\ d.goal = cmd[p].goal /\ d.bundle = cmd[p].bundle
      BY <1>1 DEF Cmd, PCs, InMaster
    <2>2. /\ cmd[p].pc = "master" /\ cmd' = [cmd EXCEPT ![p] = d]
          /\ UNCHANGED <<disk, held, mutation, service>>
      BY <1>5 DEF LockMaster, goto, at
    <2>3. PICK c : c = d
      OBVIOUS
    <2> HIDE DEF d
    <2> QED
      BY <1>1, <2>1, <2>2, <2>3, ClaimMove DEF disk, service
  <1> QED
    BY <1>3, <1>4, <1>5

\* ensure_account_slot_available: the second look, under the mutation lock, finds the slot
\* empty and, with the account lock free, nobody about to migrate into it.
LEMMA AccountSlot ==
  ASSUME IInv, IInv', AccountInv, NEW p \in Processes, EnsureAccountSlotAvailable(p)
  PROVE  AccountInv'
  <1>1. /\ cmd[p] \in Cmd /\ held[p] \in Nat /\ Progress(p, cmd[p], held[p], mutation)
        /\ Issued(cmd[p].bundle) /\ nameOf(cmd[p]) = name(p)
    BY AccountFacts
  <1>2. /\ cmd[p].pc = "slot" /\ cmd[p].op = "create" /\ name(p) = "account" /\ free(p)
        /\ UNCHANGED <<disk, service>>
    BY <1>1 DEF EnsureAccountSlotAvailable, at, Progress, name
  <1>3. CASE ends(p)
    BY <1>2, <1>3, AccountEnds DEF disk, service
  <1>4. CASE want(p, "prepare") /\ UNCHANGED locks /\ mutation # p
    <2> DEFINE d == [cmd[p] EXCEPT !.pc = "master", !.goal = "prepare"]
    <2>1. /\ d \in Cmd /\ d.pc = "master" /\ d.op = "create" /\ d.goal = "prepare"
          /\ d.bundle = cmd[p].bundle
      BY <1>1, <1>2 DEF Cmd, PCs, Goals
    <2>2. cmd' = [cmd EXCEPT ![p] = d] /\ held' = held /\ mutation' = mutation
      BY <1>4 DEF want, locks
    <2>3. PICK c : c = d
      OBVIOUS
    <2>4. PICK h : h = held[p]
      OBVIOUS
    <2>5. PICK m : m = mutation
      OBVIOUS
    <2>6. /\ c \in Cmd /\ c.op = "create" /\ c.goal = "prepare"
          /\ c.bundle = cmd[p].bundle /\ c.pc = "master"
          /\ cmd' = [cmd EXCEPT ![p] = c] /\ held' = [held EXCEPT ![p] = h]
          /\ mutation' = m /\ h \in Nat
      BY <1>1, <2>1, <2>2, <2>3, <2>4, <2>5 DEF AccountInv, ClaimInv, LockInv
    <2> HIDE DEF d
    <2>7. Progress(p, c, h, m)
      BY <1>1, <1>2, <1>4, <2>5, <2>6 DEF Progress, Decided
    <2>8. /\ ~Migrates(c) /\ (h = 1 => Locks(p)) /\ c.goal \notin Decided
          /\ Issued(c.bundle) /\ c.pc # "read" /\ c.pc # "write"
          /\ Issues(c) => Issues(cmd[p]) /\ ~at(p, "write")
      BY <1>1, <1>2, <2>4, <2>6 DEF Migrates, Locks, Decided, Issues, at
    <2> QED
      BY <1>2, <2>5, <2>6, <2>7, <2>8, ClaimTurn
  <1>5. CASE /\ goto(p, "issue") /\ UNCHANGED locks /\ mutation = p
             /\ files["account"].kind = "none"
    <2> DEFINE d == [cmd[p] EXCEPT !.pc = "issue"]
    <2>1. /\ d \in Cmd /\ d.pc = "issue" /\ d.op = "create" /\ d.goal = cmd[p].goal
          /\ d.bundle = cmd[p].bundle
      BY <1>1, <1>2 DEF Cmd, PCs
    <2>2. cmd' = [cmd EXCEPT ![p] = d] /\ held' = held /\ mutation' = mutation
      BY <1>5 DEF goto, locks
    <2>3. PICK c : c = d
      OBVIOUS
    <2>4. PICK h : h = held[p]
      OBVIOUS
    <2>6. /\ c \in Cmd /\ c.op = "create" /\ c.goal = cmd[p].goal
          /\ c.bundle = cmd[p].bundle /\ c.pc = "issue"
          /\ cmd' = [cmd EXCEPT ![p] = c] /\ held' = [held EXCEPT ![p] = h]
          /\ mutation' = p /\ h \in Nat
      BY <1>1, <1>5, <2>1, <2>2, <2>3, <2>4 DEF AccountInv, ClaimInv, LockInv
    <2> HIDE DEF d
    <2>7. Progress(p, c, h, p)
      BY <1>1, <1>2, <1>5, <2>6 DEF Progress
    <2>8. inode = 1 => \A q \in Processes : ~Locks(q)
      BY <1>2 DEF free, lock_file, Locks
    <2>9. inode = 1 => \A q \in Processes : ~Migrates(cmd[q])
      BY <2>8 DEF AccountInv, ClaimInv, LockInv, Migrates, nameOf, name, Decided
    <2>10. /\ Migrates(c) => Migrates(cmd[p])
           /\ Issued(c.bundle) /\ c.pc # "read" /\ c.pc # "write"
           /\ inode = 1 => h # 1 /\ c.goal \notin Decided
      BY <1>1, <1>2, <2>4, <2>6, <2>8 DEF Migrates, nameOf, AccountInv, ClaimInv, LockInv,
                                         Locks
    <2> QED
      BY <1>2, <1>5, <2>6, <2>7, <2>9, <2>10, ClaimTurn
  <1> QED
    BY <1>3, <1>4, <1>5 DEF EnsureAccountSlotAvailable

\* prepare_encrypted_account_storage ends outside every lock of the account.
LEMMA AccountPrepared ==
  ASSUME IInv, IInv', AccountInv, NEW p \in Processes, Prepared(p)
  PROVE  AccountInv'
  <1>1. /\ cmd[p] \in Cmd /\ held[p] \in Nat /\ Progress(p, cmd[p], held[p], mutation)
        /\ Issued(cmd[p].bundle)
    BY AccountFacts
  <1>2. /\ cmd[p].pc = "operate" /\ cmd[p].goal = "prepare" /\ cmd[p].op = "create"
    BY <1>1 DEF Prepared, at, Progress
  <1> DEFINE d == [cmd[p] EXCEPT !.pc = "mutation"]
  <1>3. /\ d \in Cmd /\ d.pc = "mutation" /\ d.op = "create" /\ d.goal = "prepare"
        /\ d.bundle = cmd[p].bundle
    BY <1>1, <1>2 DEF Cmd, PCs
  <1>4. /\ cmd' = [cmd EXCEPT ![p] = d] /\ held' = held /\ mutation' = mutation
        /\ UNCHANGED <<disk, service>>
    BY DEF Prepared, goto
  <1>5. PICK c : c = d
    OBVIOUS
  <1>6. PICK h : h = held[p]
    OBVIOUS
  <1>7. PICK m : m = mutation
    OBVIOUS
  <1>8. /\ c \in Cmd /\ c.op = "create" /\ c.goal = "prepare"
        /\ c.bundle = cmd[p].bundle /\ c.pc = "mutation"
        /\ cmd' = [cmd EXCEPT ![p] = c] /\ held' = [held EXCEPT ![p] = h]
        /\ mutation' = m /\ h \in Nat
    BY <1>1, <1>3, <1>4, <1>5, <1>6, <1>7 DEF AccountInv, ClaimInv, LockInv
  <1> HIDE DEF d
  <1>9. Progress(p, c, h, m)
    BY <1>1, <1>2, <1>7, <1>8 DEF Progress, Decided
  <1>10. /\ ~Migrates(c) /\ (h = 1 => Locks(p)) /\ c.goal \notin Decided
         /\ Issued(c.bundle) /\ c.pc # "read" /\ c.pc # "write"
         /\ Issues(c) => Issues(cmd[p]) /\ ~at(p, "write")
    BY <1>1, <1>2, <1>6, <1>8 DEF Migrates, Locks, Decided, Issues, at, name
  <1> QED
    BY <1>4, <1>7, <1>8, <1>9, <1>10, ClaimTurn

\* The service adds a row where there was none.
LEMMA Initializes ==
  ASSUME IInv, AccountInv, NEW i \in Ids, initialize(i)
  PROVE  /\ issued \in Nat /\ issued' = issued + 1
         /\ remote' \in [Ids -> Nat] /\ remote'[i] = issued'
         /\ \A j \in Ids : remote[j] # 0 => remote'[j] = remote[j]
  <1>1. issued' = issued + 1 /\ remote' = [remote EXCEPT ![i] = issued + 1] /\ remote[i] = 0
    BY Zenon DEF initialize
  <1>2. issued \in Nat /\ remote \in [Ids -> Nat]
    BY DEF IInv, TypeInv, AccountInv, TokenInv
  <1> QED
    BY <1>1, <1>2

\* The request to the service, and its answer.
LEMMA AccountIssuance ==
  ASSUME IInv, IInv', AccountInv, NEW p \in Processes,
         Reply(p) \/ \E i \in Ids : CreateAccount(p, i) \/ AlreadyExists(p, i)
  PROVE  AccountInv'
  <1>1. /\ cmd[p] \in Cmd /\ held[p] \in Nat /\ Progress(p, cmd[p], held[p], mutation)
        /\ Issued(cmd[p].bundle) /\ nameOf(cmd[p]) = name(p) /\ inode \in Nat \ {0}
    BY AccountFacts
  <1>2. /\ cmd[p].pc \in {"issue", "reply"} /\ cmd[p].op = "create" /\ mutation = p
    BY <1>1 DEF Reply, CreateAccount, AlreadyExists, at, Progress
  <1>3. PICK h : h = held[p]
    OBVIOUS
  <1>4. /\ h \in Nat /\ [held EXCEPT ![p] = h] = held
        /\ inode = 1 => (h = 1 => Locks(p)) /\ (cmd[p].goal \in Decided => h = 1)
    BY <1>1, <1>2, <1>3 DEF AccountInv, ClaimInv, LockInv, Locks, name
  <1>5. ASSUME Reply(p) PROVE AccountInv'
    <2> DEFINE d == [cmd[p] EXCEPT !.pc = "lock"]
    <2>1. /\ d \in Cmd /\ d.pc = "lock" /\ d.op = "create" /\ d.goal = cmd[p].goal
          /\ d.bundle = cmd[p].bundle
      BY <1>1, <1>2 DEF Cmd, PCs
    <2>2. /\ cmd' = [cmd EXCEPT ![p] = d] /\ held' = held /\ mutation' = p
          /\ UNCHANGED <<disk, service>>
      BY <1>2, <1>5 DEF Reply, goto, locks
    <2>3. PICK c : c = d
      OBVIOUS
    <2>4. /\ c \in Cmd /\ c.op = "create" /\ c.goal = cmd[p].goal
          /\ c.bundle = cmd[p].bundle /\ c.pc = "lock"
          /\ cmd' = [cmd EXCEPT ![p] = c] /\ held' = [held EXCEPT ![p] = h]
      BY <1>4, <2>1, <2>2, <2>3
    <2> HIDE DEF d
    <2>5. Progress(p, c, h, p)
      BY <1>1, <1>2, <1>3, <2>4 DEF Progress
    <2>6. /\ Migrates(c) => Migrates(cmd[p])
          /\ Issued(c.bundle) /\ c.pc # "read" /\ c.pc # "write"
          /\ Issues(c) => Issues(cmd[p]) /\ ~at(p, "write")
      BY <1>1, <1>2, <2>4 DEF Migrates, nameOf, Issues, at
    <2> QED
      BY <1>2, <1>4, <2>2, <2>4, <2>5, <2>6, ClaimTurn
  <1>6. ASSUME NEW i \in Ids, AlreadyExists(p, i) PROVE AccountInv'
    <2> DEFINE d == [cmd[p] EXCEPT !.attempts = @ + 1]
    <2>1. /\ d \in Cmd /\ d.pc = cmd[p].pc /\ d.op = "create" /\ d.goal = cmd[p].goal
          /\ d.bundle = cmd[p].bundle
      BY <1>1, <1>2 DEF Cmd
    <2>2. /\ cmd' = [cmd EXCEPT ![p] = d] /\ held' = held /\ mutation' = p
          /\ UNCHANGED <<disk, service>>
      BY <1>2, <1>6 DEF AlreadyExists, locks
    <2>3. PICK c : c = d
      OBVIOUS
    <2>4. /\ c \in Cmd /\ c.op = "create" /\ c.goal = cmd[p].goal
          /\ c.bundle = cmd[p].bundle /\ c.pc = cmd[p].pc
          /\ cmd' = [cmd EXCEPT ![p] = c] /\ held' = [held EXCEPT ![p] = h]
      BY <1>4, <2>1, <2>2, <2>3
    <2> HIDE DEF d
    <2>5. Progress(p, c, h, p)
      BY <1>1, <1>2, <1>3, <2>4 DEF Progress
    <2>6. /\ Migrates(c) => Migrates(cmd[p])
          /\ Issued(c.bundle) /\ c.pc # "read" /\ c.pc # "write"
          /\ Issues(c) => Issues(cmd[p]) /\ ~at(p, "write")
      BY <1>1, <1>2, <2>4 DEF Migrates, nameOf, Issues, at
    <2> QED
      BY <1>2, <1>4, <2>2, <2>4, <2>5, <2>6, ClaimTurn
  <1>7. ASSUME NEW i \in Ids, CreateAccount(p, i) PROVE AccountInv'
    <2> DEFINE o == [id |-> i, token |-> issued']
               d == [cmd[p] EXCEPT !.pc = "reply", !.attempts = 0, !.bundle = o]
    <2>1. /\ cmd[p].pc = "issue" /\ initialize(i) /\ cmd' = [cmd EXCEPT ![p] = d]
          /\ UNCHANGED <<disk, locks>>
      BY <1>7 DEF CreateAccount, at
    <2>2. /\ issued \in Nat /\ issued' = issued + 1
          /\ remote' \in [Ids -> Nat] /\ remote'[i] = issued'
          /\ \A j \in Ids : remote[j] # 0 => remote'[j] = remote[j]
      BY <2>1, Initializes
    <2>3. o \in Owner /\ o.id = i /\ o.token = issued'
      BY <2>2 DEF Owner
    <2>4. /\ d \in Cmd /\ d.pc = "reply" /\ d.op = "create" /\ d.goal = cmd[p].goal
          /\ d.bundle = o
      BY <1>1, <1>2, <2>3 DEF Cmd, PCs
    <2>5. PICK c : c = d
      OBVIOUS
    <2>6. /\ c \in Cmd /\ c.op = "create" /\ c.goal = cmd[p].goal /\ c.pc = "reply"
          /\ c.bundle.id = i /\ c.bundle.token = issued'
          /\ cmd' = [cmd EXCEPT ![p] = c]
      BY <2>1, <2>3, <2>4, <2>5
    <2> HIDE DEF d, o
    <2>7. Issued(c.bundle)'
      BY <2>2, <2>6 DEF Issued
    <2>8. Progress(p, c, h, p)
      BY <1>1, <1>2, <1>3, <2>6 DEF Progress
    <2>9. /\ Issues(cmd[p]) /\ ~at(p, "write") /\ c.pc # "read" /\ c.pc # "write"
          /\ ~Migrates(c)
      BY <1>1, <1>2, <2>1, <2>6 DEF Issues, at, Migrates, Progress
    <2>10. /\ held' = [held EXCEPT ![p] = h] /\ mutation' = p
           /\ inode' \in Nat \ {0} /\ inode' = inode /\ files' = files
      BY <1>1, <1>2, <1>4, <2>1 DEF disk, locks
    <2> QED
      BY <1>2, <1>4, <2>2, <2>6, <2>7, <2>8, <2>9, <2>10, ClaimStep
  <1> QED
    BY <1>5, <1>6, <1>7

\* Another machine's account takes an identifier that nobody here has.
LEMMA AccountElsewhere ==
  ASSUME IInv, AccountInv, NEW i \in Ids, IssueElsewhere(i)
  PROVE  AccountInv'
  <1>1. /\ initialize(i) /\ UNCHANGED <<files, cmd, inode, held, mutation>>
    BY DEF IssueElsewhere, disk, locks
  <1>2. /\ remote' \in [Ids -> Nat] /\ \A j \in Ids : remote[j] # 0 => remote'[j] = remote[j]
    BY <1>1, Initializes
  <1>3. ASSUME NEW b \in Owner \cup Scoped \cup {None}, Issued(b) PROVE Issued(b)'
    BY <1>2, <1>3, StaysIssued
  <1>4. /\ \A n \in Names : files[n].bundle \in Owner \cup Scoped \cup {None}
        /\ \A p \in Processes : cmd[p].bundle \in Owner \cup Scoped \cup {None}
    BY DEF IInv, TypeInv, File, Cmd
  <1>5. ASSUME NEW n \in Names, NEW b, b = files[n].bundle PROVE Issued(b)'
    BY <1>3, <1>4, <1>5 DEF AccountInv, TokenInv
  <1>6. ASSUME NEW p \in Processes, NEW b, b = cmd[p].bundle PROVE Issued(b)'
    BY <1>3, <1>4, <1>6 DEF AccountInv, TokenInv
  <1>7. TokenInv'
    BY <1>1, <1>2, <1>5, <1>6 DEF TokenInv, Issued
  <1>8. ClaimInv'
    BY <1>1 DEF AccountInv, ClaimInv, ProgressInv, Progress, LockInv, Locks, MigrateInv,
                Migrates, SlotInv, Issues, WriteInv, at, name, nameOf, Decided
  <1> QED
    BY <1>7, <1>8 DEF AccountInv

\* The file that is read under its lock decides what the master key is for.
LEMMA AccountRead ==
  ASSUME IInv, IInv', AccountInv, NEW p \in Processes, Read(p)
  PROVE  AccountInv'
  <1>1. /\ cmd[p] \in Cmd /\ held[p] \in Nat /\ Progress(p, cmd[p], held[p], mutation)
        /\ Issued(cmd[p].bundle) /\ nameOf(cmd[p]) = name(p)
    BY AccountFacts
  <1>2. /\ cmd[p].pc = "read" /\ cmd[p].op \in {"create", "install", "load", "identity"}
        /\ UNCHANGED <<disk, service>>
    BY <1>1 DEF Read, at, Progress
  <1>3. name(p) \in Names /\ files[name(p)].bundle \in Owner \cup Scoped \cup {None}
    BY DEF IInv, TypeInv, File, name, Names
  <1>4. Issued(files[name(p)].bundle)
    BY <1>3 DEF AccountInv, TokenInv
  <1>5. inode = 1 /\ name(p) = "account" => Locks(p) /\ held[p] = 1
    BY <1>2 DEF AccountInv, ClaimInv, LockInv, at, Locks
  <1>6. ASSUME NEW goal \in Decided, NEW b \in Owner \cup Scoped \cup {None}, Issued(b),
               cmd' = [cmd EXCEPT ![p].pc = "master", ![p].goal = goal, ![p].bundle = b],
               UNCHANGED locks,
               goal = "install" => cmd[p].op # "load",
               cmd[p].op = "create" => b = cmd[p].bundle,
               goal = "replace" => /\ cmd[p].op # "create"
                                   /\ files[name(p)].kind = "legacy"
                                   /\ b = files[name(p)].bundle
        PROVE  AccountInv'
    <2> DEFINE d == [cmd[p] EXCEPT !.pc = "master", !.goal = goal, !.bundle = b]
    <2>1. /\ d \in Cmd /\ d.pc = "master" /\ d.op = cmd[p].op /\ d.goal = goal
          /\ d.bundle = b
      BY <1>1, <1>6, ZenonT(30) DEF Cmd, PCs, Goals, Decided
    <2>2. cmd' = [cmd EXCEPT ![p] = d] /\ held' = held /\ mutation' = mutation
      BY <1>6 DEF locks
    <2>3. PICK c : c = d
      OBVIOUS
    <2>4. PICK h : h = held[p]
      OBVIOUS
    <2>5. PICK m : m = mutation
      OBVIOUS
    <2>6. /\ c \in Cmd /\ c.op = cmd[p].op /\ c.goal = goal
          /\ c.bundle = b /\ c.pc = "master"
          /\ cmd' = [cmd EXCEPT ![p] = c] /\ held' = [held EXCEPT ![p] = h]
          /\ mutation' = m /\ h \in Nat
      BY <1>1, <2>1, <2>2, <2>3, <2>4, <2>5 DEF AccountInv, ClaimInv, LockInv
    <2> HIDE DEF d
    <2>7. Progress(p, c, h, m)
      BY <1>1, <1>2, <1>6, <2>5, <2>6 DEF Progress, Decided
    <2>8. nameOf(c) = name(p) /\ c.pc # "read" /\ c.pc # "write" /\ Issued(c.bundle)
      BY <1>6, <2>6 DEF nameOf, name
    <2>9. inode = 1 /\ nameOf(c) = "account" => Locks(p) /\ h = 1
      BY <1>5, <2>4, <2>8
    <2>10. Migrates(c) =>
             files["account"].kind = "legacy" /\ files["account"].bundle = c.bundle
      BY <1>6, <2>6, <2>8 DEF Migrates
    <2>11. Issues(c) => Issues(cmd[p]) /\ ~at(p, "write")
      BY <1>2, <1>6, <2>6 DEF Issues, at
    <2> QED
      BY <1>2, <2>5, <2>6, <2>7, <2>8, <2>9, <2>10, <2>11, ClaimTurn
  <1>7. CASE ends(p)
    BY <1>2, <1>7, AccountEnds DEF disk, service
  <1> DEFINE use(goal, b) == /\ cmd' = [cmd EXCEPT ![p].pc = "master", ![p].goal = goal,
                                                   ![p].bundle = b]
                             /\ UNCHANGED locks
  <1>8. \/ cmd[p].op # "load" /\ use("install", cmd[p].bundle)
        \/ use("open", cmd[p].bundle)
        \/ /\ files[name(p)].kind = "legacy" /\ cmd[p].op # "create"
           /\ use("replace", files[name(p)].bundle)
        \/ ends(p)
    <2> DEFINE install == use("install", cmd[p].bundle)
               open == use("open", cmd[p].bundle)
               replace == use("replace", files[name(p)].bundle)
    <2>1. \/ cmd[p].op # "load" /\ install
          \/ open
          \/ files[name(p)].kind = "legacy" /\ accepts(p) /\ replace
          \/ ends(p)
      BY DEF Read
    <2>2. accepts(p) => cmd[p].op # "create"
      BY DEF accepts
    <2> HIDE DEF install, open, replace
    <2>3. \/ cmd[p].op # "load" /\ install
          \/ open
          \/ files[name(p)].kind = "legacy" /\ cmd[p].op # "create" /\ replace
          \/ ends(p)
      BY <2>1, <2>2
    <2> QED
      BY <2>3 DEF install, open, replace
  <1>9. {"install", "open", "replace"} \subseteq Decided
    BY DEF Decided
  <1>10. cmd[p].bundle \in Owner \cup Scoped \cup {None}
    BY <1>1 DEF Cmd
  <1> QED
    BY <1>1, <1>3, <1>4, <1>6, <1>7, <1>8, <1>9, <1>10

\* The holder of the master key lock prepares the key, or unlinks all but the account.
LEMMA AccountKeyStep ==
  ASSUME IInv, IInv', AccountInv, NEW p \in Processes,
         \/ LoadSalt(p) \/ WriteSalt(p) \/ SaltWriteFails(p)
         \/ UseCachedPassword(p) \/ ReadLocatedItem(p) \/ ReadListedItem(p)
         \/ CreateItem(p) \/ UnlinkLock(p) \/ UnlinkSalt(p) \/ UnlinkLocator(p)
         \/ UnlinkIdentity(p)
  PROVE  AccountInv'
  <1>1. cmd[p] \in Cmd /\ inode \in Nat \ {0}
    BY AccountFacts
  <1>2. ASSUME NEW pc \in InMaster \ {"write"}, goto(p, pc), UNCHANGED locks,
               cmd[p].pc \in InMaster \ {"write"},
               inode' \in {inode, inode + 1}, remote' = remote,
               files'["account"] = files["account"],
               files'["identity"].bundle \in {files["identity"].bundle, None}
        PROVE  AccountInv'
    <2> DEFINE d == [cmd[p] EXCEPT !.pc = pc]
    <2>1. /\ d \in Cmd /\ d.pc = pc /\ d.op = cmd[p].op /\ d.goal = cmd[p].goal
          /\ d.bundle = cmd[p].bundle
      BY <1>1, <1>2 DEF Cmd, PCs, InMaster
    <2>2. cmd' = [cmd EXCEPT ![p] = d] /\ held' = held /\ mutation' = mutation
      BY <1>2 DEF goto, locks
    <2>3. inode' \in Nat \ {0} /\ (inode' = 1 => inode = 1)
      BY <1>1, <1>2
    <2>4. cmd[p].pc \notin {"idle", "mutation", "write"}
      BY <1>2 DEF InMaster
    <2>5. PICK c : c = d
      OBVIOUS
    <2> HIDE DEF d
    <2> QED
      BY <1>2, <2>1, <2>2, <2>3, <2>4, <2>5, ClaimMove
  <1>3. ASSUME NEW item, has_key(p, item), UNCHANGED <<files, inode, locks, service>>,
               cmd[p].pc \in {"password", "readback"}
        PROVE  AccountInv'
    <2> DEFINE d == [cmd[p] EXCEPT !.pc = "operate", !.key = [salt |-> salt, item |-> item]]
    <2>0. cmd'[p] \in Cmd
      BY DEF IInv, TypeInv
    <2>1. /\ d.pc = "operate" /\ d.op = cmd[p].op /\ d.goal = cmd[p].goal
          /\ d.bundle = cmd[p].bundle
      BY <1>1 DEF Cmd
    <2>2. /\ cmd' = [cmd EXCEPT ![p] = d] /\ held' = held /\ mutation' = mutation
          /\ remote' = remote /\ inode' = inode /\ files' = files
      BY <1>3 DEF has_key, locks, service
    <2>3. d \in Cmd
      BY <2>0, <2>2 DEF IInv, TypeInv
    <2>4. cmd[p].pc \notin {"idle", "mutation", "write"} /\ "operate" \in InMaster
      BY <1>3 DEF InMaster
    <2>5. PICK c : c = d
      OBVIOUS
    <2> HIDE DEF d
    <2> QED
      BY <1>1, <2>1, <2>2, <2>3, <2>4, <2>5, ClaimMove
  <1>4. ASSUME ends(p), UNCHANGED <<files, inode, service>> PROVE AccountInv'
    BY <1>4, AccountEnds DEF service
  <1>5. ASSUME LoadSalt(p) PROVE AccountInv'
    <2>1. cmd[p].pc = "salt" /\ UNCHANGED <<files, inode, service>>
      BY <1>5 DEF LoadSalt, at
    <2>2. \/ goto(p, "password") /\ UNCHANGED locks
          \/ goto(p, "saltwrite") /\ UNCHANGED locks
          \/ ends(p)
      BY <1>5 DEF LoadSalt
    <2> QED
      BY <1>2, <1>4, <2>1, <2>2 DEF InMaster, service
  <1>6. ASSUME WriteSalt(p) \/ CreateItem(p) \/ UnlinkSalt(p) PROVE AccountInv'
    BY <1>2, <1>6 DEF WriteSalt, CreateItem, UnlinkSalt, at, InMaster, service
  <1>7. ASSUME SaltWriteFails(p) \/ UnlinkLocator(p) PROVE AccountInv'
    BY <1>4, <1>7 DEF SaltWriteFails, UnlinkLocator
  <1>8. ASSUME UseCachedPassword(p) \/ ReadLocatedItem(p) PROVE AccountInv'
    BY <1>3, <1>8 DEF UseCachedPassword, ReadLocatedItem, at, disk
  <1>9. ASSUME ReadListedItem(p) PROVE AccountInv'
    BY <1>3, <1>9 DEF ReadListedItem
  <1>10. ASSUME UnlinkLock(p) PROVE AccountInv'
    BY <1>2, <1>10 DEF UnlinkLock, at, InMaster, service
  <1>11. ASSUME UnlinkIdentity(p) PROVE AccountInv'
    <2>1. /\ goto(p, "unlinkaccount") /\ cmd[p].pc = "unlinkidentity"
          /\ files' = [files EXCEPT !["identity"] = Absent]
          /\ UNCHANGED <<inode, locks, service>>
      BY <1>11 DEF UnlinkIdentity, Unlink, at
    <2>2. files'["account"] = files["account"] /\ files'["identity"].bundle = None
      BY <2>1 DEF IInv, TypeInv, Names, Absent
    <2> QED
      BY <1>2, <2>1, <2>2 DEF InMaster, service
  <1> QED
    BY <1>5, <1>6, <1>7, <1>8, <1>9, <1>10, <1>11

\* A command in the section of the master key lock that is to install or to migrate the
\* account is alone with it.
LEMMA Alone ==
  ASSUME IInv, AccountInv, NEW p \in Processes, name(p) = "account", inode = 1,
         cmd[p].pc \in InMaster, cmd[p].goal \in {"install", "replace"}
  PROVE  Locks(p) /\ \A q \in Processes : q # p => ~Issues(cmd[q])
  <1>1. Locks(p)
    BY DEF AccountInv, ClaimInv, LockInv, Decided
  <1>2. ASSUME NEW q \in Processes, q # p, Issues(cmd[q]) PROVE FALSE
    <2>1. mutation = q
      BY <1>2 DEF AccountInv, ClaimInv, ProgressInv, Progress, Issues
    <2>2. ~Migrates(cmd[p])
      BY <1>2 DEF AccountInv, ClaimInv, SlotInv
    <2>3. cmd[p].goal = "install"
      BY <2>2 DEF Migrates, nameOf, name
    <2>4. mutation = p
      BY <2>3 DEF AccountInv, ClaimInv, ProgressInv, Progress, name, InMaster, Decided
    <2> QED
      BY <1>2, <2>1, <2>4
  <1> QED
    BY <1>1, <1>2

\* A secret's file is created, written, migrated or unlinked.
LEMMA AccountFileStep ==
  ASSUME IInv, IInv', AccountInv, NEW p \in Processes,
         \/ CreateFile(p) \/ WriteFile(p) \/ FileWriteFails(p) \/ ReplaceFile(p)
         \/ UnlinkAccount(p)
  PROVE  AccountInv'
  <1>1. /\ cmd[p] \in Cmd /\ held[p] \in Nat /\ Progress(p, cmd[p], held[p], mutation)
        /\ Issued(cmd[p].bundle) /\ nameOf(cmd[p]) = name(p) /\ inode \in Nat \ {0}
        /\ name(p) \in Names /\ name(p) \in {"account", "identity"}
    BY AccountFacts DEF name, Names
  <1>2. cmd[p].pc \in InMaster /\ master = p
    BY Facts DEF CreateFile, WriteFile, FileWriteFails, ReplaceFile, UnlinkAccount, Unlink,
                 at, InMaster
  \* The command ends with a file that is absent or sealed.
  <1>3. ASSUME ends(p), NEW f \in File, files' = [files EXCEPT ![name(p)] = f],
               f.bundle \in {None, cmd[p].bundle},
               UNCHANGED <<inode, service>>,
               f.kind = "none" \/ cmd[p].goal \in {"install", "replace"}
        PROVE  AccountInv'
    <2>1. CASE name(p) = "identity"
      <3>1. files'["account"] = files["account"] /\ files'["identity"] = f
        BY <1>3, <2>1 DEF IInv, TypeInv, Names
      <3> QED
        BY <1>3, <3>1, AccountEnds DEF service
    <2>2. CASE name(p) = "account"
      <3> DEFINE d == [Idle EXCEPT !.key = cmd[p].key]
      <3>1. /\ d \in Cmd /\ d.pc = "idle" /\ d.op = "none" /\ d.goal = "none"
            /\ d.bundle = None
        BY <1>1 DEF Idle, Cmd, PCs, Goals
      <3>2. /\ cmd' = [cmd EXCEPT ![p] = d] /\ held' = [held EXCEPT ![p] = 0]
            /\ mutation' = release(mutation, p)
        BY <1>3 DEF ends
      <3>3. PICK c : c = d
        OBVIOUS
      <3> HIDE DEF d
      <3>4. PICK m : m = release(mutation, p)
        OBVIOUS
      <3>5. m = mutation \/ mutation = p
        BY <3>4 DEF release
      <3>6. Progress(p, c, 0, m) /\ ~Migrates(c) /\ ~Issues(c)
        BY <3>1, <3>3 DEF Progress, Migrates, Issues, Decided
      <3>7. inode = 1 /\ f.kind # "none" =>
              Locks(p) /\ \A q \in Processes : q # p => ~Issues(cmd[q])
        BY <1>2, <1>3, <2>2, Alone
      <3>8. PICK h \in Nat : h = 0
        OBVIOUS
      <3>9. /\ c \in Cmd /\ cmd' = [cmd EXCEPT ![p] = c] /\ held' = [held EXCEPT ![p] = h]
            /\ mutation' = m /\ inode' = inode /\ remote' = remote
            /\ files' = [files EXCEPT !["account"] = f] /\ Progress(p, c, h, m)
            /\ c.pc = "idle" /\ c.pc # "write"
        BY <1>3, <2>2, <3>1, <3>2, <3>3, <3>4, <3>6, <3>8 DEF service
      <3> QED
        BY <1>2, <1>3, <3>5, <3>6, <3>7, <3>8, <3>9, ClaimFileStep
    <2> QED
      BY <1>1, <2>1, <2>2
  <1>4. Absent \in File /\ Absent.kind = "none" /\ Absent.bundle = None
        /\ Torn \in File /\ Torn.kind = "torn" /\ Torn.bundle = None
    BY FileConstants DEF Absent, Torn
  <1>5. ASSUME cmd[p].pc \in {"operate", "write"}
        PROVE  /\ seal(cmd[p].bundle, cmd[p].key) \in File
               /\ seal(cmd[p].bundle, cmd[p].key).bundle = cmd[p].bundle
    <2>1. cmd[p].key \in Key /\ cmd[p].bundle \in Owner \cup Scoped \cup {None}
      BY <1>1, <1>5 DEF IInv, PhaseInv, PhaseOf, Cmd
    <2> QED
      BY <2>1, FileConstants DEF seal
  <1>6. ASSUME CreateFile(p) PROVE AccountInv'
    <2>0. cmd[p].pc = "operate" /\ cmd[p].goal = "install" /\ UNCHANGED <<inode, service>>
      BY <1>6 DEF CreateFile, at
    <2>1. CASE ends(p) /\ UNCHANGED files
      BY <2>0, <2>1, AccountEnds DEF service
    <2>2. CASE /\ files' = [files EXCEPT ![name(p)] = Torn]
               /\ goto(p, "write") /\ UNCHANGED locks
      <3> DEFINE d == [cmd[p] EXCEPT !.pc = "write"]
      <3>1. /\ d \in Cmd /\ d.pc = "write" /\ d.op = cmd[p].op /\ d.goal = "install"
            /\ d.bundle = cmd[p].bundle
        BY <1>1, <2>0 DEF Cmd, PCs
      <3>2. cmd' = [cmd EXCEPT ![p] = d] /\ held' = held /\ mutation' = mutation
        BY <2>2 DEF goto, locks
      <3>3. PICK c : c = d
        OBVIOUS
      <3>4. PICK h : h = held[p]
        OBVIOUS
      <3>5. PICK m : m = mutation
        OBVIOUS
      <3>6. /\ c \in Cmd /\ c.op = cmd[p].op /\ c.goal = "install"
            /\ c.bundle = cmd[p].bundle /\ c.pc = "write"
            /\ cmd' = [cmd EXCEPT ![p] = c] /\ held' = [held EXCEPT ![p] = h]
            /\ mutation' = m /\ h \in Nat
        BY <1>1, <3>1, <3>2, <3>3, <3>4, <3>5 DEF AccountInv, ClaimInv, LockInv
      <3> HIDE DEF d
      <3>7. Progress(p, c, h, m)
        BY <1>1, <2>0, <3>4, <3>5, <3>6 DEF Progress
      <3>8. nameOf(c) = name(p) /\ ~Migrates(c)
        BY <3>6 DEF nameOf, name, Migrates
      <3>9. CASE name(p) = "account"
        <4>1. inode = 1 => Locks(p) /\ \A q \in Processes : q # p => ~Issues(cmd[q])
          BY <1>2, <2>0, <3>9, Alone
        <4>2. /\ files' = [files EXCEPT !["account"] = Torn] /\ inode' = inode
              /\ remote' = remote /\ h = held[p] /\ c.goal = cmd[p].goal
          BY <2>0, <2>2, <3>4, <3>6, <3>9 DEF service
        <4> QED
          BY <1>2, <1>4, <3>5, <3>6, <3>7, <3>8, <4>1, <4>2, ClaimFileStep
      <3>10. CASE name(p) = "identity"
        <4>1. files'["account"] = files["account"] /\ files'["identity"].bundle = None
          BY <1>4, <2>2, <3>10 DEF IInv, TypeInv, Names
        <4>2. /\ inode' \in Nat \ {0} /\ inode' = inode /\ remote' \in [Ids -> Nat]
              /\ \A i \in Ids : remote[i] # 0 => remote'[i] = remote[i]
              /\ Issued(c.bundle)'
          BY <1>1, <2>0, <3>6 DEF service, AccountInv, TokenInv, Issued
        <4>3. ~Issues(c) /\ nameOf(c) # "account"
          BY <3>6, <3>8, <3>10 DEF Issues, name
        <4> QED
          BY <3>5, <3>6, <3>7, <3>8, <4>1, <4>2, <4>3, ClaimStep
      <3> QED
        BY <1>1, <3>9, <3>10
    <2> QED
      BY <1>6, <2>1, <2>2 DEF CreateFile
  <1>7. ASSUME WriteFile(p) PROVE AccountInv'
    <2>1. cmd[p].pc = "write" /\ cmd[p].goal = "install"
      BY <1>1, <1>7 DEF WriteFile, at, Progress
    <2> QED
      BY <1>3, <1>5, <1>7, <2>1 DEF WriteFile
  <1>8. ASSUME ReplaceFile(p) PROVE AccountInv'
    BY <1>3, <1>5, <1>8 DEF ReplaceFile, at
  <1>9. ASSUME FileWriteFails(p) PROVE AccountInv'
    BY <1>3, <1>4, <1>9 DEF FileWriteFails
  <1>10. ASSUME UnlinkAccount(p) PROVE AccountInv'
    <2> DEFINE d == [cmd[p] EXCEPT !.pc = "unlinklock"]
    <2>1. /\ d \in Cmd /\ d.pc = "unlinklock" /\ d.op = cmd[p].op
          /\ d.goal = cmd[p].goal /\ d.bundle = cmd[p].bundle
      BY <1>1 DEF Cmd, PCs
    <2>2. /\ cmd[p].pc = "unlinkaccount" /\ cmd' = [cmd EXCEPT ![p] = d]
          /\ held' = held /\ mutation' = mutation /\ inode' = inode /\ remote' = remote
          /\ files' = [files EXCEPT !["account"] = Absent]
      BY <1>10 DEF UnlinkAccount, Unlink, goto, at, locks, service
    <2>3. PICK c : c = d
      OBVIOUS
    <2>4. PICK h : h = held[p]
      OBVIOUS
    <2>5. PICK m : m = mutation
      OBVIOUS
    <2>6. /\ c \in Cmd /\ c.op = cmd[p].op /\ c.goal = cmd[p].goal
          /\ c.bundle = cmd[p].bundle /\ c.pc = "unlinklock"
          /\ cmd' = [cmd EXCEPT ![p] = c] /\ held' = [held EXCEPT ![p] = h]
          /\ mutation' = m /\ h \in Nat
      BY <1>1, <2>1, <2>2, <2>3, <2>4, <2>5 DEF AccountInv, ClaimInv, LockInv
    <2> HIDE DEF d
    <2>7. Progress(p, c, h, m)
      BY <1>1, <2>2, <2>4, <2>5, <2>6 DEF Progress
    <2>8. Migrates(c) => Migrates(cmd[p])
      BY <2>6 DEF Migrates, nameOf
    <2> QED
      BY <1>2, <1>4, <2>2, <2>4, <2>5, <2>6, <2>7, <2>8, ClaimFileStep
  <1> QED
    BY <1>6, <1>7, <1>8, <1>9, <1>10

LEMMA AccountInductive == IInv /\ IInv' /\ AccountInv /\ [Next]_vars => AccountInv'
  <1> SUFFICES ASSUME IInv, IInv', AccountInv, [Next]_vars PROVE AccountInv'
    OBVIOUS
  <1>1. CASE UNCHANGED vars
    <2>1. UNCHANGED <<files, inode, held, mutation, cmd, remote>>
      BY <1>1 DEF vars, disk, locks, service
    <2> QED
      BY <2>1 DEF AccountInv, TokenInv, Issued, ClaimInv, ProgressInv, Progress, LockInv,
                  Locks, MigrateInv, Migrates, SlotInv, Issues, WriteInv, at, name, nameOf,
                  Decided
  <1>2. ASSUME NEW p \in Processes,
               \/ Exit(p) \/ Refused(p) \/ CreationFails(p) \/ PasswordFails(p)
               \/ Open(p) \/ ReplaceFails(p)
        PROVE  AccountInv'
    <2>1. (ends(p) \/ Exit(p)) /\ UNCHANGED <<disk, service>>
      BY <1>2 DEF Exit, Refused, LockPathChanged, DirectoryRefused, RateLimited, ReadRefused,
                  CreationFails, PasswordFails, Open, ReplaceFails
    <2>2. inode' = inode /\ remote' = remote /\ files' = files
      BY <2>1 DEF disk, service
    <2> QED
      BY <2>1, <2>2, AccountEnds
  <1>3. ASSUME NEW p \in Processes, Blocking(p) PROVE AccountInv'
    BY <1>3, AccountSlot, AccountLocks DEF Blocking
  <1>4. ASSUME NEW p \in Processes, Moving(p) PROVE AccountInv'
    BY <1>2, <1>4, AccountIssuance, AccountRead, AccountKeyStep, AccountFileStep,
       AccountPrepared DEF Moving
  <1> QED
    BY <1>1, <1>2, <1>3, <1>4, AccountStart, AccountElsewhere DEF Next

\* Along every behaviour the slot of an account that is being issued is empty, only one
\* command is about to fill it, and every bundle carries the token of its row.
THEOREM AccountInvariant == Spec => []AccountInv
  <1>1. Init => IInv /\ AccountInv
    BY InitInv, AccountInit
  <1>2. (IInv /\ AccountInv) /\ [Next]_vars => (IInv /\ AccountInv)'
    BY Inductive, AccountInductive
  <1> QED
    BY <1>1, <1>2, PTL DEF Spec

\* IssuedAccountsUsable: what create_with_store gets from the service after its second look
\* at the slot can be installed, for any number of commands that create, import, load and
\* migrate meanwhile, and no later issuance takes over an identifier (storage.rs,
\* initialize).
THEOREM IssuedIsUsable == Spec => []IssuedAccountsUsable
  <1>1. AccountInv => IssuedAccountsUsable
    <2> SUFFICES ASSUME AccountInv PROVE IssuedAccountsUsable
      OBVIOUS
    <2>1. inode = 1 => \A p \in Processes :
            cmd[p].op = "create" /\ cmd[p].bundle # None /\ cmd[p].pc # "write" =>
                files["account"].kind = "none"
      BY DEF AccountInv, ClaimInv, SlotInv, Issues, at
    <2>2. \A b \in {files["account"].bundle} \cup {cmd[p].bundle : p \in Processes} :
            b \notin Scoped \cup {None} => remote[b.id] = b.token
      BY DEF AccountInv, TokenInv, Issued, Names
    <2> QED
      BY <2>1, <2>2 DEF IssuedAccountsUsable
  <1> QED
    BY <1>1, AccountInvariant, PTL

\* AccountNeverReplaced: a step that finds an account and leaves one leaves the same one.
\* Only a migration writes over an account, and it seals the plaintext it read under the
\* lock it still holds (install_account and decrypt_account in sync/state.rs).
THEOREM AccountsStay == Spec => AccountNeverReplaced
  <1>1. ASSUME IInv, AccountInv, [Next]_vars
        PROVE  inode = 1 /\ configured /\ configured' =>
                 files'["account"].bundle = files["account"].bundle
    <2> SUFFICES ASSUME inode = 1, configured, configured',
                        files'["account"] # files["account"]
                 PROVE  files'["account"].bundle = files["account"].bundle
      OBVIOUS
    <2>0. files \in [Names -> File]
      BY <1>1 DEF IInv, TypeInv
    <2>1. ASSUME NEW p \in Processes,
                 CreateFile(p) \/ WriteFile(p) \/ FileWriteFails(p) \/ ReplaceFile(p)
          PROVE  files'["account"].bundle = files["account"].bundle
      <3>1. name(p) = "account"
        BY <2>0, <2>1 DEF CreateFile, WriteFile, FileWriteFails, ReplaceFile, name, Names
      <3>2. CASE CreateFile(p)
        BY <3>1, <3>2 DEF CreateFile, configured
      <3>3. CASE WriteFile(p)
        BY <1>1, <3>1, <3>3 DEF WriteFile, configured, AccountInv, ClaimInv, WriteInv
      <3>4. CASE FileWriteFails(p)
        <4>1. files'["account"] = Absent
          BY <2>0, <3>1, <3>4 DEF FileWriteFails, Names
        <4> QED
          BY <4>1, FileConstants DEF configured
      <3>5. CASE ReplaceFile(p)
        <4>1. files'["account"] = seal(cmd[p].bundle, cmd[p].key) /\ Migrates(cmd[p])
          BY <2>0, <3>1, <3>5 DEF ReplaceFile, Names, Migrates, nameOf, name
        <4>2. files["account"].bundle = cmd[p].bundle
          BY <1>1, <4>1 DEF AccountInv, ClaimInv, MigrateInv, configured
        <4> QED
          BY <4>1, <4>2 DEF seal
      <3> QED
        BY <2>1, <3>2, <3>3, <3>4, <3>5
    <2>2. ASSUME NEW p \in Processes, UnlinkAccount(p) PROVE FALSE
      <3>1. files'["account"] = Absent
        BY <2>0, <2>2 DEF UnlinkAccount, Unlink, Names
      <3> QED
        BY <3>1, FileConstants DEF configured
    <2>3. ASSUME NEW p \in Processes, UnlinkIdentity(p) PROVE FALSE
      BY <2>0, <2>3 DEF UnlinkIdentity, Unlink, Names
    \* Nothing else touches the files.
    <2>4. \/ files' = files
          \/ \E p \in Processes :
               \/ CreateFile(p) \/ WriteFile(p) \/ FileWriteFails(p) \/ ReplaceFile(p)
               \/ UnlinkAccount(p) \/ UnlinkIdentity(p)
      <3>1. ASSUME NEW p \in Processes,
                   \/ \E op \in Ops, b \in Scoped \cup {None} : Start(p, op, b)
                   \/ Exit(p) \/ Refused(p) \/ Blocking(p)
            PROVE  files' = files
        BY <3>1 DEF Start, Exit, Refused, LockPathChanged, DirectoryRefused, RateLimited,
          ReadRefused, Blocking, EnsureAccountSlotAvailable, LockMutation, LockFile,
          LockMaster, disk
      <3>2. ASSUME NEW p \in Processes,
                   \/ \E i \in Ids : CreateAccount(p, i) \/ AlreadyExists(p, i)
                   \/ CreationFails(p) \/ Reply(p) \/ Read(p) \/ Prepared(p) \/ Open(p)
                   \/ PasswordFails(p) \/ ReplaceFails(p)
                   \/ UseCachedPassword(p) \/ ReadLocatedItem(p)
            PROVE  files' = files
        BY <3>2 DEF CreateAccount, AlreadyExists, CreationFails, Reply, Read, Prepared, Open,
          PasswordFails, ReplaceFails, UseCachedPassword, ReadLocatedItem, disk
      <3>3. ASSUME NEW p \in Processes,
                   \/ LoadSalt(p) \/ WriteSalt(p) \/ SaltWriteFails(p) \/ ReadListedItem(p)
                   \/ CreateItem(p) \/ UnlinkLock(p) \/ UnlinkSalt(p) \/ UnlinkLocator(p)
            PROVE  files' = files
        BY <3>3 DEF LoadSalt, WriteSalt, SaltWriteFails, ReadListedItem, CreateItem,
          UnlinkLock, UnlinkSalt, UnlinkLocator
      <3>4. ASSUME NEW i \in Ids, IssueElsewhere(i) PROVE files' = files
        BY <3>4 DEF IssueElsewhere, disk
      <3>5. CASE UNCHANGED vars
        BY <3>5 DEF vars, disk
      <3> QED
        BY <1>1, <3>1, <3>2, <3>3, <3>4, <3>5 DEF Next, Moving
    <2> QED
      BY <2>1, <2>2, <2>3, <2>4
  <1> QED
    BY <1>1, Invariant, AccountInvariant, PTL DEF Spec, AccountNeverReplaced
=============================================================================
