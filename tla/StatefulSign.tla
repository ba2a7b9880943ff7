---------------------------- MODULE StatefulSign ----------------------------
(***************************************************************************)
(* `purecrypto pkeyutl sign` with a stateful key: processes that each take *)
(* the sentinel lock, load the key file, sign, replace the file by its     *)
(* advanced form and only then hand out the signature (pkeyutl.rs,         *)
(* util.rs).  Processes fail or are killed between any two steps, a killed *)
(* one leaves its lock behind, and the machine can lose power, which undoes *)
(* what was not yet synced.                                                *)
(***************************************************************************)
EXTENDS HashSigKey

CONSTANTS Process,      \* invocations of the command that may run at a time
          NoOwner,      \* the lock file does not exist
          Stale,        \* the lock file of a process that is gone
          None,         \* nothing in memory
          MaxMessages   \* bound: messages signed

ASSUME ProcessAssumption == NoOwner # Stale /\ NoOwner \notin Process /\ Stale \notin Process

ASSUME MaxMessagesAssumption == MaxMessages \in Nat

VARIABLES
    scheme,     \* the kind of key; fixed
    file,       \* the key file as a process reads it: [key, synced]
    durable,    \* the key file as it would be found after a power loss
    lock,       \* the sentinel file: its holder, Stale or NoOwner
    pc,         \* how far each process is
    mem,        \* the key each process has loaded
    sig,        \* the signature each process has made
    tmp,        \* the temporary file of each process: [key, synced]
    released,   \* the signatures handed out
    made        \* how many messages were signed

vars == <<scheme, file, durable, lock, pc, mem, sig, tmp, released, made>>

(* The steps of stateful_sign between taking and dropping the lock.        *)
Critical == {"locked", "loaded", "signed", "written", "synced", "renamed", "durable"}

PC == {"idle", "waiting", "unlocked"} \cup Critical

SyncedFile(f) == [key |-> f, synced |-> TRUE]

(* A generated key, or an old HSS key that has made some signatures.       *)
Init ==
    /\ scheme \in Schemes
    /\ \E n \in 0 .. scheme.leaves[scheme.depth] :
        /\ ~scheme.legacy => n = 0
        /\ file = SyncedFile(IF scheme.legacy THEN LegacyFile(scheme, n)
                             ELSE to_bytes(NewKey(scheme)))
        /\ released = {LegacySignature(scheme, i) : i \in 0 .. n - 1}
    /\ durable = file
    /\ lock = NoOwner
    /\ pc = [p \in Process |-> "idle"]
    /\ mem = [p \in Process |-> None]
    /\ sig = [p \in Process |-> None]
    /\ tmp = [p \in Process |-> None]
    /\ made = 0

(* The process is gone, with whatever it had in memory.                    *)
Forget(p) ==
    /\ pc' = [pc EXCEPT ![p] = "idle"]
    /\ mem' = [mem EXCEPT ![p] = None]
    /\ sig' = [sig EXCEPT ![p] = None]
    /\ tmp' = [tmp EXCEPT ![p] = None]

Goto(p, step) == pc' = [pc EXCEPT ![p] = step]

-----------------------------------------------------------------------------
(* The command.                                                            *)

(* The key is first read to see whether it is a stateful one.              *)
Start(p) ==
    /\ pc[p] = "idle"
    /\ Parses(scheme, file.key)
    /\ Goto(p, "waiting")
    /\ UNCHANGED <<scheme, file, durable, lock, mem, sig, tmp, released, made>>

(* create_new succeeds for one caller.                                     *)
Acquire(p) ==
    /\ pc[p] = "waiting"
    /\ lock = NoOwner
    /\ lock' = p
    /\ Goto(p, "locked")
    /\ UNCHANGED <<scheme, file, durable, mem, sig, tmp, released, made>>

(* The key is read again, under the lock.                                  *)
Load(p) ==
    /\ pc[p] = "locked"
    /\ Parses(scheme, file.key)
    /\ mem' = [mem EXCEPT ![p] = from_bytes(scheme, file.key, made + 1)]
    /\ Goto(p, "loaded")
    /\ UNCHANGED <<scheme, file, durable, lock, sig, tmp, released, made>>

(* The message is a new one: its number is its name.                      *)
Sign(p) ==
    /\ pc[p] = "loaded"
    /\ made < MaxMessages
    /\ made' = made + 1
    /\ remaining(scheme, mem[p]) # 0
    /\ \E live \in Level(scheme) :
        /\ IsLive(scheme, mem[p], live)
        /\ sig' = [sig EXCEPT ![p] = assemble(scheme, mem[p], live, made')]
        /\ mem' = [mem EXCEPT ![p] = signed_key(scheme, mem[p], live, made')]
    /\ Goto(p, "signed")
    /\ UNCHANGED <<scheme, file, durable, lock, tmp, released>>

(* atomic_overwrite: a stale temporary file is removed, a new one written. *)
WriteTmp(p) ==
    /\ pc[p] = "signed"
    /\ tmp' = [tmp EXCEPT ![p] = [key |-> to_bytes(mem[p]), synced |-> FALSE]]
    /\ Goto(p, "written")
    /\ UNCHANGED <<scheme, file, durable, lock, mem, sig, released, made>>

(* Mutant: the temporary file is not synced before the rename.             *)
SyncTmp_skipped(p) ==
    /\ pc[p] = "written"
    /\ Goto(p, "synced")
    /\ UNCHANGED <<scheme, file, durable, lock, mem, sig, tmp, released, made>>

SyncTmp(p) ==
    /\ pc[p] = "written"
    /\ tmp' = [tmp EXCEPT ![p] = SyncedFile(@.key)]
    /\ Goto(p, "synced")
    /\ UNCHANGED <<scheme, file, durable, lock, mem, sig, released, made>>

Rename(p) ==
    /\ pc[p] = "synced"
    /\ file' = tmp[p]
    /\ tmp' = [tmp EXCEPT ![p] = None]
    /\ Goto(p, "renamed")
    /\ UNCHANGED <<scheme, durable, lock, mem, sig, released, made>>

SyncDir(p) ==
    /\ pc[p] = "renamed"
    /\ durable' = file
    /\ Goto(p, "durable")
    /\ UNCHANGED <<scheme, file, lock, mem, sig, tmp, released, made>>

(* stateful_sign returns: the guard drops, whatever file is there goes.    *)
Unlock(p) ==
    /\ pc[p] = "durable"
    /\ lock' = NoOwner
    /\ mem' = [mem EXCEPT ![p] = None]
    /\ Goto(p, "unlocked")
    /\ UNCHANGED <<scheme, file, durable, sig, tmp, released, made>>

(* write_output.                                                           *)
Emit(p) ==
    /\ pc[p] = "unlocked"
    /\ released' = released \cup {sig[p]}
    /\ Forget(p)
    /\ UNCHANGED <<scheme, file, durable, lock, made>>

-----------------------------------------------------------------------------
(* Failures.                                                               *)

(* die removes the lock files the process holds.                           *)
die(p) ==
    /\ lock' = IF pc[p] \in Critical THEN NoOwner ELSE lock
    /\ Forget(p)
    /\ UNCHANGED <<scheme, file, durable, released, made>>

(* The 30 seconds are over, or the lock cannot be created.                 *)
GiveUp(p) == pc[p] = "waiting" /\ die(p)

(* The key does not parse, or has no signature left.                       *)
Refuse(p) ==
    /\ \/ pc[p] = "locked" /\ ~Parses(scheme, file.key)
       \/ pc[p] = "loaded" /\ remaining(scheme, mem[p]) = 0
    /\ die(p)

(* Reading, writing, syncing or renaming fails, or writing the signature.  *)
Fail(p) ==
    /\ pc[p] \in {"locked", "signed", "written", "synced", "renamed", "unlocked"}
    /\ die(p)

(* The process is killed: nothing is cleaned up.                           *)
Crash(p) ==
    /\ pc[p] # "idle"
    /\ lock' = IF pc[p] \in Critical THEN Stale ELSE lock
    /\ Forget(p)
    /\ UNCHANGED <<scheme, file, durable, released, made>>

(* The user deletes the lock of a crashed peer, as the message says.       *)
RemoveStaleLock ==
    /\ lock = Stale
    /\ lock' = NoOwner
    /\ UNCHANGED <<scheme, file, durable, pc, mem, sig, tmp, released, made>>

(* What a power loss leaves of a file: its bytes, or too few of them.      *)
AfterLoss(f) == SyncedFile(IF f.synced THEN f.key ELSE Torn)

(* Every process stops; the rename since the last sync of the directory    *)
(* may be undone, and the lock file be there or not.                       *)
PowerLoss ==
    /\ file' \in {AfterLoss(file), AfterLoss(durable)}
    /\ durable' = file'
    /\ lock' \in {NoOwner, Stale}
    /\ pc' = [p \in Process |-> "idle"]
    /\ mem' = [p \in Process |-> None]
    /\ sig' = [p \in Process |-> None]
    /\ tmp' = [p \in Process |-> None]
    /\ UNCHANGED <<scheme, released, made>>

Next ==
    \/ \E p \in Process :
        \/ Start(p) \/ Acquire(p) \/ Load(p) \/ Sign(p)
        \/ WriteTmp(p) \/ SyncTmp(p) \/ Rename(p) \/ SyncDir(p)
        \/ Unlock(p) \/ Emit(p)
        \/ GiveUp(p) \/ Refuse(p) \/ Fail(p) \/ Crash(p)
    \/ RemoveStaleLock
    \/ PowerLoss

Spec == Init /\ [][Next]_vars

-----------------------------------------------------------------------------
(* Properties.                                                             *)

KeyStates(s) ==
    [q : {q \in [Level(s) -> Nat] : \A i \in Level(s) : q[i] <= exhausted_index(s, i)},
     pubs : [Upper(s) -> [leaf : Nat, c : {0}]]]

(* The type invariant: processes hold keys whose indices stay within the   *)
(* trees (no index passes the one that marks a spent tree, so the addition *)
(* in reserve_leaf never wraps), and signatures name existing leaves.      *)
TypeOK ==
    /\ scheme \in Schemes
    /\ lock \in Process \cup {NoOwner, Stale}
    /\ pc \in [Process -> PC]
    /\ \A p \in Process :
        /\ pc[p] \in Critical \ {"locked"} => mem[p] \in KeyStates(scheme)
        /\ pc[p] \in (Critical \ {"locked", "loaded"}) \cup {"unlocked"} =>
              \A i \in Level(scheme) : sig[p].path[i] < scheme.leaves[i]
    /\ made \in 0 .. MaxMessages

(* No one-time key signs twice, whatever interleaving, crash or power loss *)
(* came between two signatures that were handed out: the bottom key of a   *)
(* signature is its own, and where two share an upper key it has signed    *)
(* the same tree with the same randomizer (replace_exhausted, reserve_leaf *)
(* and the order lock, load, sign, persist, emit of stateful_sign).        *)
OneTimeKeysOnce ==
    \A a, b \in released :
        a # b =>
            /\ a.path # b.path
            /\ \A i \in Upper(scheme) :
                (\A j \in 1 .. i : a.path[j] = b.path[j]) => a.pubs[i] = b.pubs[i]

(* The key file is never lost: what a process or a reboot finds parses     *)
(* (atomic_overwrite syncs the temporary file before renaming it).         *)
FileIntact == Parses(scheme, file.key) /\ Parses(scheme, durable.key)

(* The signatures a key can still make, counted leaf by leaf: the bottom   *)
(* positions past the present one, up to the ends exhausted_index leaves.  *)
Ahead(s, k) ==
    {path \in [Level(s) -> 0 .. s.span] :
        /\ \A i \in Level(s) : path[i] < exhausted_index(s, i)
        /\ \E i \in Level(s) :
            /\ path[i] >= k.q[i]
            /\ \A j \in Upper(s) : j < i => path[j] = k.q[j] - 1}

(* remaining() is exactly that number, or u64::MAX when it is larger: it   *)
(* promises no signature that sign would refuse and hides none.            *)
RemainingExact ==
    Parses(scheme, file.key) =>
        LET k == from_bytes(scheme, file.key, made)
        IN  remaining(scheme, k) = Saturated(Cardinality(Ahead(scheme, k)))

=============================================================================
