---------------------------- MODULE VaultService ----------------------------
(***************************************************************************)
(* The vault service: workers of one consumer group that apply the         *)
(* operations of tasks:vault_ops to the files of the vault, one operation  *)
(* on a path at a time under a lock in Redis that expires after 5 s, and   *)
(* write a file by renaming a temporary one.  An operation is acknowledged *)
(* whatever became of it.                                                  *)
(*                                                                         *)
(* The clock is not modelled: a lock whose holder has not died expires     *)
(* only when that worker is past the file operations and the release,      *)
(* which wait for nothing but the disk and one reply.  Different paths     *)
(* name different files, none of which is the temporary file of another    *)
(* ("x.tmp" is that of "x").  An operation on a path outside the vault,    *)
(* which is acknowledged and does nothing else, is left out.               *)
(*                                                                         *)
(* vpc[w] names where worker w is: idle (read), lock (SET NX), open,       *)
(* write, rename (of the temporary file), remove, release (DEL), ack, down.*)
(***************************************************************************)
EXTENDS RedisStream

CONSTANTS
  VaultWorker, Path, None,
  MaxVaultOps,       \* bound: operations ever added to the stream
  MaxVaultFailures   \* bound: crashes, failing file operations and Redis commands

ASSUME VaultAssumption ==
  /\ None \notin VaultWorker /\ None \notin [by : Nat, whole : BOOLEAN]
  /\ MaxVaultOps \in Nat /\ MaxVaultFailures \in Nat

VARIABLES
  vaultOps,   \* tasks:vault_ops
  files,      \* files[p]: what the file at p contains
  temporary,  \* temporary[p]: what the file next to it with suffix .tmp does
  lock,       \* lock[p]: the worker that set vault:lock:{p}, or None
  vpc,
  entry,      \* entry[w]: id of the operation w is at, 0 when none
  vaultFailures

vaultVars == << vaultOps, files, temporary, lock, vpc, entry, vaultFailures >>

VaultOp == [kind : {"write", "delete"}, path : Path]

\* Contents are told apart by the operation that wrote them.
Content == [by : 1 .. MaxVaultOps, whole : BOOLEAN]
FileOps == {"open", "write", "rename", "remove"}
UnderLock == FileOps \cup {"release"}

VaultTypeOK ==
  /\ vaultOps \in Stream(VaultOp) /\ Len(vaultOps.log) <= MaxVaultOps
  /\ files \in [Path -> Content \cup {None}]
  /\ temporary \in [Path -> Content \cup {None}]
  /\ lock \in [Path -> VaultWorker \cup {None}]
  /\ vpc \in [VaultWorker -> UnderLock \cup {"idle", "lock", "ack", "down"}]
  /\ entry \in [VaultWorker -> Nat]
  /\ \A w \in VaultWorker :
       IF vpc[w] \in {"idle", "down"} THEN entry[w] = 0 ELSE entry[w] \in vaultOps.pending
  /\ vaultFailures \in 0 .. MaxVaultFailures

VaultInit ==
  /\ vaultOps = NewStream
  /\ files = [p \in Path |-> None]
  /\ temporary = [p \in Path |-> None]
  /\ lock = [p \in Path |-> None]
  /\ vpc = [w \in VaultWorker |-> "idle"]
  /\ entry = [w \in VaultWorker |-> 0]
  /\ vaultFailures = 0

VaultGoto(w, from, to) == vpc[w] = from /\ vpc' = [vpc EXCEPT ![w] = to]
Forget(w, to) ==
  /\ vpc' = [vpc EXCEPT ![w] = to]
  /\ entry' = [entry EXCEPT ![w] = 0]

CountVaultFailure == vaultFailures < MaxVaultFailures /\ vaultFailures' = vaultFailures + 1

FreePaths == { p \in Path : lock[p] = None }

Op(w) == vaultOps.log[entry[w]]
OpPath(w) == Op(w).path

-----------------------------------------------------------------------------
\* ctx.vault.write or ctx.vault.delete of an app.
SendVaultOp(o) ==
  /\ Len(vaultOps.log) < MaxVaultOps
  /\ vaultOps' = XADD(vaultOps, o)
  /\ UNCHANGED << files, temporary, lock, vpc, entry, vaultFailures >>

\* Mutant: the operation is acknowledged when it is read (NOACK).
ReadNoAck(w) ==
  /\ VaultGoto(w, "idle", "lock")
  /\ HasUnread(vaultOps)
  /\ entry' = [entry EXCEPT ![w] = NextId(vaultOps)]
  /\ vaultOps' = XACK(XREADGROUP(vaultOps), NextId(vaultOps))
  /\ UNCHANGED << files, temporary, lock, vaultFailures >>

ReadVaultOp(w) ==
  /\ VaultGoto(w, "idle", "lock")
  /\ HasUnread(vaultOps)
  /\ entry' = [entry EXCEPT ![w] = NextId(vaultOps)]
  /\ vaultOps' = XREADGROUP(vaultOps)
  /\ UNCHANGED << files, temporary, lock, vaultFailures >>

\* The reply is lost: read_vault_op returns None, and the loop reads on.
VaultReadFails(w) ==
  /\ vpc[w] = "idle"
  /\ HasUnread(vaultOps)
  /\ CountVaultFailure
  /\ vaultOps' = XREADGROUP(vaultOps)
  /\ UNCHANGED << files, temporary, lock, vpc, entry >>

\* Mutant: the key is set whether it exists or not.
SetLock(w) ==
  /\ vpc[w] = "lock"
  /\ vpc' = [vpc EXCEPT ![w] = IF Op(w).kind = "write" THEN "open" ELSE "remove"]
  /\ lock' = [lock EXCEPT ![OpPath(w)] = w]
  /\ UNCHANGED << vaultOps, files, temporary, entry, vaultFailures >>

AcquireLock(w) ==
  /\ vpc[w] = "lock"
  /\ vpc' = [vpc EXCEPT ![w] = IF Op(w).kind = "write" THEN "open" ELSE "remove"]
  /\ lock[OpPath(w)] = None
  /\ lock' = [lock EXCEPT ![OpPath(w)] = w]
  /\ UNCHANGED << vaultOps, files, temporary, entry, vaultFailures >>

\* "failed to acquire lock": the operation is dropped.
LockIsTaken(w) ==
  /\ VaultGoto(w, "lock", "ack")
  /\ lock[OpPath(w)] # None
  /\ UNCHANGED << vaultOps, files, temporary, lock, entry, vaultFailures >>

\* SET raises, having set the key or not: nothing will delete it.
AcquireFails(w) ==
  /\ VaultGoto(w, "lock", "ack")
  /\ CountVaultFailure
  /\ lock' \in {lock} \cup { [lock EXCEPT ![p] = w] : p \in FreePaths \cap {OpPath(w)} }
  /\ UNCHANGED << vaultOps, files, temporary, entry >>

\* _write_file, from the truncation of the temporary file to its renaming.
OpenTemporary(w) ==
  /\ VaultGoto(w, "open", "write")
  /\ temporary' = [temporary EXCEPT ![OpPath(w)] = [by |-> entry[w], whole |-> FALSE]]
  /\ UNCHANGED << vaultOps, files, lock, entry, vaultFailures >>

\* A file that another worker has truncated meanwhile is not whole.
WriteTemporary(w) ==
  LET t == temporary[OpPath(w)]
  IN /\ VaultGoto(w, "write", "rename")
     /\ temporary' = IF t = None THEN temporary
                     ELSE [temporary EXCEPT
                       ![OpPath(w)] = [by |-> t.by, whole |-> t.by = entry[w]]]
     /\ UNCHANGED << vaultOps, files, lock, entry, vaultFailures >>

RenameTemporary(w) ==
  /\ VaultGoto(w, "rename", "release")
  /\ IF temporary[OpPath(w)] = None THEN UNCHANGED << files, temporary >>
     ELSE /\ files' = [files EXCEPT ![OpPath(w)] = temporary[OpPath(w)]]
          /\ temporary' = [temporary EXCEPT ![OpPath(w)] = None]
  /\ UNCHANGED << vaultOps, lock, entry, vaultFailures >>

RemoveFile(w) ==
  /\ VaultGoto(w, "remove", "release")
  /\ files' = [files EXCEPT ![OpPath(w)] = None]
  /\ UNCHANGED << vaultOps, temporary, lock, entry, vaultFailures >>

\* open, write, rename or remove raises: the operation returns False.
FileOpFails(w) ==
  /\ vpc[w] \in FileOps
  /\ CountVaultFailure
  /\ vpc' = [vpc EXCEPT ![w] = "release"]
  /\ UNCHANGED << vaultOps, files, temporary, lock, entry >>

\* Mutant: only a write deletes the key again.
ReleaseAfterWrite(w) ==
  /\ VaultGoto(w, "release", "ack")
  /\ lock' = IF Op(w).kind = "write" THEN [lock EXCEPT ![OpPath(w)] = None] ELSE lock
  /\ UNCHANGED << vaultOps, files, temporary, entry, vaultFailures >>

\* DEL of the key, whoever has set it.
ReleaseLock(w) ==
  /\ VaultGoto(w, "release", "ack")
  /\ lock' = [lock EXCEPT ![OpPath(w)] = None]
  /\ UNCHANGED << vaultOps, files, temporary, entry, vaultFailures >>

\* DEL raises, having had no effect, or having had it (as if released).
ReleaseFails(w) ==
  /\ VaultGoto(w, "release", "ack")
  /\ CountVaultFailure
  /\ UNCHANGED << vaultOps, files, temporary, lock, entry >>

AckVaultOp(w) ==
  /\ vpc[w] = "ack"
  /\ vaultOps' = XACK(vaultOps, entry[w])
  /\ Forget(w, "idle")
  /\ UNCHANGED << files, temporary, lock, vaultFailures >>

\* XACK raises out of the loop and ends the process, or it dies at any moment.
CrashVault(w) ==
  /\ vpc[w] # "down"
  /\ CountVaultFailure
  /\ Forget(w, "down")
  /\ UNCHANGED << vaultOps, files, temporary, lock >>

StartVault(w) ==
  /\ VaultGoto(w, "down", "idle")
  /\ UNCHANGED << vaultOps, files, temporary, lock, entry, vaultFailures >>

\* Five seconds after it was set, the key is gone.
LockExpires(p) ==
  /\ lock[p] # None
  /\ ~(vpc[lock[p]] \in UnderLock /\ OpPath(lock[p]) = p)
  /\ lock' = [lock EXCEPT ![p] = None]
  /\ UNCHANGED << vaultOps, files, temporary, vpc, entry, vaultFailures >>

VaultStep(w) ==
  \/ ReadVaultOp(w) \/ AcquireLock(w) \/ LockIsTaken(w)
  \/ OpenTemporary(w) \/ WriteTemporary(w) \/ RenameTemporary(w) \/ RemoveFile(w)
  \/ ReleaseLock(w) \/ AckVaultOp(w)

VaultNext ==
  \/ \E o \in VaultOp : SendVaultOp(o)
  \/ \E w \in VaultWorker :
       \/ VaultStep(w) \/ VaultReadFails(w) \/ AcquireFails(w) \/ FileOpFails(w)
       \/ ReleaseFails(w) \/ CrashVault(w) \/ StartVault(w)
  \/ \E p \in Path : LockExpires(p)
=============================================================================
