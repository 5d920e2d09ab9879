--------------------------- MODULE PermissionSync ---------------------------
(***************************************************************************)
(* The platform controller's permission sync: every five minutes it reads  *)
(* the rows of shared.app_permissions and replaces, one user after the     *)
(* other, the hash perms:{user} in Redis that the gateway looks into.      *)
(* Redis executes DEL and HSET of one user as a transaction.  A user       *)
(* without rows is not part of what the sync has read.                     *)
(*                                                                         *)
(* spc names the await it is at: idle (the interval), write (the reply to  *)
(* one user's transaction).                                                *)
(***************************************************************************)
EXTENDS Naturals

CONSTANTS
  User,
  Permission,        \* {app}:{bundle} fields, of any role
  MaxChanges,        \* bound: changes of the table
  MaxSyncFailures    \* bound: syncs that fail or die with the controller

ASSUME SyncAssumption == MaxChanges \in Nat /\ MaxSyncFailures \in Nat

VARIABLES
  table,     \* table[u]: the permissions u has rows of
  copy,      \* copy[u]: the fields of perms:{u}
  spc,
  read,      \* read[u]: u's rows when the sync read the table
  unwritten, \* users it has still to write
  kept,      \* kept[u]: those of them that have stayed in the table since
  due,       \* due[u]: permissions u has had since before its last write
  changes, syncFailures

syncVars == << table, copy, spc, read, unwritten, kept, due, changes, syncFailures >>

Permissions == [User -> SUBSET Permission]

SyncTypeOK ==
  /\ {table, copy, read, kept, due} \subseteq Permissions
  /\ spc \in {"idle", "write"}
  /\ unwritten \subseteq User
  /\ spc = "idle" => unwritten = {}
  /\ changes \in 0 .. MaxChanges /\ syncFailures \in 0 .. MaxSyncFailures
  \* Nobody is written who has no rows.
  /\ \A u \in unwritten : read[u] # {}

Nothing == [u \in User |-> {}]

SyncInit ==
  /\ table = Nothing /\ copy = Nothing /\ read = Nothing
  /\ spc = "idle" /\ unwritten = {}
  /\ kept = Nothing /\ due = Nothing
  /\ changes = 0 /\ syncFailures = 0

\* Somebody grants or revokes: nothing in the platform writes the table.
ChangeTable(u, S) ==
  /\ changes < MaxChanges /\ table[u] # S
  /\ changes' = changes + 1
  /\ table' = [table EXCEPT ![u] = S]
  /\ kept' = [kept EXCEPT ![u] = @ \cap S]
  /\ due' = [due EXCEPT ![u] = @ \cap S]
  /\ UNCHANGED << copy, spc, read, unwritten, syncFailures >>

\* sync_all reads the table, and groups the rows by user.
ReadTable ==
  /\ spc = "idle"
  /\ read' = table /\ kept' = table
  /\ unwritten' = { u \in User : table[u] # {} }
  /\ spc' = IF unwritten' = {} THEN "idle" ELSE "write"
  /\ UNCHANGED << table, copy, due, changes, syncFailures >>

\* Mutant: the hash is not deleted first.
Merged(u) == copy[u] \cup read[u]

\* Mutant: only what is new is written, after the deletion.
OnlyNew(u) == read[u] \ copy[u]

\* What a user's transaction leaves in its hash.
Replaced(u) == read[u]

Written(u) ==
  /\ copy' = [copy EXCEPT ![u] = Replaced(u)]
  /\ due' = [due EXCEPT ![u] = kept[u]]

WriteUser(u) ==
  /\ u \in unwritten
  /\ Written(u)
  /\ unwritten' = unwritten \ {u}
  /\ spc' = IF unwritten' = {} THEN "idle" ELSE "write"
  /\ UNCHANGED << table, read, kept, changes, syncFailures >>

\* Redis refuses, or its reply is lost, or the controller dies: the rest of the users is
\* left for the next time.
SyncFails(u) ==
  /\ u \in unwritten
  /\ syncFailures < MaxSyncFailures
  /\ syncFailures' = syncFailures + 1
  /\ Written(u) \/ UNCHANGED << copy, due >>
  /\ unwritten' = {} /\ spc' = "idle"
  /\ UNCHANGED << table, read, kept, changes >>

SyncNext ==
  \/ ReadTable
  \/ \E u \in User :
       \/ WriteUser(u) \/ SyncFails(u)
       \/ \E S \in SUBSET Permission : ChangeTable(u, S)

SyncSpec == SyncInit /\ [][SyncNext]_syncVars

\* The interval job runs, and finishes.
SyncFairness ==
  /\ WF_syncVars(ReadTable)
  /\ WF_syncVars(\E u \in User : WriteUser(u))

\* The gateway's checkPermission.
Permitted(u, p) == p \in copy[u]

-----------------------------------------------------------------------------
\* A user who has had a permission since before it was last written is never refused, at
\* whatever step of whichever sync the gateway looks.
NeverRefusedInBetween ==
  \A u \in User : \A p \in due[u] : Permitted(u, p)

\* "Syncs app RBAC permissions": when the table no longer changes, every user who has any
\* rows is permitted what they say in the end, and nothing else.
CopyFollowsTable == <>[](\A u \in User : table[u] = {} \/ copy[u] = table[u])
=============================================================================
