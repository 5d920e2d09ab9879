-------------------------- MODULE PlatformServices --------------------------
(***************************************************************************)
(* What the platform does beside the tasks of its users: notifications and *)
(* vault operations that apps ask for and do not wait for, the permissions *)
(* and the signing keys the gateway looks up, the containers of untrusted  *)
(* calls, and the watchdog.  These share nothing, so a behaviour is one of *)
(* one part.                                                               *)
(***************************************************************************)
EXTENDS Notifications, VaultService, PermissionSync, JwksCache, EphemeralRunner, Watchdog

VARIABLE part

serviceVars ==
  << part, notifyVars, vaultVars, syncVars, jwksVars, ephemeralVars, watchdogVars >>

ServicesInit ==
  /\ part \in {"notify", "vault", "permissions", "keys", "containers", "watchdog"}
  /\ NotifyInit /\ VaultInit /\ SyncInit /\ JwksInit /\ EphemeralInit /\ WatchdogInit

ServicesNext ==
  /\ UNCHANGED part
  /\ part # "notify" => UNCHANGED notifyVars
  /\ part # "vault" => UNCHANGED vaultVars
  /\ part # "permissions" => UNCHANGED syncVars
  /\ part # "keys" => UNCHANGED jwksVars
  /\ part # "containers" => UNCHANGED ephemeralVars
  /\ part # "watchdog" => UNCHANGED watchdogVars
  /\ \/ part = "notify" /\ NotifyNext
     \/ part = "vault" /\ VaultNext
     \/ part = "permissions" /\ SyncNext
     \/ part = "keys" /\ JwksNext
     \/ part = "containers" /\ EphemeralNext
     \/ part = "watchdog" /\ WatchdogNext

ServicesSpec == ServicesInit /\ [][ServicesNext]_serviceVars

\* In the other parts nothing of a sync is ever enabled.
ServicesFairSpec == ServicesSpec /\ SyncFairness

ServicesTypeOK ==
  /\ NotifyTypeOK /\ VaultTypeOK /\ SyncTypeOK
  /\ JwksTypeOK /\ EphemeralTypeOK /\ WatchdogTypeOK

-----------------------------------------------------------------------------
\* A request that is acknowledged was sent, or is in the dead-letter stream, unless
\* Redis refused it there twice; none is sent twice, whatever is retried and
\* whenever the service restarts.
NotificationIsAccountedFor ==
  \A i \in Notification :
    /\ i \in (1 .. notifications.cursor) \ notifications.pending =>
         \/ sent[i] > 0
         \/ \E j \in 1 .. Len(failedStream) : failedStream[j] = i
         \/ i \in refused
    /\ sent[i] <= 1

\* "Performs atomic writes ... to prevent partial reads": whoever reads a file of the
\* vault at any moment finds the whole content some operation on its path wrote,
\* although all writers of a path share one temporary file, which a worker that dies
\* leaves half written.
VaultFileIsWhole ==
  \A p \in Path : files[p] # None =>
    /\ files[p].whole
    /\ vaultOps.log[files[p].by] = [kind |-> "write", path |-> p]

\* An operation that is dropped for the lock, and acknowledged, is dropped because another
\* worker is at an operation on the same path right then, or something has failed before:
\* one after the other, operations on a path all come through.
DroppedOnlyForAnother ==
  [][ \A w \in VaultWorker :
        vpc[w] = "lock" /\ vpc'[w] = "ack" =>
          \/ vaultFailures' > 0
          \/ \E v \in VaultWorker \ {w} : vpc[v] \in UnderLock /\ OpPath(v) = OpPath(w) ]_vaultVars
=============================================================================
