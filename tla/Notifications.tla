---------------------------- MODULE Notifications ----------------------------
(***************************************************************************)
(* The notification service: one consumer of tasks:notifications that      *)
(* hands each request to its driver, adds those the driver failed to send  *)
(* to tasks:notifications:failed, and acknowledges them all.               *)
(*                                                                         *)
(* npc names the await it is at: idle (xreadgroup), send (the driver),     *)
(* move (move_to_failed in the try block), again (move_to_failed in its    *)
(* except clause), ack (its finally clause), down.                         *)
(***************************************************************************)
EXTENDS RedisStream

CONSTANTS
  MaxNotifications,   \* bound: requests ever added to the stream
  MaxNotifyFailures   \* bound: crashes and failing Redis commands (not of the driver)

ASSUME NotifyAssumption == MaxNotifications \in Nat /\ MaxNotifyFailures \in Nat

VARIABLES
  notifications,  \* tasks:notifications: a request is told apart by its id
  failedStream,   \* tasks:notifications:failed: the original ids
  sent,           \* sent[i]: times the push service got request i
  npc, current,   \* current: the request it is at, 0 when none
  refused,        \* requests that both attempts to move raised for
  notifyFailures

notifyVars == << notifications, failedStream, sent, npc, current, refused, notifyFailures >>

Notification == 1 .. MaxNotifications

NotifyTypeOK ==
  /\ notifications \in Stream({"request"}) /\ Len(notifications.log) <= MaxNotifications
  /\ failedStream \in Seq(Notification)
  /\ sent \in [Notification -> Nat]
  /\ npc \in {"idle", "send", "move", "again", "ack", "down"}
  /\ IF npc \in {"idle", "down"} THEN current = 0 ELSE current \in notifications.pending
  /\ refused \subseteq Notification
  /\ notifyFailures \in 0 .. MaxNotifyFailures

NotifyInit ==
  /\ notifications = NewStream
  /\ failedStream = << >>
  /\ sent = [i \in Notification |-> 0]
  /\ npc = "idle" /\ current = 0
  /\ refused = {}
  /\ notifyFailures = 0

NotifyGoto(from, to) == npc = from /\ npc' = to

CountNotifyFailure ==
  notifyFailures < MaxNotifyFailures /\ notifyFailures' = notifyFailures + 1

\* ctx.notify of an app.
Notify ==
  /\ Len(notifications.log) < MaxNotifications
  /\ notifications' = XADD(notifications, "request")
  /\ UNCHANGED << failedStream, sent, npc, current, refused, notifyFailures >>

ReadNotification ==
  /\ NotifyGoto("idle", "send")
  /\ HasUnread(notifications)
  /\ current' = NextId(notifications)
  /\ notifications' = XREADGROUP(notifications)
  /\ UNCHANGED << failedStream, sent, refused, notifyFailures >>

\* The reply is lost: the loop backs off, and reads on.
NotifyReadFails ==
  /\ npc = "idle"
  /\ HasUnread(notifications)
  /\ CountNotifyFailure
  /\ notifications' = XREADGROUP(notifications)
  /\ UNCHANGED << failedStream, sent, npc, current, refused >>

\* The driver returns, or raises: the push service may have got the request then.
SendNotification ==
  /\ \E raised \in BOOLEAN, reached \in {0, 1} :
       /\ NotifyGoto("send", IF raised THEN "move" ELSE "ack")
       /\ ~raised => reached = 1
       /\ sent' = [sent EXCEPT ![current] = @ + reached]
  /\ UNCHANGED << notifications, failedStream, current, refused, notifyFailures >>

MoveToFailed ==
  /\ npc \in {"move", "again"}
  /\ npc' = "ack"
  /\ failedStream' = Append(failedStream, current)
  /\ UNCHANGED << notifications, sent, current, refused, notifyFailures >>

\* Mutant: nothing is tried after an exception.
MoveOnce ==
  /\ NotifyGoto("move", "ack")
  /\ CountNotifyFailure
  /\ UNCHANGED << notifications, failedStream, sent, current, refused >>

\* XADD raises, having added the entry or not: the except clause tries once more.
MoveFails ==
  /\ NotifyGoto("move", "again")
  /\ CountNotifyFailure
  /\ failedStream' \in {failedStream, Append(failedStream, current)}
  /\ UNCHANGED << notifications, sent, current, refused >>

\* It raises again: the finally clause acknowledges the request all the same.
MoveFailsAgain ==
  /\ NotifyGoto("again", "ack")
  /\ CountNotifyFailure
  /\ failedStream' \in {failedStream, Append(failedStream, current)}
  /\ refused' = refused \cup {current}
  /\ UNCHANGED << notifications, sent, current >>

AckNotification ==
  /\ NotifyGoto("ack", "idle")
  /\ notifications' = XACK(notifications, current)
  /\ current' = 0
  /\ UNCHANGED << failedStream, sent, refused, notifyFailures >>

\* XACK raises: the outer handlers log it and the loop goes on.
NotifyAckFails ==
  /\ NotifyGoto("ack", "idle")
  /\ CountNotifyFailure
  /\ current' = 0
  /\ UNCHANGED << notifications, failedStream, sent, refused >>

CrashNotify ==
  /\ npc # "down"
  /\ CountNotifyFailure
  /\ npc' = "down" /\ current' = 0
  /\ UNCHANGED << notifications, failedStream, sent, refused >>

StartNotify ==
  /\ NotifyGoto("down", "idle")
  /\ UNCHANGED << notifications, failedStream, sent, current, refused, notifyFailures >>

NotifyStep == ReadNotification \/ SendNotification \/ MoveToFailed \/ AckNotification

NotifyNext ==
  \/ Notify \/ NotifyStep
  \/ NotifyReadFails \/ MoveFails \/ MoveFailsAgain \/ NotifyAckFails
  \/ CrashNotify \/ StartNotify
=============================================================================
