---------------------------- MODULE RedisStream ----------------------------
(***************************************************************************)
(* A Redis stream read by one consumer group, as the services use it.      *)
(*                                                                         *)
(* Redis itself is not part of the repository.  These operators model the  *)
(* three commands the code sends (XADD, XREADGROUP ... STREAMS s ">"       *)
(* COUNT 1, and XACK) on the state they touch:                             *)
(*   log      every message ever added; an entry's id is its position      *)
(*   cursor   the group's last-delivered id                                *)
(*   pending  the group's pending entries list: delivered, not acknowledged*)
(* A group is created with id "0", so it also sees what was added before   *)
(* it existed, and no service ever reads with another id than ">", so no   *)
(* command of the code returns a pending entry a second time.              *)
(***************************************************************************)
EXTENDS Naturals, Sequences

Stream(Message) ==
  { s \in [log : Seq(Message), cursor : Nat, pending : SUBSET Nat] :
      /\ s.cursor <= Len(s.log)
      /\ s.pending \subseteq 1 .. s.cursor }

NewStream == [log |-> << >>, cursor |-> 0, pending |-> {}]

HasUnread(s) == s.cursor < Len(s.log)

\* The id the next XREADGROUP ">" returns, when there is something to read.
NextId(s) == s.cursor + 1

XADD(s, message) ==
  [log |-> Append(s.log, message), cursor |-> s.cursor, pending |-> s.pending]

XREADGROUP(s) ==
  [log |-> s.log, cursor |-> s.cursor + 1, pending |-> s.pending \cup {s.cursor + 1}]

XACK(s, id) == [log |-> s.log, cursor |-> s.cursor, pending |-> s.pending \ {id}]

\* What the commands have done with a message, whatever its position.
Added(s, message) == \E i \in 1 .. Len(s.log) : s.log[i] = message
Unread(s, message) == \E i \in s.cursor + 1 .. Len(s.log) : s.log[i] = message
Pending(s, message) == \E i \in s.pending : s.log[i] = message
Acked(s, message) == \E i \in (1 .. s.cursor) \ s.pending : s.log[i] = message
=============================================================================
