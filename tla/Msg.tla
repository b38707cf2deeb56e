---------------------------------- MODULE Msg ----------------------------------
(* msg::Msg: a sender and one alternative of MessageVariant, from whose index *)
(* the constructor takes the message's type and its priority.                 *)
EXTENDS Integers, Sequences

(* MESSAGE_VARIANT_TYPES, a list that the macros expand three times: to the   *)
(* variant, to the enumeration of its types, to message_priorities.           *)
MessageVariant     == <<"StateMsg", "StateAckMsg", "HeartbeatMsg", "HeartbeatAckMsg">>
message_priorities == <<100, 99, 50, 49>>

get_internal_priority(alternative) ==
  message_priorities[CHOOSE index \in 1 .. Len(MessageVariant) : MessageVariant[index] = alternative]

(* The payload is what the receivers look at: a state, or the id of a beat. *)
Msg(sender, alternative, payload) ==
  [sender |-> sender, type |-> alternative, data |-> payload,
   priority |-> get_internal_priority(alternative)]

nullptr == "nullptr"

get_data_as(m, alternative) == IF m.type = alternative THEN m.data ELSE nullptr

(* operator<, by which a MessageQueue orders its messages. *)
Less(m, other) == m.priority < other.priority
================================================================================
