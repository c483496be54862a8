------------------------------- MODULE Thread -------------------------------
(***************************************************************************)
(* Parent topics of threads and thread updates as the GUI exchanges them   *)
(* with the core (src/gui/types/thread.cpp).  A core collection is a       *)
(* function from value names to values; a nested collection is such a     *)
(* function again.  A parent topic is a record with its type and fields.  *)
(* Pure operators.                                                         *)
(***************************************************************************)
EXTENDS Integers, TLC

(* parentTopicFactory: the types a topic object can be created for.       *)
Registered == {"message", "task"}

(* A null topic pointer, and the outcome of dereferencing one.           *)
NoTopic == [type |-> "none"]
Crash   == [type |-> "crash"]

(* A value of a collection, or def when it holds none (the coll_helper    *)
(* getters are outside src/).                                              *)
Get(coll, name, def) == IF name \in DOMAIN coll THEN coll[name] ELSE def

(* ParentTopic::unserialize_type: the "type" of the "parentTopic"          *)
(* collection, or invalid (after an assertion) when it has none.           *)
UnserializeType(coll) ==
    LET parent == Get(coll, "parentTopic", <<>>)
    IN  IF "type" \in DOMAIN parent THEN parent["type"] ELSE "invalid"

(* MessageParentTopic::serialize: chat, msgId and the type in a          *)
(* "parentTopic" collection.                                              *)
MessageSerialize(t) == "parentTopic" :> [chat |-> t.chat, msgId |-> t.msgId, type |-> "message"]

(* TaskParentTopic::serialize: taskId and the type.                       *)
TaskSerialize(t) == "parentTopic" :> [taskId |-> t.taskId, type |-> "task"]

(* The virtual serialize of a topic.                                      *)
Serialize(t) == IF t.type = "message" THEN MessageSerialize(t) ELSE TaskSerialize(t)

(* Mutant: the message id is not read back.                               *)
MessageUnserialize_NoMsgId(coll) ==
    [type |-> "message", chat |-> Get(coll["parentTopic"], "chat", ""), msgId |-> 0]

(* MessageParentTopic::unserialize.                                       *)
MessageUnserialize(coll) ==
    LET parent == coll["parentTopic"]
    IN  [type |-> "message", chat |-> Get(parent, "chat", ""), msgId |-> Get(parent, "msgId", 0)]

(* TaskParentTopic::unserialize.                                          *)
TaskUnserialize(coll) ==
    [type |-> "task", taskId |-> Get(coll["parentTopic"], "taskId", "")]

(* ThreadUpdate::unserialize: the counters and flags, then, unless the    *)
(* type is invalid, a topic object from the factory, unserialized.  The   *)
(* factory has no object for an unregistered type, and the null pointer   *)
(* is dereferenced (Crash).  parent keeps its value for an invalid type. *)
ThreadUpdateUnserialize(coll, parent) ==
    LET type == UnserializeType(coll)
    IN  [threadId |-> Get(coll, "id", ""),
         repliesCount |-> Get(coll, "repliesCount", 0),
         unreadMessages |-> Get(coll, "unreadMsg", 0),
         isSubscriber |-> Get(coll, "subscriber", FALSE),
         parent |-> CASE type = "invalid"       -> parent
                      [] type \notin Registered -> Crash
                      [] type = "message"       -> MessageUnserialize(coll)
                      [] OTHER                  -> TaskUnserialize(coll)]

(* MessageParentTopic::getChat: the chat of a message topic, otherwise    *)
(* empty, also for a null pointer.                                         *)
GetChat(t) == IF t.type = "message" THEN t.chat ELSE ""

=============================================================================
