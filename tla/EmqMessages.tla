----------------------------- MODULE EmqMessages ----------------------------
(***************************************************************************)
(* The fields of the protobuf messages of one part of the system: the      *)
(* requests, responses and messages of the public service, emq/emq.pb.go.  *)
(* A field is its number, its name and its kind, as the cases of the       *)
(* Unmarshal function of the message read it; a field that holds messages  *)
(* names their type. An enumeration is an int32, a string is bytes, and    *)
(* time is time.Time or time.Duration, which travel as google.protobuf     *)
(* messages.                                                               *)
(***************************************************************************)

NamespaceCreateRequest ==
  <<<<1, "Namespace", "bytes">>, <<99, "LeaderOnly", "bool">>>>

NamespaceCreateResponse ==
  <<<<1, "OK", "bool">>, <<2, "Index", "uint64">>>>

NamespaceDeleteRequest ==
  <<<<1, "Namespace", "bytes">>, <<99, "LeaderOnly", "bool">>>>

NamespaceDeleteResponse ==
  <<<<1, "OK", "bool">>, <<2, "Index", "uint64">>>>

TopicCreateRequest ==
  <<<<1, "Topic", "embedded", "Topic">>, <<99, "LeaderOnly", "bool">>>>

TopicCreateResponse ==
  <<<<1, "OK", "bool">>, <<2, "Index", "uint64">>>>

Topic ==
  <<<<1, "Namespace", "bytes">>, <<2, "Name", "bytes">>,
    <<3, "Shards", "uint32">>, <<4, "ReplicationFactor", "uint32">>,
    <<5, "Retention", "time", "Duration">>,
    <<6, "DefaultExchangeType", "bytes">>>>

TopicListRequest ==
  <<<<1, "Namespace", "bytes">>, <<2, "Name", "bytes">>,
    <<99, "LeaderOnly", "bool">>>>

TopicListResponse ==
  <<<<1, "OK", "bool">>, <<2, "Index", "uint64">>,
    <<3, "Topics", "repeated", "Topic">>>>

TopicDeleteRequest ==
  <<<<1, "Namespace", "bytes">>, <<2, "Name", "bytes">>,
    <<3, "IfUnused", "bool">>, <<99, "LeaderOnly", "bool">>>>

TopicDeleteResponse ==
  <<<<1, "OK", "bool">>, <<2, "Index", "uint64">>>>

TopicPublishRequest ==
  <<<<1, "Namespace", "bytes">>, <<2, "Name", "bytes">>,
    <<3, "Message", "pointer", "Message">>, <<99, "DoNotForward", "bool">>>>

TopicPublishResponse ==
  <<<<1, "OK", "bool">>>>

ConsumerGroupCreateRequest ==
  <<<<1, "ConsumerGroup", "embedded", "ConsumerGroup">>,
    <<99, "LeaderOnly", "bool">>>>

ConsumerGroupCreateResponse ==
  <<<<1, "OK", "bool">>, <<2, "Index", "uint64">>>>

ConsumerGroup ==
  <<<<1, "Namespace", "bytes">>, <<2, "Name", "bytes">>,
    <<3, "Bindings", "repeated", "ConsumerGroup_Binding">>,
    <<4, "Size_", "uint32">>, <<5, "Since", "time", "Timestamp">>>>

ConsumerGroup_Binding ==
  <<<<1, "TopicName", "bytes">>, <<2, "ExchangeType", "bytes">>,
    <<3, "RoutingKey", "bytes">>, <<4, "HeadersAll", "oneof", "Struct">>,
    <<5, "HeadersAny", "oneof", "Struct">>>>

ConsumerGroupListRequest ==
  <<<<1, "Namespace", "bytes">>, <<2, "Name", "bytes">>,
    <<99, "LeaderOnly", "bool">>>>

ConsumerGroupListResponse ==
  <<<<1, "OK", "bool">>, <<2, "Index", "uint64">>,
    <<3, "ConsumerGroups", "repeated", "ConsumerGroup">>>>

ConsumerGroupDeleteRequest ==
  <<<<1, "Namespace", "bytes">>, <<2, "Name", "bytes">>,
    <<99, "LeaderOnly", "bool">>>>

ConsumerGroupDeleteResponse ==
  <<<<1, "OK", "bool">>, <<2, "Index", "uint64">>>>

Message ==
  <<<<1, "RoutingKey", "bytes">>,
    <<2, "Properties", "pointer", "Message_Properties">>,
    <<3, "Headers", "pointer", "Struct">>, <<4, "Data", "bytes">>>>

Message_Properties ==
  <<<<1, "ContentType", "bytes">>, <<2, "ContentEncoding", "bytes">>,
    <<3, "DeliveryMode", "int32">>, <<4, "Priority", "int32">>,
    <<5, "CorrelationID", "bytes">>, <<6, "ReplyTo", "bytes">>,
    <<7, "Expiration", "bytes">>, <<8, "MessageID", "bytes">>,
    <<9, "Timestamp", "time", "Timestamp">>, <<10, "Type", "bytes">>,
    <<11, "UserID", "bytes">>, <<12, "AppID", "bytes">>,
    <<13, "To", "bytes">>, <<14, "GroupID", "bytes">>,
    <<15, "GroupSequence", "uint32">>, <<16, "ReplyToGroupID", "bytes">>>>

ConsumerGroupSubscribeRequest ==
  <<<<1, "Namespace", "bytes">>, <<2, "Name", "bytes">>,
    <<3, "Size_", "uint32">>, <<4, "AutoAck", "bool">>,
    <<5, "DoNotBlock", "bool">>, <<6, "MaxMessages", "uint64">>,
    <<99, "DoNotForward", "bool">>>>

ConsumerGroupSubscribeResponse ==
  <<<<1, "NodeID", "uint64">>, <<2, "SubscriptionID", "uint64">>,
    <<3, "SeqNo", "uint64">>, <<4, "TopicNamespace", "bytes">>,
    <<5, "TopicName", "bytes">>, <<6, "Message", "pointer", "Message">>>>

MessageAckRequest ==
  <<<<1, "NodeID", "uint64">>, <<2, "SubscriptionID", "uint64">>,
    <<3, "SeqNo", "uint64">>, <<99, "DoNotForward", "bool">>>>

MessageAckResponse ==
  <<<<1, "OK", "bool">>>>

MessageNackRequest ==
  <<<<1, "NodeID", "uint64">>, <<2, "SubscriptionID", "uint64">>,
    <<3, "SeqNo", "uint64">>, <<99, "DoNotForward", "bool">>>>

MessageNackResponse ==
  <<<<1, "OK", "bool">>>>

(* The messages of this part, by name. *)
EmqSchema ==
  [NamespaceCreateRequest |-> NamespaceCreateRequest,
   NamespaceCreateResponse |-> NamespaceCreateResponse,
   NamespaceDeleteRequest |-> NamespaceDeleteRequest,
   NamespaceDeleteResponse |-> NamespaceDeleteResponse,
   TopicCreateRequest |-> TopicCreateRequest,
   TopicCreateResponse |-> TopicCreateResponse,
   Topic |-> Topic,
   TopicListRequest |-> TopicListRequest,
   TopicListResponse |-> TopicListResponse,
   TopicDeleteRequest |-> TopicDeleteRequest,
   TopicDeleteResponse |-> TopicDeleteResponse,
   TopicPublishRequest |-> TopicPublishRequest,
   TopicPublishResponse |-> TopicPublishResponse,
   ConsumerGroupCreateRequest |-> ConsumerGroupCreateRequest,
   ConsumerGroupCreateResponse |-> ConsumerGroupCreateResponse,
   ConsumerGroup |-> ConsumerGroup,
   ConsumerGroup_Binding |-> ConsumerGroup_Binding,
   ConsumerGroupListRequest |-> ConsumerGroupListRequest,
   ConsumerGroupListResponse |-> ConsumerGroupListResponse,
   ConsumerGroupDeleteRequest |-> ConsumerGroupDeleteRequest,
   ConsumerGroupDeleteResponse |-> ConsumerGroupDeleteResponse,
   Message |-> Message,
   Message_Properties |-> Message_Properties,
   ConsumerGroupSubscribeRequest |-> ConsumerGroupSubscribeRequest,
   ConsumerGroupSubscribeResponse |-> ConsumerGroupSubscribeResponse,
   MessageAckRequest |-> MessageAckRequest,
   MessageAckResponse |-> MessageAckResponse,
   MessageNackRequest |-> MessageNackRequest,
   MessageNackResponse |-> MessageNackResponse]
===============================================================================
