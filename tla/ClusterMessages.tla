--------------------------- MODULE ClusterMessages --------------------------
(***************************************************************************)
(* The fields of the protobuf messages of one part of the system: the      *)
(* cluster state, as the snapshots hold it, and the commands of the log,   *)
(* cluster_state.pb.go. A field is its number, its name and its kind, as   *)
(* the cases of the Unmarshal function of the message read it; a field     *)
(* that holds messages names their type. An enumeration is an int32, a     *)
(* string is bytes, and time is time.Time or time.Duration, which travel   *)
(* as google.protobuf messages.                                            *)
(***************************************************************************)

ClusterState ==
  <<<<1, "Index", "uint64">>, <<2, "CurrentSegmentID", "uint64">>,
    <<3, "Namespaces", "repeated", "ClusterNamespace">>,
    <<4, "OpenSegments", "repeated", "ClusterSegment">>,
    <<5, "ClosedSegments", "repeated", "ClusterSegment">>,
    <<6, "Nodes", "repeated", "ClusterNode">>>>

ClusterNamespace ==
  <<<<1, "Name", "bytes">>, <<2, "Topics", "repeated", "ClusterTopic">>,
    <<3, "ConsumerGroups", "repeated", "ClusterConsumerGroup">>>>

ClusterTopic ==
  <<<<1, "Name", "bytes">>, <<2, "Shards", "uint32">>,
    <<3, "ReplicationFactor", "uint32">>,
    <<4, "Retention", "time", "Duration">>,
    <<5, "DefaultExchangeType", "bytes">>>>

ClusterConsumerGroup ==
  <<<<1, "Name", "bytes">>,
    <<2, "Bindings", "repeated", "ClusterConsumerGroup_Binding">>,
    <<3, "Size_", "uint32">>, <<4, "Since", "time", "Timestamp">>,
    <<5, "OffsetCommits", "repeated", "ClusterConsumerGroup_OffsetCommit">>>>

ClusterConsumerGroup_Binding ==
  <<<<1, "TopicName", "bytes">>, <<2, "ExchangeType", "bytes">>,
    <<3, "RoutingKey", "bytes">>, <<4, "HeadersAll", "oneof", "Struct">>,
    <<5, "HeadersAny", "oneof", "Struct">>>>

ClusterConsumerGroup_OffsetCommit ==
  <<<<1, "SegmentID", "uint64">>, <<2, "Offset", "int64">>>>

ClusterSegment ==
  <<<<1, "ID", "uint64">>, <<2, "Type", "int32">>,
    <<3, "OwnerNamespace", "bytes">>, <<4, "OwnerName", "bytes">>,
    <<5, "Generation", "uint32">>, <<6, "Shard", "uint32">>,
    <<7, "CreatedAt", "time", "Timestamp">>,
    <<8, "ClosedAt", "time", "Timestamp">>,
    <<9, "Nodes", "embedded", "ClusterSegment_Nodes">>,
    <<10, "Size_", "int64">>, <<11, "Sha1", "bytes">>>>

ClusterSegment_Nodes ==
  <<<<1, "PrimaryNodeID", "uint64">>, <<2, "DoneNodeIDs", "packed">>,
    <<3, "ReplicatingNodeIDs", "packed">>>>

ClusterNode ==
  <<<<1, "ID", "uint64">>, <<2, "Address", "bytes">>,
    <<3, "State", "int32">>, <<4, "LastSeenAlive", "time", "Timestamp">>>>

ClusterCommandNamespaceCreate ==
  <<<<1, "Namespace", "bytes">>>>

ClusterCommandNamespaceDelete ==
  <<<<1, "Namespace", "bytes">>>>

ClusterCommandTopicCreate ==
  <<<<1, "Namespace", "bytes">>, <<2, "Topic", "pointer", "ClusterTopic">>>>

ClusterCommandTopicDelete ==
  <<<<1, "Namespace", "bytes">>, <<2, "Name", "bytes">>>>

ClusterCommandConsumerGroupCreate ==
  <<<<1, "Namespace", "bytes">>,
    <<2, "ConsumerGroup", "pointer", "ClusterConsumerGroup">>>>

ClusterCommandConsumerGroupDelete ==
  <<<<1, "Namespace", "bytes">>, <<2, "Name", "bytes">>>>

ClusterCommandSegmentCreate ==
  <<<<1, "ID", "uint64">>, <<2, "Type", "int32">>,
    <<3, "OwnerNamespace", "bytes">>, <<4, "OwnerName", "bytes">>,
    <<5, "Generation", "uint32">>, <<6, "Shard", "uint32">>,
    <<7, "OpenedAt", "time", "Timestamp">>, <<8, "PrimaryNodeID", "uint64">>,
    <<9, "ReplicatingNodeIDs", "packed">>>>

ClusterCommandSegmentClose ==
  <<<<1, "ID", "uint64">>, <<2, "DoneNodeID", "uint64">>,
    <<4, "ClosedAt", "time", "Timestamp">>, <<5, "Size_", "int64">>,
    <<6, "Sha1", "bytes">>>>

ClusterCommandNodeUpdate ==
  <<<<1, "ID", "uint64">>, <<2, "Address", "bytes">>,
    <<3, "State", "int32">>, <<4, "LastSeenAlive", "time", "Timestamp">>>>

ClusterCommandSegmentNodesUpdate ==
  <<<<1, "ID", "uint64">>, <<2, "Which", "int32">>,
    <<3, "Nodes", "embedded", "ClusterSegment_Nodes">>>>

ClusterCommandSegmentDelete ==
  <<<<1, "ID", "uint64">>, <<2, "Which", "int32">>>>

ClusterCommandConsumerGroupOffsetCommitsUpdate ==
  <<<<1, "Namespace", "bytes">>, <<2, "Name", "bytes">>,
    <<3, "OffsetCommits", "repeated", "ClusterConsumerGroup_OffsetCommit">>>>

ClusterCommand ==
  <<<<10, "CreateNamespace", "oneof", "ClusterCommandNamespaceCreate">>,
    <<11, "DeleteNamespace", "oneof", "ClusterCommandNamespaceDelete">>,
    <<20, "CreateTopic", "oneof", "ClusterCommandTopicCreate">>,
    <<21, "DeleteTopic", "oneof", "ClusterCommandTopicDelete">>,
    <<30, "CreateConsumerGroup", "oneof", "ClusterCommandConsumerGroupCreate">>,
    <<31, "DeleteConsumerGroup", "oneof", "ClusterCommandConsumerGroupDelete">>,
    <<32, "UpdateConsumerGroupOffsetCommits", "oneof", "ClusterCommandConsumerGroupOffsetCommitsUpdate">>,
    <<40, "CreateSegment", "oneof", "ClusterCommandSegmentCreate">>,
    <<41, "DeleteSegment", "oneof", "ClusterCommandSegmentDelete">>,
    <<42, "CloseSegment", "oneof", "ClusterCommandSegmentClose">>,
    <<43, "UpdateSegmentNodes", "oneof", "ClusterCommandSegmentNodesUpdate">>,
    <<50, "UpdateNode", "oneof", "ClusterCommandNodeUpdate">>>>

(* The messages of this part, by name. *)
ClusterSchema ==
  [ClusterState |-> ClusterState,
   ClusterNamespace |-> ClusterNamespace,
   ClusterTopic |-> ClusterTopic,
   ClusterConsumerGroup |-> ClusterConsumerGroup,
   ClusterConsumerGroup_Binding |-> ClusterConsumerGroup_Binding,
   ClusterConsumerGroup_OffsetCommit |-> ClusterConsumerGroup_OffsetCommit,
   ClusterSegment |-> ClusterSegment,
   ClusterSegment_Nodes |-> ClusterSegment_Nodes,
   ClusterNode |-> ClusterNode,
   ClusterCommandNamespaceCreate |-> ClusterCommandNamespaceCreate,
   ClusterCommandNamespaceDelete |-> ClusterCommandNamespaceDelete,
   ClusterCommandTopicCreate |-> ClusterCommandTopicCreate,
   ClusterCommandTopicDelete |-> ClusterCommandTopicDelete,
   ClusterCommandConsumerGroupCreate |-> ClusterCommandConsumerGroupCreate,
   ClusterCommandConsumerGroupDelete |-> ClusterCommandConsumerGroupDelete,
   ClusterCommandSegmentCreate |-> ClusterCommandSegmentCreate,
   ClusterCommandSegmentClose |-> ClusterCommandSegmentClose,
   ClusterCommandNodeUpdate |-> ClusterCommandNodeUpdate,
   ClusterCommandSegmentNodesUpdate |-> ClusterCommandSegmentNodesUpdate,
   ClusterCommandSegmentDelete |-> ClusterCommandSegmentDelete,
   ClusterCommandConsumerGroupOffsetCommitsUpdate |-> ClusterCommandConsumerGroupOffsetCommitsUpdate,
   ClusterCommand |-> ClusterCommand]
===============================================================================
