---------------------------- MODULE NodeMessages ----------------------------
(***************************************************************************)
(* The fields of the protobuf messages of one part of the system: what     *)
(* nodes send each other, node_rpc.pb.go and discovery_rpc.pb.go, and what *)
(* segments hold, segments.pb.go. A field is its number, its name and its  *)
(* kind, as the cases of the Unmarshal function of the message read it; a  *)
(* field that holds messages names their type. An enumeration is an int32, *)
(* a string is bytes, and time is time.Time or time.Duration, which travel *)
(* as google.protobuf messages.                                            *)
(***************************************************************************)

DebugRequest == <<>>

DebugResponse ==
  <<<<1, "ClusterState", "bytes">>, <<2, "Segments", "byteslist">>>>

ConsumerGroupWaitRequest ==
  <<<<1, "Namespace", "bytes">>, <<2, "Name", "bytes">>,
    <<99, "DoNotForward", "bool">>>>

ConsumerGroupWaitResponse == <<>>

SubscriptionResizeRequest ==
  <<<<1, "NodeID", "uint64">>, <<2, "SubscriptionID", "uint64">>,
    <<3, "Size_", "uint32">>, <<99, "DoNotForward", "bool">>>>

SubscriptionResizeResponse == <<>>

SegmentOpenRequest ==
  <<<<1, "NodeID", "uint64">>, <<2, "Type", "int32">>,
    <<3, "OwnerNamespace", "bytes">>, <<4, "OwnerName", "bytes">>,
    <<99, "LeaderOnly", "bool">>>>

SegmentOpenResponse ==
  <<<<1, "SegmentID", "uint64">>, <<2, "PrimaryNodeID", "uint64">>>>

SegmentCloseRequest ==
  <<<<1, "SegmentID", "uint64">>, <<2, "NodeID", "uint64">>,
    <<3, "Size_", "int64">>, <<4, "Sha1", "bytes">>,
    <<5, "OffsetCommitsUpdate", "pointer", "ClusterCommandConsumerGroupOffsetCommitsUpdate">>,
    <<99, "LeaderOnly", "bool">>>>

SegmentCloseResponse == <<>>

SegmentSumRequest ==
  <<<<1, "SegmentID", "uint64">>, <<2, "Size_", "int64">>>>

SegmentSumResponse ==
  <<<<1, "SegmentID", "uint64">>, <<2, "Size_", "int64">>,
    <<3, "Sha1", "bytes">>>>

SegmentReadRequest ==
  <<<<1, "SegmentID", "uint64">>, <<2, "Offset", "int64">>,
    <<3, "Wait", "bool">>>>

SegmentReadResponse ==
  <<<<1, "SegmentID", "uint64">>, <<2, "Data", "bytes">>,
    <<3, "Offset", "int64">>, <<4, "CommitOffset", "int64">>>>

Publishing ==
  <<<<1, "Message", "pointer", "Message">>, <<2, "Delta", "int64">>>>

DiscoveryTunnelledData ==
  <<<<1, "Data", "bytes">>>>

(* The messages of this part, by name. *)
NodeSchema ==
  [DebugRequest |-> DebugRequest,
   DebugResponse |-> DebugResponse,
   ConsumerGroupWaitRequest |-> ConsumerGroupWaitRequest,
   ConsumerGroupWaitResponse |-> ConsumerGroupWaitResponse,
   SubscriptionResizeRequest |-> SubscriptionResizeRequest,
   SubscriptionResizeResponse |-> SubscriptionResizeResponse,
   SegmentOpenRequest |-> SegmentOpenRequest,
   SegmentOpenResponse |-> SegmentOpenResponse,
   SegmentCloseRequest |-> SegmentCloseRequest,
   SegmentCloseResponse |-> SegmentCloseResponse,
   SegmentSumRequest |-> SegmentSumRequest,
   SegmentSumResponse |-> SegmentSumResponse,
   SegmentReadRequest |-> SegmentReadRequest,
   SegmentReadResponse |-> SegmentReadResponse,
   Publishing |-> Publishing,
   DiscoveryTunnelledData |-> DiscoveryTunnelledData]
===============================================================================
