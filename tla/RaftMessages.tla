---------------------------- MODULE RaftMessages ----------------------------
(***************************************************************************)
(* The fields of the protobuf messages of one part of the system: the Raft *)
(* RPCs, raft_rpc.pb.go. A field is its number, its name and its kind, as  *)
(* the cases of the Unmarshal function of the message read it; a field     *)
(* that holds messages names their type. An enumeration is an int32, a     *)
(* string is bytes, and time is time.Time or time.Duration, which travel   *)
(* as google.protobuf messages.                                            *)
(***************************************************************************)

AppendEntriesRequest ==
  <<<<1, "Term", "uint64">>, <<2, "Leader", "bytes">>,
    <<3, "PrevLogEntry", "uint64">>, <<4, "PrevLogTerm", "uint64">>,
    <<5, "Entries", "repeated", "AppendEntriesRequest_Entry">>,
    <<6, "LeaderCommitIndex", "uint64">>>>

AppendEntriesRequest_Entry ==
  <<<<1, "Index", "uint64">>, <<2, "Term", "uint64">>,
    <<3, "Type", "int32">>, <<4, "Data", "bytes">>>>

AppendEntriesResponse ==
  <<<<1, "Term", "uint64">>, <<2, "LastLog", "uint64">>,
    <<3, "Success", "bool">>, <<4, "NoRetryBackoff", "bool">>>>

RequestVoteRequest ==
  <<<<1, "Term", "uint64">>, <<2, "Candidate", "bytes">>,
    <<3, "LastLogIndex", "uint64">>, <<4, "LastLogTerm", "uint64">>>>

RequestVoteResponse ==
  <<<<1, "Term", "uint64">>, <<2, "Granted", "bool">>>>

InstallSnapshotRequest ==
  <<<<1, "Request", "oneof", "InstallSnapshotRequest_Request">>,
    <<2, "Data", "oneofbytes">>>>

InstallSnapshotRequest_Request ==
  <<<<1, "Term", "uint64">>, <<2, "Leader", "bytes">>,
    <<3, "LastLogIndex", "uint64">>, <<4, "LastLogTerm", "uint64">>,
    <<5, "Configuration", "bytes">>, <<6, "ConfigurationIndex", "uint64">>,
    <<7, "Size_", "int64">>>>

InstallSnapshotResponse ==
  <<<<1, "Term", "uint64">>, <<2, "Success", "bool">>>>

(* The messages of this part, by name. *)
RaftSchema ==
  [AppendEntriesRequest |-> AppendEntriesRequest,
   AppendEntriesRequest_Entry |-> AppendEntriesRequest_Entry,
   AppendEntriesResponse |-> AppendEntriesResponse,
   RequestVoteRequest |-> RequestVoteRequest,
   RequestVoteResponse |-> RequestVoteResponse,
   InstallSnapshotRequest |-> InstallSnapshotRequest,
   InstallSnapshotRequest_Request |-> InstallSnapshotRequest_Request,
   InstallSnapshotResponse |-> InstallSnapshotResponse]
===============================================================================
