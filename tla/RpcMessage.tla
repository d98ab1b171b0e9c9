----------------------------- MODULE RpcMessage -----------------------------
(***************************************************************************)
(* The four messages of src/rpc/message, as they come out of the codec at   *)
(* the receiver (src/rpc/codec/flatbuffers).  A message travels between two *)
(* processes: a server and the number of its boot, because a TCP connection *)
(* does not outlive either end of it and a reply uses the connection the    *)
(* request came on (src/net/transport/tcp/tcp.ts:41-53, 93-96).             *)
(***************************************************************************)
EXTENDS Log

CONSTANTS Server,
          Null      \* the null of votedFor, leaderId and of a field never encoded

ASSUME ServerAssumption == Null \notin Server \cup Nat

Process == [server : Server, boot : Nat]

(* encodeRequestVoteArguments writes the term and nothing else: candidateId *)
(* decodes to null, and the log fields, which no handler reads, to 0.       *)
EncodeThenDecode(request) == [request EXCEPT !.candidateId = Null]

RequestVoteRequest(from, to, term) ==
  EncodeThenDecode([type |-> "RequestVoteRequest", from |-> from, to |-> to,
                    term |-> term, candidateId |-> from.server])

RequestVoteResponse(from, to, term, granted) ==
  [type |-> "RequestVoteResponse", from |-> from, to |-> to, term |-> term,
   voteGranted |-> granted]

AppendEntriesRequest(from, to, term, commit, prevIndex, prevTerm, entries) ==
  [type |-> "AppendEntriesRequest", from |-> from, to |-> to, term |-> term,
   leaderId |-> from.server, leaderCommit |-> commit,
   prevLogIndex |-> prevIndex, prevLogTerm |-> prevTerm, entries |-> entries]

AppendEntriesResponse(from, to, term, commit, success) ==
  [type |-> "AppendEntriesResponse", from |-> from, to |-> to, term |-> term,
   followerId |-> from.server, followerCommit |-> commit, success |-> success]

RequestVoteRequests ==
  [type : {"RequestVoteRequest"}, from : Process, to : Process, term : Nat,
   candidateId : {Null}]

RequestVoteResponses ==
  [type : {"RequestVoteResponse"}, from : Process, to : Process, term : Nat,
   voteGranted : BOOLEAN]

AppendEntriesRequests ==
  [type : {"AppendEntriesRequest"}, from : Process, to : Process, term : Nat,
   leaderId : Server, leaderCommit : Nat, prevLogIndex : Nat,
   prevLogTerm : Nat, entries : Seq(LogEntry)]

AppendEntriesResponses ==
  [type : {"AppendEntriesResponse"}, from : Process, to : Process, term : Nat,
   followerId : Server, followerCommit : Nat, success : BOOLEAN]

IsResponse(m) == m.type \in {"RequestVoteResponse", "AppendEntriesResponse"}

Responses == RequestVoteResponses \cup AppendEntriesResponses
Message == RequestVoteRequests \cup AppendEntriesRequests \cup Responses
=============================================================================
