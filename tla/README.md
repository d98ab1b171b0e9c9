# raftjs in TLA+

A verification project for raftjs, a partial implementation of Raft in
TypeScript: leader election, heartbeats, and the beginnings of log replication
(`README.md:18-21` lists replication as not included, but most of its code
runs). Paths below are relative to the repository's root.

## 1. The system

A cluster is a fixed set of server processes. Each is one Node.js event loop:
what one event runs (a message, a timer, a client request, a finished file
write) is never interrupted, except at an `await` of something that takes an
event of its own. Servers exchange four messages over TCP.

| Component | State | Operations | Talks to |
|---|---|---|---|
| Server (`src/server.ts`) | state object, term, vote, commit index, last applied | start, stop, handleRpcMessage, sendRpcMessage, transitionTo, setCurrentTerm, setVotedFor, setCommitIndexAndExecuteUnapplied | everything below |
| Follower (`src/state/follower.ts`) | leader id | enter/exit, the two requests, onTimeout | timer, log, server |
| Candidate (`src/state/candidate.ts`) | the votes received | enter/exit, startElection, vote responses, append-entries requests | timer, log, server |
| Leader (`src/state/leader.ts`) | nextIndex, matchIndex, the interval timer | enter/exit, execute, sendAppendEntries, append-entries responses | log, state machine, server |
| Log (`src/log/log.ts`) | the entries, from a sentinel of index 0 and term 0 | append, getters, slice, truncateAt, write (nothing) | |
| Election timer (`src/election-timer`) | running, listeners | on, off, start, stop, reset | calls the listeners of every state object that ever registered |
| Durable values (`src/storage/storage.ts`) | value, inSync, the file | readIfExistsElseSetAndWrite, setValue, write | the file system |
| RPC service, codec (`src/rpc`) | receivers | send, onReceive; encode, decode | transport |
| TCP transport, connection registry (`src/net/transport`) | sockets by endpoint | listen, connect/accept, send, close | Node's `net` |
| Observable state machine (`src/state-machine`) | listeners by command | execute, onceExecuted | the user's state machine |
| CLI, configuration, endpoints, logger | none that changes | parsing, wiring | |

What is hard here, and what should nevertheless be true:

* **Listeners leak.** `off` is given a function that was never registered
  (`follower.ts:59`, `candidate.ts:45`), so one timeout reaches the state objects
  of all earlier states and starts several elections. Yet the roles must follow
  one another legally and terms only grow.
* **Responses wait for files.** A response is computed, then two files are
  written, then it is sent and, if it grants a vote, the timer is reset; by then
  the server may be in any state and a later term. Yet no grant may be of a term
  the server stood in.
* **Writes overlap,** end in any order, fail, and mark later values as stored.
  Yet a restart must not find a term the server never reached.
* **Messages** are lost, overtake one another and outlive the term they are of.
* **Logs** are cut by the loop over the entries; candidates and leaders read the
  last entry, which may have gone.
* **Matching and committing** use the follower's commit index and the zeros that
  a `for..in` over an array leaves in `matchIndex`.
* **The apply loop** waits between two entries, so that its calls overlap, execute
  entries twice and set `lastApplied` back. Yet no entry is skipped, and no client
  answered twice.
* **Connections** are opened twice at once, the loser gets no handlers, a read is
  taken for one message, and socket errors end processes. Yet a message is
  received at most once and by whom it is for.
* **A file is not written in one step:** writes of one file overlap, fail half way,
  or are cut off, and an empty file reads as NaN.
* **stop() stops little:** writes, connects and responses go on after it, and a
  `start()` that has not ended does not notice it at all.

`PROJECT.json` lists these and the other hazards at their lines, with the
properties that cover each.

## 2. The modules

The cluster, one step per handler:

    Log ── RpcMessage ── ServerContext ─┬─ FollowerState ────────────────┬─ Raft
     │                                  └─ LeaderState ── CandidateState ┘    │
     └─ EntryLoop ── EntryLoopProofs                                          │
                           ServerLifecycle (abstract) ──── RaftProperties ────┤
                                                              │               │
                                          MCRaft (TLC) ───────┴── RaftLemmas ─┴─ RaftProofs ── ElectionProofs ── LogProofs

and what it takes for granted, each from closer by:

    DurableValue (INSTANCE) ─┐
    ElectionTimer ─── ServerProcess ── ProcessProperties (refines ServerLifecycle) ── ProcessProofs
    TcpTransport ── TransportProperties (refines Network) ── TransportProofs
    ApplyLoop ── ApplyProofs

* **Log**: the log as a sequence; entries[i] of the code is element i+1. `Slice`
  has JavaScript's rule for NaN and negative starts. `StoreEntries` is what the
  receiver's loop over the entries computes.
* **EntryLoop**: that loop one iteration a step, proved to compute
  `StoreEntries`, so that the handler's action can use the operator.
* **RpcMessage**: the four messages as they are after the codec: `candidateId` is
  never written (`flatbuffers.ts:287-294`) and decodes to null. The log
  fields of a vote request are written by nobody and read by nobody.
* **ServerContext**: all variables, and what the three states share. `AdoptTerm`
  is the first half of `Server.handleRpcMessage`, `BecomeFollower` is
  `transitionTo`, `Respond` is `sendRpcMessage` of a response up to its first wait,
  `WriteDone` and `WriteFails` the rest of it, `Start` and `Crash` the process's
  life.
* **FollowerState, LeaderState, CandidateState**: one action per handler, each
  including what `Server.handleRpcMessage` did before it. `Timeout` is one
  timeout of the timer with all the listeners it reaches.
* **Raft**: messages no state handles, `Receive`, `Next`, `Spec` and the fairness.
* **ServerLifecycle**: the abstract specification of one server's role, term and
  vote.
* **RaftProperties**: the properties.
* **MCRaft**: Raft with bounds, for TLC. A run sweeps instances: the set `Instances` is a
  constant of the run, and each initial state belongs to one of them (`instance`).
* **DurableValue**: `storage.ts` with one `fs.writeFile` in steps: open, which
  empties the file; the text from position 0; the callback. `ops` are the writes under
  way.
* **ElectionTimer**: the timer with its listeners in order and the one being
  called.
* **ServerProcess**: one server from the inside, with the other servers as the messages
  they may send. `Boot` and `Stop` are the start command's handler and its signals
  (`handler.ts:9-21`); `AccessDone`, `ReadDone`, `ReadFails` and the callback of a write by
  caller 0 are `start()` wait by wait; `responses` are those that `sendRpcMessage` holds
  up, for the term's write, the vote's, or the socket; `Timeout` and `Visit` are one
  timeout listener by listener, in one event (`Idle` keeps all others out).
* **ProcessProperties**: its properties, and the refinement of ServerLifecycle.
* **Network**: the abstract specification of a transport: lossy, unordered, each
  message received at most once, a reply only by the process that asked.
* **TcpTransport**: sockets end by end in all processes: `Connected` and `Accepted` are the
  two callers of `accept()`, `Data`, `EndOfStream`, `Reset` and `ResetOfAccepted` the
  events of a socket, `SendRequest` and `SendReply` are `send()`, `Stop` is
  `Server.stop()` with `close()`. The kernel (FIN, RST, data at a closed end) is external
  and modelled as Node's sockets show it.
* **TransportProperties**: its properties, and the refinement of Network.
* **ApplyLoop**: `setCommitIndexAndExecuteUnapplied`, one step from one wait to the next,
  with its two callers (`LeaderCommits` only raises the commit index, `FollowerCommits`
  may lower it) and the observable state machine's listeners; properties included.
* **RaftLemmas, RaftProofs, ElectionProofs, LogProofs, EntryLoopProofs, ApplyProofs,
  ProcessProofs, TransportProofs**: theorems, see section 6.

How the close views support the cluster's: `ProcessImplementsLifecycle` shows that the
promise Raft is proved to keep survives listeners, file steps and `stop()`;
`TimeoutRunsElections` that the terms Raft's `Timeout` gives are those of the visit;
`TermFileNotFarAhead` when a crash leaves what Raft's `Crash` leaves, and when it
does not; `ImplementsNetwork` that `Send` and `Deliverable` of Raft lose and reorder
all that sockets do. These are checked and proved of the close views, and argued, not
checked, for the two together.

Correspondence of the state: `role`, `currentTerm`, `votedFor`, `leaderId`,
`commitIndex`, `log`, `matchIndex`, `nextIndex`, `serverVotes` and `inSync` are the
fields of those names (`role` is the type of the state object, `"down"` before
`start()` has ended). `timer` is `ElectionTimer.running`. `candidates` counts the
candidate objects made, each still a listener of the timer. `disk` is what the two
files hold. `pending` is the bag of `fs.writeFile` calls under way, each with the
response whose sending awaits it. `messages` is the bag of messages that will
arrive; `boot` numbers a server's processes, since a connection ends with either.

One timeout, with k candidate objects made so far: the oldest listener is a
follower's. If the server is not a candidate it makes a new candidate object
whose `enter` starts an election; then the k old objects each start one, and the
new object, added to the set while it is visited, starts another: k+2 elections
and terms. If the server is a candidate already, its k objects start one each. The
votes that count are those of the newest object, which is visited last.

A message's loss is decided when it is sent: `Send` puts any subset of a batch
in flight. That covers refused connections, a peer that dies, the second of two
messages in one read (`tcp.ts:47-51`), and replies to a socket that `accept`
never gave a handler (`tcp.ts:37`). Messages in flight are unordered because two
sends before the first connection is up use two sockets. Nothing duplicates
messages: TCP does not, and nothing in the code retries (`ImplementsNetwork`).

Assumed in Raft: at least two servers; ids that are not array positions ("0", "1", ...),
which would give `matchIndex` real entries; hosts given as IP literals, so that
`remoteAddress` equals the configured host; `matchIndex` values below ten, since
`sort()` compares them as strings (they are proved to be 0); terms and indices
below 2^32, the width of the codec's fields; a connect that does not outlast its
peer's restart; files that hold the old or the new term after a crash, which leaves
out writes of different width that overlap, failures half way, and files emptied by a
crash (ServerProcess has all three).

Assumed in TcpTransport: hosts given as IPv4 literals (an IPv6 host has colons, on
which `parseEndpoint` throws in `close()`); `remoteAddress` is still defined when `accept`
reads it; nobody listens on a peer's ephemeral ports; messages arrive whole; an
error thrown from a callback or emitted without a handler ends the process, which is
Node's rule. A server does not call itself (`getServerIds`).

Assumed in ServerProcess: the rejection of a promise that nobody handles only warns,
as in the oldest version of Node that package.json allows (from version 15 it
ends the process, one more `Crash`); `listen()` calls back before anything else happens;
the text "NaN", which a poisoned server writes, is one character that is no digit.
A step that changes nothing, like a vote that is not counted, is not taken.

## 3. What the runs check

| Run | Instance | Checks |
|---|---|---|
| cluster | four, in one sweep. Elections: 3 servers, terms to 3, 2 messages in flight, 1 write under way. Restarts: 2 servers, 2 processes each, terms to 3, 2 overlapping writes that may fail. Replication: 2 servers, 1 command, terms to 5, logs of sentinel + 2. Emptying: 2 servers, 1 command, terms to 6, logs of sentinel + 1, 1 message in flight | `TypeOK`, `NoGrantAfterStanding`, `ElectionTimerArmed`, `TermFileNotAhead`, `NoMessageAheadOfItsSender`, `LogWellFormed`, `NothingCommitted`, `LogGrowsOnlyAtLeader`, `EmptiedServersOnlyFollow`, refinement `ImplementsLifecycle` |
| liveness | 2 servers, terms to 4 | `LeaderTermSpreads` |
| entry_loop | all pairs of logs of up to 4 entries, terms to 3, slices from -3 to 4 and NaN | `LoopStoresEntries` |
| transport | 2 servers, 3 connections, 3 requests in either direction, 2 processes each, one ended or stopped from outside | `TransportTypeOK`, `RegistryHoldsHandledSockets`, `NothingElseIsLostInPeace`, `ProcessesSurviveInPeace`, `CountCoversRegistry`, `StoppedServesNobody`, `ClosureIsNoticed`, refinement `ImplementsNetwork` |
| apply | 2 entries, 3 calls, 3 buffers | `ApplyTypeOK`, `AppliedWasExecuted`, `ExecutedInOrder`, `NoCallGoesBack`, `AnsweredOnce`, `CatchesUp`, `ClientsAreAnswered` |
| process | 1 server in 2 processes, terms to 5 in base 3, 2 responses held up, 4 listeners | `ProcessTypeOK`, `StopIsFinal`, `TimersFollowRole`, `TermFileNotFarAhead`, `QuietFileHoldsTerm`, `TimeoutRunsElections`, `PoisonedForever`, refinement `ProcessImplementsLifecycle` |
| election_safety, term_per_election, persist_before_responding, sentinel_kept, last_applied, empty_file | as small as shows it | each violates one statement of a comment in the code |

`ImplementsLifecycle` is the refinement of `ServerLifecycle`: whatever arrives and
however many listeners run, a server's terms only grow, it becomes a candidate
only by entering a new term with a vote for itself, only a candidate wins or
yields, and its vote is never another server.

The six violated statements, found while modelling and listed under "findings". The code
lets two servers lead one term, since the follower never records the vote it grants
(and stale grants count). One timeout raises the term by two or more. A response can
leave before its term is stored. The follower's log can lose its sentinel.
`lastApplied`, which "increases monotonically" (`server.ts:195`), goes back; so may the
commit index, since the follower compares `leaderCommit` with it and passes on the
smaller of `leaderCommit` and its last new entry. A term's file that a crash left empty is
read as NaN, where the comments promise null (`storage.ts:104-107`) or the default
(`storage.ts:38-40`). These are the places where the checked properties stop: they
state what holds in spite of them.

`LoopStoresEntries` is a statement about the loop, not about its comments. These say that
a conflicting entry is deleted with all that follow it and that new entries are then
appended (`follower.ts:127-136`). The code compares each entry with the last term of the
log, not with the entry at its place, and after a cut appends nothing, since the entries
to come no longer connect. `SentinelKept` is violated by both together, and both lines are
listed as findings under it. What a follower is after such a cut of its whole log,
`EmptiedServersOnlyFollow` says: it follows with an empty log, and its next timeout
ends the process (`candidate.ts:125` throws once the server is a candidate and its
term one higher, which `TimeoutWithoutLog` is).

What the three closer runs show. **transport**: a request is lost, while all
processes run, only in a read that took several; a reply also in a socket that lost
the race of two connects; and no exception of the sockets ends a process unless
another process ended or stopped first. When one does, others can go with it: an
accepted socket has no error handler, and a registered socket that was reset is
written to (`tcp.ts:113`, `tcp.ts:154`). The runs do not claim that they survive. **apply**: with any overlap
of calls `lastApplied` may go down (`server.ts:159`) and entries are executed twice, but
none is skipped or executed beyond the highest commit index there ever was, and
`lastApplied` comes to the commit index again and again. Two clients share no buffer. **process**: a stop that leaves no timer is final; two ways
in which `stop()` does not stop are left open by the properties, because the code has
them: a leader's `exit()` does not stop a timer that a late grant had started, and a
signal before `start()` has ended leaves a server that enters the cluster all the same. A
term's file emptied by a crash poisons the server for good. Overlapping writes of terms of
different width can leave a term that no server was in, of no more digits than the
highest; unless such writes overlapped or one failed, the file is empty, holds the text
"NaN", or holds a number up to the highest term.

Bounds (the fields of MCRaft's instances; a step that would exceed one is not taken).
Terms to 3 hold two rounds of elections of several listeners. Terms to 5 in Replication
hold the two leaders of different terms that conflicting logs take (terms 2 and 3) and
the elections after it; Emptying needs term 6, since the follower whose log they emptied
has stood before and its next timeout runs three elections: with terms to 5 a server that stood
without a log would go unnoticed. Two messages in flight suffice for reordering, for a
stale message next to a new one, and, with the bag, for equal ones; two overlapping
writes suffice for writes of one file that end in the wrong order. Two processes per
server give one restart each. `countdown` bounds how far a leader counts
`nextIndex` below zero. With two servers Replication has one follower;
a second adds no interaction to it, since nothing a follower answers is ever used
for another one (`NothingCommitted`, which is proved for any number). Symmetry in the
servers is sound: no definition chooses among them, and the run with a liveness
property does not use it. All instances of the cluster run have the same three servers, of
which those with two start only two; a peer that never starts is one that cannot be
reached. The violation runs and the liveness run are single instances of the same kind.

In the transport run three connections are two that race and the one that a restart or
a second direction adds; three requests are two in one read and one in the other
direction or after a restart; one departure reaches every exception a socket can raise.
In the process run base 3 makes 3 the first term of two digits, so that terms to 5 have
both widths, where base ten would need terms to 10; two responses are the least that
overlap; four listeners are two followers' and two candidates'; two processes are one
restart. In the apply run three calls let two overlap and a third start in between; two
entries are one that is being applied and one that is skipped, repeated or cut.

`CHECK_DEADLOCK FALSE` everywhere: at the bounds, and when all processes are dead,
the model stops; the code's servers may be stopped too.

## 4. Fairness

`FairSpec` assumes that a message that has arrived is handled and a file write
ends (WF: the event loop gets to them), that the 10 ms interval of a leader keeps
firing and that not every heartbeat to a peer is lost (WF of `HeartbeatArrives`), and
that a heartbeat of the leader's present term, in flight again and again, is at some
time the one that is handled (SF of `ReceiveHeartbeat`: messages in flight are
unordered, but no sockets starve each other). It assumes nothing of timeouts,
clients or crashes: that a leader is ever elected is not claimed and, with
listeners that leak, would depend on the timeouts drawn.

The transport's `FairSpec` assumes that the event loop gets to the events of each
connection (WF of `SocketEvent`); nothing is assumed of sends, exits or restarts. The
apply loop's assumes that each execution ends, well or not (WF per call and entry):
the user's state machine answers. The process run has no fairness: that a response held up
is ever sent needs strong fairness for callbacks that timeouts keep out, and is not
claimed.

## 5. Mutants

Each property of a passing run has a mutant (an operator just before the one it
stands for, marked "Mutant") that breaks it the way a slip in the code
would: a vote granted whatever the vote already given, a timer stopped and not
started, a term adopted without forgetting the vote, an index off by one, a socket
destroyed but not removed, a listener dropped before it is told, a text appended to a
file where it should replace it.

## 6. What is proved

Of the cluster, for every finite set of at least two servers, any commands, unbounded
terms, restarts, messages and writes (TLAPS; assumptions `LogAssumption`,
`ServerAssumption`, `ClusterAssumption`, which say that the model values are
distinct and the servers finite in number and at least two):

* **RaftProofs** proves `TypeOK` and `NothingCommitted` (`TypeCorrect`,
  `NothingIsCommitted`) from one inductive invariant, `IInv`; neither is inductive. That
  nothing is committed needs what is in flight: no request names a commit index above 0
  and no response, sent or held up, reports one (`ReportsNoCommit`), and a leader's match
  indices are 0 or unknown; then the median is one of zeros (`MedianOfZeros`), the
  leader's commit index stays 0, its next request says so, and the follower's
  next answer. The types need one more part, `StanderHasLog`, that candidates and leaders
  have an entry, since the last term of an empty log is no term. It says what is
  true between two events of a server that still runs, not that an election on an empty log
  succeeds: that election throws, and `TimeoutWithoutLog` ends the process.
* **ElectionProofs** adds `ElectionInv` and proves `ElectionTimerArmed`,
  `NoMessageAheadOfItsSender`, `NoGrantAfterStanding` and `ImplementsLifecycle`
  (`WaitersHaveTimers`, `SendersReachTheirTerms`, `StandersGrantNothing`,
  `ServersKeepTheirPromise`). Its parts: `RoleInv` (a candidate has made a
  candidate object, or its timeout would raise no term; who is down has neither
  vote nor timer), `WritesOfUp` (a file write under way belongs to a process that
  runs, or its end would start the timer of a dead server) and `SentInv` (what a
  living process has on its way is of a term up to its own, and of an earlier one
  if it is a grant and the process has since voted for itself). The argument has
  three steps. Every action is shown to move at most one server, by a step of
  `ServerLifecycle` (`Moves`). A server that makes such a step keeps what is
  known of earlier messages true, because it keeps its term and vote, or goes to a
  later term, or is gone (`EarlierStayBounded`). So only the new messages of
  each action are left to look at (`Adds`, `StepKeepsElectionInv`), and these are of
  the sender's term, and a grant only from a server without a vote: the codec
  drops `candidateId`, so that a recorded vote never equals it. The refinement is
  the `Moves` of each step. What the promise comes to for votes, that who stands or leads
  voted for itself and nobody's vote is another server, follows by induction over the steps
  of ServerLifecycle (`OwnVotesOnly`).
* **LogProofs** adds `LogsInv` and proves `LogWellFormed`, `TermFileNotAhead` and
  `LogGrowsOnlyAtLeader` (`LogsAreWellFormed`, `TermFilesStayBehind`,
  `LogsGrowOnlyAtLeaders`), and `EmptiedServersOnlyFollow` (`EmptiedServersFollow`). That a follower's log never grows is not a fact of the
  receiver's loop, which does append, but of what can be in flight: a leader sends the slice
  of its log from `nextIndex` on, and names as the previous entry one that comes no
  earlier (`RequestsHoldNothingNew`), so that whoever finds that entry has all the
  others, and a log is only ever cut. `LogWellFormed` needs that a server which
  is down has only the sentinel, and `TermFileNotAhead` that no write under way is of a
  term the server has not reached (`TermWritesNotAhead`): writes may end in any order,
  or fail. An emptied server keeps following because every step moves a log in one of the ways
  of `LogsMove` and none of them makes an empty log longer (`EmptyLogStays`), while who
  stands or leads has an entry after the step.

Of the closer views, each by itself:

* **EntryLoopProofs** proves that the loop computes `StoreEntries`
  (`LoopComputesStoreEntries`), for logs and slices of any length (assumption `LengthsAssumption`: the bounds are natural numbers). The
  invariant says the same of the entries visited so far. One iteration is the step
  from the first p entries to the first p+1 (`OneMoreEntry`): the first conflicting one and the
  first that follows the log stay the first, and the indices of a message's entries,
  which are consecutive, rule out a second cut. The least element of a set of numbers,
  which `StoreEntries` takes, exists by well-founded induction.
* **ApplyProofs** proves the invariants of the apply loop (`ApplyTypes`,
  `EntriesApplied`, `EntriesInOrder`, `CallsGoForward`, `OneAnswer`) for any number of
  entries, calls and buffers (assumption `BoundAssumption`: the bounds are natural
  numbers), with a commit index that its callers raise and lower. Their conjunction lacks
  one thing to be inductive, `CallInv`: the commit index is at most the highest there was,
  and all entries before the one a call waits for have been executed. When the call then sets
  `lastApplied`, up or down, everything up to it has been executed, and the next entry
  is the one that follows an executed one.
* **TransportProofs** proves all safety properties of the transport and the refinement of
  Network (`TransportTypes`, `HandledSocketsAreRegistered`, `CountIsAnUpperBound`,
  `NoProcessDiesInPeace`, `LossesInPeaceAreKnown`, `StoppedProcessesServeNobody`,
  `TransportIsNetwork`), for any servers, connections, requests, processes and
  departures (assumption `BoundsAssumption`: the bounds are natural numbers). The
  invariant has two halves. `SocketsInv` says where a socket is: a socket with handlers is
  registered under its peer's endpoint and a registered one has handlers or was reset
  (`RegistryInv`); the count lies between the number of sockets registered and the number of
  those that ever were (`CountInv`); and while nobody has departed no end is
  closed and none was told to close (`PeaceInv`), which is why no write fails and no
  process dies. `MessagesInv` says where a message is: on its way in one queue at one
  place, sent and not received (`QueuesInv`); a reply that is owed is owed once, by a
  process that received the request and to the one that asked (`RepliesInv`); and in
  peace a message is on its way, received, or was merged into the one before
  (`LossInv`). `NothingElseIsLostInPeace` follows from the last; each step of the refinement
  from what the message taken from a queue is known to be.
* **ProcessProofs** proves every property of ServerProcess, for any number of
  responses, listeners, terms and processes and every radix (assumptions
  `SlotsAssumption`: start() writes as a caller of its own; `RadixAssumption`: at least two
  digits; `ValuesAssumption`: Null and NaN are no numbers and no file is not an empty
  one). The parts of the invariant, and what needs them:
  * `IInv`, for `StopIsFinal` and `TimersFollowRole` (`StoppedForGood`,
    `TimersAndRoles`). `TimersFollowRole` is not inductive because of the visit: a
    follower's listener makes a candidate whose timer is started only later in the same
    event. `VisitInv` says that the first listener is a follower's, that only it may find
    someone who is not a candidate, and that a candidate without a running timer still
    has a candidate's listener ahead. `StopIsFinal` needs that every response held up at
    the stop is lost (`SilentInv`), hence which write belongs to which response
    (`CallersInv`) and that no write of `start()` is left once it has ended
    (`PhaseInv`).
  * `TermInv` adds the values, and what a process has read or set by which phase: types
    (`ProcessTypes`). All actions are first shown to do one of a few things to the term,
    its file and its writes (`TermStep`); the invariants that follow look only at these.
  * The text of a term. `DigitsOf` and `NumberOf` are recursive functions; that they
    have the values their equations say, and that parsing undoes formatting
    (`NumberOfDigits`), is proved by induction over sets of numbers, from the least element of
    a set that is not empty. A later term has no fewer digits (`LaterTermsAreNoShorter`).
  * `FileInv` and `OrderedInv`, for `TermFileNotFarAhead` (`FileStaysBehind`): no text under
    way has more digits than the highest term, and an overlay no more than the
    longer of the two; while all writes have one width, a write that is about to put its
    text finds an empty file or one of its own width, and replaces it as a whole.
  * `QuietInv`, for `QuietFileHoldsTerm` (`InSyncIsInTheFile`): the one write under way is
    of the current term, finds the file empty, and has left its text when it calls back.
  * `PoisonedForever` (`PoisonIsForGood`) needs that whoever has read NaN writes nothing
    else; its text's first character stops every later parse.
  * `TargetInv`, for `TimeoutRunsElections` (`TimeoutsRunTheirElections`): the term a timeout
    is to end with is the current one, plus the candidates' listeners still to come,
    plus two if the server has yet to become a candidate.
  * `ProcessImplementsLifecycle` (`ProcessIsLifecycle`): each step of a server in the
    cluster is shown to be one of `Adopts`, `Stands`, `Wins`, `Yields`, the end of the
    process, or to leave role, term and vote alone; out of `start()` a server comes as a
    follower without a vote.

Every safety invariant, action property and refinement that a passing run checks is
proved. Only model-checked are the four liveness properties, `LeaderTermSpreads`,
`ClosureIsNoticed`, `CatchesUp` and `ClientsAreAnswered`: they hold under fairness, which is
outside the prover's reach. So are the six statements that the code violates, which a
counterexample settles.

## 7. Not modelled, and the plan

Not modelled: the configuration parser, the logger, the build scripts, parsing of
endpoints: no state, or none of the program's. The flatbuffers byte layout and its
generated code are external; so is what decoding makes of half a message. The vote's
file is written and never read, so that its text is left out. Durations: a running
timer may elapse at any time and an interval fire at any time.

Terms and indices are integers of any size; the code's are doubles, exact up to 2^53 and
written without an exponent up to 10^21. The theorems on a term's text hold of the code
up to the first of the two.

All twelve runs are used, and what they check of safety is proved. What is left:

1. Between the views: that a term file which `FileStaysBehind` describes is one of those
   Raft's `Crash` may leave, as long as writes do not overlap in width and none is cut off,
   is argued and not stated in one module.
2. More of the start command (`handler.ts`) and of the endpoints' parsing, if the code there
   comes to keep state.
