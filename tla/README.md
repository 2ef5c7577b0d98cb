# TLA+ models of SHIEP-Pipeline-Plus

SHIEP-Pipeline-Plus is a user-space VPN client. It logs in to an EasyConnect
gateway, keeps a TLS tunnel of three streams to it, runs a TCP/IP stack
(smoltcp) on top of the tunnel, and serves local programs as a SOCKS5 proxy
that decides for every request whether it goes through the tunnel. This
directory holds TLA+ models of the parts whose behaviour depends on threads,
time and order, TLC configurations that check them on small instances, and
proofs of some of their properties for every instance.

Paths below are relative to `src/crates/ec-core/src/` unless they start with
`src/`.

## 1. Inventory

| Component | Source | State | Operations | Talks to |
|---|---|---|---|---|
| Application start-up | `app.rs`, `ec-cli/src/main.rs` | configuration, session id, route mode | log in, install the route table (or fall back to "everything through the tunnel"), take a token, start the tunnel, start the netstack, serve; exit 1 on an error, 2 on a bad command line | everything, once each, by calls |
| Login, token, TLS | `auth.rs`, `token.rs`, `tls.rs`, `transport.rs`, `protocol_session.rs` | none after the call | a fixed sequence of HTTP requests and TLS set-up | gateway |
| Tunnel runtime | `protocol.rs`, `protocol_wire.rs` | the streams, retry and failure counters, the queue of packets to send, the global fatal reason | open command, RX and TX streams; RX worker, TX worker with heartbeat, command heartbeat; reopen a lost data stream; report a fatal reason; wait for it | gateway by TLS; netstack by two channels; main thread by mutex and condition variable |
| Netstack | `netstack.rs`, `netstack_device.rs` | smoltcp's socket set, connection and association tables, next id, next local port, the control channel | open, send, close (TCP and UDP), tunnel packet in; pump pending data, pump received data, finish entries | SOCKS threads by the control channel, reply channels and one uplink channel per handle; tunnel runtime |
| SOCKS front end | `socks.rs` | one thread per client, two or three per relay | handshake, decide a route, CONNECT by tunnel, proxy or directly, UDP ASSOCIATE | routing, netstack, fallback proxy |
| SOCKS wire format | `socks_wire.rs` | none | parse and write requests, replies, UDP headers | client |
| Fallback proxy client | `socks_proxy.rs` | none | SOCKS5 handshake as a client | upstream proxy |
| Routing | `routing.rs` | the global `ROUTER` (mutex): no table, everything by tunnel, or a compiled table with its index | install; plan a route in six stages | SOCKS threads by calls; DNS resolver |
| DNS resolver | `dns_resolver.rs` | two caches with expiry (mutex each), query id | ask servers in turn over UDP, then TCP | DNS servers of the table |
| Route table download | `route_table.rs` | none | one HTTP request whose answer is cut when it stalls, parse the XML, pair hosts with ports | gateway |
| Configuration | `config.rs`, `endpoint.rs` | `remembered.json`, shared by all processes started in a directory | read the command line and the file, save what was resolved, validate | start-up |
| Output and errors | `output.rs`, `error.rs`, `lib.rs` | console settings | format and print | everybody |

What is hard, and what makes each part correct:

* **Fatal-reason latch** (in the tunnel runtime). Workers write a global
  `Option<String>` under a mutex and notify a condition variable; the main
  thread sleeps on it. No wake-up may be lost, the first reason must survive,
  and `serve` may return for no other reason.
* **Tunnel runtime.** Three threads and two of their streams are reopened when
  they break; the third one's failure ends the process. A worker must never be
  gone while the process goes on serving; a packet whose write failed is
  written again on the new stream, and must neither be reordered nor repeated;
  reopening must end; a busy netstack must not keep the heartbeat from being
  sent, and a server that vanished must be noticed.
* **Netstack.** One thread multiplexes all connections; between its turns
  clients open, send, close, give up waiting and go away, and the peer
  acknowledges, sends, finishes and resets. An upload must keep its order
  through partial writes; received data must not be lost when a connection
  ends; a close must have a cause in the life of that very connection; ids and
  ports must not be confused; a turn must not leave work undone, because the
  thread then sleeps until something unrelated happens.
* **Routing and DNS.** A whole plan, network queries included, is made under one
  mutex. The plan must follow from the first rule that matches, nothing may be
  sent through the tunnel without a reason, names that a rule decides must not
  reach the system's resolver while they are planned, cached answers must be
  fresh, and every request must get its plan. The rule index must agree with the rule list.
* **SOCKS sessions.** Two streams, each with a handshake in front of its data,
  whose other ends may send early, stop or reset at any time; a handler and two
  pump threads between them. No byte of a handshake may become data or the
  reverse, a reply must say what the code knows when it writes it, the end of a stream must be
  passed on after all of its data, a session must end when its sides do, and a
  tunnel connection must not be left behind.
* **UDP relays.** Three threads share a socket and an association; stop message,
  wake-up datagram and ends race. One client is served, and all threads end.
* **Command stream.** Replies that come late, in pieces or joined are read by a
  later round than the one that asked. A server that answers must not be given
  up, and one that has stopped must be noticed.
* **Start-up.** A process may be killed between any two steps and shares its file
  of remembered values with others; the session id may change during the login;
  the route table may come cut or broken. Values, session, token and routes in use
  must belong together, and every start must end.

`PROJECT.json` lists every hazard at the line where it bites, with the
properties that would catch it going wrong or the reason why none does.

## 2. Modules

| Module | What it is |
|---|---|
| `FailStop` | Contract of the process: workers may die, the process serves until a cause is known and then exits with it. |
| `FatalLatch` | The latch with the mutex and the condition variable explicit; implements `FailStop`. |
| `TunnelRuntime` | Start-up, the three workers, reconnection, heartbeats; implements `FailStop`. |
| `Netstack` | The control loop, its tables and its clients, over an external model of smoltcp and the peer. |
| `RouteRules` | What a compiled rule is and when it matches (no state). |
| `RouteIndex` | Compiling, deduplicating and indexing a rule list; `find_first_match`. |
| `RoutePlanner` | Threads that plan routes under `ROUTER`, with DNS caches and queries; finds rules with `RouteRules!FirstMatch`, which `RouteIndex` shows the index computes. |
| `CommandStream` | The command stream in units of its replies: the opening exchange and the heartbeat. |
| `Pipe` | Contract of one direction of a relayed connection. |
| `TunnelHandle` | Contract of one handle of the tunnel, between the SOCKS threads that hold it and the netstack. |
| `SocksSession` | One SOCKS client from accept to the end of its threads; both directions implement `Pipe`. |
| `UdpRelay` | The three threads of one UDP ASSOCIATE, its client, a stranger and its netstack association. |
| `RouteInput` | What becomes of the elements of a downloaded table and of `--extra` entries (no state). |
| `AppStartup` | Start after start of the program, from the command line to serving, with a second process beside it. |
| `TunnelRuntime_proofs`, `Netstack_proofs`, `RouteIndex_proofs`, `RoutePlanner_proofs`, `SocksSession_proofs`, `UdpRelay_proofs`, `AppStartup_proofs` | Theorems and proofs about the module of that name. |
| `TunnelDetails_proofs` | The same for `FatalLatch` and `CommandStream`, the two details of the tunnel that have a module of their own. |
| `MC*` | Values of constants and symmetry sets for TLC. |

The models meet at interfaces that the code has too. `FatalLatch` and
`TunnelRuntime` describe the same global from two sides: the first one every
preemption point of its mutex, the second one what the workers do between
reports, with a report as one step; both implement `FailStop`, which is why the
second may take it as one step. `TunnelRuntime` and `Netstack` meet in the two
packet channels: each treats the other as an environment that may send at any
time. `UdpRelay` and `Netstack` meet in one association: the relay is the UDP
client of `Netstack` (send, `CloseUdp`, receiver dropped after the close), and
`Netstack`'s removal of an association, asked for or not, is one step of
`UdpRelay`. `SocksSession` is likewise the TCP client of `Netstack`. The session
counts on the netstack's answer to its request, which comes while the socket is in
SYN-SENT, and on nothing else: that a closed connection is removed, or waits for
its peer alone, is `CloseEndsConnection`, and the peer may keep it for ever. What the three owe one another over one handle is
`TunnelHandle`: send and close only while it is held, close at most once; the
netstack ends it at most once, for good, and delivers nothing afterwards. Each of the three is
proved to stay within it (`NetstackKeepsHandle`, `SessionKeepsHandle`,
`RelayKeepsHandle`), in the environment its own module has; that those
environments together allow all that the contract allows is not proved.
`CommandStream` opens up the one step that a round
of the command heartbeat is in `TunnelRuntime`. `AppStartup` has the tunnel's
start and the serving as single steps; `TunnelRuntime` and `SocksSession` are
what is inside.

### FatalLatch (`protocol.rs` 270-280, 289-335, 388-444)

`lock` is the holder of `TUNNEL_FATAL_STATE`; `reason` is its content; a
thread between its `lock()` and the drop of its guard has its own program
counter, so the main thread can be preempted between its look at the reason
and its wait. `notify_all` while the recording worker still holds the mutex,
the wait's release of the mutex, and the spurious wake-up that
`Condvar::wait` documents are actions of their own. Ends of workers are any
worker at any time.

### TunnelRuntime (`protocol.rs`, `protocol_wire.rs`)

`main` walks through the start-up of `app.rs` in order; opening a data stream
is `OpenAttempt` with the retry limit of `StreamOpenRetry`, where one attempt
gets any reply of `Replies`, and `ExpectedAck` and `Terminal` are what the code
makes of it (`classify_stream_ack_reply`, `is_terminal_stream_control`). Each
of the three streams is up, closed in a way the reader sees, or silently gone.
`RxClosed`, `RxUnexpectedControl` and `RxReopen` are `rx_worker_loop`;
`HeartbeatTick`, `TxTake`, `TxWrite`, `TxWriteFails`, `TxReopen` and `TxRewrite`
are `tx_worker_loop` and the packet in its hands; `CommandHeartbeat` is one round
of the command heartbeat with its limit of failed rounds. Packets are numbers in
the order the netstack sent them; they are counted modulo `Window` so that the
state space is finite.

### CommandStream (`protocol.rs` 453-494, 907-1060, `protocol_wire.rs`)

The bytes of a reply are four or five units, as many as the code's length tests
tell apart: two halves of the code or magic, what SEND_IP needs besides, the
rest, and the extra part of a native frame. `Read` returns any number of the
units that are there (TLS records are the server's choice); `JudgeRound` is what
`classify_command_heartbeat_reply` and `parse_send_ip_reply` make of the buffer
when `read_at_least` has enough, or when its deadline cuts it. What a round
leaves unread is the next one's.

### Netstack (`netstack.rs` 27-640)

One turn of `run_netstack_loop` is: receive a batch of at most
`MAX_CONTROL_BATCH` messages (`Receive`, then one `Handle...` action for each
kind), poll smoltcp (every peer step is an action enabled in this phase, and
`PollEnds` leaves it), then drive every entry: `PumpPendingSend` and
`FinishConnection` for TCP (pump, read, close, remove in the code's order),
`PumpPendingUdpSend` and `FinishAssociation` for UDP, then `DriveEnds` decides
whether to wait. Clients open (`RequestOpen`, `OpenReturns`, `OpenTimesOut`
after the 10 s of `open_tcp_connection`), send, close and drop their receiver
at any time. Variables that only record history are marked so; the
properties are stated with them. smoltcp is external: its sockets' state
machine and buffers are modelled from how `netstack.rs` uses them.

### RouteIndex and RoutePlanner (`routing.rs`, `dns_resolver.rs`)

An IPv4 address is a pair of first octet and rest, because the index has a
bucket for each first octet. `RouteIndex` reads any list of rules (`Compile` is
one round of `compile_rules` with its dedup key, `IndexRule` one of
`RuleIndex::build`); its state at the end is the index that
`FindFirstMatch` searches. `RoutePlanner` has one action for each stretch of a
plan between two waits: from the lock to the first query or the plan
(`PlanFromMode`), an answer or a failure of a server (`AddressAnswered`,
`LookupAnswered`, `NextServer`, `LastServerFails`), the system's resolver
(`SystemAnswers`, `SystemFails`). The exchange with one DNS server over UDP and
TCP is one step with any answer or a failure. `at` and `from` in plans and
cache entries are history.

### UdpRelay (`socks.rs` 103-177, 356-459)

`relay` is the thread of `handle_udp_associate` from the opening of the
association to its joins, one action for each call that can wait, fail or be
seen by another thread: `Recv`, `CheckStop` and `RememberUdpClient` are three
steps, because the watcher may send its message between them. `Forward` is one
turn of `forward_udp_from_tunnel`; `ControlEnds` and `Signal` are the watcher,
message first, wake-up second. The receive buffer drops what does not fit, the
wake-up datagram included. `tunnelled` and `served` are history.

### SocksSession and Pipe (`socks.rs` 56-101, 538-679, `socks_wire.rs`, `socks_proxy.rs`)

A stream is a row of units: first the fields of its handshake, one for each
`read_exact`, then data. `ReadField` and `ReadProxyField` read the next field
whatever it is in truth, so that a field too many takes data and a field too few
leaves a part of the request for the relay. `DecideRoute`, `Connect`,
`WriteOkReply` and `Join` are the handler, `UpRead` ... `DownShutdown` the two
pump threads of `relay_direct` and `relay_tunnel`. What a request or a proxy
asks and answers is chosen at the start of a session (`ask`, `proxy`); peers
send, end and reset when they like, or never. `link` is the connection to the
other side: there from `Connect` on for a direct or a proxied one, whose
`connect` returns with a connection; for the tunnel only asked for (`"syn"`),
because `open_connection` answers with the socket in SYN-SENT, until the
destination accepts (`FarAccepts`) or the netstack drops the entry (`FarEnds`). In `UpPipe` and `DownPipe` the contract's
sender is the peer, and its receiver the peer on the other side.

### RouteInput and AppStartup (`main.rs`, `config.rs`, `app.rs`, `auth.rs`, `token.rs`, `route_table.rs`, `routing.rs` 816-860)

`RouteInput` has the parsers as functions: `ParseTable` of the elements of a
document, `ParseExtraIp` of an entry, with `u32` shifts that lose what leaves the
word. `Weight` is a recursive function, `&` and `|` are defined by their bits, and
lists are filtered and joined with `FlattenSeq`, so that `AppStartup`, which
extends it, can be proved about; `Parts` are the texts a table may hold.
`AppStartup` has one action for each step of `run` that waits, fails or
touches the file; the two halves of `std::fs::write` are two actions (`Truncate`,
`Write`), for the process and for the other one. `Gone` ends a process between
any two steps. `RclistArrives` and `RclistEnds` deliver a document element by
element and end it where it stalls.

## 3. Runs

| Run | Bounds | What it checks |
|---|---|---|
| `FatalLatch` | 4 workers | `NoMissedWakeup`: the main thread never sleeps on a stored reason with nobody about to notify it; `ImplementsFailStop`: every death brings the process down, with the first reason recorded |
| `TunnelRuntime` | retry and heartbeat limits 2, window 3, queue 1, every stream may be lost, RX and command also silently | `NoSilentDeath`: no serving over a dead worker without a reason; `TxKeepsOrder`: what lies between the netstack and the TX stream is consecutive; `LostCommandStreamEndsProcess`; `ImplementsFailStop`; `ReopeningEnds`; `TxHeartbeatNotStarved` |
| `CommandStream` | 3 kinds of replies, failure limit 3, a buffer of 7 units, 10 units unread | `EndIsDeserved`: the loop gives up only a server that stopped, answered something else, was behind by the limit or whose replies did not come one to a read; `SilenceIsNoticed` |
| `Netstack_mixed` | a TCP and a UDP client that send | `NothingLeftUndone`: the loop sleeps only when it has nothing to do; `CloseHasACause` |
| `Netstack_ports` | two TCP clients and a UDP client that open and close, two local ports | `SocketsBelongToEntries`; `PortsAreNotReusedEarly` |
| `Netstack_live` | one TCP client, three chunks of two bytes, a send buffer of one byte, a loop that runs, a peer that may be silent | `UploadInOrder`; `NothingReceivedIsLost`; `CloseEndsConnection`: a close ends the connection or only the peer's answer is missing; `UploadProceeds`: so does an upload |
| `RouteIndex` | every list of two rules over 3 first octets with 2 addresses each, 2 ports | `IndexFindsFirst`; `FirstDownloadedRuleWins` |
| `RoutePlanner` | 2 threads, 2 requests, 2 names, 2 addresses, 2 servers, a lifetime of 2 ticks | `TypeOK`: in particular a query has a server to ask; `RemotePlansAreJustified`; `DirectRuleWins`; `PlanningAsksInOrder`; `AnswersAreFresh`; `NoNeedlessQuery`; `PlanEnds` |
| `RoutePlanner_extra` | expected violation | `ExtraMatchesOnlyAddresses`, see section 6 |
| `UdpRelay` | two peers, a receive buffer of two datagrams, one datagram waiting in the uplink | `OneClient`; `ThreadsEnd` |
| `SocksSession` | 10 requests, 9 proxy answers, 2 units of data each way, HTTP heads around their limit | `RepliesAreHonest`; `UploadIsAPipe`; `DownloadIsAPipe`; `TunnelHandleIsClosed`; `SessionEnds` |
| `AppStartup` | 2 starts, 9 command lines, one write of another process, 6 route tables, all `--extra` entries over 2-bit addresses | `ValuesAreChosen`; `CompleteCommandsAreAccepted`; `ServesOneSession`; `RulesJoinOnePlace`; `ExtraIsWhatItSays`; `StartupEnds` |

The type invariants of the other modules are not among a run's properties: those
of `FatalLatch`, `Netstack` and `CommandStream` are theorems, those of `RouteIndex`,
`TunnelRuntime`, `UdpRelay` and `SocksSession` are parts of the inductive
invariants of section 5 as far as the proofs need them.

Every property of a passing run is broken by a mutant in the module it is about
(the definitions marked `mutant` beside the definition they stand in for): a
plausible bug of the code, such as a wake-up skipped, a push to the wrong end
of a queue, an id used again, a port range one too long, a cache that forgets
to look at the time.

Why these bounds are enough to meet the hazards:

* A worker's death interacts with one other death (whose reason comes first)
  and with the main thread; four workers add one bystander and one more waiter
  for the mutex.
* A retry or failure limit of 2 has a first and a last attempt, one of 3 a middle
  one too. A queued packet and the one in the TX worker's hands are all that a lost
  stream can disturb; a window of 3 tells apart every order of one that waits,
  one in the worker's hands and the next.
* A netstack upload of three chunks through a smaller socket buffer has a chunk
  that fits in part, one that waits behind it and one still in the channel. Two
  ports and three clients let the port range go round.
* Two rules in every combination of name, address and ranges in either order over
  three buckets contain every way for two rules to compete; longer lists are
  covered by the proof.
* Each planner table leads through other stages: servers without records,
  records without servers, neither. Two requests can meet at the mutex and in
  the caches, and the clock goes on long enough for an entry to expire between
  them.
* A relay's second peer is the one that comes too late; a receive buffer of two
  can be full when the wake-up arrives and still hold a datagram of each peer.
* A session is one client's; sessions share nothing but `ROUTER` and the netstack,
  which have modules of their own. Two units of data show an order, a gap and a
  repetition; every branch of the handshakes has a request or an answer of its
  own, and HTTP heads are one unit, the longest allowed and one more.
* Three failures with three replies to tell apart and a buffer that holds one
  reply and a half let a round read late, cut and joined replies.
* The second start sees what the first one, and another process in the middle of
  it, have left. With two bits every prefix length is there, 0 and one too many
  included.

Deadlock checking is off where the modelled system may really stop: a process
that exited, a list that was read to its end, or requests that were all answered
under a bound on their number.

## 4. Fairness

* `FatalLatch`: strong fairness on the steps that take the mutex (`std`'s mutex
  is not a queue: a thread may be overtaken, but not for ever if it is free
  again and again), weak fairness on the spawn steps. No fairness on deaths.
* `TunnelRuntime`: weak fairness on the steps of the main thread and of the three
  workers, which are threads that the operating system schedules. Nothing is
  promised of the server, of the netstack's sends, of stream losses or of the
  clock tick that makes a heartbeat due.
* `Netstack`: weak fairness on the loop's thread alone, and only while a message
  waits for it when it sleeps. Nothing is promised of the clients, of tunnel
  packets, of timers or of the peer: no timeout is set on the sockets
  (`netstack.rs` 401-415), so a peer that answers neither our SYN nor our FIN is
  waited for for ever. `CloseEndsConnection` and `UploadProceeds` name the states
  in which it is.
* `RoutePlanner`: strong fairness on taking `ROUTER`, weak fairness on planning
  steps. A query to a DNS server ends because every socket of `dns_resolver.rs`
  has a read and a connect timeout; that the system's resolver returns is an
  assumption on it.
* `UdpRelay`: weak fairness on the three threads and on the netstack's removal of
  an association whose `CloseUdp` is queued (its loop runs, and a batch is bounded).
  The client, the peers and the tunnel promise nothing.
* `CommandStream`: weak fairness on the thread, each of whose waits has a limit
  (the read timeout of the socket and the deadline of `read_at_least`).
* `SocksSession`: weak fairness on the handler and the two pump threads, on these
  only while the peer they write to reads: `write_all` has no timeout. Neither
  the client, nor the far side, nor a proxy, nor the netstack after a close
  promises anything, which is why `SessionEnds` speaks of sessions whose two
  sides have ended, and of one side only what is passed on to the other.
* `AppStartup`: weak fairness on the process's steps: every wait of the start has
  a timeout, reads and writes one that the code sets, `TcpStream::connect`
  (`tls.rs:19`) only the operating system's. The server, the user and the other process promise
  nothing.

## 5. Proofs

TLAPS proves the following for every value of the constants that satisfies the
named assumptions. Each safety theorem goes by an inductive invariant `IInv`:
`Init => IInv`, `IInv /\ [Next]_vars => IInv'`, `IInv => property`. With them,
every invariant that a run checks is proved too.

* **`TunnelDetails_proofs`, the latch** (any set of workers). `NoWakeupIsLost`: the plain
  property is not inductive; `IInv` adds that the holder of the mutex is the
  thread whose program counter is inside a critical section, and that a thread
  past `Record` has a reason stored. `ReturnIsTheReason`, `FirstReasonStays`
  follow from the same invariant. `LatchRefinesFailStop`: initial states and
  steps map to `FailStop`, which is the safety half of `ImplementsFailStop`.
* **`TunnelDetails_proofs`, the command stream** (any failure limit, kinds of
  replies, buffer and stream lengths: `CommandAssumption`; the bound on requests
  that are counted must not be below the limit). `EndsAreDeserved`: the property
  is about the end and says nothing on the way to it. `StreamInv` says that as long as
  the server has not stopped, answered what was asked and each read returned one
  reply (`Fine`), the unread bytes are whole replies (`WholeReplies`), the buffer
  is empty or one reply, and each failure that was counted is a reply that is
  still owed or unread, with one more in a round that has read nothing
  (`Counted`); before the first answer there is one request and its one reply,
  which is owed, unread or in the buffer (`Opening`). The lemmas `AppendReply` and
  `TakeReply` say what a reply more, or one read, does to whole replies and to their
  number. `StreamTypeCorrect`: the types, and that the failures stay within
  the limit.
* **`TunnelRuntime_proofs`** (any limits, window and queue bound:
  `RuntimeAssumption`). `RuntimeInvariant` ties the start-up phase to what
  exists at that point (which streams were opened, which workers spawned), each
  worker's end to a recorded reason, and the packets in flight to the number
  the netstack sends next. From it `NoWorkerDiesSilently`,
  `PacketsKeepTheirOrder` and `RuntimeRefinesFailStop`.
* **`RouteIndex_proofs`** (any rule list, any number of buckets and addresses:
  `RulesAssumption`). `IndexInvariant` says that every list of the index holds
  exactly the numbers of the rules filed so far that belong to it, in ascending
  order (`Filed`), and that compiling kept one copy of each usable rule in the
  order of first occurrences (`Kept`). `IndexIsCorrect`: the index finds the
  rule that a search through the compiled list would find; the step that needs
  an argument is that a range containing an address touches its first octet's
  bucket. `FirstRuleWins`: that rule is the first of the *downloaded* list that
  matches, so neither deduplication nor dropping unusable rules changes a
  decision.
* **`UdpRelay_proofs`** (any peers, buffer and number of replies:
  `UdpRelayAssumption`). `OneClient` alone is not inductive: `RelayInvariant`
  adds that the only datagram of the waker is the empty one, that a datagram
  past `CheckStop` is therefore a peer's, and that one about to be routed is the
  client's. From it `OneClientIsServed`; `ClientIsPinned` is an action property
  of every step. `Threads` relates the three threads: a watcher that has sent the
  wake-up leaves a datagram for a relay that waits (`Woken`), the threads are born
  with the association (`Born`), the relay closes it before it joins (`Released`)
  and joins in its order (`Joined`). `RelayIsNeverStuck`: until all has ended,
  something can move or the client is waited for. That is the part of `ThreadsEnd` that
  is no fairness; it also says in which case the relay stays, when the waker could
  not bind. `CanMove` stands for the enabledness of the fair steps, and TLC found
  the two equal in all states of the run. `RelayKeepsHandle` is the relay's side of
  `TunnelHandle`.
* **`Netstack_proofs`** (any clients, handles, ports, buffer sizes and batch limit:
  `NetstackAssumption`). The invariant has five parts. `Tables`: both tables lie
  below `next_conn_id` and are disjoint, each entry has a socket of its kind that
  no other has, each socket an entry, and each socket's port is as many places
  behind the next one as there were allocations since (`Aged`), which is what
  makes `PortsAreNotReusedEarly` inductive. `ClientsOK`: a client has an id
  exactly when it has an answer it has not given up, and the id is below the next
  one, so a new entry is nobody's yet. `Mail`: a `Close` in the channel comes from
  the client that holds its id and has closed. `Causes`: an entry is its
  id-holder's, is asked to close for a reason, and an association goes away only
  closed or spoiled. `LoopOK`: what is left to visit is alive. From it
  `TypeCorrect`, `SocketsAreOwned`, `PortsStayDistinct` and `ClosesAreCaused`.
  The rest is about the flow of data, and `FlowInv` adds what it needs.
  `Ownership`: a client has one entry at most, under the id it was told, one open
  request at most in the channel and none once it has an entry, and a `Send` names an
  id that was given out (`EntriesAreSingle`). `Received`: what smoltcp has
  received for a client is delivered or still in the one socket it has
  (`NothingIsLost`; a removed entry had been read empty). `Driven`: during the
  drive turn, every entry that has been visited has nothing left to do
  (`LoopLeavesNothing`; a visit to one entry leaves the others as they were).
  `UploadInOrder` is inductive with these (`UploadStaysInOrder`): it says of two
  `Send`s of a connection with none of it between them that the second begins where
  the first ends (`Leads`), rather than filtering the channel, because filters are
  recursive and out of the provers' reach, and because so a step at either end of
  the channel touches one pair. `NetstackKeepsHandle`: for every client, each step
  is a step of `TunnelHandle` or none; the end is for good because ids are not
  given out again (`ClientsOK`) and an entry's client is one (`Ownership`).
  `ClosedConnectionsAwaitPeer` is the part of `CloseEndsConnection` that is no
  fairness: when the loop sleeps with an empty channel, the entry of a client that
  closed is gone or waits for its peer alone.
* **`RoutePlanner_proofs`** (any threads, tables, answers and servers:
  `PlannerAssumption`). `Locked`: the mutex is held from the look at the rules to
  the plan, which is what keeps everything a thread has looked up true until it
  uses it. `Jobs`: a query is about a name that no rule, record or cache decides,
  with the rule or the alias that asks for it. `CacheDated`, `LookupsDated`: an
  entry is about its key and expires a lifetime after its answer. `Planned`: a plan
  follows from them. `PlannerAsksInOrder` is about planning, not about what the
  system resolves when a fallback is executed (section 6). Five theorems, one of
  them (`PlannerPlansAreJustified`) about every step that makes a plan.
  `PlannerTypeCorrect` is `TypeOK`, which includes that
  a query has a server to ask: the list without repetitions is defined by the
  ranks of its elements, and `UpTo` and `RankReached` show that every rank up to
  their number is taken, so that the list has an element at every place.
* **`SocksSession_proofs`** (any requests, proxies, head limit and lengths of data:
  `SessionAssumption`). `Replied` ties the replies to the handler's place,
  `Admitted` what has been found out about the request and the proxy,
  `Pumping` the threads to the reply and to the end; what was read and written is
  counted against what was sent. From it `SessionRepliesAreHonest`,
  `SessionClosesTunnelHandle` with the two exceptions that the property names, and
  that each step of the session is a step of `Pipe`, or none, in both directions
  (`SessionUploadIsAPipe`, `SessionDownloadIsAPipe`). `SessionIsNeverStuck`: a
  session that is not over and can do nothing waits in a handshake for a peer that
  has not ended, or relays with each of its threads waiting for a peer that is
  there or does not read, or over with the end passed on. That is the part of
  `SessionEnds` that is no fairness, with `CanMove` as in `UdpRelay_proofs`.
  `SessionKeepsHandle` is the session's side of `TunnelHandle`.
* **`AppStartup_proofs`** (any command lines, texts, tables, number of starts and
  of foreign writes: `StartupAssumption`, by which `None` is no number, so that it is
  no exit code). `Records`: what can be read from the file, was read from it or is
  about to be written was resolved by a run that kept it (a truncated or mixed
  file is not a record). `Configured`: the values in use were chosen from the
  command line and one record, from their resolution on. `Exited`: an exit code is a
  process's that exited, and code 2 an incomplete command line's. `Session`: from
  the second answer of the login on the session id is the server's latest, and
  the mode and the token follow it. `Tabled`: a table in use is made of the
  elements that had arrived whole. From it `StartupValuesAreChosen`,
  `StartupAcceptsCompleteCommands`, `StartupServesOneSession` and
  `StartupRulesJoinOnePlace`, which rests on lemmas about `FlattenSeq`: a list that
  is as long after filtering as before has lost nothing, so two lists that are
  paired have kept their places, and an element of a joined list is one of a joined part.
* **`AppStartup_proofs`, the words of `--extra`** (any width). `StartupExtraIsWhatItSays`
  needs no state: an address divided into the block of its prefix and the place in
  it, the mask as the number of all blocks times their size, and a number
  determined by its bits, so that the `CHOOSE` of `BitAnd` and `BitOr` is what
  division says. The induction over bits goes without the library's induction
  theorems: a set of numbers that holds 0 and all successors holds every number,
  because the numbers it lacks would have a least one. The same argument
  shows that the recursive functions (`Weight`, and the one in `FlattenSeq`) exist.

What stays with TLC, and why:

* Every liveness property (`CloseEndsConnection`, `UploadProceeds`, `ReopeningEnds`,
  `SilenceIsNoticed`, `PlanEnds`, `ThreadsEnd`, `SessionEnds`, `StartupEnds`,
  `LostCommandStreamEndsProcess`, `TxHeartbeatNotStarved`, and the liveness half of
  `ImplementsFailStop`): fairness and `ENABLED` are out of the prover's reach.
  Their state half is proved for `ThreadsEnd`, `SessionEnds` and
  `CloseEndsConnection` (see above).
* That `CanMove` is the enabledness of the fair steps, in `UdpRelay` and
  `SocksSession`: for the proofs it is a definition.

## 6. What the models say about the code

* **`--extra` and names.** The design document
  (`src/docs/superpowers/specs/2026-07-06-upstream-v2-plus-migration-design.md:45`)
  says that extra entries match only IPv4 targets and do not invent domain
  routing. `plan_via_domain_ip_resolution` (`routing.rs:551`) applies them to the
  address that the system's resolver finds for a name, and returns a remote plan
  whose dial target is the name. `RoutePlanner_extra` is the run that shows it.

The models also contain behaviour that no text of the repository rules out and
that a reader should know of. It is listed under `hazards` with its line:

* `close()` with data still in `pending_send` loses that data (`netstack.rs:483`).
* The peer's FIN is not passed on to the client while the entry lives
  (`netstack.rs:486`).
* A connection that is opened after its caller gave up belongs to nobody
  (`netstack.rs:76`).
* After 20001 opens a local port is handed out again, live or not
  (`netstack.rs:606`).
* A server that accepts RX streams and closes them at once makes the RX worker
  reconnect for ever (`protocol.rs:502`).
* A datagram that smoltcp refuses, for which too little room behind other
  datagrams is enough, closes the UDP association while its relay goes on
  reading and sending nowhere (`netstack.rs:530`).
* The relay's only way out of `recv_from` is a datagram: if the waker cannot bind
  a socket the relay stays (`socks.rs:455`).
* The first sender becomes the client before its datagram is parsed
  (`socks.rs:374`).
* All planning waits for the slowest DNS lookup (`routing.rs:225`).
* A relayed connection that is reset ends for the other side like one that was
  finished (`socks.rs:678`).
* A destination that never answers the SYN, or sends no FIN after ours, keeps the
  entry of a closed connection for ever, and with it the session's download
  thread and handler (`netstack.rs:483`, `socks.rs:629`): sockets have no timeout.
* Through the tunnel the client is told "succeeded" when the netstack has taken the
  request, before the handshake with the destination; a refusal is the end of the
  stream (`netstack.rs:401`, `socks.rs:551`).
* A name that a rule decides, but whose servers fail or are absent, is dialled by
  name: the fallback proxy or the system's resolver resolves it
  (`routing.rs:388`, `socks.rs:555`).
* A relay whose client or destination stays but never reads waits for it without a
  limit of time (`socks.rs:633`, `socks.rs:671`).
* A fallback proxy that accepts and does not answer holds its handler without a
  limit of time (`socks_proxy.rs:116`).
* A route table that stalls is cut and installed as if it were whole
  (`route_table.rs:60`); hosts and ports whose lists both lose a part are paired
  wrongly (`route_table.rs:166`).
* A command heartbeat whose replies are late by as many rounds as the limit, or
  do not come one to a read, gives up a server that answers (`protocol.rs:985`).

## 7. Not modelled

Left out of the modelled parts:

* `Netstack`: the arms for disconnected channels (they mean that the process is
  ending), an error of `send_slice` on a TCP socket that may send, a failing
  `bind` of a fresh UDP socket, overflow of the 64-bit id.
* `TunnelRuntime`: the bytes of data frames; a heartbeat round is one step there.
* `CommandStream`: bytes below the parts that the code's length tests tell apart.
* `SocksSession`: fields of no bytes (a greeting without methods, an empty
  domain), failures of `accept` and of `thread::spawn`.
* `UdpRelay`: failures before anything is open (bind, clone), bytes on the
  control connection (read and ignored), a poisoned mutex.
* `RoutePlanner`: a poisoned mutex (a panic in a planner), the UDP/TCP exchange
  with one DNS server (one step with any answer or a failure; its messages are
  built and decoded by a library).
* `RouteInput`: the splitting of a text into its parts; a part that the code drops
  is `Dropped`.
* `AppStartup`: every failure of a request is one outcome; the text forms of a
  server address (`endpoint.rs`), the encryption of the password, the TLS set-up
  (`tls.rs`, `transport.rs`, `protocol_session.rs`) and the XML tags are libraries
  or pure formatting of one text, without a state that a later step reads.

Not modelled at all: output and errors (`output.rs`, `error.rs`, `lib.rs`): no
state that other parts read.

Three hazards have no property, because the code has no step for what a reader
might expect and no text of the repository promises it: data still pending at
`close()` (`netstack.rs:483`), the peer's FIN (`netstack.rs:486`), a reset shown
as an end (`socks.rs:678`); a fourth, the silent fallback proxy
(`socks_proxy.rs:116`), bounds what `SessionEnds` can ask.

What could still be added: a proof that `UdpRelay`'s datagrams keep their content
through the relay, and one composed model of `Netstack` with a session as its
client, in place of a contract between the two.
