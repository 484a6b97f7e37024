# A TLA+ model of zero_copy_proxy_test

The repository is a TCP proxy in C that forwards length-prefixed messages
between many sources and one destination with `splice` (zero copy), an echo
server and a small client to try it with.  This directory holds TLA+ modules
that model the proxy, the server and the client, TLC configurations that check
them on small instances, and TLAPS proofs, for every size, of each safety property
that the passing runs check: thread pool, relay, both lists, the proxy process,
and server with clients.

To run: `tlc -config MCX.cfg MCX.tla` for a model, `tlapm XProofs.tla` for the
proofs about `X`.

## 1. The system

Three programs.  `proxy` is one process with a main thread and `THREAD_NUM` (2)
workers; `server` has a main thread and one that waits for SIGINT; `client` has
one thread:

| component | source | state it keeps | operations |
|---|---|---|---|
| thread pool | `proxy/jpool.c` | queue `work_first`/`work_last`, `working_cnt`, `thread_cnt`, `stop`, one mutex, two condition variables | `jpool_init`, `jpool_add_work`, `jpool_worker`, `jpool_wait`, `jpool_destroy` |
| message relay | `proxy/proxy.c` 84-355, `transc.c`, `pipe.c` | per direction: four flags, `length`, `recv_bytes`, `send_bytes`, a header buffer (`transc_t`), a pipe | `proxy_recv_data`, `proxy_send_data`, `proxy_process_data` |
| connection worker | `proxy/proxy.c` 517-626 | `src_fd`, `dst_fd`, its place in the loop | `proxy_conn`, `proxy_delete_src_info` |
| acceptor | `proxy/proxy.c` 363-401, 634-646, 770-794, `main.c` | the accepted fd | `proxy_wait`, `proxy_add_work_data`, `proxy_handle_req` |
| registry of source fds | `proxy/dlist_int.c` | doubly linked list with two dummies, `length` | add, delete by data, find last |
| registry of work data | `proxy/dlist_ptr.c` | the same, nodes own a copy of `jpool_work_data_t` | add, delete by data, final |
| start and shutdown | `proxy/proxy.c` 12-41, 402-508, 657-762 | sockets, signal handler | `proxy_init`, `proxy_final`, `_proxy_exit_program` |
| server | `server/server.c` | one `transc_t` on the stack, the listening socket, an epoll instance per connection, flags `is_finish`, `is_error` | `server_init`, `server_conn`, `server_process_data`, `server_recv_data`, `server_send_data`, `server_detect_finish`, the two ends of `main` |
| client, message format | `client/client.c`, `client/jmp.c` | its socket, a message of 20-byte header and body | connect, then a line, one write, one read, again |
| unused | `proxy/jthread.c`, `proxy/jevtmgr.c`, `jtime.c` | - | built and called by nothing |

How they interact.  The acceptor accepts a source, registers its fd in
`fd_list`, reads it back from the end of that list, stores the work data in
`work_list` and queues a work.  A worker takes it and runs `proxy_conn` until
the source or the destination is closed.  All workers share, without a lock:
the connection to the destination `dst_fd`, the epoll instance, the array
`proxy->events` that epoll_wait fills, both lists, and the process's table of
descriptors.  Only the pool has a mutex.  The server serves one client at a time
and shares the flags and the `server_t` between its two threads; client and
server share only their connection.

What is hard here: threads that share everything but the pool's queue;
descriptor numbers that are used again while an old worker still holds them; a
non-blocking byte stream in which every call may do a part of its work;
teardown of a pool its threads still use; lists changed from several threads;
in the server, a message that takes many events, state that outlives the
connection it belongs to, and a SIGINT at any point.

What makes each component correct:

* pool: the queue is exactly the works that wait, in order; a work is run once;
  counters are exact; no wakeup is lost; the pool outlives its threads.
* relay: the destination gets the source's bytes, in order, whole messages at a
  time; what was received is forwarded, unless the proxy has closed `dst_fd`; a
  source that is there is closed only over its header.
* registries: links mutual, `length` the number of nodes, no dangling access,
  the fd removed is the one named; the final sweep frees every node once.
* proxy: lists, queue and workers agree on which connections exist; none that
  was accepted is lost or deaf; a response reaches the source that asked;
  admission waits for a free thread.
* server and client: a client reads back its own bytes; nobody served is left
  waiting; one connection leaves nothing to the next; a server that listens is
  freed once, and ends.

### Readings of the source

As committed, the proxy does not compile: `dlist_ptr.c:166` reads
`list->node->data` (there is no field `node`), `proxy.c:520` passes a third
argument to `dlist_int_del_node_by_data`, `proxy.c:535` omits the third of
`dlist_ptr_del_node_by_data`.  They are read as `index_node->data`, as the
two-argument call, and as a call that deletes the first node with that
`src_fd` (the first field of the data).  `server.c` reads its `transc_t` before it
initialises it (line 354); no build file asks for optimisation, the frame has
the same address in every call and nothing called from `server_conn` reaches as
deep, so it is read as what the last connection left there, zeros at first (a
build with the makefile's command line behaves so).  The sockets' option flags, the
messages printed and the text of bodies are not modelled.

## 2. Modules

| module | what it is | checked by |
|---|---|---|
| `WorkQueue` | abstract: what the pool promises | refinement in `Jpool` |
| `Jpool` | the pool, one action per critical section | `MCJpool`, `JpoolProofs` |
| `JpoolProofs` | inductive invariant and refinement, proved | tlapm |
| `MessageRelay` | abstract: a carrier of whole messages | refinement in `Relay` |
| `Relay` | one direction of one connection, one action per system call | `MCRelay` (three cfgs), `RelayProofs`, `RelayMessageProofs` |
| `RelayProofs` | counters, flags and conservation of bytes, proved | tlapm |
| `RelayMessageProofs` | whole messages: decoded lengths, store and forward, why a connection is closed, refinement of `MessageRelay`, proved | tlapm |
| `Wire` | two `Relay`s that write to one destination | `MCWire` |
| `FdList` | abstract: a registry of descriptors | refinement in `DlistInt` |
| `DlistInt` | `fd_list`, one shared assignment per step | `MCDlistInt` (two cfgs), `DlistIntProofs` |
| `DlistIntProofs` | no dangling pointer, main finds its own fd, the chain of nodes, refinement of `FdList`, proved | tlapm |
| `DlistPtr` | `work_list`, with the loop of `dlist_ptr_final` | `MCDlistPtr`, `DlistPtrProofs` |
| `DlistPtrProofs` | the list and the final sweep, proved | tlapm |
| `Proxy` | acceptor, workers and all they share | `MCProxy` (two cfgs), `ProxyProofs` |
| `ProxyProofs` | the two lists, no connection forgotten, the shared events, one answer per request, proved | tlapm |
| `ListLemmas` | facts on naturals and sequences, for `DlistIntProofs` and `ProxyProofs` | tlapm |
| `EchoNet` | the connections between clients and server | through `Echo` |
| `Client` | the client's loop | through `Echo` |
| `Server` | the server's two threads, one action per system call | through `Echo` |
| `Echo` | server and clients together, and their properties | `MCEcho` (two cfgs), `EchoProofs` |
| `EchoProofs` | what a client gets, what `transc_t` holds, how often the `server_t` is freed, proved | tlapm |

Definitions keep the names of the C code where there is one (`work_first`,
`working_cnt`, `recv_bytes`, `transc`, `fd_list`, `events`), and each action's
comment gives the lines it stands for; `PROJECT.json` ("map") has them all.
An operator named `X_y` (for instance `LastAfterGet_kept`) is a variant of `X`
with a slip `y`; no specification uses it.  Put in the place of `X` it must
break the property named beside it in `PROJECT.json` ("mutants"): that is how
we know that the property says something about the code.

**Jpool.**  Every access to the shared fields is under `work_mutex`, so a
critical section - from a lock or the return of `pthread_cond_wait` to the next
unlock or wait - is one action; `wpc[w] = "ready"` is a thread that wants the
mutex and will evaluate line 78.  `pthread_cond_wait` may return spuriously
(`Spurious`, `OwnerSpurious`).  A broadcast moves all sleepers to `ready`.  The
`next` pointers and the life of each work's memory are modelled, because
`jpool_destroy` frees queued works and leaves `work_first` pointing at them.
`jpool_init` creates threads one at a time while the earlier ones already run.
When `pthread_create` fails the pool is freed under the threads created before;
what these do on freed memory is undefined, so the model stops there (state
`failed`), and no property claims anything about it.

**Relay.**  The source's stream is a sequence of bytes in which no two body
bytes are equal.  `arrived` is how much of it has reached the proxy's receive
buffer and grows byte by byte, so every segmentation occurs.  `ReadHeader`,
`SpliceIn`, `WriteHeader`, `SpliceOut` are one system call each with the
assignments and early returns that follow it; `FirstCall` and `AfterSplice` are
the tests of `proxy_process_data` that choose the next call.  `StaleEvent` is an
event another worker's epoll_wait left in the shared array, or one more entry
of its own batch.  Peers close and reset at any time.  `dst_fd` is not this
direction's alone: `CloseDst` is the `close` of line 335 by the other direction (a
response whose header comes in two segments is enough, with the destination up
and reading) or by another worker, between any two calls; it sets `dst = "closed"`,
writes then fail with EBADF, and `EndConn` (line 591) ends the connection with
whatever it holds.  After the destination's reset a write fails or raises SIGPIPE
(`WriteFails`): `getsockopt` may have taken the pending error before.  EINTR, which
closes the source like any other error, is left out.
For the peers `Relay` is a `MessageRelay`: a message is *held* from the splice
that reads its last byte to the splice that writes its last byte (`HeldMsgs`) and
*given* when the kernel has accepted every byte of it unchanged (`GivenMsgs`).
A message that was read in part, and a header without a body, over which the source
is closed, are never held.  `MessageRelay` names the two ways in which a held message
is dropped: `Close` after the receiver was `cut` off, which may hit one that is up, and
`Kill` after it `failed`.

**DlistInt.**  Every assignment to a field of a node or to `length` is a step,
taken with the reads that feed it; `length++` is two.  Threads are the acceptor
and the workers.  With `Serial` an operation starts only when no other is under
way.  An access through NULL or a freed node sets `undefined` and everything
stops.  Each fd accepted has a number of its own (`AddStart`).  In the proxy a number
may come back while a worker still has to delete it, and `fd_list` then holds it twice;
that is in `Proxy`, where a deletion takes the first place, as the scan does.

**DlistPtr.**  A list as a sequence of nodes; the pointers a freed node keeps
(`NULL`, set by `node_ptr_destroy`) are kept as well.  `sizeof( target)` in
`dlist_ptr_del_node_by_node` is 8, the field `prev` alone, and `memcmp` is tested
the wrong way round, so the function deletes the first node whose `prev` differs
from the target's.

**Proxy.**  Messages are whole and each is forwarded in one step.  The lists are
sequences (what `DlistInt` shows of them, as long as operations do not overlap),
the pool is a queue (what `Jpool` implements).  Descriptors are numbers, given
out lowest first; the pipes' descriptors, which share the numbers, are left out,
as is `listen`'s.  `asked` is a history variable that counts the requests of each
connection; `epoll_ctl` fails for what is registered already.  `events` is the
shared array: a worker reads its entry when it gets to it, whatever was written
since; entries nobody will read are dropped.  A read that fails and the `close` of
the number are two steps (`HandleEvent`, `CloseFd`): in between the number may be
closed by another worker and given to a new source, which is then what is closed.
With `MayFail`, `pipe_open` and `epoll_wait` may fail; `proxy_conn` then returns and
closes and deletes nothing (`GiveUp`): the entry of the lists stays (`leaked`), and the
connection is open, perhaps in epoll, with no worker (`givenUp`, a history
variable).  The two deletions of `proxy_delete_src_info` are one step.

**Wire.**  Two instances of `Relay` with their own source, pipe and `transc_t`; the
destination's side, `out` and `drained` are one for both.  `who` is a history
variable that signs each byte written.

**EchoNet, Client.**  A connection is two sequences of bytes with the number the
reader has taken of each, the server's end (`conn`) and the client's end as the
server's kernel sees it (`peer`).  A read takes any number of the bytes there, so
segments come in every way; a close with unread input sends RST.  The client
types a line of some length, writes the message whole (its socket blocks) and
reads once.  It installs no handler and starts no thread (`client_set_signal`
and `client_handle_finish` have no caller), so SIGINT ends it at once,
anywhere.  A write to a server that is gone succeeds, fails or raises SIGPIPE.

**Server.**  `spc` is the call the main thread makes next, `transc` the `transc_t` of
`server_process_data`.  `FirstCall`, `AfterRecv` and `AfterSend` are the tests of
lines 381-409 that choose the next call of one event.  Writes take what the
send buffer has room for; what lines 296-311 do with the rest of a body is
modelled as it is, `memcpy` with a negative count ends the process.  The first
write after the client's reset fails, the next raises SIGPIPE.  The second
thread's tests before `server_destroy` are merged with the call (`Detect`): between
them only main could change a flag, at line 651, which it never reaches because
the socket is closed only after SIGINT.  A start that fails (`ListenFails`) frees the
`server_t` in `server_init`; main returns in a step of its own, and until then the second
thread may free it again.  `destroys` counts both.  SIGINT that interrupts
`epoll_wait` takes main out of `server_process_data` with the client's descriptor open (`Interrupt`); a second
SIGINT kills, because the handler restores the default.  `fdfree` counts the
descriptors left: each connection takes one for an epoll instance that nothing
closes.  Two history variables mark what the properties except: `stale` the
clients whose connection found `transc` in use, `resumed` that the rest of a
partial write was sent.

## 3. Runs

| run | configuration | shows | distinct states |
|---|---|---|---|
| `jpool` | 3 threads, 4 works | all the pool's properties and the refinement of `WorkQueue` | 11 660 |
| `relay` | header 4, lengths 4 5 7 8, 2 messages, pipe 3, send buffer 5 | nothing lost, repeated, reordered; whole messages; a source closed only over its header; input flushes what is held; `MessageRelay` | 66 001 |
| `dlist_int` | 2 workers, 4 fds, 3 nodes, operations one after the other | list structure, `length`, `FdList` | 91 804 |
| `dlist_ptr` | 2 fds, 6 nodes | the final sweep empties the list, ends, stays on the list | 4 716 |
| `proxy` | 2 workers, 2 descriptors for sources, 3 connections or 2 and 2 requests | lists, queue and workers agree; no connection lost or deaf; no request answered twice | 2 362 859 |
| `echo` | 2 clients, 2 requests, lines of 0, 1, 2 bytes, send buffer 5, 3 descriptors | every client reads its own bytes; who is served is answered; freed once, if it listens; the server ends | 451 403 |
| `relay_stuck` | one length, peers stay up | *violated:* a received message may never be forwarded | |
| `relay_endian` | source encodes as `jmp.c` does | *violated:* the length is decoded in the other byte order | |
| `dlist_race` | `Serial = FALSE` | *violated:* `length` loses an update | |
| `proxy_misroute` | 2 workers, 2 connections | *violated:* a response reaches the wrong source | |
| `wire_mixed` | two sources, one message each | *violated:* two messages are mixed on the wire | |
| `server_leftover` | as `echo` | *violated:* an empty line makes the server close the clients that follow | |

Why these bounds are enough.  Three threads allow one that runs, one that sleeps
and one that is about to test, and four works keep a queue of two behind them.
The message lengths are the boundaries: header only (refused), one body byte,
the pipe's size exactly, and one more than the pipe holds; two messages bring
the reset of `transc_t` between them; the send buffer holds a header and one
byte, so bodies leave in pieces.  Header 4 in place of 20 keeps the version byte
and the three length bytes and drops the fields nobody reads.  Three list nodes
are head, middle and tail neighbours, four fds reuse a freed node.  Six nodes
let the final sweep delete ahead of and behind the node it stands on.  Three
connections over two descriptor numbers make a number return while a worker
still serves it, two works carry the same number, and a work wait behind two busy
workers.  The messages need no third connection: `ThreeOrTraffic` lets it come in
the behaviours without requests only, and the two requests, of one source or of
both, are read, answered and read back by either worker.  `pipe_open` and
`epoll_wait` may fail and the destination may close.  `MCProxy` uses symmetry over
the workers, which is sound there:
the properties are invariants and no worker is named.  In `echo` the two requests
are shared: one client may make both, which puts the reset of `transc_t` between
them, or each client one, which puts a connection after another.  Line 0 is a
bare header (refused), 1 and 2 bytes bodies that fit the send buffer behind the
header and one that does not, so the second body leaves in two writes.  Three
descriptors are enough for a second connection when the first was closed, and
run out in the middle of accepting it when SIGINT left the first open.

The deadlock check is on in every run: each module has an action that stutters
in the states where the component has really finished, and only there.

What the violated runs say is in `PROJECT.json` ("findings") with the lines.  The
passing `relay` run assumes a peer that encodes lengths as `ENDIAN` says, and
header writes accepted whole (TCP sockets with enough room do so); the two
assumptions are the constants `PEER_ENDIAN` and `ShortHeaderWrite`.  `relay_endian`
drops the first.  Without the second (`ShortHeaderWrite = TRUE`) `Conservation`
and `BytesAccounted` fail: the rest of a header is sent from a zeroed buffer and
`recv_bytes` is reduced by the last piece alone.  `server.c` has the same code, and
there the writes are not restricted: its properties name the case (`resumed`).
A header that comes in two segments closes the connection in both programs;
`ClosedForReason` says that nothing else does.

### Fairness

* `Jpool`: a thread that can take the mutex eventually does (weak fairness per
  thread, for the owner's wait and for the release).  A work's function is assumed
  to return only after `stop`: `proxy_final` closes `dst_fd` before it calls
  `jpool_destroy`, and `proxy_conn` tests `dst_fd` at each turn of its loop, which
  epoll_wait bounds by TIMEOUT (10 s).  Nothing is assumed of works before that,
  of submissions, of `jpool_wait` calls or of spurious wakeups.
* `Relay`: the worker runs, a readable fd is reported, the network delivers and the
  destination reads.  Line 591 is passed again and again, because the batch of
  lines 614-621 is finite and epoll_wait has a timeout: `EndConn` is strongly fair,
  since stale events of the batch disable it in between.  Nothing is assumed of the
  source, of failures, of stale events or of who closes `dst_fd`.  Without the destination reading, `relay_stuck` would be no finding.
* `DlistPtr`: the loop of `dlist_ptr_final` goes on.
* `Echo`: both threads of the server run, a client that waits reads what has come,
  and a reset arrives.  Nothing is assumed of who connects, types, leaves or
  presses ctrl-c.  `ServerStops` excepts a server that waits for ever for a client
  that stays: `server_process_data` has no other way out.  It and `Answered` except
  a run with a resumed write (`resumed`): the counters may then be such that
  `server_send_data` returns UNKNOWN at each turn, for a client that has left too.
* `Proxy`, `Wire` and `DlistInt` are checked for safety only.

## 4. Proofs

`JpoolProofs` proves, for every number of threads and works (`num` and `MaxWorks`
natural numbers, the only assumptions; `NumAssumption`, `MaxWorksAssumption`):

* `InductiveInvariant`: `Spec => []IInv`, where `IInv` is the conjunction of
  `TypeOK`, `LifecycleOK`, `CountersExact`, `QueueLinked`, `WorksOwned` and
  `PoolOutlivesWorkers`;
* `TypeCorrect`, `CountersCorrect`, `QueueCorrect`, `OwnershipCorrect`,
  `DestructionCorrect`: its parts, which the run `jpool` also checks (the conjunction
  itself and `LifecycleOK` are left to the proof);
* `Refinement`: `Spec => ImplementsWorkQueue`.

None of the parts is inductive alone.  That `Take` leaves the queue linked needs
that the head is a queued work (`QueueLinked`) and that the works added are the
numbers up to `nadded` (`LifecycleOK`).  That a worker owns its work needs that the
head is queued, hence nobody's.  That the counters do not go below zero needs
them equal to cardinalities: a worker in a work makes `working_cnt` positive.
That the pool outlives its threads needs `thread_cnt` exact: `jpool_wait` returns
after `stop` only when it is zero, and a set of cardinality zero is empty.
`LifecycleOK` also says that after `stop` no work is queued, which makes the
dangling `work_first` harmless: a worker tests `stop` before it looks at the queue.

The proof has one lemma per conjunct, with one step per action, and two lemmas
on finite sets (one element more, one element fewer).  The refinement maps the
works by their status; every action is a step of `WorkQueue` or a stutter, one
lemma for each of the actions that are steps.

`RelayProofs` proves, for every length of header and messages, every size of pipe
and send buffer and any number of messages (`HeaderAssumption`,
`BoundsAssumption`, `ModesAssumption`), and for `ShortHeaderWrite = FALSE`:

* `CountersInvariant`: `Spec => []RInv`.  `RInv` adds to `TypeOK`, `NoUnknownError` and
  `BytesAccounted` that the call to come fits the flags (`CallFits`) and that the
  counters fit the stage of the message (`CountersFit`).  Both are needed: that the
  pipe is empty when a header is read follows from `recv_bytes = 0` before it and
  from `recv_bytes` being what is held; that the last splice empties the pipe, from
  the same at the other end.
* `RelayTyped`, `FlagsInOrder`, `RecvBytesExact`: its parts, checked by `relay`;
* `BytesConserved`: `Conservation`, on top of `RInv`.  One lemma per system call;
  the facts about sequences are those of the library's `SequenceTheorems`.

`RelayMessageProofs` proves, on top of these and for a source that encodes lengths as
the proxy decodes them (`ENDIAN = PEER_ENDIAN`; `relay_endian` shows what happens
otherwise):

* `MessagesInvariant`: `Spec => []MInv`.  `RInv` counts bytes and does not know where in
  the stream a message begins.  `MInv` says that the stream is whole messages with
  their lengths in their headers (`Layout`), and that one of them, the k-th, is such
  that what is out ends where it begins, or `send_bytes` behind, what is read lies within
  it, `length` is its length, and a closed connection stands at one of the places
  of lines 153-156 of it (`At`, `ClosedAt`).  A worker that finishes a message goes on to k + 1.
* `LengthsDecoded`: `DecodedLength`.  That the three bytes of a header give the length
  back, in either order, needs that lengths fit three bytes, which
  `HeaderAssumption` says of `MsgLengths`: the field of `jmp.h` has three bytes.
* `ForwardedWhole`: `StoreAndForward`: a message completely read is out when the
  connection ends, or `dst_fd` was closed by the proxy.  The exception is the code's
  (lines 335 and 591) and not one of the proof: with `DstFdMayClose` FALSE it is void.
  `ClosedOverHeader`: `ClosedForReason`.
* `RelayImplements`: `Spec => ImplementsMessageRelay`, from `RInv`, `MInv` and
  `Conservation` before and after a step.  As long as the connection is there, the
  k of `MInv` is the state of the carrier: `1..(k - 1)` were given, and k is held if
  `is_recv_body` is raised (`CarriedAt`, `CarriedIs`).  That two states have the same k,
  or that the second has k + 1, follows from the bytes read: the end of a message is
  the end of one message only (`SamePlace`).

`DlistIntProofs` proves, for any workers and any number of descriptors and nodes
(`BoundsAssumption`), and for `Serial = TRUE`:

* `NeverUndefinedHolds`: `Spec => []NeverUndefined`, and `LastAcceptedHolds`:
  `Spec => []LastIsAccepted`.  Both follow from `LInv`, which says of the links only that
  they go both ways at every node (`Linked`); that the chain from `HEAD` reaches every
  node is not needed.  In the middle of an operation the links are not mutual:
  `Appending` and `Deleting` say that they are in the list which the assignments still
  to come will make, and that those already done would change nothing if done again.
  `OwnFds` says that no worker deletes main's descriptor before main has read it back.
* `ListTyped`, `LinksHold`, `LengthHolds`: `TypeOK`, `LinksMutual` and `LengthIsNodeCount`.
  They need the chain that `Linked` does without.  `CInv` adds to `LInv` that there is
  a sequence s of nodes that is the chain (`Chained`): without repetition, from `HEAD`
  along `nxt` to `TAIL`, or to the NULL that ends it while an append has not set the
  `next` of its node, and of exactly the nodes alive but those main has not linked
  yet or a worker has unlinked already (`Listed`).  `Counted` relates `length` to Len(s):
  one less while main has linked and not counted, one more while a worker has
  unlinked and not counted.  That the decrement always goes with a node needs that
  the scan finds its descriptor: it is at or behind the node looked at
  (`WorkerStands`), because what is handed to the pool is on the list and no two
  nodes hold the same descriptor (`Wanted`, `OwnData`).
* `ListImplements`: `Spec => ImplementsFdList`.  An append takes effect in its first
  assignment to a reachable `next`, a deletion in the assignment that lets the
  predecessor skip the node; every other assignment leaves s and the descriptors
  being deleted as they are.  The mapping is the data along `Walk`, a recursive
  function of the links: that it is s is proved at the least place where the two
  would differ (`NatLeast`, from the library's theorem that strict inclusion of finite
  sets is well founded), which stands in for an induction.

`DlistPtrProofs` proves, for any number of nodes (`MaxNodesAssumption`):

* `ListInvariant`: `Spec => []SInv`.  `SInv` adds to `TypeOK`, `NodesAccounted` and
  `FinalEmpties` where the loop of `dlist_ptr_final` stands (`SweepAt`): on `HEAD` or on
  the first node of a list that is not empty, or on `TAIL` of an empty one.  A turn
  that starts on `HEAD` deletes the second node, a turn that starts on the first
  node deletes that node and has stepped to the second before.
* `TypesHold`, `NodesExact`, `SweepOnList`, `SweepEmpties`: what it implies, checked by
  `dlist_ptr`.

`EchoProofs` proves, for any finite set of clients, any lengths and limits
(`NetAssumption`, `ClientAssumption`, `FdAssumption`) and writes of any size:

* `FreedOnce`: `Spec => []DestroyedOnce`, from no assumption: freed at most once, or it
  never came to listen and SIGINT was received.  The exception is reached: `server_init`
  frees what the second thread has freed.  The invariant `FreedBy` says who may free:
  the second thread only after SIGINT, `server_init` only where nothing listens, and
  main's end not at all, because main leaves its loop only when the second thread
  has closed the listening socket, so that `is_finish` is set at the end of main and
  the branch that frees is never taken.
* `EchoTyped`: `Spec => []TypeOK`.  With the types, `SInv` says which values flags, counters
  and buffers of `transc_t` take together (`Counters`), also after the partial writes
  and in the connections that find it in use, and that the call main makes next
  fits them (`Phases`); else `recv_bytes` could not be shown to stay above zero.
* `EchoInvariant`: `Spec => [](SInv /\ Echoes)`.  `Echoes` says what `transc_t` holds: `Carries`,
  that header and body buffer are the client's bytes behind those it has been
  answered.  Between two clients it says either that `transc_t` is cleared or that a
  client before all those still to come went without its answer (`Past`, `Order`).
* `EchoesFaithfully`: `EchoFaithful`; `HeldCounted`: `BytesHeld`; `LeftoversExplained`:
  `StaleOnlyAfterBreak`.

`ProxyProofs` proves, for any finite set of workers and any number of connections,
descriptors and requests (`ConstantsAssumption`):

* `RegistryHolds`: `Spec => []RegistryExact`.  The invariant adds the types of the
  lists and queues, that a worker with a work has a descriptor
  (`RegistryTyped`), and that the two lists differ only between main's two appends
  and then by main's descriptor (`ListsAgree`).  The last is needed: `RegistryExact`
  lets the lists be equal there too, and from such a state `LastFd` would be the
  descriptor of another connection.  The work is in the counting: `Append`, `Tail` and
  `RemoveFirst` change the number of places of one descriptor by one, a worker that
  starts or stops to serve it the number of its workers.  `RemoveFirst` needs the
  first place to exist (`NatLeast`).
* `LastIsOwn`: main finds at the end of `fd_list` what it has put there, whatever
  workers delete in between.
* `NothingForgotten`: `NoneForgotten`.  Its first half, `RegisteredServed` (`EInv`): a
  connection stays served because only a close of its own descriptor takes it out of
  the table, the same step takes it out of epoll, a number taken again was free, and
  none is taken again as `DST`; a worker that leaves the loop after a failed
  epoll_wait leaves its connection in `givenUp`.  Its second half, `AcceptedCarried`
  (`CInv`): each open descriptor is main's, in the queue, or a worker's.  It needs that
  no connection has two descriptors and that those in the backlog have none
  (`OneDescriptor`): a worker whose `epoll_ctl` finds its file registered already gives up
  without leaving anything behind, because the worker that registered it serves it
  under the same number.
* `ProxyTyped`: `TypeOK`.  That a worker's place in the shared array of events is within
  it needs that the array never gets shorter than what any worker still has to
  read, whoever writes to it.
* `AnsweredHolds`: `AnsweredOnce`.  The property is inductive over the types: each step
  moves a message of one connection from one place to at most one other.  The work
  is again in the counting, of the answers over all connections (`AnswersAppend`).

The invariants were first checked by TLC on the instances of the runs.

Left to TLC: liveness (`NoLostWakeup`, `IdleWaiterReturns`, `DestroyReturns`,
`FlushedByInput`, `FinalEnds`, `Answered`, `ServerStops`), which the prover cannot do
under fairness.  Every safety property of a passing run is proved; those of `Relay`
and `DlistInt` under the hypotheses of their runs (`ShortHeaderWrite = FALSE` and, for
messages, equal byte orders; `Serial = TRUE`), without which the runs that expect a
violation, or the text above, show them false.

## 5. Not modelled, and the plan

Start and shutdown of the proxy are not modelled.  `proxy_final` runs in the SIGINT
handler and calls `dlist_ptr_destroy`, whose `free( list)` is given `work_list`, a
member of `proxy_t` and not a block of the heap: the C library aborts the process
there, before `jpool_destroy`.  A handler that runs before `proxy_instance` is set
calls `proxy_create( NULL)`.  In the start, `proxy_set_sock` and `proxy_init` both free
the `proxy_t` on an error.  What follows each of these is undefined and the code
states nothing of it.  `Jpool` models `jpool_destroy` as it is written, whoever calls
it; `DlistPtr` models `dlist_ptr_final`, which runs before the abort.

Left out of the modelled parts: `EINTR` of the proxy's calls; the end of `server_init`
when `epoll_create` fails, where a function with a result returns none; the byte
before an empty input that `client.c:157` writes; in `Proxy`, the memory of the work
data.  `working_cnt` is read before the works already queued are counted, so more
connections than threads may be admitted; `NoneForgotten` says that those are
in the queue or with a worker, no property says that there are none or that a
worker comes to them.  A client's one read may return a
part of the answer, the rest comes with its next; `EchoFaithful` is about all bytes
in order and not about one read.

Not to be modelled: `jthread.c`, `jevtmgr.c` and `jtime.c` (used by nothing) and the
build files.

Planned: `DstFdIsDst`, that the number `dst_fd`
never names a source, once the restart of a destination has a meaning in the code.

A liveness property of `Proxy` (a source that closes is noticed) fails under weak
fairness alone, because two workers can overwrite each other's events for ever;
what scheduling assumption the code may rely on is open, so none is claimed.
