------------------------------- MODULE Proxy -------------------------------
(***************************************************************************)
(* The proxy process of src/src/proxy/proxy.c: the main thread accepts     *)
(* connections and gives them to the pool, each worker runs proxy_conn for *)
(* one connection, and all of them share one connection to the             *)
(* destination, one epoll instance, one array of events, the two lists and *)
(* the table of file descriptors, whose numbers the kernel gives out again *)
(* (always the lowest free one) as soon as they are closed.                *)
(*                                                                         *)
(* Messages are whole here and forwarded in one step (Relay has the bytes  *)
(* of one direction), the operations of the lists are atomic (DlistInt has *)
(* their steps) and the pool is the queue that Jpool implements.           *)
(***************************************************************************)
EXTENDS Naturals, Sequences, SequencesExt, FiniteSets

CONSTANTS
  Workers,     \* the threads of the pool
  MaxConns,    \* connections that sources make, numbered as they are made
  MaxFd,       \* highest descriptor number: dst_fd is 1
  Requests,    \* requests the sources send
  MayFail,     \* TRUE when pipe_open and epoll_wait may fail
  DstMayClose  \* TRUE when the destination may close

ASSUME ConstantsAssumption ==
  /\ IsFiniteSet(Workers) /\ Workers # {}
  /\ MaxConns \in Nat /\ MaxFd \in Nat \ {0} /\ Requests \in Nat
  /\ MayFail \in BOOLEAN /\ DstMayClose \in BOOLEAN

VARIABLES
  fdt,       \* fdt[f]: the open file of descriptor f: a connection, DST or NONE
  backlog,   \* connections waiting for accept
  made,      \* connections made by sources
  unsent,    \* requests still to be sent
  asked,     \* history: asked[c]: requests c has sent
  inbox,     \* inbox[c]: requests of c the proxy has not read
  gone,      \* connections whose source has closed
  got,       \* got[c]: responses written to c, each the connection it answers
  toDst,     \* requests written to the destination, not answered yet
  fromDst,   \* responses the proxy has not read
  dstUp,     \* the destination has not closed
  epset,     \* connections registered in epoll_handle_fd, besides DST
  events,    \* the array proxy->events
  fd_list,   \* the descriptors of fd_list
  work_list, \* src_fd of the work data in work_list
  queue,     \* works the pool has not started: their src_fd
  mpc, mfd,  \* main thread: where it is, its src_fd
  wpc,       \* wpc[w]: where worker w is
  wsrc,      \* wsrc[w]: src_fd of its work
  wi, wn,    \* wi[w], wn[w]: i and event_count of proxy_conn
  leaked,    \* src_fds of works that ended without proxy_delete_src_info
  givenUp    \* history: connections that such a work left behind, open

peers == <<made, unsent, asked, gone, dstUp>>
lists == <<fd_list, work_list>>
main == <<mpc, mfd>>
loops == <<wi, wn>>
traffic == <<inbox, got, toDst, fromDst>>
ended == <<leaked, givenUp>>
vars == <<fdt, backlog, peers, traffic, epset, events, lists, queue, main,
          wpc, wsrc, loops, ended>>

NONE == 0
Conns == 1..MaxConns
DST == MaxConns + 1
Fds == 1..MaxFd
DstFd == 1
THREAD_NUM == Cardinality(Workers)

(* Works being run, which Jpool proves equal to jpool->working_cnt.        *)
WorkingCnt == Cardinality({w \in Workers : wpc[w] # "idle"})

Init ==
  /\ fdt = [f \in Fds |-> IF f = DstFd THEN DST ELSE NONE]
  /\ backlog = <<>>
  /\ made = 0
  /\ unsent = Requests
  /\ asked = [c \in Conns |-> 0]
  /\ inbox = [c \in Conns |-> 0]
  /\ gone = {}
  /\ got = [c \in Conns |-> <<>>]
  /\ toDst = <<>> /\ fromDst = <<>>
  /\ dstUp = TRUE
  /\ epset = {}
  /\ events = <<>>
  /\ fd_list = <<>> /\ work_list = <<>>
  /\ queue = <<>>
  /\ mpc = "check" /\ mfd = NONE
  /\ wpc = [w \in Workers |-> "idle"]
  /\ wsrc = [w \in Workers |-> NONE]
  /\ wi = [w \in Workers |-> 0] /\ wn = [w \in Workers |-> 0]
  /\ leaked = <<>> /\ givenUp = {}

(* main returns when dst_fd is closed, and the process with all its        *)
(* threads is over.                                                        *)
Running == mpc # "exit"

-----------------------------------------------------------------------------
(* Sources and destination.                                                *)

Connect ==
  /\ made < MaxConns
  /\ made' = made + 1
  /\ backlog' = Append(backlog, made + 1)
  /\ UNCHANGED <<fdt, unsent, asked, gone, dstUp, traffic, epset, events, lists, queue,
                 main, wpc, wsrc, loops, ended>>

Send(c) ==
  /\ c <= made /\ c \notin gone
  /\ unsent > 0
  /\ unsent' = unsent - 1
  /\ asked' = [asked EXCEPT ![c] = @ + 1]
  /\ inbox' = [inbox EXCEPT ![c] = @ + 1]
  /\ UNCHANGED <<fdt, backlog, made, gone, dstUp, got, toDst, fromDst, epset, events,
                 lists, queue, main, wpc, wsrc, loops, ended>>

Leave(c) ==
  /\ c <= made /\ c \notin gone
  /\ gone' = gone \cup {c}
  /\ UNCHANGED <<fdt, backlog, made, unsent, asked, dstUp, traffic, epset, events, lists,
                 queue, main, wpc, wsrc, loops, ended>>

Reply ==
  /\ dstUp
  /\ toDst # <<>>
  /\ toDst' = Tail(toDst)
  /\ fromDst' = Append(fromDst, Head(toDst))
  /\ UNCHANGED <<fdt, backlog, peers, inbox, got, epset, events, lists, queue,
                 main, wpc, wsrc, loops, ended>>

DstCloses ==
  /\ DstMayClose
  /\ dstUp
  /\ dstUp' = FALSE
  /\ UNCHANGED <<fdt, backlog, made, unsent, asked, gone, traffic, epset, events, lists,
                 queue, main, wpc, wsrc, loops, ended>>

-----------------------------------------------------------------------------
(* The main thread: proxy_handle_req.                                      *)

(* proxy_wait, line 364; main.c returns on SOC_ERR.                        *)
CheckDst ==
  /\ mpc = "check"
  /\ mpc' = IF fdt[DstFd] = NONE THEN "exit" ELSE "accept"
  /\ UNCHANGED <<fdt, backlog, peers, traffic, epset, events, lists, queue, mfd,
                 wpc, wsrc, loops, ended>>

(* proxy_wait, lines 375-384: the lowest free descriptor, or none to       *)
(* accept (FD_ERR, and proxy_handle_req turns to proxy_wait again).        *)
Accept ==
  /\ mpc = "accept"
  /\ \/ /\ backlog # <<>>
        /\ \E f \in Fds :
             /\ fdt[f] = NONE /\ \A g \in Fds : fdt[g] = NONE => f <= g
             /\ fdt' = [fdt EXCEPT ![f] = Head(backlog)]
             /\ mfd' = f
        /\ backlog' = Tail(backlog)
        /\ mpc' = "admit"
     \/ /\ backlog = <<>> \/ \A f \in Fds : fdt[f] # NONE
        /\ mpc' = "check"
        /\ UNCHANGED <<fdt, mfd, backlog>>
  /\ UNCHANGED <<peers, traffic, epset, events, lists, queue, wpc, wsrc, loops, ended>>

(* proxy_wait, lines 387-394: wait while every thread works.               *)
Admit ==
  /\ mpc = "admit"
  /\ WorkingCnt # THREAD_NUM
  /\ mpc' = "register"
  /\ UNCHANGED <<fdt, backlog, peers, traffic, epset, events, lists, queue, mfd,
                 wpc, wsrc, loops, ended>>

(* proxy_wait, line 396.                                                   *)
Register ==
  /\ mpc = "register"
  /\ fd_list' = Append(fd_list, mfd)
  /\ mpc' = "addwork"
  /\ UNCHANGED <<fdt, backlog, peers, traffic, epset, events, work_list, queue, mfd,
                 wpc, wsrc, loops, ended>>

(* Operators named X_y are X with a slip y; no specification uses them:    *)
(* put in the place of X, each breaks one of the properties below.         *)

LastFd_dummy == NONE
LastFd_first == IF fd_list = <<>> THEN NONE ELSE Head(fd_list)

(* proxy_add_work_data: the fd is read back from the end of fd_list.       *)
LastFd == IF fd_list = <<>> THEN NONE ELSE Last(fd_list)
AddWorkData ==
  /\ mpc = "addwork"
  /\ work_list' = Append(work_list, LastFd)
  /\ queue' = Append(queue, LastFd)
  /\ mpc' = "check"
  /\ UNCHANGED <<fdt, backlog, peers, traffic, epset, events, fd_list, mfd,
                 wpc, wsrc, loops, ended>>

-----------------------------------------------------------------------------
(* A worker: jpool_worker runs proxy_conn.                                 *)

Goto(w, label) == wpc' = [wpc EXCEPT ![w] = label]

TakeWork(w) ==
  /\ wpc[w] = "idle"
  /\ queue # <<>>
  /\ queue' = Tail(queue)
  /\ wsrc' = [wsrc EXCEPT ![w] = Head(queue)]
  /\ Goto(w, "open")
  /\ UNCHANGED <<fdt, backlog, peers, traffic, epset, events, lists, main, loops, ended>>

FileOf(f) == IF f = NONE THEN NONE ELSE fdt[f]

(* The work ends; the lists, the descriptor and epoll stay as they are.    *)
GiveUp(w, left) ==
  /\ Goto(w, "end")
  /\ leaked' = Append(leaked, wsrc[w])
  /\ givenUp' = givenUp \cup left
  /\ UNCHANGED epset

(* Lines 567-588: pipes, then epoll_ctl for src_fd, which fails on a       *)
(* descriptor that is closed and on one that another worker registered.    *)
OpenConn(w) ==
  LET file == FileOf(wsrc[w]) IN
  /\ wpc[w] = "open"
  /\ \/ MayFail /\ GiveUp(w, {file} \cap Conns)
     \/ (file \in {NONE, DST} \cup epset) /\ GiveUp(w, {})
     \/ /\ file \notin {NONE, DST} \cup epset
        /\ epset' = epset \cup {file}
        /\ Goto(w, "loop")
        /\ UNCHANGED ended
  /\ UNCHANGED <<fdt, backlog, peers, traffic, events, lists, queue, main, wsrc, loops>>

(* Lines 591-601.                                                          *)
CheckConn(w) ==
  /\ wpc[w] = "loop"
  /\ Goto(w, IF FileOf(wsrc[w]) = NONE \/ fdt[DstFd] = NONE THEN "delete" ELSE "wait")
  /\ UNCHANGED <<fdt, backlog, peers, traffic, epset, events, lists, queue, main,
                 wsrc, loops, ended>>

(* Descriptors with input: data or the end of the peer.                    *)
Readable(file) ==
  \/ file \in Conns /\ (inbox[file] > 0 \/ file \in gone)
  \/ file = DST /\ (fromDst # <<>> \/ ~dstUp)
ReadyFds == {f \in Fds : fdt[f] \in epset \cup {DST} /\ Readable(fdt[f])}

(* Entries of the shared array that worker w may still read.               *)
Reading(w) == wpc[w] \in {"events", "close_src", "close_dst"}
Pending(w) == IF Reading(w) THEN wn[w] ELSE 0
Unread(w) == {k \in DOMAIN events : \E v \in Workers \ {w} : k <= Pending(v)}

(* Lines 610-613: on a timeout the loop is continued; break in its place.  *)
AfterTimeout_break == "end"
AfterTimeout == "loop"

(* Lines 604-612: epoll_wait writes the ready descriptors over the start   *)
(* of the shared array, or times out, or fails (EINTR) and the loop is     *)
(* left. Entries after the ones written stay; those no worker will read    *)
(* are left out.                                                           *)
EpollWait(w) ==
  /\ wpc[w] = "wait"
  /\ \/ /\ ReadyFds # {}
        /\ \E ready \in SetToAllKPermutations(ReadyFds) :
             /\ Len(ready) = Cardinality(ReadyFds)
             /\ events' = ready \o SubSeq(events, Len(ready) + 1, Cardinality(Unread(w)))
             /\ wn' = [wn EXCEPT ![w] = Len(ready)]
        /\ wi' = [wi EXCEPT ![w] = 1]
        /\ Goto(w, "events")
        /\ UNCHANGED <<epset, ended>>
     \/ /\ ReadyFds = {}
        /\ Goto(w, AfterTimeout)
        /\ UNCHANGED <<events, loops, epset, ended>>
     \/ /\ MayFail                                         \* line 606
        /\ GiveUp(w, {FileOf(wsrc[w])} \cap Conns)
        /\ UNCHANGED <<events, loops>>
  /\ UNCHANGED <<fdt, backlog, peers, traffic, lists, queue, main, wsrc>>

NothingRead == UNCHANGED <<fdt, epset, traffic>>

(* A message sent again after it was sent.                                 *)
WriteTo_twice(f, c) ==
  LET file == FileOf(f) IN
  \/ file = DST /\ toDst' = toDst \o <<c, c>> /\ UNCHANGED got
  \/ file \in Conns /\ got' = [got EXCEPT ![file] = @ \o <<c, c>>] /\ UNCHANGED toDst
  \/ file = NONE /\ UNCHANGED <<toDst, got>>

(* A message written to descriptor f, on behalf of connection c.           *)
WriteTo(f, c) ==
  LET file == FileOf(f) IN
  \/ file = DST /\ toDst' = Append(toDst, c) /\ UNCHANGED got
  \/ file \in Conns /\ got' = [got EXCEPT ![file] = Append(@, c)] /\ UNCHANGED toDst
  \/ file = NONE /\ UNCHANGED <<toDst, got>>

(* proxy_process_data for descriptor f, forwarding to descriptor g.        *)
Process(f, g) ==
  LET file == FileOf(f) IN
  \/ file # NONE /\ ~Readable(file) /\ NothingRead         \* ERRNO_EAGAIN
  \/ /\ file \in Conns /\ inbox[file] > 0
     /\ inbox' = [inbox EXCEPT ![file] = @ - 1]
     /\ WriteTo(g, file)
     /\ UNCHANGED <<fdt, epset, fromDst>>
  \/ /\ file = DST /\ fromDst # <<>>
     /\ fromDst' = Tail(fromDst)
     /\ \/ FileOf(g) # DST /\ WriteTo(g, Head(fromDst))
        \/ FileOf(g) = DST /\ UNCHANGED <<toDst, got>>
     /\ UNCHANGED <<fdt, epset, inbox>>

(* Line 332: the read of descriptor f fails, it is closed or its peer is.  *)
ReadFails(f) ==
  LET file == FileOf(f) IN
  \/ file = NONE                                           \* EBADF
  \/ file \in Conns /\ inbox[file] = 0 /\ file \in gone     \* ZERO_BYTE
  \/ file = DST /\ fromDst = <<>> /\ ~dstUp                \* ZERO_BYTE

(* The next turn of the loop over the events, or line 591 again.           *)
NextTurn(w) ==
  \/ /\ wi[w] < wn[w]
     /\ wi' = [wi EXCEPT ![w] = @ + 1]
     /\ Goto(w, "events")
     /\ UNCHANGED <<wn, events>>
  \/ /\ wi[w] = wn[w]
     /\ wi' = [wi EXCEPT ![w] = 0] /\ wn' = [wn EXCEPT ![w] = 0]
     /\ events' = SubSeq(events, 1, Cardinality(Unread(w)))
     /\ Goto(w, "loop")

(* Lines 614-621: one turn of the loop over the events; the shared array   *)
(* is read now, whatever other workers have written in it.                 *)
HandleEvent(w) ==
  LET fd == events[wi[w]] IN
  /\ wpc[w] = "events"
  /\ \/ /\ \/ fd = wsrc[w] /\ Process(fd, DstFd)
           \/ fd # wsrc[w] /\ fd = DstFd /\ Process(fd, wsrc[w])
           \/ fd # wsrc[w] /\ fd # DstFd /\ NothingRead
        /\ NextTurn(w)
     \/ /\ fd \in {wsrc[w], DstFd} /\ ReadFails(fd)
        /\ Goto(w, IF fd = wsrc[w] THEN "close_src" ELSE "close_dst")
        /\ NothingRead
        /\ UNCHANGED <<loops, events>>
  /\ UNCHANGED <<backlog, peers, lists, queue, main, wsrc, ended>>

(* Line 335: close( fd), a call of its own: whatever file the number has   *)
(* now leaves the table and epoll, be it a new source's.                   *)
CloseFd(w) ==
  LET f == IF wpc[w] = "close_src" THEN wsrc[w] ELSE DstFd IN
  /\ wpc[w] \in {"close_src", "close_dst"}
  /\ fdt' = [fdt EXCEPT ![f] = NONE]
  /\ epset' = epset \ {fdt[f]}
  /\ NextTurn(w)
  /\ UNCHANGED <<traffic, backlog, peers, lists, queue, main, wsrc, ended>>

(* Only one of the two lists cleaned.                                      *)
DeleteSrcInfo_oneList(w) ==
  /\ wpc[w] = "delete"
  /\ fd_list' = RemoveFirst(fd_list, wsrc[w])
  /\ Goto(w, "end")
  /\ UNCHANGED <<fdt, backlog, peers, traffic, epset, events, work_list, queue, main,
                 wsrc, loops, ended>>

(* proxy_delete_src_info                                                   *)
DeleteSrcInfo(w) ==
  /\ wpc[w] = "delete"
  /\ fd_list' = RemoveFirst(fd_list, wsrc[w])
  /\ work_list' = RemoveFirst(work_list, wsrc[w])
  /\ Goto(w, "end")
  /\ UNCHANGED <<fdt, backlog, peers, traffic, epset, events, queue, main, wsrc,
                 loops, ended>>

(* Lines 624-626 and the end of jpool_worker's turn.                       *)
EndConn(w) ==
  /\ wpc[w] = "end"
  /\ Goto(w, "idle")
  /\ wsrc' = [wsrc EXCEPT ![w] = NONE]
  /\ UNCHANGED <<fdt, backlog, peers, traffic, epset, events, lists, queue, main,
                 loops, ended>>

MainStep == CheckDst \/ Accept \/ Admit \/ Register \/ AddWorkData
WorkerStep(w) ==
  \/ TakeWork(w) \/ OpenConn(w) \/ CheckConn(w) \/ EpollWait(w)
  \/ HandleEvent(w) \/ CloseFd(w) \/ DeleteSrcInfo(w) \/ EndConn(w)
Environment == Connect \/ Reply \/ DstCloses \/ \E c \in Conns : Send(c) \/ Leave(c)

Next ==
  \/ Running /\ MainStep
  \/ Running /\ Environment
  \/ \E w \in Workers : Running /\ WorkerStep(w)
  \/ ~Running /\ UNCHANGED vars

Spec == Init /\ [][Next]_vars

-----------------------------------------------------------------------------
InLoop(w) == wpc[w] \in {"loop", "wait", "events", "close_src", "close_dst"}
WorkerPlaces ==
  {"idle", "open", "loop", "wait", "events", "close_src", "close_dst", "delete", "end"}

(* The type of every variable; a worker in the loop over the events reads  *)
(* entries that are there, although all workers share the array.           *)
TypeOK ==
  /\ fdt \in [Fds -> Conns \cup {DST, NONE}]
  /\ backlog \in Seq(Conns) /\ queue \in Seq(Fds)
  /\ fd_list \in Seq(Fds) /\ work_list \in Seq(Fds) /\ leaked \in Seq(Fds)
  /\ events \in Seq(Fds)
  /\ epset \subseteq Conns /\ gone \subseteq Conns /\ givenUp \subseteq Conns
  /\ made \in 0..MaxConns /\ unsent \in 0..Requests /\ dstUp \in BOOLEAN
  /\ inbox \in [Conns -> Nat] /\ asked \in [Conns -> Nat]
  /\ got \in [Conns -> Seq(Conns)] /\ toDst \in Seq(Conns) /\ fromDst \in Seq(Conns)
  /\ mpc \in {"check", "accept", "admit", "register", "addwork", "exit"}
  /\ mfd \in Fds \cup {NONE}
  /\ wpc \in [Workers -> WorkerPlaces]
  /\ wsrc \in [Workers -> Fds \cup {NONE}]
  /\ wi \in [Workers -> Nat] /\ wn \in [Workers -> Nat]
  /\ \A w \in Workers : Reading(w) => wi[w] \in 1..wn[w] /\ wn[w] <= Len(events)

(* The two lists and the pool agree: both lists hold, in the same order,   *)
(* the src_fd of each work that is queued, served or was given up, and     *)
(* nothing else, however often a descriptor number comes back.             *)
Count(s, f) == Cardinality({k \in DOMAIN s : s[k] = f})
Serving(f) == Cardinality({w \in Workers :
                             wsrc[w] = f /\ (InLoop(w) \/ wpc[w] \in {"open", "delete"})})
RegistryExact ==
  /\ fd_list = work_list \/ (mpc = "addwork" /\ fd_list = Append(work_list, mfd))
  /\ \A f \in Fds : Count(work_list, f) = Count(queue, f) + Serving(f) + Count(leaked, f)

(* While the destination is connected, an open connection is somebody's:   *)
(* one that is registered in epoll has a worker in the loop of proxy_conn  *)
(* that looks at its descriptor, and one that was accepted is being        *)
(* admitted by main, or waits in the queue of the pool while all workers   *)
(* are busy, or is being opened or served.  None is dropped or deaf,       *)
(* whatever descriptor numbers come back, whoever closes them and whatever *)
(* is written over the array of events, but those that proxy_conn itself   *)
(* gives up when pipe_open or epoll_wait fails (lines 569, 576 and 606).   *)
RegisteredServed ==
  \A c \in epset \ givenUp : \E w \in Workers : InLoop(w) /\ FileOf(wsrc[w]) = c
Carried(f) ==
  \/ mpc \in {"admit", "register", "addwork"} /\ mfd = f
  \/ \E k \in DOMAIN queue : queue[k] = f
  \/ \E w \in Workers : wsrc[w] = f /\ (wpc[w] = "open" \/ InLoop(w))
AcceptedCarried == \A f \in Fds : fdt[f] \in Conns \ givenUp => Carried(f)
NoneForgotten == fdt[DstFd] = DST => RegisteredServed /\ AcceptedCarried

(* Whichever workers read a request and its response, a request is         *)
(* answered to at most one source, once: all responses that carry c, those *)
(* still under way and the requests of c not read yet are no more than c   *)
(* has sent.                                                               *)
Answers(c) == {a \in UNION {{d} \X DOMAIN got[d] : d \in Conns} : got[a[1]][a[2]] = c}
AnsweredOnce ==
  \A c \in Conns :
    Cardinality(Answers(c)) + Count(toDst, c) + Count(fromDst, c) + inbox[c] <= asked[c]

(* Comments 325-328: a source receives the responses to its own requests.  *)
OwnResponses == \A c \in Conns : \A k \in DOMAIN got[c] : got[c][k] = c
=============================================================================
