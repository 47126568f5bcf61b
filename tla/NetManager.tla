----------------------------- MODULE NetManager -----------------------------
(***************************************************************************)
(* class NetManager (src/net/NetManager.h, src/net/NetManager.cpp): the    *)
(* peer connections of a node and the threads that work on them: the       *)
(* accept thread, the thread that connects to peers, one worker for each   *)
(* connection, and the threads that call broadcast* and request*.          *)
(*                                                                         *)
(* A step is the code between two points where another thread may get in:  *)
(* the system calls, and the sections under m_peerMutex.  The registration *)
(* and the erasure of a peer are sections without a system call, and are   *)
(* one step each; a caller holds the mutex across all its sends.  The      *)
(* descriptors are the kernel's: numbers that are used again once closed.  *)
(* A send on an open connection may take any time: it returns when the     *)
(* remote side reads.  Messages that processMessage ignores change nothing *)
(* and are left out.                                                       *)
(* peer->running is true exactly while the worker serves: only the         *)
(* destructor, which is not modelled, writes it otherwise.                 *)
(***************************************************************************)
EXTENDS Integers, Sequences

CONSTANTS
    Peer,           \* the Peer objects, one for each connection ever made
    Host,           \* the addresses of the remote sides
    Fd,             \* the descriptor numbers that connections may get
    Caller,         \* the threads that call broadcast* and request*
    BroadcastKinds, \* the messages that broadcast* sends: "block", "tx"
    RequestKinds,   \* the messages that request* sends: "getblocks", "getdata"
    MaxCalls,       \* bound on the calls made by all callers together
    MaxVersions,    \* bound on the version messages a remote side sends
    None            \* no peer, no host, no descriptor, no thread, no frame

Adder == {"acceptor", "connector"}

Sender == Peer \cup Caller

Kind == {"version", "verack"} \cup BroadcastKinds \cup RequestKinds

ASSUME NetManagerAssumption ==
    /\ None \notin Peer \cup Host \cup Fd \cup Caller
    /\ None \notin [kind : Kind \cup {None}, fd : Fd, part : Nat]
    /\ Peer \cap Caller = {}
    /\ Fd \subseteq Nat
    /\ MaxCalls \in Nat
    /\ MaxVersions \in Nat

VARIABLES
    listening,   \* m_listening
    peers,       \* m_peers
    peerMap,     \* m_peerMap: for each host a peer, or None
    hostOf,      \* Peer::host
    socket,      \* Peer::socket
    worker,      \* where the worker of a peer is
    adder,       \* where the accept thread and the connecting thread are
    todo,        \* the peers a caller has still to send to
    kind,        \* the kind of message a caller sends
    sending,     \* the frame a thread is in the middle of, or None
    lock,        \* the caller that holds m_peerMutex, or None
    calls,       \* number of calls made
    file,        \* the kernel's descriptor table: for each number a connection
    remote,      \* the remote side of a connection: "none", "open", "closed"
    versions,    \* number of version messages each remote side has sent
    out          \* what has been sent on a connection, send by send

registry == <<peers, peerMap>>
objects  == <<hostOf, socket>>
callers  == <<todo, kind, lock, calls>>
kernel   == <<file, remote, versions>>
vars == <<listening, registry, objects, worker, adder, callers, sending, kernel, out>>

-----------------------------------------------------------------------------
(* Frames: sendMessage sends the type, the length, and the payload if any.  *)

LastPart(k) == IF k = "verack" THEN 2 ELSE 3

Frame(k, fd) == [kind |-> k, fd |-> fd, part |-> 1]

(* What sendVersion and sendVerack send. *)
VersionFrame(fd) == Frame("version", fd)
VerackFrame(fd) == Frame("verack", fd)

FreeFds == {fd \in Fd : file[fd] = None}

(* The numbers that the kernel may give to a new connection: the lowest free. *)
LowestFds == {fd \in FreeFds : \A other \in FreeFds : fd <= other}

-----------------------------------------------------------------------------

Init ==
    /\ listening = FALSE
    /\ peers = <<>>
    /\ peerMap = [h \in Host |-> None]
    /\ hostOf = [p \in Peer |-> None]
    /\ socket = [p \in Peer |-> None]
    /\ worker = [p \in Peer |-> "unborn"]
    /\ adder = [a \in Adder |-> [at |-> "off", host |-> None, peer |-> None]]
    /\ todo = [c \in Caller |-> <<>>]
    /\ kind = [c \in Caller |-> None]
    /\ sending = [s \in Sender |-> None]
    /\ lock = None
    /\ calls = 0
    /\ file = [fd \in Fd |-> None]
    /\ remote = [p \in Peer |-> "none"]
    /\ versions = [p \in Peer |-> 0]
    /\ out = [p \in Peer |-> <<>>]

(* startListening: while an old accept thread still holds the port, bind    *)
(* fails.                                                                   *)
StartListening ==
    /\ ~listening
    /\ adder["acceptor"].at = "off"
    /\ listening' = TRUE
    /\ adder' = [adder EXCEPT !["acceptor"] = [at |-> "accept", host |-> None, peer |-> None]]
    /\ UNCHANGED <<registry, objects, worker, callers, sending, kernel, out>>

(* stopListening: the accept thread stays blocked in accept. *)
StopListening ==
    /\ listening
    /\ listening' = FALSE
    /\ UNCHANGED <<registry, objects, worker, adder, callers, sending, kernel, out>>

(* A connection is made, its Peer object p filled in and its worker started *)
(* (accept, or connect; the worker's first act is sendVersion).             *)
Connected(a, p, h) ==
    /\ worker[p] = "unborn"
    /\ \E fd \in LowestFds :
          /\ socket' = [socket EXCEPT ![p] = fd]
          /\ file' = [file EXCEPT ![fd] = p]
          /\ sending' = [sending EXCEPT ![p] = VersionFrame(fd)]
    /\ hostOf' = [hostOf EXCEPT ![p] = h]
    /\ remote' = [remote EXCEPT ![p] = "open"]
    /\ worker' = [worker EXCEPT ![p] = "serve"]
    /\ adder' = [adder EXCEPT ![a] = [at |-> "started", host |-> None, peer |-> p]]
    /\ UNCHANGED <<listening, registry, callers, versions, out>>

(* The accept loop: accept returns a connection from h. *)
Accept(p, h) ==
    /\ adder["acceptor"].at = "accept"
    /\ Connected("acceptor", p, h)

(* connectToPeer, isConnectedTo(h), which takes the mutex: go on if no      *)
(* entry for h is found.                                                    *)
ConnectCheck(h) ==
    /\ adder["connector"].at = "off"
    /\ lock = None
    /\ peerMap[h] = None
    /\ adder' = [adder EXCEPT !["connector"] = [at |-> "checked", host |-> h, peer |-> None]]
    /\ UNCHANGED <<listening, registry, objects, worker, callers, sending, kernel, out>>

(* socket, inet_pton or connect fails. *)
ConnectFail ==
    /\ adder["connector"].at = "checked"
    /\ adder' = [adder EXCEPT !["connector"] = [at |-> "off", host |-> None, peer |-> None]]
    /\ UNCHANGED <<listening, registry, objects, worker, callers, sending, kernel, out>>

Connect(p) ==
    /\ adder["connector"].at = "checked"
    /\ Connected("connector", p, adder["connector"].host)

(* [faulty: a peer whose worker has ended is not added.] *)
RegisterAliveOnly(a) ==
    LET p == adder[a].peer
        next == IF a = "acceptor" /\ listening THEN "accept" ELSE "off"
    IN  /\ adder[a].at = "started"
        /\ lock = None
        /\ peers' = IF worker[p] = "serve" THEN Append(peers, p) ELSE peers
        /\ peerMap' = [peerMap EXCEPT ![hostOf[p]] = p]
        /\ adder' = [adder EXCEPT ![a] = [at |-> next, host |-> None, peer |-> None]]
        /\ UNCHANGED <<listening, objects, worker, callers, sending, kernel, out>>

(* The section that adds a started peer to m_peers and m_peerMap.  The      *)
(* accept loop then goes round, or ends and closes the listening socket.    *)
Register(a) ==
    LET p == adder[a].peer
        next == IF a = "acceptor" /\ listening THEN "accept" ELSE "off"
    IN  /\ adder[a].at = "started"
        /\ lock = None
        /\ peers' = Append(peers, p)
        /\ peerMap' = [peerMap EXCEPT ![hostOf[p]] = p]
        /\ adder' = [adder EXCEPT ![a] = [at |-> next, host |-> None, peer |-> None]]
        /\ UNCHANGED <<listening, objects, worker, callers, sending, kernel, out>>

-----------------------------------------------------------------------------
(* sendMessage, one call of send at a time, by whichever thread is in it.   *)

(* The frame a thread has still to send after the current part. *)
AfterPart(f) ==
    IF f.part = LastPart(f.kind) THEN None ELSE [f EXCEPT !.part = @ + 1]

(* The bytes reach the connection that the number refers to NOW. *)
Send(s) ==
    LET f == sending[s]
        q == file[f.fd]
    IN  /\ f # None
        /\ q # None
        /\ remote[q] = "open"
        /\ out' = [out EXCEPT ![q] = Append(@, [by |-> s, kind |-> f.kind, part |-> f.part])]
        /\ sending' = [sending EXCEPT ![s] = AfterPart(f)]
        /\ UNCHANGED <<listening, registry, objects, worker, adder, callers, kernel>>

(* The remote side has closed: the kernel still takes the bytes. *)
SendLost(s) ==
    LET f == sending[s]
    IN  /\ f # None
        /\ file[f.fd] # None
        /\ remote[file[f.fd]] = "closed"
        /\ sending' = [sending EXCEPT ![s] = AfterPart(f)]
        /\ UNCHANGED <<listening, registry, objects, worker, adder, callers, kernel, out>>

(* [faulty: a failed send is tried again for ever.] *)
SendFailRetry(s) ==
    LET f == sending[s]
    IN  /\ f # None
        /\ file[f.fd] # None => remote[file[f.fd]] = "closed"
        /\ UNCHANGED vars

(* The remote side has closed, or the number refers to nothing: send fails  *)
(* and sendMessage returns.                                                 *)
SendFail(s) ==
    LET f == sending[s]
    IN  /\ f # None
        /\ file[f.fd] # None => remote[file[f.fd]] = "closed"
        /\ sending' = [sending EXCEPT ![s] = None]
        /\ UNCHANGED <<listening, registry, objects, worker, adder, callers, kernel, out>>

-----------------------------------------------------------------------------
(* peerWorker. *)

Receiving(p) == worker[p] = "serve" /\ sending[p] = None

(* recv returns a version message: the reply is a verack. *)
RecvVersion(p) ==
    LET q == file[socket[p]]
    IN  /\ Receiving(p)
        /\ q # None
        /\ remote[q] = "open"
        /\ versions[q] < MaxVersions
        /\ versions' = [versions EXCEPT ![q] = @ + 1]
        /\ sending' = [sending EXCEPT ![p] = VerackFrame(socket[p])]
        /\ UNCHANGED <<listening, registry, objects, worker, adder, callers,
                       file, remote, out>>

(* [faulty: the socket is closed when the loop ends, and again by Close.] *)
RecvEndClosing(p) ==
    LET q == file[socket[p]]
    IN  /\ Receiving(p)
        /\ q # None => remote[q] = "closed"
        /\ worker' = [worker EXCEPT ![p] = "erase"]
        /\ file' = [file EXCEPT ![socket[p]] = None]
        /\ UNCHANGED <<listening, registry, objects, adder, callers, sending,
                       remote, versions, out>>

(* recv returns 0 or an error: the loop ends. *)
RecvEnd(p) ==
    LET q == file[socket[p]]
    IN  /\ Receiving(p)
        /\ q # None => remote[q] = "closed"
        /\ worker' = [worker EXCEPT ![p] = "erase"]
        /\ UNCHANGED <<listening, registry, objects, adder, callers, sending, kernel, out>>

(* An oversized message: the loop ends. *)
RecvOversized(p) ==
    LET q == file[socket[p]]
    IN  /\ Receiving(p)
        /\ q # None
        /\ remote[q] = "open"
        /\ worker' = [worker EXCEPT ![p] = "erase"]
        /\ UNCHANGED <<listening, registry, objects, adder, callers, sending, kernel, out>>

(* [faulty: the worker ends without closing its socket.] *)
EraseWithoutClose(p) ==
    /\ worker[p] = "erase"
    /\ lock = None
    /\ peerMap' = [peerMap EXCEPT ![hostOf[p]] = None]
    /\ worker' = [worker EXCEPT ![p] = "done"]
    /\ UNCHANGED <<listening, peers, objects, adder, callers, sending, kernel, out>>

(* The section that erases the map entry of the peer's host, whoever's it is. *)
Erase(p) ==
    /\ worker[p] = "erase"
    /\ lock = None
    /\ peerMap' = [peerMap EXCEPT ![hostOf[p]] = None]
    /\ worker' = [worker EXCEPT ![p] = "close"]
    /\ UNCHANGED <<listening, peers, objects, adder, callers, sending, kernel, out>>

(* close(peer->socket): the number is free; the peer stays in m_peers and   *)
(* keeps the number.                                                        *)
Close(p) ==
    /\ worker[p] = "close"
    /\ file' = [file EXCEPT ![socket[p]] = None]
    /\ worker' = [worker EXCEPT ![p] = "done"]
    /\ UNCHANGED <<listening, registry, objects, adder, callers, sending,
                   remote, versions, out>>

(* The remote side closes the connection. *)
RemoteClose(p) ==
    /\ remote[p] = "open"
    /\ remote' = [remote EXCEPT ![p] = "closed"]
    /\ UNCHANGED <<listening, registry, objects, worker, adder, callers, sending,
                   file, versions, out>>

-----------------------------------------------------------------------------
(* The callers. *)

(* [faulty: the mutex is not waited for.] *)
CallUnlocked(c, k, targets) ==
    /\ calls < MaxCalls
    /\ lock' = c
    /\ calls' = calls + 1
    /\ kind' = [kind EXCEPT ![c] = k]
    /\ todo' = [todo EXCEPT ![c] = targets]
    /\ UNCHANGED <<listening, registry, objects, worker, adder, sending, kernel, out>>

(* A call takes the mutex for all its sends. *)
Call(c, k, targets) ==
    /\ calls < MaxCalls
    /\ lock = None
    /\ lock' = c
    /\ calls' = calls + 1
    /\ kind' = [kind EXCEPT ![c] = k]
    /\ todo' = [todo EXCEPT ![c] = targets]
    /\ UNCHANGED <<listening, registry, objects, worker, adder, sending, kernel, out>>

(* broadcastBlock, broadcastTransaction: to every peer of m_peers, its      *)
(* socket being a number that is not negative, dead or alive.               *)
Broadcast(c) == \E k \in BroadcastKinds : Call(c, k, peers)

(* requestBlocks, requestTransaction: to the peer that the map has for h.   *)
Request(c, h) ==
    \E k \in RequestKinds :
        Call(c, k, IF peerMap[h] = None THEN <<>> ELSE <<peerMap[h]>>)

(* The next sendMessage of a call. *)
NextPeer(c) ==
    /\ lock = c
    /\ sending[c] = None
    /\ todo[c] # <<>>
    /\ sending' = [sending EXCEPT ![c] = Frame(kind[c], socket[Head(todo[c])])]
    /\ todo' = [todo EXCEPT ![c] = Tail(@)]
    /\ UNCHANGED <<listening, registry, objects, worker, adder, kind, lock, calls,
                   kernel, out>>

Return(c) ==
    /\ lock = c
    /\ sending[c] = None
    /\ todo[c] = <<>>
    /\ lock' = None
    /\ UNCHANGED <<listening, registry, objects, worker, adder, todo, kind, calls,
                   sending, kernel, out>>

-----------------------------------------------------------------------------

WorkerStep(p) == RecvVersion(p) \/ RecvEnd(p) \/ RecvOversized(p) \/ Erase(p) \/ Close(p)

CallerStep(c) ==
    \/ Broadcast(c)
    \/ \E h \in Host : Request(c, h)
    \/ NextPeer(c)
    \/ Return(c)

SenderStep(s) == Send(s) \/ SendLost(s) \/ SendFail(s)

Next ==
    \/ StartListening
    \/ StopListening
    \/ \E p \in Peer, h \in Host : Accept(p, h)
    \/ \E h \in Host : ConnectCheck(h)
    \/ ConnectFail
    \/ \E p \in Peer : Connect(p)
    \/ \E a \in Adder : Register(a)
    \/ \E s \in Sender : SenderStep(s)
    \/ \E p \in Peer : WorkerStep(p)
    \/ \E p \in Peer : RemoteClose(p)
    \/ \E c \in Caller : CallerStep(c)

Spec == Init /\ [][Next]_vars

(* The kernel schedules every thread.  The calls are finitely many, so a    *)
(* thread that waits for the mutex finds it free for good in the end.       *)
(* Nothing makes a remote side, a caller or a connection start.             *)
ThreadsRun ==
    /\ \A a \in Adder : WF_vars(Register(a))
    /\ \A s \in Sender : WF_vars(SendLost(s) \/ SendFail(s))
    /\ \A p \in Peer : WF_vars(RecvEnd(p) \/ Erase(p) \/ Close(p))
    /\ \A c \in Caller : WF_vars(NextPeer(c) \/ Return(c))

(* An assumption on the remote sides, which the code cannot enforce (no     *)
(* timeout is set): each reads what is sent to it, or closes.               *)
RemotesRead == \A s \in Sender : WF_vars(Send(s))

FairSpec == Spec /\ ThreadsRun /\ RemotesRead

-----------------------------------------------------------------------------
(* Properties. *)

(* Although numbers are used again, and dead peers keep theirs, a worker    *)
(* always receives from, answers on and closes its own connection.          *)
WorkersOwnTheirSocket ==
    \A p \in Peer :
        worker[p] \in {"serve", "erase", "close"}
            => socket[p] # None /\ file[socket[p]] = p

(* A connection once handed to the kernel is not forgotten: each peer whose *)
(* worker was started is either in m_peers, once, or about to be added by   *)
(* exactly one thread, even if it has died before.                          *)
StartedPeersAccountedFor ==
    \A p \in Peer :
        LET listed == {i \in DOMAIN peers : peers[i] = p}
            adding == {a \in Adder : adder[a].peer = p}
        IN  worker[p] # "unborn"
                <=> \/ adding = {} /\ \E i \in listed : listed = {i}
                    \/ listed = {} /\ \E a \in adding : adding = {a}

(* y may follow x in a stream of frames. *)
Continues(x, y) ==
    IF y.part = 1 THEN x.part = LastPart(x.kind)
    ELSE x.by = y.by /\ x.kind = y.kind /\ x.part = y.part - 1

(* The mutex keeps the calls apart: on every connection, the frames of      *)
(* callers follow one another whole.  (A frame may start on another         *)
(* connection that had the same number.)                                    *)
CallersFramesOrdered ==
    \A p \in Peer : \A i, j \in DOMAIN out[p] :
        /\ i < j
        /\ out[p][i].by \in Caller
        /\ out[p][j].by \in Caller
        /\ \A k \in i+1 .. j-1 : out[p][k].by \notin Caller
        => Continues(out[p][i], out[p][j])

(* A connection that is made gets into the list of peers, although          *)
(* broadcasts hold the mutex and its worker may end first.                  *)
ConnectionsGetListed ==
    \A p \in Peer : worker[p] = "serve" ~> \E i \in DOMAIN peers : peers[i] = p

(* The worker of a connection that the remote side has closed ends and      *)
(* gives back the descriptor number.                                        *)
ClosedConnectionsReleased ==
    \A p \in Peer :
        remote[p] = "closed" ~> worker[p] = "done" /\ \A fd \in Fd : file[fd] # p

(* Every call returns and gives back the mutex. *)
CallsReturn == \A c \in Caller : lock = c ~> lock # c

(* NetManager.h:71, of sendMessage: "Send a framed message".  The remote    *)
(* side should read whole frames, one after the other.                      *)
StreamsAreFramed ==
    \A p \in Peer : \A i \in 1 .. Len(out[p]) - 1 : Continues(out[p][i], out[p][i + 1])
=============================================================================
