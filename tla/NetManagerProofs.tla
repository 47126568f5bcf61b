-------------------------- MODULE NetManagerProofs --------------------------
(***************************************************************************)
(* Sockets and registration of the peer connections, for any number of     *)
(* connections, hosts, descriptors, callers and calls.                     *)
(***************************************************************************)
EXTENDS NetManager, TLAPS

(* What the proof needs of the types. *)
SocketTypes ==
    /\ socket \in [Peer -> Fd \cup {None}]
    /\ file \in [Fd -> Peer \cup {None}]
    /\ worker \in [Peer -> {"unborn", "serve", "erase", "close", "done"}]

(* The inductive invariant: the descriptor of a worker that has not closed  *)
(* it yet is a real one, and the kernel's table gives its connection.       *)
SocketInv ==
    /\ SocketTypes
    /\ \A p \in Peer :
          worker[p] \in {"serve", "erase", "close"}
              => socket[p] \in Fd /\ file[socket[p]] = p

(* A new connection takes nobody's number.                                  *)
LEMMA ConnectedKeepsSockets ==
    ASSUME SocketInv, NEW a, NEW p \in Peer, NEW h, Connected(a, p, h)
    PROVE  SocketInv'
PROOF
<1>1. PICK fd \in Fd :
         /\ file[fd] = None
         /\ socket' = [socket EXCEPT ![p] = fd]
         /\ file' = [file EXCEPT ![fd] = p]
         /\ worker' = [worker EXCEPT ![p] = "serve"]
  BY DEF Connected, LowestFds, FreeFds
<1>2. SocketTypes'
  BY <1>1 DEF SocketInv, SocketTypes
<1>3. ASSUME NEW q \in Peer, worker'[q] \in {"serve", "erase", "close"}
      PROVE  socket'[q] \in Fd /\ file'[socket'[q]] = q
  <2>1. CASE q = p
    BY <1>1, <2>1 DEF SocketInv, SocketTypes
  <2>2. CASE q # p
    (* q's number is not free, so it is not the one that p gets. *)
    <3>1. socket[q] \in Fd /\ file[socket[q]] = q /\ socket'[q] = socket[q]
      BY <1>1, <1>3, <2>2 DEF SocketInv, SocketTypes
    <3>2. socket[q] # fd
      BY <1>1, <3>1, NetManagerAssumption
    <3>3. QED
      BY <1>1, <3>1, <3>2 DEF SocketInv, SocketTypes
  <2>3. QED
    BY <2>1, <2>2
<1>4. QED
  BY <1>2, <1>3 DEF SocketInv

(* A worker that closes its descriptor closes nobody else's.                *)
LEMMA CloseKeepsSockets ==
    ASSUME SocketInv, NEW p \in Peer, Close(p)
    PROVE  SocketInv'
PROOF
<1>1. /\ worker[p] = "close"
      /\ socket[p] \in Fd
      /\ file[socket[p]] = p
      /\ file' = [file EXCEPT ![socket[p]] = None]
      /\ worker' = [worker EXCEPT ![p] = "done"]
      /\ socket' = socket
  BY DEF Close, SocketInv, objects
<1>2. SocketTypes'
  BY <1>1 DEF SocketInv, SocketTypes
<1>3. ASSUME NEW q \in Peer, worker'[q] \in {"serve", "erase", "close"}
      PROVE  socket'[q] \in Fd /\ file'[socket'[q]] = q
  <2>1. q # p /\ worker[q] \in {"serve", "erase", "close"}
    BY <1>1, <1>3 DEF SocketInv, SocketTypes
  <2>2. socket[q] \in Fd /\ file[socket[q]] = q
    BY <2>1 DEF SocketInv
  <2>3. socket[q] # socket[p]
    BY <1>1, <2>1, <2>2
  <2>4. QED
    BY <1>1, <2>2, <2>3 DEF SocketInv, SocketTypes
<1>4. QED
  BY <1>2, <1>3 DEF SocketInv

(* The other steps leave descriptors alone.                                 *)
LEMMA OthersKeepSockets ==
    ASSUME SocketInv, UNCHANGED <<socket, file>>,
           \/ worker' = worker
           \/ \E p \in Peer :
                 /\ worker[p] = "serve"
                 /\ worker' = [worker EXCEPT ![p] = "erase"]
           \/ \E p \in Peer :
                 /\ worker[p] = "erase"
                 /\ worker' = [worker EXCEPT ![p] = "close"]
    PROVE  SocketInv'
BY DEF SocketInv, SocketTypes

LEMMA SocketInvNext == SocketInv /\ [Next]_vars => SocketInv'
PROOF
<1> SUFFICES ASSUME SocketInv, [Next]_vars
             PROVE  SocketInv'
  OBVIOUS
<1> USE DEF objects, kernel
<1>1. CASE StartListening \/ StopListening
  BY <1>1, OthersKeepSockets DEF StartListening, StopListening
<1>2. ASSUME NEW p \in Peer, NEW h \in Host, Accept(p, h)
      PROVE  SocketInv'
  BY <1>2, ConnectedKeepsSockets DEF Accept
<1>3. ASSUME NEW p \in Peer, Connect(p)
      PROVE  SocketInv'
  BY <1>3, ConnectedKeepsSockets DEF Connect
<1>4. CASE ConnectFail \/ \E h \in Host : ConnectCheck(h)
  BY <1>4, OthersKeepSockets DEF ConnectFail, ConnectCheck
<1>5. CASE \E a \in Adder : Register(a)
  BY <1>5, OthersKeepSockets DEF Register
<1>6. CASE \E s \in Sender : SenderStep(s)
  BY <1>6, OthersKeepSockets DEF SenderStep, Send, SendLost, SendFail
<1>7. ASSUME NEW p \in Peer, WorkerStep(p)
      PROVE  SocketInv'
  <2>1. CASE RecvVersion(p)
    BY <2>1, OthersKeepSockets DEF RecvVersion
  <2>2. CASE RecvEnd(p) \/ RecvOversized(p)
    BY <2>2, OthersKeepSockets DEF RecvEnd, RecvOversized, Receiving
  <2>3. CASE Erase(p)
    BY <2>3, OthersKeepSockets DEF Erase
  <2>4. CASE Close(p)
    BY <2>4, CloseKeepsSockets
  <2>5. QED
    BY <1>7, <2>1, <2>2, <2>3, <2>4 DEF WorkerStep
<1>8. CASE \E p \in Peer : RemoteClose(p)
  BY <1>8, OthersKeepSockets DEF RemoteClose
<1>9. CASE \E c \in Caller : CallerStep(c)
  BY <1>9, OthersKeepSockets DEF CallerStep, Broadcast, Request, Call, NextPeer, Return
<1>10. CASE UNCHANGED vars
  BY <1>10, OthersKeepSockets DEF vars
<1>11. QED
  BY <1>1, <1>2, <1>3, <1>4, <1>5, <1>6, <1>7, <1>8, <1>9, <1>10 DEF Next

(* Workers own their sockets: although descriptor numbers are used again    *)
(* and dead peers keep theirs, no worker ever reads from, answers on or     *)
(* closes a connection that is not its own.                                 *)
THEOREM WorkersKeepToTheirSockets == Spec => []WorkersOwnTheirSocket
PROOF
<1>1. Init => SocketInv
  BY DEF Init, SocketInv, SocketTypes
<1>2. SocketInv => WorkersOwnTheirSocket
  BY NetManagerAssumption DEF SocketInv, WorkersOwnTheirSocket
<1>3. QED
  BY <1>1, <1>2, SocketInvNext, PTL DEF Spec

-----------------------------------------------------------------------------
(* The list of peers.                                                       *)

(* Where a peer is in the list, and which threads are about to add it.      *)
Listed(p) == {i \in DOMAIN peers : peers[i] = p}
Adding(p) == {a \in Adder : adder[a].peer = p}

(* What the proof needs of the types: a thread has a peer in hand from the  *)
(* connection to the registration, and no longer.                           *)
ListTypes ==
    /\ peers \in Seq(Peer)
    /\ worker \in [Peer -> {"unborn", "serve", "erase", "close", "done"}]
    /\ adder \in [Adder -> [at : {"off", "accept", "checked", "started"},
                            host : Host \cup {None}, peer : Peer \cup {None}]]
    /\ \A a \in Adder : adder[a].peer # None <=> adder[a].at = "started"

(* A peer that is used for no connection yet is nowhere, any other in one   *)
(* place: the property alone says nothing of a peer without a connection    *)
(* that is in two places, and the next connection would take it.            *)
InOnePlace(p) ==
    /\ worker[p] = "unborn" => Listed(p) = {} /\ Adding(p) = {}
    /\ worker[p] # "unborn" =>
          \/ Adding(p) = {} /\ \E i \in Listed(p) : Listed(p) = {i}
          \/ Listed(p) = {} /\ \E a \in Adding(p) : Adding(p) = {a}

ListInv == ListTypes /\ \A p \in Peer : InOnePlace(p)

(* A new connection is in the hands of the thread that made it.             *)
LEMMA ConnectedKeepsList ==
    ASSUME ListInv, NEW a \in Adder, NEW p \in Peer, NEW h,
           adder[a].at # "started", Connected(a, p, h)
    PROVE  ListInv'
PROOF
<1>1. /\ worker[p] = "unborn"
      /\ worker' = [worker EXCEPT ![p] = "serve"]
      /\ adder' = [adder EXCEPT ![a] = [at |-> "started", host |-> None, peer |-> p]]
      /\ peers' = peers
      /\ adder[a].peer = None
      /\ None \notin Peer
  BY NetManagerAssumption DEF Connected, registry, ListInv, ListTypes
<1>2. ListTypes'
  BY <1>1 DEF ListInv, ListTypes
<1>3. ASSUME NEW q \in Peer
      PROVE  InOnePlace(q)'
  <2>1. Listed(q)' = Listed(q)
    BY <1>1 DEF Listed
  <2>2. CASE q = p
    <3>1. Listed(p)' = {}
      BY <1>1, <2>1, <2>2 DEF ListInv, InOnePlace
    <3>2. \A b \in Adder : adder[b].peer # p
      BY <1>1 DEF ListInv, InOnePlace, Adding
    <3>3. Adding(p)' = {a}
      BY <1>1, <3>2 DEF Adding, ListInv, ListTypes
    <3>4. worker'[p] = "serve"
      BY <1>1 DEF ListInv, ListTypes
    <3>5. QED
      BY <2>2, <3>1, <3>3, <3>4 DEF InOnePlace
  <2>3. CASE q # p
    <3>1. Adding(q)' = Adding(q)
      BY <1>1, <2>3 DEF Adding, ListInv, ListTypes
    <3>2. worker'[q] = worker[q]
      BY <1>1, <2>3 DEF ListInv, ListTypes
    <3>3. QED
      BY <2>1, <3>1, <3>2 DEF ListInv, InOnePlace
  <2>4. QED
    BY <2>2, <2>3
<1>4. QED
  BY <1>2, <1>3 DEF ListInv

(* The registration moves a peer from the hands of a thread to the list.    *)
LEMMA RegisterKeepsList ==
    ASSUME ListInv, NEW a \in Adder, Register(a)
    PROVE  ListInv'
PROOF
<1> DEFINE p == adder[a].peer
<1>1. /\ adder[a].at = "started"
      /\ p \in Peer
      /\ None \notin Peer
      /\ peers' = Append(peers, p)
      /\ worker' = worker
  BY NetManagerAssumption DEF Register, ListInv, ListTypes
<1>2. PICK next \in {"accept", "off"} :
         adder' = [adder EXCEPT ![a] = [at |-> next, host |-> None, peer |-> None]]
  BY DEF Register
<1>3. Adding(p) = {a} /\ Listed(p) = {} /\ worker[p] # "unborn"
  <2>1. a \in Adding(p)
    BY DEF Adding
  <2>2. QED
    BY <1>1, <2>1 DEF ListInv, InOnePlace
<1>4. ListTypes'
  BY <1>1, <1>2 DEF ListInv, ListTypes
<1>5. ASSUME NEW q \in Peer
      PROVE  InOnePlace(q)'
  <2>1. peers \in Seq(Peer) /\ Len(peers) \in Nat
    BY DEF ListInv, ListTypes
  <2>2. CASE q = p
    <3>1. \A i \in 1 .. Len(peers) : peers[i] # p
      BY <1>3, <2>1 DEF Listed
    <3>2. Listed(q)' = {Len(peers) + 1}
      BY <1>1, <2>1, <2>2, <3>1 DEF Listed
    <3>3. Adding(q)' = {}
      BY <1>1, <1>2, <1>3, <2>2 DEF Adding, ListInv, ListTypes
    <3>4. worker'[q] # "unborn"
      BY <1>1, <1>3, <2>2
    <3>5. QED
      BY <3>2, <3>3, <3>4 DEF InOnePlace
  <2>3. CASE q # p
    <3>1. Listed(q)' = Listed(q)
      BY <1>1, <2>1, <2>3 DEF Listed
    <3>2. Adding(q)' = Adding(q)
      BY <1>1, <1>2, <2>3 DEF Adding, ListInv, ListTypes
    <3>3. QED
      BY <1>1, <3>1, <3>2 DEF ListInv, InOnePlace
  <2>4. QED
    BY <2>2, <2>3
<1>6. QED
  BY <1>4, <1>5 DEF ListInv

(* The other steps of the threads that add peers, which have none in hand.  *)
LEMMA EmptyHandsKeepList ==
    ASSUME ListInv, NEW a \in Adder, adder[a].at # "started",
           NEW at \in {"off", "accept", "checked"}, NEW h \in Host \cup {None},
           adder' = [adder EXCEPT ![a] = [at |-> at, host |-> h, peer |-> None]],
           peers' = peers, worker' = worker
    PROVE  ListInv'
PROOF
<1>1. adder[a].peer = None /\ None \notin Peer
  BY NetManagerAssumption DEF ListInv, ListTypes
<1>2. ListTypes'
  BY <1>1 DEF ListInv, ListTypes
<1>3. ASSUME NEW q \in Peer
      PROVE  InOnePlace(q)'
  <2>1. Adding(q)' = Adding(q)
    BY <1>1 DEF Adding, ListInv, ListTypes
  <2>2. QED
    BY <2>1 DEF ListInv, InOnePlace, Listed
<1>4. QED
  BY <1>2, <1>3 DEF ListInv

(* The steps of workers, callers and remote sides: no worker is unborn      *)
(* again.                                                                   *)
LEMMA OthersKeepList ==
    ASSUME ListInv, UNCHANGED <<peers, adder>>,
           \/ worker' = worker
           \/ \E p \in Peer, w \in {"erase", "close", "done"} :
                 /\ worker[p] # "unborn"
                 /\ worker' = [worker EXCEPT ![p] = w]
    PROVE  ListInv'
PROOF
<1>1. ListTypes'
  BY DEF ListInv, ListTypes
<1>2. ASSUME NEW q \in Peer
      PROVE  InOnePlace(q)'
  <2>1. worker'[q] = "unborn" <=> worker[q] = "unborn"
    BY DEF ListInv, ListTypes
  <2>2. Listed(q)' = Listed(q) /\ Adding(q)' = Adding(q)
    BY DEF Listed, Adding
  <2>3. QED
    BY <2>1, <2>2 DEF ListInv, InOnePlace
<1>3. QED
  BY <1>1, <1>2 DEF ListInv

LEMMA ListInvNext == ListInv /\ [Next]_vars => ListInv'
PROOF
<1> SUFFICES ASSUME ListInv, [Next]_vars
             PROVE  ListInv'
  OBVIOUS
<1> USE DEF registry, objects, callers, kernel
<1>1. CASE StartListening
  BY <1>1, EmptyHandsKeepList DEF StartListening, Adder
<1>2. CASE StopListening
  BY <1>2, OthersKeepList DEF StopListening
<1>3. ASSUME NEW p \in Peer, NEW h \in Host, Accept(p, h)
      PROVE  ListInv'
  BY <1>3, ConnectedKeepsList DEF Accept, Adder
<1>4. ASSUME NEW h \in Host, ConnectCheck(h)
      PROVE  ListInv'
  BY <1>4, EmptyHandsKeepList DEF ConnectCheck, Adder
<1>5. CASE ConnectFail
  BY <1>5, EmptyHandsKeepList DEF ConnectFail, Adder
<1>6. ASSUME NEW p \in Peer, Connect(p)
      PROVE  ListInv'
  BY <1>6, ConnectedKeepsList DEF Connect, Adder
<1>7. CASE \E a \in Adder : Register(a)
  BY <1>7, RegisterKeepsList
<1>8. CASE \E s \in Sender : SenderStep(s)
  BY <1>8, OthersKeepList DEF SenderStep, Send, SendLost, SendFail
<1>9. ASSUME NEW p \in Peer, WorkerStep(p)
      PROVE  ListInv'
  BY <1>9, OthersKeepList DEF WorkerStep, RecvVersion, RecvEnd, RecvOversized, Receiving,
                              Erase, Close
<1>10. CASE \E p \in Peer : RemoteClose(p)
  BY <1>10, OthersKeepList DEF RemoteClose
<1>11. CASE \E c \in Caller : CallerStep(c)
  BY <1>11, OthersKeepList DEF CallerStep, Broadcast, Request, Call, NextPeer, Return
<1>12. CASE UNCHANGED vars
  BY <1>12, OthersKeepList DEF vars
<1>13. QED
  BY <1>1, <1>2, <1>3, <1>4, <1>5, <1>6, <1>7, <1>8, <1>9, <1>10, <1>11, <1>12 DEF Next

(* No connection is forgotten and none is listed twice: although a worker   *)
(* runs, and may end, before its peer is added, and two threads add peers,  *)
(* each started peer is in the list once or about to be added by one thread.*)
THEOREM NoStartedPeerIsLost == Spec => []StartedPeersAccountedFor
PROOF
<1>1. Init => ListInv
  BY NetManagerAssumption DEF Init, ListInv, ListTypes, InOnePlace, Listed, Adding
<1>2. ListInv => StartedPeersAccountedFor
  BY DEF ListInv, InOnePlace, Listed, Adding, StartedPeersAccountedFor
<1>3. QED
  BY <1>1, <1>2, ListInvNext, PTL DEF Spec

-----------------------------------------------------------------------------
(* The frames of callers. *)

(* The peers whose connection has been made: those with a descriptor number.*)
Born == {p \in Peer : socket[p] \in Fd}

(* Every peer that a thread may send to has been born.                      *)
BornTypes ==
    /\ peers \in Seq(Born)
    /\ peerMap \in [Host -> Born \cup {None}]
    /\ todo \in [Caller -> Seq(Born)]
    /\ \A a \in Adder : adder[a].at = "started" => adder[a].peer \in Born
    /\ DOMAIN adder = Adder

(* What is sent, and what has been sent.                                    *)
StreamTypes ==
    /\ kind \in [Caller -> Kind \cup {None}]
    /\ sending \in [Sender -> [kind : Kind \cup {None}, fd : Fd, part : Nat \ {0}]
                                \cup {None}]
    /\ out \in [Peer -> Seq([by : Sender, kind : Kind \cup {None}, part : Nat \ {0}])]
    /\ remote \in [Peer -> {"none", "open", "closed"}]

(* The kernel's table holds live workers' connections, each once.           *)
FileInv ==
    \A fd \in Fd : file[fd] # None =>
        /\ worker[file[fd]] \in {"serve", "erase", "close"}
        /\ socket[file[fd]] = fd

(* Only the caller that holds the mutex is in the middle of a frame.        *)
LockInv == \A c \in Caller : sending[c] # None => lock = c

(* Nothing has been sent on a connection not made yet.                      *)
QuietInv == \A p \in Peer : worker[p] = "unborn" => out[p] = <<>>

(* The last message of a caller on p is its i-th message.                   *)
IsLastCall(p, i) ==
    /\ i \in DOMAIN out[p]
    /\ out[p][i].by \in Caller
    /\ \A j \in DOMAIN out[p] : j > i => out[p][j].by \notin Caller

(* What caller c sends next.                                                *)
NextOf(c) == [by |-> c, kind |-> sending[c].kind, part |-> sending[c].part]

(* What is sent to the number of p reaches p.                               *)
Open(p) == remote[p] = "open" /\ \E fd \in Fd : file[fd] = p

SendsTo(c, p) == sending[c] # None /\ file[sending[c].fd] = p

(* A connection that can be sent to waits for the rest of the frame that a  *)
(* caller sends to it, and without such a caller for the start of a frame.  *)
(* One that takes over the number of a dead one in the middle of a frame    *)
(* has no message of a caller yet.                                          *)
StreamInv ==
    \A p \in Peer : Open(p) =>
        \A i \in DOMAIN out[p] : IsLastCall(p, i) =>
            /\ \A c \in Caller : SendsTo(c, p) => Continues(out[p][i], NextOf(c))
            /\ (\A c \in Caller : ~SendsTo(c, p))
                  => out[p][i].part = LastPart(out[p][i].kind)

(* The inductive invariant.                                                 *)
FramesInv ==
    /\ SocketInv
    /\ BornTypes
    /\ StreamTypes
    /\ FileInv
    /\ LockInv
    /\ QuietInv
    /\ StreamInv
    /\ CallersFramesOrdered

(* Peers are born for good.                                                 *)
LEMMA BornGrows ==
    ASSUME SocketInv, [Next]_vars
    PROVE  Born \subseteq Born'
PROOF
<1>1. CASE socket' = socket
  BY <1>1 DEF Born
<1>2. ASSUME NEW a, NEW p \in Peer, NEW h, Connected(a, p, h)
      PROVE  Born \subseteq Born'
  BY <1>2 DEF Connected, LowestFds, FreeFds, Born, SocketInv, SocketTypes
<1>3. QED
  BY <1>1, <1>2
  DEF Next, vars, objects, registry, callers, kernel, StartListening, StopListening,
      Accept, ConnectCheck, ConnectFail, Connect, Register, SenderStep, Send, SendLost,
      SendFail, WorkerStep, RecvVersion, RecvEnd, RecvOversized, Erase, Close,
      RemoteClose, CallerStep, Broadcast, Request, Call, NextPeer, Return

LEMMA BornTypesNext ==
    ASSUME SocketInv, BornTypes, [Next]_vars
    PROVE  BornTypes'
PROOF
<1> USE DEF registry, objects, callers, kernel
<1>1. Born \subseteq Born' /\ None \notin Peer
  BY BornGrows, NetManagerAssumption
<1>2. /\ peers \in Seq(Born')
      /\ peerMap \in [Host -> Born' \cup {None}]
      /\ todo \in [Caller -> Seq(Born')]
      /\ \A a \in Adder : adder[a].at = "started" => adder[a].peer \in Born'
      /\ DOMAIN adder = Adder
  <2> DEFINE B == Born'
  <2>1. Born \subseteq B
    BY <1>1
  <2> HIDE DEF B
  <2>2. peers \in Seq(B) /\ \A c \in Caller : todo[c] \in Seq(B)
    BY <2>1 DEF BornTypes
  <2>3. QED
    BY <2>1, <2>2 DEF BornTypes, B
<1>3. ASSUME UNCHANGED <<peers, peerMap, todo>>,
             NEW a \in Adder, NEW at \in {"off", "accept", "checked"}, NEW h, NEW p,
             adder' = [adder EXCEPT ![a] = [at |-> at, host |-> h, peer |-> p]]
      PROVE  BornTypes'
  BY <1>2, <1>3 DEF BornTypes
<1>4. ASSUME UNCHANGED <<peers, peerMap, todo, adder>>
      PROVE  BornTypes'
  BY <1>2, <1>4 DEF BornTypes
<1>5. CASE StartListening
  BY <1>3, <1>5 DEF StartListening, Adder
<1>6. CASE StopListening
  BY <1>4, <1>6 DEF StopListening
<1>7. ASSUME NEW a \in Adder, NEW p \in Peer, NEW h, Connected(a, p, h)
      PROVE  BornTypes'
  <2>1. /\ adder' = [adder EXCEPT ![a] = [at |-> "started", host |-> None, peer |-> p]]
        /\ UNCHANGED <<peers, peerMap, todo>>
    BY <1>7 DEF Connected
  <2>2. p \in Born'
    BY <1>7 DEF Connected, LowestFds, FreeFds, Born, SocketInv, SocketTypes
  <2>3. QED
    BY <1>2, <2>1, <2>2 DEF BornTypes
<1>8. ASSUME NEW h \in Host, ConnectCheck(h)
      PROVE  BornTypes'
  BY <1>3, <1>8 DEF ConnectCheck, Adder
<1>9. CASE ConnectFail
  BY <1>3, <1>9 DEF ConnectFail, Adder
<1>10. ASSUME NEW a \in Adder, Register(a)
       PROVE  BornTypes'
  <2> DEFINE p == adder[a].peer
             B == Born'
  <2>1. /\ p \in B
        /\ peers' = Append(peers, p)
        /\ peerMap' = [peerMap EXCEPT ![hostOf[p]] = p]
        /\ todo' = todo
    BY <1>2, <1>10 DEF Register
  <2>2. PICK next \in {"accept", "off"} :
           adder' = [adder EXCEPT ![a] = [at |-> next, host |-> None, peer |-> None]]
    BY <1>10 DEF Register
  <2>3. \A b \in Adder : adder'[b].at = "started" => adder'[b].peer \in B
    BY <1>2, <2>2
  <2>4. peers \in Seq(B) /\ peerMap \in [Host -> B \cup {None}] /\ todo \in [Caller -> Seq(B)]
    BY <1>2
  <2> HIDE DEF p, B
  <2>5. peers' \in Seq(B) /\ peerMap' \in [Host -> B \cup {None}] /\ todo' \in [Caller -> Seq(B)]
    <3>1. peers' \in Seq(B)
      BY <2>1, <2>4
    <3>2. peerMap' \in [Host -> B \cup {None}]
      BY <2>1, <2>4
    <3>3. QED
      BY <2>1, <2>4, <3>1, <3>2
  <2>6. QED
    BY <1>2, <2>2, <2>3, <2>5 DEF BornTypes, B
<1>11. ASSUME NEW s \in Sender, SenderStep(s)
       PROVE  BornTypes'
  BY <1>4, <1>11 DEF SenderStep, Send, SendLost, SendFail
<1>12. ASSUME NEW p \in Peer, WorkerStep(p)
       PROVE  BornTypes'
  <2>1. CASE RecvVersion(p) \/ RecvEnd(p) \/ RecvOversized(p) \/ Close(p)
    BY <1>4, <2>1 DEF RecvVersion, RecvEnd, RecvOversized, Close
  <2>2. CASE Erase(p)
    BY <1>2, <2>2 DEF Erase, BornTypes
  <2>3. QED
    BY <1>12, <2>1, <2>2 DEF WorkerStep
<1>13. ASSUME NEW p \in Peer, RemoteClose(p)
       PROVE  BornTypes'
  BY <1>4, <1>13 DEF RemoteClose
<1>14. ASSUME NEW c \in Caller, CallerStep(c)
       PROVE  BornTypes'
  <2>1. ASSUME NEW k, NEW targets \in Seq(Born), Call(c, k, targets)
        PROVE  BornTypes'
    <3> DEFINE B == Born'
    <3>1. targets \in Seq(B)
      <4>1. Born \subseteq B
        BY <1>1
      <4> HIDE DEF B
      <4>2. QED
        BY <4>1
    <3>2. todo' = [todo EXCEPT ![c] = targets] /\ UNCHANGED <<peers, peerMap, adder>>
      BY <2>1 DEF Call
    <3>3. QED
      BY <1>2, <3>1, <3>2 DEF BornTypes
  <2>2. CASE Broadcast(c)
    BY <2>1, <2>2 DEF Broadcast, BornTypes
  <2>3. CASE \E h \in Host : Request(c, h)
    <3>1. \A h \in Host : (IF peerMap[h] = None THEN <<>> ELSE <<peerMap[h]>>) \in Seq(Born)
      BY DEF BornTypes
    <3>2. QED
      BY <2>1, <2>3, <3>1 DEF Request
  <2>4. CASE NextPeer(c)
    <3> DEFINE B == Born'
    <3>1. Tail(todo[c]) \in Seq(B)
      <4>1. todo[c] \in Seq(B) /\ todo[c] # <<>>
        BY <1>2, <2>4 DEF NextPeer
      <4> HIDE DEF B
      <4>2. QED
        BY <4>1
    <3>2. todo' = [todo EXCEPT ![c] = Tail(todo[c])] /\ UNCHANGED <<peers, peerMap, adder>>
      BY <2>4 DEF NextPeer, BornTypes
    <3>3. QED
      BY <1>2, <3>1, <3>2 DEF BornTypes
  <2>5. CASE Return(c)
    BY <1>4, <2>5 DEF Return
  <2>6. QED
    BY <1>14, <2>2, <2>3, <2>4, <2>5 DEF CallerStep
<1>15. CASE UNCHANGED vars
  BY <1>4, <1>15 DEF vars
<1>16. QED
  BY <1>5, <1>6, <1>7, <1>8, <1>9, <1>10, <1>11, <1>12, <1>13, <1>14, <1>15
  DEF Next, Accept, Connect, Adder

LEMMA StreamTypesNext ==
    ASSUME SocketInv, BornTypes, StreamTypes, [Next]_vars
    PROVE  StreamTypes'
PROOF
<1> DEFINE K == Kind \cup {None}
           M == [by : Sender, kind : K, part : Nat \ {0}]
           F == [kind : K, fd : Fd, part : Nat \ {0}]
<1> USE DEF registry, objects, callers, kernel
<1>0. /\ kind \in [Caller -> K]
      /\ sending \in [Sender -> F \cup {None}]
      /\ out \in [Peer -> Seq(M)]
      /\ remote \in [Peer -> {"none", "open", "closed"}]
  BY DEF StreamTypes
<1>1. SUFFICES /\ kind' \in [Caller -> K]
               /\ sending' \in [Sender -> F \cup {None}]
               /\ out' \in [Peer -> Seq(M)]
               /\ remote' \in [Peer -> {"none", "open", "closed"}]
  BY DEF StreamTypes
<1>2. ASSUME NEW k \in K, NEW fd \in Fd
      PROVE  Frame(k, fd) \in F
  BY DEF Frame
<1>3. ASSUME NEW f \in F
      PROVE  /\ AfterPart(f) \in F \cup {None}
             /\ \A s \in Sender : [by |-> s, kind |-> f.kind, part |-> f.part] \in M
  BY DEF AfterPart
<1>4. {"version", "verack"} \cup BroadcastKinds \cup RequestKinds \subseteq K
  BY DEF Kind
<1>5. Sender = Peer \cup Caller
  BY DEF Sender
<1> HIDE DEF K, M, F
<1>6. ASSUME UNCHANGED <<kind, sending, out, remote>>
      PROVE  /\ kind' \in [Caller -> K]
             /\ sending' \in [Sender -> F \cup {None}]
             /\ out' \in [Peer -> Seq(M)]
             /\ remote' \in [Peer -> {"none", "open", "closed"}]
  BY <1>0, <1>6
<1>7. CASE StartListening \/ StopListening \/ ConnectFail \/ \E h \in Host : ConnectCheck(h)
  BY <1>6, <1>7 DEF StartListening, StopListening, ConnectFail, ConnectCheck
<1>8. ASSUME NEW a, NEW p \in Peer, NEW h, Connected(a, p, h)
      PROVE  /\ kind' \in [Caller -> K]
             /\ sending' \in [Sender -> F \cup {None}]
             /\ out' \in [Peer -> Seq(M)]
             /\ remote' \in [Peer -> {"none", "open", "closed"}]
  <2>1. PICK fd \in Fd : sending' = [sending EXCEPT ![p] = VersionFrame(fd)]
    BY <1>8 DEF Connected, LowestFds, FreeFds
  <2>2. VersionFrame(fd) \in F
    BY <1>2, <1>4 DEF VersionFrame
  <2>3. UNCHANGED <<kind, out>> /\ remote' = [remote EXCEPT ![p] = "open"]
    BY <1>8 DEF Connected
  <2>4. QED
    BY <1>0, <2>1, <2>2, <2>3
<1>9. CASE \E a \in Adder : Register(a)
  BY <1>6, <1>9 DEF Register
<1>10. ASSUME NEW s \in Sender, SenderStep(s)
       PROVE  /\ kind' \in [Caller -> K]
              /\ sending' \in [Sender -> F \cup {None}]
              /\ out' \in [Peer -> Seq(M)]
              /\ remote' \in [Peer -> {"none", "open", "closed"}]
  <2> DEFINE f == sending[s]
  <2>1. f \in F /\ UNCHANGED <<kind, remote>>
    BY <1>0, <1>10 DEF SenderStep, Send, SendLost, SendFail
  <2>2. sending' = [sending EXCEPT ![s] = AfterPart(f)] \/ sending' = [sending EXCEPT ![s] = None]
    BY <1>10 DEF SenderStep, Send, SendLost, SendFail
  <2>3. sending' \in [Sender -> F \cup {None}]
    BY <1>0, <1>3, <2>1, <2>2
  <2>4. \/ out' = out
        \/ \E q : out' = [out EXCEPT ![q] =
                            Append(@, [by |-> s, kind |-> f.kind, part |-> f.part])]
    BY <1>10 DEF SenderStep, Send, SendLost, SendFail
  <2>5. [by |-> s, kind |-> f.kind, part |-> f.part] \in M
    BY <1>3, <2>1
  <2> HIDE DEF f
  <2>6. out' \in [Peer -> Seq(M)]
    <3> DEFINE m == [by |-> s, kind |-> f.kind, part |-> f.part]
    <3>1. m \in M
      BY <2>5
    <3>2. CASE out' = out
      BY <1>0, <3>2
    <3>3. ASSUME NEW q, out' = [out EXCEPT ![q] = Append(@, m)]
          PROVE  out' \in [Peer -> Seq(M)]
      <4> HIDE DEF m
      <4>1. \A p \in Peer : Append(out[p], m) \in Seq(M)
        BY <1>0, <3>1
      <4>2. QED
        BY <1>0, <3>3, <4>1
    <3>4. QED
      BY <2>4, <3>2, <3>3
  <2>7. QED
    BY <1>0, <2>1, <2>3, <2>6
<1>11. ASSUME NEW p \in Peer, WorkerStep(p)
       PROVE  /\ kind' \in [Caller -> K]
              /\ sending' \in [Sender -> F \cup {None}]
              /\ out' \in [Peer -> Seq(M)]
              /\ remote' \in [Peer -> {"none", "open", "closed"}]
  <2>1. CASE RecvVersion(p)
    <3>1. socket[p] \in Fd
      BY <2>1 DEF RecvVersion, Receiving, SocketInv
    <3>2. VerackFrame(socket[p]) \in F
      BY <1>2, <1>4, <3>1 DEF VerackFrame
    <3>3. /\ UNCHANGED <<kind, out, remote>>
          /\ sending' = [sending EXCEPT ![p] = VerackFrame(socket[p])]
      BY <2>1 DEF RecvVersion
    <3>4. QED
      BY <1>0, <1>5, <3>2, <3>3
  <2>2. CASE RecvEnd(p) \/ RecvOversized(p) \/ Erase(p) \/ Close(p)
    BY <1>6, <2>2 DEF RecvEnd, RecvOversized, Erase, Close
  <2>3. QED
    BY <1>11, <2>1, <2>2 DEF WorkerStep
<1>12. CASE \E p \in Peer : RemoteClose(p)
  BY <1>0, <1>12 DEF RemoteClose
<1>13. ASSUME NEW c \in Caller, CallerStep(c)
       PROVE  /\ kind' \in [Caller -> K]
              /\ sending' \in [Sender -> F \cup {None}]
              /\ out' \in [Peer -> Seq(M)]
              /\ remote' \in [Peer -> {"none", "open", "closed"}]
  <2>1. ASSUME NEW k \in K, NEW targets, Call(c, k, targets)
        PROVE  /\ kind' \in [Caller -> K]
               /\ UNCHANGED <<sending, out, remote>>
    BY <1>0, <2>1 DEF Call
  <2>2. CASE Broadcast(c) \/ \E h \in Host : Request(c, h)
    BY <1>0, <1>4, <2>1, <2>2 DEF Broadcast, Request
  <2>3. CASE NextPeer(c)
    <3>1. todo[c] \in Seq(Born) /\ todo[c] # <<>>
      BY <2>3 DEF NextPeer, BornTypes
    <3>2. Head(todo[c]) \in Born
      BY <3>1
    <3>3. Frame(kind[c], socket[Head(todo[c])]) \in F
      BY <1>0, <1>2, <3>2 DEF Born
    <3>4. /\ UNCHANGED <<kind, out, remote>>
          /\ sending' = [sending EXCEPT ![c] = Frame(kind[c], socket[Head(todo[c])])]
      BY <2>3 DEF NextPeer
    <3>5. QED
      BY <1>0, <1>5, <3>3, <3>4
  <2>4. CASE Return(c)
    BY <1>6, <2>4 DEF Return
  <2>5. QED
    BY <1>13, <2>2, <2>3, <2>4 DEF CallerStep
<1>14. CASE UNCHANGED vars
  BY <1>6, <1>14 DEF vars
<1>15. QED
  BY <1>7, <1>8, <1>9, <1>10, <1>11, <1>12, <1>13, <1>14 DEF Next, Accept, Connect

(* What a step may do to the workers and the descriptors: make a connection,*)
(* close one, or neither.                                                   *)
LEMMA WorkersProgress ==
    ASSUME SocketInv, [Next]_vars
    PROVE  \/ \E a \in Adder, p \in Peer : \E h : Connected(a, p, h)
           \/ \E p \in Peer : Close(p)
           \/ /\ UNCHANGED <<socket, file>>
              /\ \A p \in Peer : /\ worker'[p] = "unborn" <=> worker[p] = "unborn"
                                 /\ worker[p] \in {"serve", "erase", "close"}
                                      => worker'[p] \in {"serve", "erase", "close"}
PROOF
<1> USE DEF registry, objects, callers, kernel
<1>1. worker \in [Peer -> {"unborn", "serve", "erase", "close", "done"}]
  BY DEF SocketInv, SocketTypes
<1>2. CASE UNCHANGED <<socket, file, worker>>
  BY <1>2
<1>3. ASSUME NEW p \in Peer, WorkerStep(p)
      PROVE  \/ Close(p)
             \/ /\ UNCHANGED <<socket, file>>
                /\ \A q \in Peer : /\ worker'[q] = "unborn" <=> worker[q] = "unborn"
                                   /\ worker[q] \in {"serve", "erase", "close"}
                                        => worker'[q] \in {"serve", "erase", "close"}
  BY <1>1, <1>3 DEF WorkerStep, RecvVersion, RecvEnd, RecvOversized, Erase, Receiving
<1>4. CASE \E a \in Adder, p \in Peer : \E h : Connected(a, p, h)
  BY <1>4
<1>5. QED
  BY <1>2, <1>3, <1>4
  DEF Next, vars, Adder, StartListening, StopListening, Accept, ConnectCheck, ConnectFail,
      Connect, Register, SenderStep, Send, SendLost, SendFail, RemoteClose, CallerStep,
      Broadcast, Request, Call, NextPeer, Return

LEMMA FileInvNext ==
    ASSUME SocketInv, FileInv, [Next]_vars
    PROVE  FileInv'
PROOF
<1> USE DEF SocketInv, SocketTypes, FileInv
<1>1. CASE \E a \in Adder, p \in Peer : \E h : Connected(a, p, h)
  <2>1. PICK p \in Peer, fd \in Fd :
           /\ worker[p] = "unborn"
           /\ socket' = [socket EXCEPT ![p] = fd]
           /\ file' = [file EXCEPT ![fd] = p]
           /\ worker' = [worker EXCEPT ![p] = "serve"]
    BY <1>1 DEF Connected, LowestFds, FreeFds
  <2>2. QED
    BY <2>1
<1>2. ASSUME NEW p \in Peer, Close(p)
      PROVE  FileInv'
  <2>1. /\ worker[p] = "close"
        /\ file' = [file EXCEPT ![socket[p]] = None]
        /\ worker' = [worker EXCEPT ![p] = "done"]
        /\ socket' = socket
    BY <1>2 DEF Close, objects
  <2>2. ASSUME NEW fd \in Fd, file'[fd] # None
        PROVE  worker'[file'[fd]] \in {"serve", "erase", "close"} /\ socket'[file'[fd]] = fd
    <3>1. fd # socket[p] /\ file'[fd] = file[fd]
      BY <2>1, <2>2
    <3>2. file[fd] # p /\ file[fd] \in Peer
      BY <2>1, <2>2, <3>1
    <3>3. QED
      BY <2>1, <2>2, <3>1, <3>2
  <2>3. QED
    BY <2>2
<1>3. CASE /\ UNCHANGED <<socket, file>>
           /\ \A p \in Peer : worker[p] \in {"serve", "erase", "close"}
                                => worker'[p] \in {"serve", "erase", "close"}
  BY <1>3
<1>4. QED
  BY <1>1, <1>2, <1>3, WorkersProgress

(* The callers' part of a step.                                             *)
LEMMA LockInvNext ==
    ASSUME StreamTypes, LockInv, [Next]_vars
    PROVE  LockInv'
PROOF
<1> USE DEF registry, objects, callers, kernel, LockInv
<1>0. DOMAIN sending = Peer \cup Caller /\ Peer \cap Caller = {}
  BY NetManagerAssumption DEF StreamTypes, Sender
<1>1. CASE UNCHANGED <<sending, lock>>
  BY <1>1
<1>2. CASE lock' = lock /\ \E p \in Peer : \E f : sending' = [sending EXCEPT ![p] = f]
  BY <1>0, <1>2
<1>3. ASSUME NEW s \in Sender, SenderStep(s)
      PROVE  LockInv'
  <2>1. /\ sending[s] # None
        /\ lock' = lock
        /\ \E f : sending' = [sending EXCEPT ![s] = f]
    BY <1>3 DEF SenderStep, Send, SendLost, SendFail
  <2>2. QED
    BY <1>0, <2>1
<1>4. ASSUME NEW c \in Caller, CallerStep(c)
      PROVE  LockInv'
  <2>1. CASE Broadcast(c) \/ \E h \in Host : Request(c, h)
    <3>1. lock = None /\ sending' = sending
      BY <2>1 DEF Broadcast, Request, Call
    <3>2. QED
      BY <3>1, NetManagerAssumption
  <2>2. CASE NextPeer(c)
    BY <1>0, <2>2 DEF NextPeer
  <2>3. CASE Return(c)
    <3>1. lock = c /\ sending[c] = None /\ sending' = sending
      BY <2>3 DEF Return
    <3>2. QED
      BY <3>1
  <2>4. QED
    BY <1>4, <2>1, <2>2, <2>3 DEF CallerStep
<1>5. ASSUME NEW a, NEW p \in Peer, NEW h, Connected(a, p, h)
      PROVE  LockInv'
  BY <1>2, <1>5 DEF Connected
<1>6. ASSUME NEW p \in Peer, WorkerStep(p)
      PROVE  LockInv'
  BY <1>1, <1>2, <1>6 DEF WorkerStep, RecvVersion, RecvEnd, RecvOversized, Erase, Close
<1>7. CASE \/ StartListening \/ StopListening \/ ConnectFail \/ UNCHANGED vars
           \/ \E h \in Host : ConnectCheck(h)
           \/ \E a \in Adder : Register(a)
           \/ \E p \in Peer : RemoteClose(p)
  BY <1>1, <1>7 DEF StartListening, StopListening, ConnectFail, ConnectCheck, Register,
                    RemoteClose, vars
<1>8. QED
  BY <1>3, <1>4, <1>5, <1>6, <1>7 DEF Next, Accept, Connect

(* What a step may do to the streams: one more message, on a connection     *)
(* that the kernel's table gives.                                           *)
LEMMA StreamsGrow ==
    ASSUME StreamTypes, [Next]_vars
    PROVE  \/ out' = out
           \/ \E s \in Sender : Send(s)
BY DEF registry, objects, callers, kernel, Next, vars, StartListening, StopListening,
       Accept, ConnectCheck, ConnectFail, Connect, Connected, Register, SenderStep,
       SendLost, SendFail, WorkerStep, RecvVersion, RecvEnd, RecvOversized, Erase, Close,
       RemoteClose, CallerStep, Broadcast, Request, Call, NextPeer, Return

LEMMA QuietInvNext ==
    ASSUME SocketInv, StreamTypes, FileInv, QuietInv, [Next]_vars
    PROVE  QuietInv'
PROOF
<1>1. ASSUME NEW p \in Peer, worker'[p] = "unborn"
      PROVE  worker[p] = "unborn"
  BY <1>1, WorkersProgress DEF Connected, Close, SocketInv, SocketTypes
<1>2. CASE out' = out
  BY <1>1, <1>2 DEF QuietInv
<1>3. ASSUME NEW s \in Sender, Send(s), NEW p \in Peer, worker[p] = "unborn"
      PROVE  out'[p] = out[p]
  <2> DEFINE q == file[sending[s].fd]
  <2>1. /\ sending[s].fd \in Fd
        /\ q # None
        /\ \E m : out' = [out EXCEPT ![q] = Append(@, m)]
    BY <1>3 DEF Send, StreamTypes
  <2>2. worker[q] # "unborn"
    BY <2>1 DEF FileInv
  <2> HIDE DEF q
  <2>3. QED
    BY <1>3, <2>1, <2>2 DEF StreamTypes
<1>4. QED
  BY <1>1, <1>2, <1>3, StreamsGrow DEF QuietInv

(* A step that adds no message, and leaves to each connection that can be   *)
(* sent to its callers and what they send next, or finds it without any     *)
(* message.                                                                 *)
LEMMA StreamsKept ==
    ASSUME StreamInv, out' = out,
           \A p \in Peer : Open(p)' =>
              \/ out[p] = <<>>
              \/ /\ Open(p)
                 /\ \A c \in Caller : /\ SendsTo(c, p)' <=> SendsTo(c, p)
                                      /\ SendsTo(c, p) => NextOf(c)' = NextOf(c)
    PROVE  StreamInv'
PROOF
<1> SUFFICES ASSUME NEW p \in Peer, Open(p)', NEW i \in DOMAIN out[p], IsLastCall(p, i)
             PROVE  /\ \A c \in Caller : SendsTo(c, p)' => Continues(out[p][i], NextOf(c)')
                    /\ (\A c \in Caller : ~SendsTo(c, p)')
                          => out[p][i].part = LastPart(out[p][i].kind)
  BY DEF StreamInv, IsLastCall
<1>1. out[p] # <<>>
  OBVIOUS
<1>2. /\ Open(p)
      /\ \A c \in Caller : /\ SendsTo(c, p)' <=> SendsTo(c, p)
                           /\ SendsTo(c, p) => NextOf(c)' = NextOf(c)
  BY <1>1
<1>3. /\ \A c \in Caller : SendsTo(c, p) => Continues(out[p][i], NextOf(c))
      /\ (\A c \in Caller : ~SendsTo(c, p)) => out[p][i].part = LastPart(out[p][i].kind)
  BY <1>2 DEF StreamInv
<1>4. ASSUME NEW c \in Caller, SendsTo(c, p)'
      PROVE  Continues(out[p][i], NextOf(c)')
  BY <1>2, <1>3, <1>4
<1>5. QED
  BY <1>2, <1>3, <1>4

(* In particular, a step that changes no caller's frame, and no connection. *)
LEMMA CallersKept ==
    ASSUME StreamInv, UNCHANGED <<out, file, remote>>,
           \A c \in Caller : sending'[c] = sending[c]
    PROVE  StreamInv'
BY StreamsKept DEF Open, SendsTo, NextOf

(* A new connection has no message yet, and its number was nobody's.        *)
LEMMA ConnectedKeepsStreams ==
    ASSUME FramesInv, NEW a, NEW p \in Peer, NEW h, Connected(a, p, h)
    PROVE  StreamInv'
PROOF
<1>1. PICK fd \in Fd :
         /\ file[fd] = None
         /\ file' = [file EXCEPT ![fd] = p]
         /\ sending' = [sending EXCEPT ![p] = VersionFrame(fd)]
  BY DEF Connected, LowestFds, FreeFds
<1>2. /\ worker[p] = "unborn"
      /\ out[p] = <<>>
      /\ out' = out
      /\ remote' = [remote EXCEPT ![p] = "open"]
  BY DEF Connected, FramesInv, QuietInv
<1>3. \A c \in Caller : sending'[c] = sending[c]
  BY <1>1, NetManagerAssumption
<1>4. ASSUME NEW q \in Peer, q # p
      PROVE  /\ Open(q)' => Open(q)
             /\ \A c \in Caller : SendsTo(c, q)' <=> SendsTo(c, q)
  <2>1. \A n \in Fd : file'[n] = q <=> file[n] = q
    BY <1>1, <1>4, NetManagerAssumption DEF FramesInv, SocketInv, SocketTypes
  <2>2. remote'[q] = remote[q]
    BY <1>2, <1>4 DEF FramesInv, StreamTypes
  <2>3. \A c \in Caller : sending[c] # None => sending[c].fd \in Fd
    BY DEF FramesInv, StreamTypes, Sender
  <2>4. QED
    BY <1>3, <2>1, <2>2, <2>3 DEF Open, SendsTo
<1>5. \A c \in Caller : NextOf(c)' = NextOf(c)
  BY <1>3 DEF NextOf
<1>6. QED
  BY <1>2, <1>4, <1>5, StreamsKept DEF FramesInv

(* A closed connection cannot be sent to; the others keep their numbers.    *)
LEMMA CloseKeepsStreams ==
    ASSUME FramesInv, NEW p \in Peer, Close(p)
    PROVE  StreamInv'
PROOF
<1>1. /\ socket[p] \in Fd
      /\ file[socket[p]] = p
      /\ file' = [file EXCEPT ![socket[p]] = None]
      /\ UNCHANGED <<out, sending, remote>>
  BY DEF Close, FramesInv, SocketInv
<1>2. ~Open(p)'
  BY <1>1, NetManagerAssumption DEF Open, FramesInv, FileInv, SocketInv, SocketTypes
<1>3. ASSUME NEW q \in Peer, q # p
      PROVE  /\ Open(q)' => Open(q)
             /\ \A c \in Caller : SendsTo(c, q)' <=> SendsTo(c, q)
  <2>1. \A n \in Fd : file'[n] = q <=> file[n] = q
    BY <1>1, <1>3, NetManagerAssumption DEF FramesInv, SocketInv, SocketTypes
  <2>2. \A c \in Caller : sending[c] # None => sending[c].fd \in Fd
    BY DEF FramesInv, StreamTypes, Sender
  <2>3. QED
    BY <1>1, <2>1, <2>2 DEF Open, SendsTo
<1>4. \A c \in Caller : NextOf(c)' = NextOf(c)
  BY <1>1 DEF NextOf
<1>5. QED
  BY <1>1, <1>2, <1>3, <1>4, StreamsKept DEF FramesInv

(* A frame that goes on, or ends, on a dead connection: no open one is      *)
(* concerned.                                                               *)
LEMMA LostSendsKeepStreams ==
    ASSUME FramesInv, NEW s \in Sender, SendLost(s) \/ SendFail(s)
    PROVE  StreamInv'
PROOF
<1> DEFINE f == sending[s]
<1>1. /\ f # None
      /\ f \in [kind : Kind \cup {None}, fd : Fd, part : Nat \ {0}]
      /\ file[f.fd] # None => remote[file[f.fd]] = "closed"
      /\ UNCHANGED <<file, remote, out>>
      /\ \/ sending' = [sending EXCEPT ![s] = AfterPart(f)]
         \/ sending' = [sending EXCEPT ![s] = None]
  BY DEF SendLost, SendFail, kernel, FramesInv, StreamTypes
<1>2. \A t \in Sender : t # s => sending'[t] = sending[t]
  BY <1>1 DEF FramesInv, StreamTypes
<1>3. sending'[s] # None => sending'[s].fd = f.fd
  BY <1>1 DEF AfterPart, FramesInv, StreamTypes
<1>4. \A p \in Peer : Open(p) => ~SendsTo(s, p) /\ ~SendsTo(s, p)'
  BY <1>1, <1>3, NetManagerAssumption DEF Open, SendsTo
<1>5. \A p \in Peer : Open(p)' <=> Open(p)
  BY <1>1 DEF Open
<1>6. \A p \in Peer, c \in Caller : c # s => /\ SendsTo(c, p)' <=> SendsTo(c, p)
                                             /\ NextOf(c)' = NextOf(c)
  BY <1>1, <1>2 DEF SendsTo, NextOf, Sender
<1>7. QED
  BY <1>1, <1>4, <1>5, <1>6, StreamsKept DEF FramesInv

(* The start of a frame: no caller is in the middle of one, so every        *)
(* connection waits for a start.                                            *)
LEMMA NextPeerKeepsStreams ==
    ASSUME FramesInv, NEW c \in Caller, NextPeer(c)
    PROVE  StreamInv'
PROOF
<1>1. \A d \in Caller : sending[d] = None
  BY DEF NextPeer, FramesInv, LockInv
<1>2. /\ UNCHANGED <<file, remote, out>>
      /\ c \in Sender
      /\ \E k, fd : sending' = [sending EXCEPT ![c] = [kind |-> k, fd |-> fd, part |-> 1]]
  BY DEF NextPeer, kernel, Frame, Sender
<1>3. /\ \A d \in Caller : d # c => sending'[d] = None
      /\ NextOf(c)'.part = 1
  BY <1>1, <1>2 DEF FramesInv, StreamTypes, NextOf, Sender
<1>4. SUFFICES ASSUME NEW p \in Peer, Open(p)', NEW i \in DOMAIN out[p], IsLastCall(p, i)
               PROVE  /\ \A d \in Caller : SendsTo(d, p)' => Continues(out[p][i], NextOf(d)')
                      /\ out[p][i].part = LastPart(out[p][i].kind)
  BY <1>2 DEF StreamInv, IsLastCall
<1>5. Open(p) /\ \A d \in Caller : ~SendsTo(d, p)
  BY <1>1, <1>2, <1>4 DEF Open, SendsTo
<1>6. out[p][i].part = LastPart(out[p][i].kind)
  BY <1>4, <1>5 DEF FramesInv, StreamInv
<1>7. ASSUME NEW d \in Caller, SendsTo(d, p)'
      PROVE  Continues(out[p][i], NextOf(d)')
  <2>1. d = c
    BY <1>3, <1>7 DEF SendsTo
  <2>2. QED
    BY <1>3, <1>6, <2>1 DEF Continues
<1>8. QED
  BY <1>6, <1>7

(* A message that reaches its connection: the stream of p is now longer by  *)
(* m, if it is p that the number refers to.                                 *)
LEMMA SendReaches ==
    ASSUME FramesInv, NEW s \in Sender, Send(s)
    PROVE  LET f == sending[s]
               m == [by |-> s, kind |-> f.kind, part |-> f.part]
           IN  \E q \in Peer :
                  /\ f # None /\ f.part \in Nat \ {0}
                  /\ file[f.fd] = q
                  /\ Open(q)
                  /\ out[q] \in Seq([by : Sender, kind : Kind \cup {None}, part : Nat \ {0}])
                  /\ out'[q] = Append(out[q], m)
                  /\ \A p \in Peer : p # q => out'[p] = out[p]
                  /\ UNCHANGED <<file, remote>>
                  /\ sending'[s] = AfterPart(f)
                  /\ \A t \in Sender : t # s => sending'[t] = sending[t]
PROOF
<1> DEFINE f == sending[s]
           q == file[f.fd]
           m == [by |-> s, kind |-> f.kind, part |-> f.part]
<1>1. /\ f # None /\ q # None /\ remote[q] = "open"
      /\ f \in [kind : Kind \cup {None}, fd : Fd, part : Nat \ {0}]
      /\ out' = [out EXCEPT ![q] = Append(@, m)]
      /\ UNCHANGED <<file, remote>>
      /\ sending' = [sending EXCEPT ![s] = AfterPart(f)]
  BY DEF Send, kernel, FramesInv, StreamTypes
<1>2. q \in Peer /\ Open(q)
  BY <1>1 DEF FramesInv, SocketInv, SocketTypes, Open
<1> HIDE DEF m
<1>3. /\ out[q] \in Seq([by : Sender, kind : Kind \cup {None}, part : Nat \ {0}])
      /\ out'[q] = Append(out[q], m)
      /\ \A p \in Peer : p # q => out'[p] = out[p]
  BY <1>1, <1>2 DEF FramesInv, StreamTypes
<1>4. /\ sending'[s] = AfterPart(f)
      /\ \A t \in Sender : t # s => sending'[t] = sending[t]
  BY <1>1 DEF FramesInv, StreamTypes
<1>5. QED
  BY <1>1, <1>2, <1>3, <1>4 DEF m

(* A stream longer by one message: the calls in it.                         *)
LEMMA LastCallMoves ==
    ASSUME NEW p \in Peer, NEW M, out[p] \in Seq(M), NEW m, out'[p] = Append(out[p], m)
    PROVE  /\ \A i \in DOMAIN out[p] : i \in DOMAIN out'[p] /\ out'[p][i] = out[p][i]
           /\ DOMAIN out[p] = 1 .. Len(out[p]) /\ Len(out[p]) \in Nat
           /\ DOMAIN out'[p] = 1 .. Len(out[p]) + 1
           /\ out'[p][Len(out[p]) + 1] = m
           /\ m.by \notin Caller =>
                 \A i \in DOMAIN out'[p] : IsLastCall(p, i)' => IsLastCall(p, i)
           /\ m.by \in Caller =>
                 \A i \in DOMAIN out'[p] : IsLastCall(p, i)' => i = Len(out[p]) + 1
PROOF
<1>1. /\ \A i \in DOMAIN out[p] : i \in DOMAIN out'[p] /\ out'[p][i] = out[p][i]
      /\ DOMAIN out[p] = 1 .. Len(out[p]) /\ Len(out[p]) \in Nat
      /\ DOMAIN out'[p] = 1 .. Len(out[p]) + 1
      /\ out'[p][Len(out[p]) + 1] = m
  OBVIOUS
<1>2. ASSUME m.by \notin Caller, NEW i \in DOMAIN out'[p], IsLastCall(p, i)'
      PROVE  IsLastCall(p, i)
  BY <1>1, <1>2 DEF IsLastCall
<1>3. ASSUME m.by \in Caller, NEW i \in DOMAIN out'[p], IsLastCall(p, i)'
      PROVE  i = Len(out[p]) + 1
  BY <1>1, <1>3 DEF IsLastCall
<1>4. QED
  BY <1>1, <1>2, <1>3

(* The message goes on with what its connection waits for.                  *)
LEMMA SendKeepsOrder ==
    ASSUME FramesInv, NEW s \in Sender, Send(s)
    PROVE  CallersFramesOrdered'
PROOF
<1> DEFINE f == sending[s]
           m == [by |-> s, kind |-> f.kind, part |-> f.part]
<1>1. PICK q \in Peer :
          /\ f # None
          /\ file[f.fd] = q
          /\ Open(q)
          /\ out[q] \in Seq([by : Sender, kind : Kind \cup {None}, part : Nat \ {0}])
          /\ out'[q] = Append(out[q], m)
          /\ \A p \in Peer : p # q => out'[p] = out[p]
  BY SendReaches
<1> DEFINE n == Len(out[q]) + 1
<1>2. /\ \A i \in DOMAIN out[q] : i \in DOMAIN out'[q] /\ out'[q][i] = out[q][i]
      /\ DOMAIN out[q] = 1 .. n - 1 /\ n - 1 \in Nat
      /\ DOMAIN out'[q] = 1 .. n
      /\ out'[q][n] = m
  <2> HIDE DEF m
  <2>1. QED
    BY <1>1, LastCallMoves
<1> SUFFICES ASSUME NEW p \in Peer, NEW i \in DOMAIN out'[p], NEW j \in DOMAIN out'[p],
                    i < j, out'[p][i].by \in Caller, out'[p][j].by \in Caller,
                    \A k \in i+1 .. j-1 : out'[p][k].by \notin Caller
             PROVE  Continues(out'[p][i], out'[p][j])
  BY DEF CallersFramesOrdered
<1>3. CASE p # q
  BY <1>1, <1>3 DEF FramesInv, CallersFramesOrdered
<1>4. CASE p = q /\ j \in DOMAIN out[q]
  <2>1. i \in DOMAIN out[q] /\ \A k \in i+1 .. j-1 : k \in DOMAIN out[q]
    BY <1>2, <1>4
  <2>2. /\ out[q][i].by \in Caller /\ out[q][j].by \in Caller
        /\ \A k \in i+1 .. j-1 : out[q][k].by \notin Caller
    BY <1>2, <1>4, <2>1
  <2>3. Continues(out[q][i], out[q][j])
    BY <1>4, <2>1, <2>2 DEF FramesInv, CallersFramesOrdered
  <2>4. QED
    BY <1>2, <1>4, <2>1, <2>3
<1>5. CASE p = q /\ j = n
  <2>1. i \in DOMAIN out[q] /\ s \in Caller
    BY <1>2, <1>5
  <2>2. IsLastCall(q, i)
    BY <1>2, <1>5, <2>1 DEF IsLastCall
  <2>3. SendsTo(s, q) /\ NextOf(s) = m
    BY <1>1 DEF SendsTo, NextOf
  <2>4. Continues(out[q][i], m)
    BY <1>1, <2>1, <2>2, <2>3 DEF FramesInv, StreamInv
  <2>5. QED
    BY <1>2, <1>5, <2>1, <2>4
<1>6. QED
  BY <1>2, <1>3, <1>4, <1>5

(* And leaves it waiting for the rest, or for another start.                *)
LEMMA SendKeepsStreams ==
    ASSUME FramesInv, NEW s \in Sender, Send(s)
    PROVE  StreamInv'
PROOF
<1> DEFINE f == sending[s]
           m == [by |-> s, kind |-> f.kind, part |-> f.part]
<1>1. PICK q \in Peer :
          /\ f # None /\ f.part \in Nat \ {0}
          /\ file[f.fd] = q
          /\ Open(q)
          /\ out[q] \in Seq([by : Sender, kind : Kind \cup {None}, part : Nat \ {0}])
          /\ out'[q] = Append(out[q], m)
          /\ \A p \in Peer : p # q => out'[p] = out[p]
          /\ UNCHANGED <<file, remote>>
          /\ sending'[s] = AfterPart(f)
          /\ \A t \in Sender : t # s => sending'[t] = sending[t]
  BY SendReaches
<1>2. \A p \in Peer : Open(p)' <=> Open(p)
  BY <1>1 DEF Open
<1>3. \A c \in Caller, p \in Peer : c # s => /\ SendsTo(c, p)' <=> SendsTo(c, p)
                                             /\ NextOf(c)' = NextOf(c)
  BY <1>1 DEF SendsTo, NextOf, Sender
<1>4. f.fd \in Fd /\ (sending'[s] # None => sending'[s].fd = f.fd)
  BY <1>1 DEF AfterPart, FramesInv, StreamTypes
<1>5. \A p \in Peer : p # q => ~SendsTo(s, p) /\ ~SendsTo(s, p)'
  BY <1>1, <1>4 DEF SendsTo
<1> SUFFICES ASSUME NEW p \in Peer, Open(p)', NEW i \in DOMAIN out'[p], IsLastCall(p, i)'
             PROVE  /\ \A c \in Caller : SendsTo(c, p)' => Continues(out'[p][i], NextOf(c)')
                    /\ (\A c \in Caller : ~SendsTo(c, p)')
                          => out'[p][i].part = LastPart(out'[p][i].kind)
  BY DEF StreamInv
<1>6. CASE p # q \/ s \notin Caller
  <2>1. i \in DOMAIN out[p] /\ out'[p][i] = out[p][i] /\ IsLastCall(p, i)
    <3>1. CASE p # q
      BY <1>1, <3>1 DEF IsLastCall
    <3>2. CASE p = q /\ s \notin Caller
      <4>1. m.by \notin Caller
        BY <3>2
      <4> HIDE DEF m
      <4>2. IsLastCall(p, i)
        BY <1>1, <3>2, <4>1, LastCallMoves
      <4>3. i \in DOMAIN out[p]
        BY <4>2 DEF IsLastCall
      <4>4. QED
        BY <1>1, <3>2, <4>2, <4>3, LastCallMoves
    <3>3. QED
      BY <1>6, <3>1, <3>2
  <2>2. \A c \in Caller : /\ SendsTo(c, p)' <=> SendsTo(c, p)
                          /\ SendsTo(c, p) => NextOf(c)' = NextOf(c)
    BY <1>3, <1>5, <1>6
  <2>3. /\ \A c \in Caller : SendsTo(c, p) => Continues(out[p][i], NextOf(c))
        /\ (\A c \in Caller : ~SendsTo(c, p)) => out[p][i].part = LastPart(out[p][i].kind)
    BY <1>2, <2>1 DEF FramesInv, StreamInv
  <2>4. QED
    BY <2>1, <2>2, <2>3
<1>7. CASE p = q /\ s \in Caller
  <2>1. out'[p][i] = m
    <3>1. m.by \in Caller
      BY <1>7
    <3> HIDE DEF m
    <3>2. i = Len(out[q]) + 1
      BY <1>1, <1>7, <3>1, LastCallMoves
    <3>3. QED
      BY <1>1, <1>7, <3>2, LastCallMoves
  <2>2. \A c \in Caller : c # s => ~SendsTo(c, p) /\ ~SendsTo(c, p)'
    <3>1. \A c \in Caller : c # s => sending[c] = None
      BY <1>1, <1>7 DEF FramesInv, LockInv
    <3>2. QED
      BY <1>3, <3>1 DEF SendsTo
  <2>3. CASE f.part = LastPart(f.kind)
    <3>1. ~SendsTo(s, p)'
      BY <1>1, <2>3 DEF AfterPart, SendsTo
    <3>2. QED
      BY <2>1, <2>2, <2>3, <3>1
  <2>4. CASE f.part # LastPart(f.kind)
    <3>1. f \in [kind : Kind \cup {None}, fd : Fd, part : Nat \ {0}]
      BY <1>1 DEF FramesInv, StreamTypes
    <3>2. sending'[s] = [f EXCEPT !.part = f.part + 1]
      BY <1>1, <2>4 DEF AfterPart
    <3>3. NextOf(s)' = [by |-> s, kind |-> f.kind, part |-> f.part + 1]
      BY <3>1, <3>2 DEF NextOf
    <3>4. Continues(m, NextOf(s)')
      BY <1>1, <3>3 DEF Continues
    <3>5. SendsTo(s, p)'
      <4>1. sending'[s] \in [kind : Kind \cup {None}, fd : Fd, part : Nat]
        BY <3>1, <3>2
      <4>2. QED
        BY <1>1, <1>4, <1>7, <4>1, NetManagerAssumption DEF SendsTo
    <3>6. QED
      BY <1>7, <2>1, <2>2, <3>4, <3>5
  <2>5. QED
    BY <2>3, <2>4
<1>8. QED
  BY <1>6, <1>7

LEMMA StreamInvNext ==
    ASSUME FramesInv, [Next]_vars
    PROVE  StreamInv' /\ CallersFramesOrdered'
PROOF
<1> USE DEF registry, objects, callers, kernel
<1>1. ASSUME out' = out
      PROVE  CallersFramesOrdered'
  BY <1>1 DEF FramesInv, CallersFramesOrdered
<1>2. ASSUME UNCHANGED <<out, file, remote>>, \A c \in Caller : sending'[c] = sending[c]
      PROVE  StreamInv' /\ CallersFramesOrdered'
  BY <1>1, <1>2, CallersKept DEF FramesInv
<1>3. CASE \/ StartListening \/ StopListening \/ ConnectFail \/ UNCHANGED vars
           \/ \E h \in Host : ConnectCheck(h)
           \/ \E a \in Adder : Register(a)
  BY <1>2, <1>3 DEF StartListening, StopListening, ConnectFail, ConnectCheck, Register, vars
<1>4. ASSUME NEW a, NEW p \in Peer, NEW h, Connected(a, p, h)
      PROVE  StreamInv' /\ CallersFramesOrdered'
  BY <1>1, <1>4, ConnectedKeepsStreams DEF Connected
<1>5. ASSUME NEW s \in Sender, SenderStep(s)
      PROVE  StreamInv' /\ CallersFramesOrdered'
  <2>1. CASE Send(s)
    BY <2>1, SendKeepsStreams, SendKeepsOrder
  <2>2. CASE SendLost(s) \/ SendFail(s)
    <3>1. out' = out
      BY <2>2 DEF SendLost, SendFail
    <3>2. QED
      BY <1>1, <2>2, <3>1, LostSendsKeepStreams
  <2>3. QED
    BY <1>5, <2>1, <2>2 DEF SenderStep
<1>6. ASSUME NEW p \in Peer, WorkerStep(p)
      PROVE  StreamInv' /\ CallersFramesOrdered'
  <2>1. CASE RecvVersion(p)
    <3>1. \A c \in Caller : sending'[c] = sending[c]
      BY <2>1, NetManagerAssumption DEF RecvVersion
    <3>2. QED
      BY <1>2, <2>1, <3>1 DEF RecvVersion
  <2>2. CASE RecvEnd(p) \/ RecvOversized(p) \/ Erase(p)
    BY <1>2, <2>2 DEF RecvEnd, RecvOversized, Erase
  <2>3. CASE Close(p)
    BY <1>1, <2>3, CloseKeepsStreams DEF Close
  <2>4. QED
    BY <1>6, <2>1, <2>2, <2>3 DEF WorkerStep
<1>7. ASSUME NEW p \in Peer, RemoteClose(p)
      PROVE  StreamInv' /\ CallersFramesOrdered'
  <2>1. /\ UNCHANGED <<out, file, sending>>
        /\ remote' = [remote EXCEPT ![p] = "closed"]
    BY <1>7 DEF RemoteClose
  <2>2. \A q \in Peer : /\ Open(q)' => Open(q)
                        /\ \A c \in Caller : SendsTo(c, q)' <=> SendsTo(c, q)
    BY <2>1 DEF Open, SendsTo, FramesInv, StreamTypes
  <2>3. \A c \in Caller : NextOf(c)' = NextOf(c)
    BY <2>1 DEF NextOf
  <2>4. StreamInv'
    BY <2>1, <2>2, <2>3, StreamsKept DEF FramesInv
  <2>5. QED
    BY <1>1, <2>1, <2>4
<1>8. ASSUME NEW c \in Caller, CallerStep(c)
      PROVE  StreamInv' /\ CallersFramesOrdered'
  <2>1. CASE Broadcast(c) \/ (\E h \in Host : Request(c, h)) \/ Return(c)
    BY <1>2, <2>1 DEF Broadcast, Request, Call, Return
  <2>2. CASE NextPeer(c)
    BY <1>1, <2>2, NextPeerKeepsStreams DEF NextPeer
  <2>3. QED
    BY <1>8, <2>1, <2>2 DEF CallerStep
<1>9. QED
  BY <1>3, <1>4, <1>5, <1>6, <1>7, <1>8 DEF Next, Accept, Connect

(* The invariant holds in every state that the node's threads can reach.    *)
THEOREM FramesInvariant == Spec => []FramesInv
PROOF
<1>1. Init => FramesInv
  <2> SUFFICES ASSUME Init
               PROVE  FramesInv
    OBVIOUS
  <2>1. SocketInv
    BY DEF Init, SocketInv, SocketTypes
  <2>2. BornTypes
    BY DEF Init, BornTypes
  <2>3. StreamTypes
    BY DEF Init, StreamTypes
  <2>4. FileInv /\ LockInv /\ QuietInv
    BY DEF Init, FileInv, LockInv, QuietInv, Sender
  <2>5. StreamInv /\ CallersFramesOrdered
    BY DEF Init, StreamInv, CallersFramesOrdered
  <2>6. QED
    BY <2>1, <2>2, <2>3, <2>4, <2>5 DEF FramesInv
<1>2. FramesInv /\ [Next]_vars => FramesInv'
  <2> SUFFICES ASSUME FramesInv, [Next]_vars
               PROVE  FramesInv'
    OBVIOUS
  <2>1. SocketInv' /\ BornTypes' /\ StreamTypes'
    BY SocketInvNext, BornTypesNext, StreamTypesNext DEF FramesInv
  <2>2. FileInv' /\ LockInv' /\ QuietInv'
    BY FileInvNext, LockInvNext, QuietInvNext DEF FramesInv
  <2>3. QED
    BY <2>1, <2>2, StreamInvNext DEF FramesInv
<1>3. QED
  BY <1>1, <1>2, PTL DEF Spec

(* The mutex keeps the calls apart: although a number may pass to another   *)
(* connection in the middle of a frame, no caller's message on any          *)
(* connection is out of the order of frames.                                *)
THEOREM CallsDoNotMix == Spec => []CallersFramesOrdered
PROOF
<1>1. FramesInv => CallersFramesOrdered
  BY DEF FramesInv
<1>2. QED
  BY <1>1, FramesInvariant, PTL
=============================================================================
