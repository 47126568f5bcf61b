----------------------------- MODULE RpcServer ------------------------------
(***************************************************************************)
(* class RpcServer (src/rpc/RpcServer.h, src/rpc/RpcServer.cpp): its owner *)
(* thread, which registers methods, starts and stops it, and its event     *)
(* thread, which serves one request after the other.                       *)
(*                                                                         *)
(* The event loop is libevent's: entering it forgets an earlier break; it  *)
(* looks for a break before it waits, and, thread support not being        *)
(* enabled, a break does not wake it: it waits on for a request.           *)
(* A handler may take any time.  The owner is one thread.                  *)
(***************************************************************************)
EXTENDS Naturals

CONSTANTS
    Request,       \* the requests that clients send
    Method,        \* the names of methods
    MaxStarts,     \* bound on successful starts
    MaxVersion,    \* bound on the registrations of one name
    None           \* no request, no content, no reply

(* What a request can be: refused before its body is parsed, of a content   *)
(* that makes the parsing throw, JSON but no call, or a call of a method.   *)
Content == {"refused", "malformed", "invalid"} \cup Method

ASSUME RpcServerAssumption ==
    /\ Method \cap {"refused", "malformed", "invalid"} = {}
    /\ None \notin Request \cup Content
    /\ MaxStarts \in Nat
    /\ MaxVersion \in Nat

VARIABLES
    alive,     \* the process has not been terminated
    owner,     \* the owner thread: "free", or "joining" in stop
    running,   \* m_running
    base,      \* m_base and m_http: "null", "live", or "dangling"
    thread,    \* m_thread: "none", "started", "top" or "wait" of the loop,
               \* "handling" a call under m_methodsMutex, "ended"
    broken,    \* the break flag of the event loop
    methods,   \* m_methods: for each name how often it was registered
    handler,   \* the entry of methods that the call being handled refers to
    current,   \* the request whose handler runs, or None
    sent,      \* what a client has sent as a request, or None
    reply,     \* what came back: "error", "result", "closed", or None
    starts     \* number of successful starts

server == <<alive, owner, running, base, starts>>
loop == <<thread, broken, handler, current>>
serverVars == <<server, loop, methods, sent, reply>>

ServerInit ==
    /\ alive = TRUE
    /\ owner = "free"
    /\ running = FALSE
    /\ base = "null"
    /\ thread = "none"
    /\ broken = FALSE
    /\ methods = [m \in Method |-> 0]
    /\ handler = 0
    /\ current = None
    /\ sent = [r \in Request |-> None]
    /\ reply = [r \in Request |-> None]
    /\ starts = 0

Pending == {r \in Request : sent[r] # None /\ reply[r] = None}

-----------------------------------------------------------------------------
(* The owner. *)

(* [faulty: the mutex is not taken.] *)
RegisterUnlocked(m) ==
    /\ owner = "free"
    /\ methods[m] < MaxVersion
    /\ methods' = [methods EXCEPT ![m] = @ + 1]
    /\ UNCHANGED <<server, loop, sent, reply>>

(* register_method: a new entry, or one in the place of an old one. *)
Register(m) ==
    /\ owner = "free"
    /\ thread # "handling"
    /\ methods[m] < MaxVersion
    /\ methods' = [methods EXCEPT ![m] = @ + 1]
    /\ UNCHANGED <<server, loop, sent, reply>>

Start ==
    /\ owner = "free"
    /\ ~running
    /\ starts < MaxStarts
    /\ starts' = starts + 1
    /\ base' = "live"
    /\ running' = TRUE
    /\ thread' = "started"
    /\ UNCHANGED <<alive, owner, broken, handler, current, methods, sent, reply>>

(* No server, or the port is taken: what was made is freed, and the members *)
(* still point to it.                                                       *)
StartFail ==
    /\ owner = "free"
    /\ ~running
    /\ base' = "dangling"
    /\ UNCHANGED <<alive, owner, running, starts, loop, methods, sent, reply>>

(* [faulty: m_running is not looked at.] *)
StopUnchecked ==
    /\ owner = "free"
    /\ running' = FALSE
    /\ broken' = TRUE
    /\ owner' = "joining"
    /\ UNCHANGED <<alive, base, starts, thread, handler, current, methods, sent, reply>>

(* stop, up to the join. *)
Stop ==
    /\ owner = "free"
    /\ running
    /\ running' = FALSE
    /\ broken' = TRUE
    /\ owner' = "joining"
    /\ UNCHANGED <<alive, base, starts, thread, handler, current, methods, sent, reply>>

(* The join returns; the connections are closed with the server. *)
Joined ==
    /\ owner = "joining"
    /\ thread = "ended"
    /\ thread' = "none"
    /\ base' = "null"
    /\ reply' = [r \in Request |-> IF r \in Pending THEN "closed" ELSE reply[r]]
    /\ owner' = "free"
    /\ UNCHANGED <<alive, running, starts, broken, handler, current, methods, sent>>

-----------------------------------------------------------------------------
(* The clients and the event thread. *)

(* A request arrives, even before the loop runs or after it has ended. *)
Arrive(r, c) ==
    /\ sent[r] = None
    /\ base = "live"
    /\ sent' = [sent EXCEPT ![r] = c]
    /\ UNCHANGED <<server, loop, methods, reply>>

Dispatch ==
    /\ thread = "started"
    /\ thread' = "top"
    /\ broken' = FALSE
    /\ UNCHANGED <<server, handler, current, methods, sent, reply>>

(* [faulty: the loop does not look for a break.] *)
TurnBlindly ==
    /\ thread = "top"
    /\ thread' = "wait"
    /\ UNCHANGED <<server, broken, handler, current, methods, sent, reply>>

Turn ==
    /\ thread = "top"
    /\ thread' = IF broken THEN "ended" ELSE "wait"
    /\ UNCHANGED <<server, broken, handler, current, methods, sent, reply>>

(* [faulty: nothing is sent back when the method is not found.] *)
AnswerKnown(r) ==
    /\ thread = "wait"
    /\ r \in Pending
    /\ sent[r] \in {"refused", "invalid"} \cup {m \in Method : methods[m] = 0}
    /\ reply' = IF sent[r] \in Method THEN reply ELSE [reply EXCEPT ![r] = "error"]
    /\ thread' = "top"
    /\ UNCHANGED <<server, broken, handler, current, methods, sent>>

(* A request that never gets to a handler: evhttp_send_error or send_error. *)
AnswerError(r) ==
    /\ thread = "wait"
    /\ r \in Pending
    /\ sent[r] \in {"refused", "invalid"} \cup {m \in Method : methods[m] = 0}
    /\ reply' = [reply EXCEPT ![r] = "error"]
    /\ thread' = "top"
    /\ UNCHANGED <<server, broken, handler, current, methods, sent>>

(* json::parse throws on a body that is not JSON, or as_string on a version *)
(* or a method that is no string: outside the try block, so the process is  *)
(* terminated.                                                              *)
ParseFailure(r) ==
    /\ thread = "wait"
    /\ r \in Pending
    /\ sent[r] = "malformed"
    /\ alive' = FALSE
    /\ UNCHANGED <<owner, running, base, starts, loop, methods, sent, reply>>

(* The mutex is taken, the method found, and its handler called. *)
BeginCall(r) ==
    /\ thread = "wait"
    /\ r \in Pending
    /\ sent[r] \in Method
    /\ methods[sent[r]] # 0
    /\ thread' = "handling"
    /\ current' = r
    /\ handler' = methods[sent[r]]
    /\ UNCHANGED <<server, broken, methods, sent, reply>>

(* [faulty: the request stays the current one.] *)
EndCallKeeping ==
    /\ thread = "handling"
    /\ \E a \in {"result", "error"} : reply' = [reply EXCEPT ![current] = a]
    /\ thread' = "top"
    /\ handler' = 0
    /\ UNCHANGED <<server, broken, current, methods, sent>>

(* The handler returns, or throws. *)
EndCall ==
    /\ thread = "handling"
    /\ \E a \in {"result", "error"} : reply' = [reply EXCEPT ![current] = a]
    /\ thread' = "top"
    /\ current' = None
    /\ handler' = 0
    /\ UNCHANGED <<server, broken, methods, sent>>

-----------------------------------------------------------------------------

EventStep ==
    \/ Dispatch
    \/ Turn
    \/ \E r \in Request : AnswerError(r) \/ ParseFailure(r) \/ BeginCall(r)
    \/ EndCall

ServerNext ==
    /\ alive
    /\ \/ \E m \in Method : Register(m)
       \/ Start
       \/ StartFail
       \/ Stop
       \/ Joined
       \/ \E r \in Request, c \in Content : Arrive(r, c)
       \/ EventStep

ServerSpec == ServerInit /\ [][ServerNext]_serverVars

(* The two threads are scheduled, and handlers return (what holds up a      *)
(* handler is a broadcast to peers that do not read).                       *)
ServerFairness ==
    /\ WF_serverVars(alive /\ EventStep)
    /\ WF_serverVars(alive /\ Joined)

FairServerSpec == ServerSpec /\ ServerFairness

-----------------------------------------------------------------------------
(* Properties. *)

(* The types of the variables; there is a current request exactly while a   *)
(* handler runs.                                                            *)
ServerTypeOK ==
    /\ alive \in BOOLEAN
    /\ owner \in {"free", "joining"}
    /\ running \in BOOLEAN
    /\ base \in {"null", "live", "dangling"}
    /\ thread \in {"none", "started", "top", "wait", "handling", "ended"}
    /\ broken \in BOOLEAN
    /\ methods \in [Method -> 0 .. MaxVersion]
    /\ handler \in 0 .. MaxVersion
    /\ current \in Request \cup {None}
    /\ current # None <=> thread = "handling"
    /\ sent \in [Request -> Content \cup {None}]
    /\ reply \in [Request -> {"error", "result", "closed", None}]
    /\ starts \in 0 .. MaxStarts

(* Nobody works on what is freed: while the event thread exists, and while  *)
(* stop breaks and joins it, m_base points to a live event base, although   *)
(* a start that fails leaves the members pointing to what it has freed.     *)
BaseOutlivesLoop ==
    (thread # "none" \/ owner = "joining" \/ running) => base = "live"

(* A handler that runs is the one its entry of m_methods still holds: no    *)
(* registration replaces it meanwhile.                                      *)
HandlerNotReplaced ==
    thread = "handling" => handler = methods[sent[current]]

(* Every request that reaches the server gets something back, whatever it   *)
(* holds and however it meets start and stop, if the process lives on.      *)
RequestsAnswered ==
    \A r \in Request : sent[r] # None ~> reply[r] # None \/ ~alive

(* A stop that the loop has been told of returns when there is a request to *)
(* wake the loop.  (Without a request, or if stop comes before the loop is  *)
(* entered, it does not return.)                                            *)
StopEndsWithNextRequest ==
    (owner = "joining" /\ thread # "started" /\ broken /\ Pending # {})
        ~> (owner = "free" \/ ~alive)
=============================================================================
