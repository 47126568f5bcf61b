------------------------------ MODULE RpcCall -------------------------------
(***************************************************************************)
(* What one exchange between RpcClient (src/rpc/RpcClient.cpp) and         *)
(* RpcServer::handle_request (src/rpc/RpcServer.cpp) makes of methods,     *)
(* parameters and results, which travel as JSON texts.  When the exchanges *)
(* take place, and what they wait for, is modelled in RpcServer and        *)
(* Mining: here every text arrives, and gets its answer if the node lives. *)
(*                                                                         *)
(* Names of members, and the version, are their first letters; the codes    *)
(* -32600 to -32603 of errors are -10 to -13, which doubles scaled down as  *)
(* the integers are can hold.                                               *)
(***************************************************************************)
EXTENDS Json

CONSTANTS
    Methods,       \* the names of methods that the node has registered
    Names,         \* the names that clients call
    Parameters,    \* arrays of parameters that clients pass
    Batches,       \* sequences of calls that clients make together
    Results,       \* values that handlers return
    Complaints,    \* what() of the exceptions that handlers throw
    Foreign,       \* texts that other clients send
    None           \* nothing yet

(* Parameters that the server has room for, and that it can read. *)
Passed ==
    {params \in Seq(ValuesTo[MaxNesting - 2]) :
        \A i \in DOMAIN params : AsRead[params[i]] # Throws}

ErrorCodes == -13 .. -10

(* Results are nested one level deeper in a reply, parameters two in a      *)
(* request; a value is nested no deeper than the text that holds it is long. *)
(* No client and no handler of the program makes a double: what they pass   *)
(* and return can be read back.  The numbers of calls, and the codes of     *)
(* errors, are int64_t, and a double and its digits are enough for a code.  *)
ASSUME RpcCallAssumption ==
    /\ Methods \subseteq Names /\ Names \subseteq Bytes /\ Complaints \subseteq Bytes
    /\ MaxNesting > 1
    /\ Parameters \subseteq Passed
    /\ \A calls \in Batches : calls \in Seq(Names \X Passed) /\ Len(calls) <= MaxSigned
    /\ \A result \in Results : result \in ValuesTo[MaxNesting - 1] /\ AsRead[result] # Throws
    /\ \A text \in Foreign : text \in Bytes /\ Len(text) < MaxNesting
    /\ MaxSigned > 12
    /\ \A code \in ErrorCodes : /\ Stod(Decimal(code)) \in Doubles
                                /\ Shown(Stod(Decimal(code))) = Decimal(code)
    /\ None \notin Bytes \cup ({"json"} \X Bytes) \cup {<<"page">>, <<"gone">>} \cup Results

VARIABLES
    asked,     \* the calls of the client, <<method, params>> each
    batch,     \* they are made by batch_call
    request,   \* the body of the request
    handled,   \* the call that the handler got
    produced,  \* the result of the handler, if it has returned one
    reply,     \* <<"json", text>>; <<"page">>, an error page of libevent; or
               \* <<"gone">>, when the node has been terminated
    outcome    \* what the client has made of the reply: <<"result", value>>,
               \* <<"results">>, <<"false">>, or <<"thrown">> out of its main

vars == <<asked, batch, request, handled, produced, reply, outcome>>

Code == <<99>>
Error == <<101>>
Id == <<105>>
Jsonrpc == <<106>>
Message == <<109>>
Method == <<109>>
Params == <<112>>
Result == <<114>>
Version == String(<<50>>)

Init ==
    /\ asked = <<>>
    /\ batch = FALSE
    /\ request = None
    /\ handled = None
    /\ produced = None
    /\ reply = None
    /\ outcome = None

-----------------------------------------------------------------------------
(* The client. *)

RequestOf(call) ==
    <<<<Jsonrpc, Version>>, <<Method, String(call[1])>>, <<Params, Array(call[2])>>>>

(* call, up to curl_easy_perform. *)
Call(method, params) ==
    /\ asked' = <<<<method, params>>>>
    /\ request' = Dump[Object(RequestOf(<<method, params>>))]
    /\ UNCHANGED <<batch, handled, produced, reply, outcome>>

(* batch_call: one text for each call, with its number, one after the other.*)
BatchText(calls) ==
    FlattenSeq([i \in DOMAIN calls |->
        Dump[Object(<<<<Id, Signed(i - 1)>>>> \o RequestOf(calls[i]))]
            \o (IF i < Len(calls) THEN <<10>> ELSE <<>>)])

BatchCall(calls) ==
    /\ asked' = calls
    /\ batch' = TRUE
    /\ request' = BatchText(calls)
    /\ UNCHANGED <<handled, produced, reply, outcome>>

(* A request of somebody else. *)
OtherRequest(text) ==
    /\ request' = text
    /\ UNCHANGED <<asked, batch, handled, produced, reply, outcome>>

(* What call makes of the value it reads. *)
OutcomeOf(value) ==
    IF value[1] # "object" \/ Has(value[2], Error) THEN <<"false">>
    ELSE <<"result", Member(value[2], Result)>>

(* [faulty: what is no array is taken for one without items.] *)
BatchOutcomeOfAny(value) == <<"results">>

(* batch_call wants an array. *)
BatchOutcomeOf(value) == IF value[1] # "array" THEN <<"false">> ELSE <<"results">>

(* An exception of json::parse goes through call to main. *)
Receive ==
    /\ asked # <<>> \/ batch
    /\ reply # None /\ outcome = None
    /\ \E value \in {IF reply[1] = "json" THEN Parse(reply[2]) ELSE Throws} :
          outcome' = IF reply[1] = "gone" THEN <<"false">>
                     ELSE IF value = Throws THEN <<"thrown">>
                     ELSE IF batch THEN BatchOutcomeOf(value)
                     ELSE OutcomeOf(value)
    /\ UNCHANGED <<asked, batch, request, handled, produced, reply>>

-----------------------------------------------------------------------------
(* The server. *)

IdOf(members) == IF Has(members, Id) THEN Member(members, Id) ELSE Null

(* What handle_request finds in an object: an error, a text that makes it   *)
(* throw out of the callback, or a call.                                    *)
CallOf(members) ==
    LET Found(name) == Has(members, name)
        Of(name) == Member(members, name)
        id == IdOf(members)
    IN  IF ~Found(Jsonrpc) THEN <<"error", -10, id>>
        ELSE IF Of(Jsonrpc)[1] # "string" THEN <<"gone">>
        ELSE IF Of(Jsonrpc) # Version THEN <<"error", -10, id>>
        ELSE IF Found(Method) /\ Of(Method)[1] # "string" THEN <<"gone">>
        ELSE IF Found(Params) /\ Of(Params)[1] # "array" THEN <<"error", -12, id>>
        ELSE IF ~Found(Method) \/ Of(Method)[2] \notin Methods THEN <<"error", -11, id>>
        ELSE <<"call", Of(Method)[2], IF Found(Params) THEN Of(Params)[2] ELSE <<>>, id>>

(* What it finds in a body: that, or nothing to answer in JSON. *)
ContentOf(body) ==
    LET Found(value) == IF value = Throws THEN <<"gone">>
                        ELSE IF value = Null THEN <<"page">>
                        ELSE IF value[1] # "object" THEN <<"error", -10, Null>>
                        ELSE CallOf(value[2])
    IN  IF body = <<>> THEN <<"page">> ELSE Found(Parse(body))

ErrorObject(code, message) ==
    Object(<<<<Code, Double(Stod(Decimal(code)))>>, <<Message, String(message)>>>>)

(* [faulty: errors have no id.] *)
ErrorReplyNoId(code, message, id) ==
    <<"json", Dump[Object(<<<<Error, ErrorObject(code, message)>>, <<Id, Null>>,
                            <<Jsonrpc, Version>>>>)]>>

(* send_error. *)
ErrorReply(code, message, id) ==
    <<"json", Dump[Object(<<<<Error, ErrorObject(code, message)>>, <<Id, id>>,
                            <<Jsonrpc, Version>>>>)]>>

ResultReply(result, id) ==
    <<"json", Dump[Object(<<<<Id, id>>, <<Jsonrpc, Version>>, <<Result, result>>>>)]>>

(* No call: no handler runs. *)
Refuse(content) ==
    /\ content[1] # "call"
    /\ reply' = IF content[1] = "error" THEN ErrorReply(content[2], <<>>, content[3])
                ELSE content
    /\ UNCHANGED <<handled, produced>>

(* The handler returns. *)
HandleReturn(content, result) ==
    /\ content[1] = "call"
    /\ handled' = <<content[2], content[3]>>
    /\ produced' = result
    /\ reply' = ResultReply(result, content[4])

(* The handler throws. *)
HandleThrow(content, what) ==
    /\ content[1] = "call"
    /\ handled' = <<content[2], content[3]>>
    /\ reply' = ErrorReply(-13, what, content[4])
    /\ UNCHANGED produced

Serve ==
    /\ request # None /\ reply = None
    /\ \E content \in {ContentOf(request)} :
          \/ Refuse(content)
          \/ \E result \in Results : HandleReturn(content, result)
          \/ \E what \in Complaints : HandleThrow(content, what)
    /\ UNCHANGED <<asked, batch, request, outcome>>

-----------------------------------------------------------------------------

Ask ==
    /\ request = None
    /\ \/ \E method \in Names, params \in Parameters : Call(method, params)
       \/ \E calls \in Batches : BatchCall(calls)
       \/ \E text \in Foreign : OtherRequest(text)

Next == Ask \/ Serve \/ Receive

Spec == Init /\ [][Next]_vars

-----------------------------------------------------------------------------
(* Properties. *)

(* The id of a request, null if it has none. *)
RequestId(value) == IF value[1] = "object" THEN IdOf(value[2]) ELSE Null

AsReadAll(params) == [i \in DOMAIN params |-> AsRead[params[i]]]

(* A call gets to its method, with the parameters as they are read, or is   *)
(* refused because there is no such method; and no call of RpcClient, with  *)
(* whatever strings, can end the node.                                      *)
CallsReachTheirMethod ==
    (asked # <<>> /\ reply # None) =>
        LET method == asked[1][1]
        IN  /\ reply[1] = "json"
            /\ method \in Methods => handled = <<method, AsReadAll(asked[1][2])>>
            /\ method \notin Methods => handled = None

(* The client is told what the handler returned, integers of any size       *)
(* included, and is told of an exception: it never takes one for the other. *)
ResultsComeBack ==
    (outcome # None /\ ~batch) =>
        outcome = IF produced = None THEN <<"false">> ELSE <<"result", AsRead[produced]>>

(* Whatever a body holds: what the node answers in JSON is an object with   *)
(* the id of the request, as it is read, and either a result or an error,   *)
(* unless that id is, or holds, a double that is not read back; it answers  *)
(* with an error page only to no text and to null; and no more than a text  *)
(* that is no JSON, a version or a method that is no string, ends it.       *)
RepliesMatchRequests ==
    reply # None =>
        \E value \in {Parse(request)} :
            /\ reply[1] = "json" =>
                  \E id \in {AsRead[RequestId(value)]}, answer \in {Parse(reply[2])} :
                      IF id = Throws THEN answer = Throws
                      ELSE /\ answer # Throws /\ answer[1] = "object"
                           /\ {answer[2][k][1] : k \in DOMAIN answer[2]}
                                 \in {{Id, Jsonrpc, Result}, {Id, Jsonrpc, Error}}
                           /\ Member(answer[2], Id) = id
            /\ reply = <<"page">> => request = <<>> \/ value = Null
            /\ reply = <<"gone">> =>
                  \/ value = Throws
                  \/ /\ value[1] = "object"
                     /\ \E name \in {Jsonrpc, Method} :
                           Has(value[2], name) /\ Member(value[2], name)[1] # "string"

(* A batch runs its first call at most, with the parameters of that call,   *)
(* and never gives results: the server reads the first of the texts and     *)
(* replies with an object.                                                  *)
BatchRunsFirstCallOnly ==
    (batch /\ outcome # None) =>
        /\ outcome # <<"results">>
        /\ asked = <<>> => handled = None
        /\ asked # <<>> => /\ outcome = <<"false">>
                           /\ handled \in {None, <<asked[1][1], AsReadAll(asked[1][2])>>}
=============================================================================
