---------------------------- MODULE DbusService ----------------------------
(***************************************************************************)
(* DbusActor with its server and client handlers: calls from the bus to a  *)
(* method that another actor owns, calls of other actors to the bus, and   *)
(* signals.  A call arrives on the thread of the D-Bus connection, is kept *)
(* under a number, goes to the owner as a message, and its answer comes    *)
(* back as a message with that number.                                     *)
(*                                                                         *)
(* sdbus-c++, external: a callback runs under the connection's lock, so no *)
(* object is released during one.  One method, one signal; the actors that *)
(* use the service are whoever sends the messages it takes.                *)
(***************************************************************************)
EXTENDS Naturals, Sequences, Functions

CONSTANTS Calls,        \* calls from the bus, each made once
          Subscribers,
          NoCall, NoOne,
          MaxRequests,  \* bound: requests in the actor's mailbox
          MaxOpens      \* bound: open() calls

VARIABLES dbusUp,    \* state_, with the connection and both handlers
          opens,     \* how often it was opened
          method,    \* methods_ holds the method
          nextId,    \* nextCallId_
          pending,   \* pendingMethodCalls_: number -> call
          bus,       \* the callback the connection's thread is in
          call,      \* what became of a call
          dbusbox,   \* the actor's mailbox
          owner,     \* mailbox of the method's owner
          subs,      \* signalSubscriptions_: the signal's subscriber
          asked      \* proxy calls requested, minus results sent

dbusVars == <<dbusUp, opens, method, nextId, pending, bus, call, dbusbox, owner, subs, asked>>

DbusInit ==
    /\ dbusUp = FALSE /\ opens = 0 /\ method = FALSE /\ nextId = 0 /\ pending = <<>>
    /\ bus = NoCall /\ call = [c \in Calls |-> [state |-> "new"]]
    /\ dbusbox = <<>> /\ owner = <<>> /\ subs = NoOne /\ asked = 0

\* open(): the name is granted and both handlers are made, or nothing is left of it.
OpenDbus(ok) ==
    /\ ~dbusUp /\ opens < MaxOpens
    /\ dbusUp' = ok /\ opens' = opens + 1
    /\ nextId' = 0
    /\ UNCHANGED <<method, pending, bus, call, dbusbox, owner, subs, asked>>

\* DbusServerHandler::close clears pendingMethodCalls_: the callers get no reply.
Forgotten == Range(pending)

\* close(): the handlers forget methods, calls, subscriptions and proxies.
CloseDbus ==
    /\ dbusUp /\ bus = NoCall
    /\ dbusUp' = FALSE /\ method' = FALSE /\ pending' = <<>> /\ subs' = NoOne
    /\ call' = [c \in Calls |-> IF c \in Forgotten THEN [state |-> "dropped"] ELSE call[c]]
    /\ UNCHANGED <<opens, nextId, bus, dbusbox, owner, asked>>

-----------------------------------------------------------------------------
(* The method's callback, on the connection's thread                       *)

\* An unknown method, or arguments that do not deserialize: an error reply.
CallRefused(c) ==
    /\ dbusUp /\ bus = NoCall /\ call[c].state = "new"
    /\ call' = [call EXCEPT ![c].state = "refused"]
    /\ UNCHANGED <<dbusUp, opens, method, nextId, pending, bus, dbusbox, owner, subs, asked>>

\* Seeded fault: the counter is read and not advanced.
CallArrivesSameId(c) ==
    /\ dbusUp /\ method /\ bus = NoCall /\ call[c].state = "new"
    /\ bus' = [call |-> c, id |-> nextId, at |-> "keep"]
    /\ call' = [call EXCEPT ![c].state = "taken"]
    /\ UNCHANGED <<dbusUp, opens, method, nextId, pending, dbusbox, owner, subs, asked>>

CallArrives(c) ==
    /\ dbusUp /\ method /\ bus = NoCall /\ call[c].state = "new"
    /\ bus' = [call |-> c, id |-> nextId, at |-> "keep"]
    /\ nextId' = nextId + 1
    /\ call' = [call EXCEPT ![c].state = "taken"]
    /\ UNCHANGED <<dbusUp, opens, method, pending, dbusbox, owner, subs, asked>>

KeepCall(at, then) ==
    /\ bus # NoCall /\ bus.at = at
    /\ pending' = [i \in DOMAIN pending \cup {bus.id} |->
                      IF i = bus.id THEN bus.call ELSE pending[i]]
    /\ bus' = IF then = "return" THEN NoCall ELSE [bus EXCEPT !.at = then]
    /\ UNCHANGED <<dbusUp, opens, method, nextId, call, dbusbox, owner, subs, asked>>

\* An owner the registry does not know, or whose mailbox is full, hears nothing: the
\* message is dropped and the call stays kept.
TellOwner(at, then) ==
    /\ bus # NoCall /\ bus.at = at
    /\ \/ owner' = Append(owner, [id |-> bus.id, call |-> bus.call, opens |-> opens])
       \/ UNCHANGED owner
    /\ bus' = IF then = "return" THEN NoCall ELSE [bus EXCEPT !.at = then]
    /\ UNCHANGED <<dbusUp, opens, method, nextId, pending, call, dbusbox, subs, asked>>

\* Seeded fault: the owner is told first.
CallbackReversed == TellOwner("keep", "tell") \/ KeepCall("tell", "return")

\* The call is kept before its owner hears of it.
Callback == KeepCall("keep", "tell") \/ TellOwner("tell", "return")

-----------------------------------------------------------------------------
(* The actors that use the service                                         *)

\* External: the owner answers, with a result or an error; the actor's mailbox may be
\* full and drop the answer.
OwnerAnswers(isError) ==
    /\ owner # <<>>
    /\ owner' = Tail(owner)
    /\ LET m == Head(owner) IN
       \/ dbusbox' = Append(dbusbox, [type |-> "result", isError |-> isError,
                                      id |-> m.id, call |-> m.call, opens |-> m.opens])
       \/ UNCHANGED dbusbox
    /\ UNCHANGED <<dbusUp, opens, method, nextId, pending, bus, call, subs, asked>>

ServiceRequests == {[type |-> "register"], [type |-> "unregister"], [type |-> "proxy call"]}
             \cup {[type |-> "subscribe", by |-> a] : a \in Subscribers}

SendRequest(m) ==
    /\ Len(dbusbox) < MaxRequests
    /\ dbusbox' = Append(dbusbox, m)
    /\ asked' = IF m.type = "proxy call" THEN asked + 1 ELSE asked
    /\ UNCHANGED <<dbusUp, opens, method, nextId, pending, bus, call, owner, subs>>

-----------------------------------------------------------------------------
(* The actor's handlers                                                    *)

TakesDbus(type) ==
    /\ dbusUp /\ dbusbox # <<>> /\ Head(dbusbox).type = type
    /\ dbusbox' = Tail(dbusbox)

\* handle(Message) of an actor that is not open; a proxy call gets no result.
IgnoreDbus ==
    /\ ~dbusUp /\ dbusbox # <<>>
    /\ dbusbox' = Tail(dbusbox)
    /\ asked' = IF Head(dbusbox).type = "proxy call" THEN asked - 1 ELSE asked
    /\ UNCHANGED <<dbusUp, opens, method, nextId, pending, bus, call, owner, subs>>

\* Registered already, or refused by the bus: only logged.
HandleRegisterMethod(ok) ==
    /\ TakesDbus("register")
    /\ method' = (method \/ ok)
    /\ UNCHANGED <<dbusUp, opens, nextId, pending, bus, call, owner, subs, asked>>

\* The object is released, outside a callback; calls already kept stay.
HandleUnregisterMethod ==
    /\ TakesDbus("unregister") /\ bus = NoCall
    /\ method' = FALSE
    /\ UNCHANGED <<dbusUp, opens, nextId, pending, bus, call, owner, subs, asked>>

Replied(c, m, ok) ==
    [call EXCEPT ![c] = IF ok THEN [state |-> "answered", to |-> m.call, opens |-> m.opens]
                        ELSE [state |-> "dropped"]]

\* find, erase, reply; the reply may fail.
HandleMethodCallResult(ok) ==
    LET m == Head(dbusbox) IN
    /\ TakesDbus("result")
    /\ IF m.id \in DOMAIN pending
       THEN /\ pending' = Restrict(pending, DOMAIN pending \ {m.id})
            /\ call' = Replied(pending[m.id], m, ok)
       ELSE UNCHANGED <<pending, call>>
    /\ UNCHANGED <<dbusUp, opens, method, nextId, bus, owner, subs, asked>>

\* createProxy and a blocking call: its result or its error goes back.
HandleProxyCallRequest ==
    /\ TakesDbus("proxy call")
    /\ asked' = asked - 1
    /\ UNCHANGED <<dbusUp, opens, method, nextId, pending, bus, call, owner, subs>>

\* The first subscriber of a signal keeps it.
HandleSubscribeSignal(ok) ==
    /\ TakesDbus("subscribe")
    /\ subs' = IF subs = NoOne /\ ok THEN Head(dbusbox).by ELSE subs
    /\ UNCHANGED <<dbusUp, opens, method, nextId, pending, bus, call, owner, asked>>

-----------------------------------------------------------------------------
DbusStep ==
    \/ IgnoreDbus \/ HandleUnregisterMethod \/ HandleProxyCallRequest
    \/ \E ok \in BOOLEAN :
         HandleRegisterMethod(ok) \/ HandleMethodCallResult(ok) \/ HandleSubscribeSignal(ok)

OwnerStep == \E isError \in BOOLEAN : OwnerAnswers(isError)

DbusNext ==
    \/ \E ok \in BOOLEAN : OpenDbus(ok)
    \/ CloseDbus
    \/ \E c \in Calls : CallRefused(c) \/ CallArrives(c)
    \/ \E m \in ServiceRequests : SendRequest(m)
    \/ Callback \/ OwnerStep \/ DbusStep

\* The connection's thread, the workers and the owner go on.
DbusFairness == WF_dbusVars(Callback) /\ WF_dbusVars(OwnerStep) /\ WF_dbusVars(DbusStep)

-----------------------------------------------------------------------------
\* A call is answered with what its owner said to it.  Only an answer that outlived a
\* close and a new open may go to a stranger, because numbers start over
\* (nextCallId_, handleMethodCallResult).
OwnReply ==
    \A c \in Calls :
        (call[c].state = "answered" /\ call[c].opens = opens) => call[c].to = c

\* An answer that reaches the actor ends its call: the caller gets a reply, unless the
\* reply fails or the service was closed meanwhile.  The answer finds the call, which was
\* kept before its owner could know of it.  A call whose message or answer was dropped
\* on the way stays kept (pendingMethodCalls_, handleMethodCallResult).
AnswerUnderWay(c) ==
    \E i \in DOMAIN dbusbox : dbusbox[i].type = "result" /\ dbusbox[i].call = c

CallEnds ==
    \A c \in Calls : AnswerUnderWay(c) ~> (call[c].state \in {"answered", "dropped"})
=============================================================================
