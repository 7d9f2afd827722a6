----------------------------- MODULE BlockingCalls -----------------------------
(***************************************************************************)
(* A client's blocking calls on a remote service object: ObjectEndPoint's  *)
(* invokeRemote, invokeRemoteProperty and waitForResponse                  *)
(* (ipc/objectendpoint.cpp) over one UnixEndPoint                          *)
(* (ipc/qremoteserviceregister_unix_p.cpp).                                *)
(*                                                                         *)
(* A blocking call does not run Qt's event loop: it runs a select() loop   *)
(* of its own inside the caller, which reads the socket and dispatches     *)
(* what arrived at once.  A dispatched signal runs the user's slots there, *)
(* and a slot may make a blocking call itself.  The client is therefore a  *)
(* stack of half-finished functions, kept here in  stack;  only the top    *)
(* one runs.                                                               *)
(*                                                                         *)
(* A package crosses the stream as two pieces, so that a read may end      *)
(* inside one.  The service answers in order, emits signals at any time,   *)
(* and may die.                                                            *)
(***************************************************************************)
EXTENDS Naturals, Sequences, SequencesExt

CONSTANTS MethodCall,   \* ids (QUuid) of the calls of methods with a result
          PropertyRead, \* ids of the property reads
          Signal,       \* the signals the service may emit
          NoCall        \* QUuid()

Call == MethodCall \cup PropertyRead
Package == Call \cup Signal   \* a reply carries the id of its call

ASSUME CallsAssumption ==
  /\ NoCall \notin Package
  /\ MethodCall \cap PropertyRead = {}
  /\ Signal \cap Call = {}

VARIABLES
  stack,               \* the functions in progress, innermost last
  waitingOnReturnUuid, functionReturned, openRequests,  \* ObjectEndPoint
  finished,            \* the open requests with isFinished
  incoming, pending,   \* UnixEndPoint::incoming; the package half read
  misframed,           \* a piece was taken for the wrong part of a package
  closed,              \* ~connection_open
  posted,              \* queued newPackageReady events
  used,                \* the ids already drawn by QUuid::createUuid
  wire, asked, emitted, dead,  \* the stream; the service's side
  overtaken            \* a nested read took bytes that follow unread ones (history)

endPoint == <<waitingOnReturnUuid, functionReturned, openRequests, finished, posted>>
reader == <<incoming, pending, misframed, closed, overtaken>>
remote == <<asked, emitted, dead>>
vars == <<stack, endPoint, reader, used, wire, remote>>

\* The functions on the stack.
Waiting(c) == [in |-> "waitForResponse", call |-> c, raw |-> <<>>]
Reading(r) == [in |-> "readIncoming", call |-> NoCall, raw |-> r]
Dispatching == [in |-> "newPackageReady", call |-> NoCall, raw |-> <<>>]
InSlot == [in |-> "slot", call |-> NoCall, raw |-> <<>>]

Piece == Package \X {1, 2}
Frame == [in : {"waitForResponse", "readIncoming", "newPackageReady", "slot"},
          call : Call \cup {NoCall},
          raw : Seq(Piece)]

TypeOK ==
  /\ stack \in Seq(Frame)
  /\ waitingOnReturnUuid \in MethodCall \cup {NoCall}
  /\ functionReturned \in BOOLEAN
  /\ openRequests = {c \in Call : \E i \in DOMAIN stack : stack[i].call = c}
  /\ finished \subseteq openRequests
  /\ incoming \in Seq(Package)
  /\ pending \in Package \cup {NoCall}
  /\ {misframed, closed, dead, overtaken} \subseteq BOOLEAN
  /\ posted \in Nat
  /\ used \subseteq Call /\ emitted \subseteq Signal
  /\ wire \in Seq(Piece) /\ asked \in Seq(Call)

Init ==
  /\ stack = <<>>
  /\ waitingOnReturnUuid = NoCall /\ functionReturned = FALSE
  /\ openRequests = {} /\ finished = {}
  /\ incoming = <<>> /\ pending = NoCall
  /\ misframed = FALSE /\ closed = FALSE /\ overtaken = FALSE
  /\ posted = 0
  /\ used = {} /\ emitted = {} /\ dead = FALSE
  /\ wire = <<>> /\ asked = <<>>

Idle == stack = <<>>
Top == Last(stack)
Running(f) == ~Idle /\ Top.in = f
Push(f) == stack' = Append(stack, f)
Pop == stack' = Front(stack)
Become(f) == stack' = Append(Front(stack), f)
-----------------------------------------------------------------------------
(***************************************************************************)
(* Calls.                                                                  *)
(***************************************************************************)
\* User code - the application when idle, or a slot - makes a blocking call.
StartCall(c) ==
  /\ Idle \/ Running("slot")
  /\ c \notin used
  /\ used' = used \cup {c}
  /\ openRequests' = openRequests \cup {c}
  /\ waitingOnReturnUuid' = IF c \in MethodCall THEN c ELSE waitingOnReturnUuid
  /\ asked' = IF closed THEN asked ELSE Append(asked, c)
  /\ Push(Waiting(c))
  /\ UNCHANGED <<functionReturned, finished, posted, reader, wire, emitted, dead>>

\* Mutant: functionReturned is not reset.
LeaveCallReturned(c) ==
  /\ Pop
  /\ openRequests' = openRequests \ {c} /\ finished' = finished \ {c}
  /\ waitingOnReturnUuid' = IF c \in MethodCall THEN NoCall ELSE waitingOnReturnUuid
  /\ posted' = IF functionReturned THEN posted + 1 ELSE posted
  /\ UNCHANGED <<functionReturned, reader, used, wire, remote>>

\* Mutant: no newPackageReady is queued for what arrived behind the answer.
LeaveCallUnposted(c) ==
  /\ Pop
  /\ openRequests' = openRequests \ {c} /\ finished' = finished \ {c}
  /\ waitingOnReturnUuid' = IF c \in MethodCall THEN NoCall ELSE waitingOnReturnUuid
  /\ functionReturned' = FALSE
  /\ UNCHANGED <<posted, reader, used, wire, remote>>

\* The end of waitForResponse and of the call around it.
LeaveCall(c) ==
  /\ Pop
  /\ openRequests' = openRequests \ {c}
  /\ finished' = finished \ {c}
  /\ waitingOnReturnUuid' = IF c \in MethodCall THEN NoCall ELSE waitingOnReturnUuid
  /\ functionReturned' = FALSE
  /\ posted' = IF functionReturned THEN posted + 1 ELSE posted
  /\ UNCHANGED <<reader, used, wire, remote>>

\* Answered, or nothing to wait for (waitForData() on a closed end point).
ReturnCall ==
  /\ Running("waitForResponse")
  /\ Top.call \in finished \/ closed
  /\ LeaveCall(Top.call)

\* Mutant: the wait has no end while the service is there.
TimeOutCallDisconnected ==
  /\ Running("waitForResponse") /\ closed
  /\ LeaveCall(Top.call)

\* 15 seconds have gone by.
TimeOutCall ==
  /\ Running("waitForResponse")
  /\ Top.call \notin finished
  /\ LeaveCall(Top.call)
-----------------------------------------------------------------------------
(***************************************************************************)
(* Reading: select() in runLocalEventLoop, or the notifier when idle.      *)
(***************************************************************************)
MayRead ==
  /\ ~closed
  /\ Idle \/ (Running("waitForResponse") /\ Top.call \notin finished)

\* read() returns some of the bytes that have arrived.
Read(n) ==
  /\ MayRead /\ n \in 1 .. Len(wire)
  /\ Push(Reading(SubSeq(wire, 1, n)))
  /\ wire' = SubSeq(wire, n + 1, Len(wire))
  /\ overtaken' = (overtaken \/ \E i \in DOMAIN stack : stack[i].raw # <<>>)
  /\ UNCHANGED <<endPoint, incoming, pending, misframed, closed, used, remote>>

\* Mutant: only the innermost response is finished.
DisconnectInnermost ==
  /\ MayRead /\ dead /\ wire = <<>>
  /\ closed' = TRUE
  /\ finished' = finished \cup (IF Idle THEN {} ELSE {Top.call})
  /\ UNCHANGED <<stack, waitingOnReturnUuid, functionReturned, openRequests, posted,
                 incoming, pending, misframed, overtaken, used, wire, remote>>

\* read() returns end-of-file: terminateConnection(true), and
\* ObjectEndPoint::disconnected() finishes every open request.
Disconnect ==
  /\ MayRead /\ dead /\ wire = <<>>
  /\ closed' = TRUE
  /\ finished' = openRequests
  /\ UNCHANGED <<stack, waitingOnReturnUuid, functionReturned, openRequests, posted,
                 incoming, pending, misframed, overtaken, used, wire, remote>>

\* One turn of readIncoming's loop over raw_data: a header or a body, in turn.
\* Anything else is taken for a length or a payload it is not; what follows on
\* the stream is lost.
TakePiece ==
  /\ Running("readIncoming") /\ Top.raw # <<>>
  /\ LET p == Head(Top.raw)[1]
         half == Head(Top.raw)[2]
         rest == Reading(Tail(Top.raw))
     IN IF misframed \/ (half = 1 /\ pending # NoCall) \/ (half = 2 /\ pending # p)
        THEN /\ misframed' = TRUE
             /\ Become(rest)
             /\ UNCHANGED <<incoming, pending>>
        ELSE IF half = 1
        THEN /\ pending' = p
             /\ Become(rest)
             /\ UNCHANGED <<incoming, misframed>>
        ELSE /\ pending' = NoCall
             /\ incoming' = Append(incoming, p)   \* emit readyRead()
             /\ stack' = Append(Append(Front(stack), rest), Dispatching)
             /\ UNCHANGED misframed
  /\ UNCHANGED <<endPoint, closed, overtaken, used, wire, remote>>

\* Mutant: the package half read is forgotten between two reads.
EndReadForgetful ==
  /\ Running("readIncoming") /\ Top.raw = <<>>
  /\ Pop /\ pending' = NoCall
  /\ UNCHANGED <<endPoint, incoming, misframed, closed, overtaken, used, wire, remote>>

EndRead ==
  /\ Running("readIncoming") /\ Top.raw = <<>>
  /\ Pop
  /\ UNCHANGED <<endPoint, reader, used, wire, remote>>
-----------------------------------------------------------------------------
(***************************************************************************)
(* Dispatching: newPackageReady.                                           *)
(***************************************************************************)
MayDispatch == Running("newPackageReady") /\ incoming # <<>> /\ ~functionReturned

\* methodCall and propertyCall, client side, of a reply; one that nobody waits
\* for any more is dropped.
DispatchReply ==
  /\ MayDispatch /\ Head(incoming) \in Call
  /\ incoming' = Tail(incoming)
  /\ LET c == Head(incoming) IN
     /\ functionReturned' = (c \in MethodCall /\ waitingOnReturnUuid = c)
     /\ finished' = finished \cup ({c} \cap openRequests)
  /\ UNCHANGED <<stack, waitingOnReturnUuid, openRequests, posted, pending, misframed,
                 closed, overtaken, used, wire, remote>>

\* methodCall, client side, of a signal: the connected slots run at once.
DispatchSignal ==
  /\ MayDispatch /\ Head(incoming) \in Signal
  /\ incoming' = Tail(incoming)
  /\ Push(InSlot)
  /\ UNCHANGED <<endPoint, pending, misframed, closed, overtaken, used, wire, remote>>

EndDispatch ==
  /\ Running("newPackageReady") /\ ~MayDispatch
  /\ Pop
  /\ UNCHANGED <<endPoint, reader, used, wire, remote>>

EndSlot ==
  /\ Running("slot")
  /\ Pop
  /\ UNCHANGED <<endPoint, reader, used, wire, remote>>

\* Qt's event loop delivers a queued newPackageReady.
RunPosted ==
  /\ Idle /\ posted > 0
  /\ posted' = posted - 1
  /\ Push(Dispatching)
  /\ UNCHANGED <<waitingOnReturnUuid, functionReturned, openRequests, finished,
                 reader, used, wire, remote>>
-----------------------------------------------------------------------------
(***************************************************************************)
(* The service.                                                            *)
(***************************************************************************)
Send(p) == wire' = wire \o <<<<p, 1>>, <<p, 2>>>>

Answer ==
  /\ ~dead /\ asked # <<>>
  /\ Send(Head(asked))
  /\ asked' = Tail(asked)
  /\ UNCHANGED <<stack, endPoint, reader, used, emitted, dead>>

Emit(s) ==
  /\ ~dead /\ ~closed /\ s \notin emitted
  /\ Send(s)
  /\ emitted' = emitted \cup {s}
  /\ UNCHANGED <<stack, endPoint, reader, used, asked, dead>>

Die ==
  /\ ~dead
  /\ dead' = TRUE
  /\ UNCHANGED <<stack, endPoint, reader, used, wire, asked, emitted>>
-----------------------------------------------------------------------------
ReadSome == \E n \in 1 .. Len(wire) : Read(n)

\* What the client's thread does by itself, once in a call or a handler.
ClientStep ==
  \/ ReturnCall \/ ReadSome \/ Disconnect \/ TakePiece \/ EndRead
  \/ DispatchReply \/ DispatchSignal \/ EndDispatch \/ EndSlot \/ RunPosted

Next ==
  \/ \E c \in Call : StartCall(c)
  \/ TimeOutCall
  \/ ClientStep
  \/ Answer \/ Die
  \/ \E s \in Signal : Emit(s)

\* The thread runs, its loops poll the socket, slots end and the 15 seconds of
\* a wait pass.  The service owes nothing.
Fairness == WF_vars(ClientStep) /\ WF_vars(TimeOutCall)

Spec == Init /\ [][Next]_vars
FairSpec == Spec /\ Fairness
-----------------------------------------------------------------------------
(***************************************************************************)
(* Properties.                                                             *)
(***************************************************************************)
\* functionReturned stops every dispatch until a waiting call resets it.  It is
\* never left set with no answered method call on the stack to do so, however
\* calls nest, time out or lose the service: a client does not go deaf.
ReturnFlagOwned ==
  functionReturned =>
    \E i \in DOMAIN stack : stack[i].call \in MethodCall \cap finished

\* Packages that arrived behind the answer of a call are never forgotten: an
\* idle client with packages in its queue has an event posted to handle them.
BufferedPackagesScheduled == Idle /\ incoming # <<>> => posted > 0

\* readIncoming finds the package boundaries however the stream is cut, as long
\* as no nested read overtakes the bytes of an outer one.
FramingKept == misframed => overtaken

\* Losing the service wakes every caller on the stack, not only the innermost.
DisconnectWakesAll ==
  closed => \A i \in 1 .. Len(stack) - 1 : stack[i].call \in finished \cup {NoCall}

\* Every blocking call comes back to its caller.
CallsReturn ==
  \A c \in Call : c \in openRequests ~> c \notin openRequests

\* Every package that arrived whole is eventually dispatched.
PackagesDispatched == incoming # <<>> ~> incoming = <<>>

\* What the warning in waitForResponse says of a call that timed out, "remote
\* end failed to respond to blocking IPC call": its answer has not been received.
TimedOutCallsUnanswered ==
  [][TimeOutCall => ~Contains(incoming, Top.call)]_vars
=============================================================================
