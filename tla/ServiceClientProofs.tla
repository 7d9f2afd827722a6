-------------------------- MODULE ServiceClientProofs --------------------------
(***************************************************************************)
(* Proofs about the client of a service: its blocking calls, for any calls *)
(* and signals and however deep they nest; the starting of the service,    *)
(* for any clients and processes; and the loads in the background, for any *)
(* managers and replies.                                                   *)
(*                                                                         *)
(* None of what is said of the calls is inductive alone: that a flag is    *)
(* owned and that every caller wakes rests on what may lie on the stack    *)
(* and on which ids are open, and that packages keep their boundaries on   *)
(* what the unread bytes of the stack and of the stream make together.     *)
(*                                                                         *)
(* What the starts leave behind rests on what the files are at each step   *)
(* of a process that sets up; that a request is answered once, on there    *)
(* being one place for it at each step.                                    *)
(***************************************************************************)
EXTENDS BlockingCalls, ServiceStart, ServiceOperations, FiniteSetTheorems, SequenceTheorems,
        TLAPS
-----------------------------------------------------------------------------
(***************************************************************************)
(* The blocking calls: the frames, the requests and the bytes.             *)
(***************************************************************************)
\* The frames on the stack: only a waitForResponse has a call, each its own, and
\* only a readIncoming has bytes.
StackInv ==
  /\ stack \in Seq(Frame)
  /\ \A i \in DOMAIN stack :
       /\ stack[i].in = "waitForResponse" <=> stack[i].call # NoCall
       /\ stack[i].raw # <<>> => stack[i].in = "readIncoming"
       /\ stack[i].call \in used \cup {NoCall}
  /\ \A i, j \in DOMAIN stack :
       stack[i].call = stack[j].call /\ stack[i].call # NoCall => i = j

\* The open requests are those on the stack, and the one whose return stops all
\* dispatching is among them.
CallsInv ==
  /\ openRequests = {c \in Call : \E i \in DOMAIN stack : stack[i].call = c}
  /\ finished \subseteq openRequests
  /\ waitingOnReturnUuid \in (MethodCall \cap openRequests) \cup {NoCall}

WireInv == wire \in Seq(Piece) /\ asked \in Seq(Call)

-----------------------------------------------------------------------------
(***************************************************************************)
(* What is done to the stack.                                              *)
(***************************************************************************)
LEMMA Indices ==
  ASSUME NEW n \in Nat, NEW m \in Nat, m = n \/ m = n + 1
  PROVE  /\ n <= m /\ 1 .. n - 1 \subseteq 1 .. m /\ 1 .. m - 1 \subseteq 1 .. m
         /\ \A i \in 1 .. n : i # n => i \in 1 .. n - 1
         /\ \A i \in 1 .. m : \/ i \in 1 .. n - 1 \/ i = n
                              \/ i = n + 1 /\ m = n + 1
<1>1. n <= m /\ 1 .. n - 1 \subseteq 1 .. m /\ 1 .. m - 1 \subseteq 1 .. m
  OBVIOUS
<1>2. \A i \in 1 .. n : i # n => i \in 1 .. n - 1
  OBVIOUS
<1>3. ASSUME NEW i \in 1 .. m, i \notin 1 .. n - 1, i # n
      PROVE  i = n + 1 /\ m = n + 1
  BY <1>3
<1>4. \A i \in 1 .. m : \/ i \in 1 .. n - 1 \/ i = n
                        \/ i = n + 1 /\ m = n + 1
  BY <1>3, Zenon
<1> QED
  BY <1>1, <1>2, <1>4

LEMMA Pushed ==
  ASSUME stack \in Seq(Frame), NEW f \in Frame, Push(f)
  PROVE  /\ stack' \in Seq(Frame) /\ Len(stack) \in Nat /\ Len(stack') = Len(stack) + 1
         /\ DOMAIN stack = 1 .. Len(stack) /\ DOMAIN stack' = 1 .. Len(stack) + 1
         /\ \A i \in DOMAIN stack : stack'[i] = stack[i]
         /\ stack'[Len(stack) + 1] = f
  BY DEF Push

LEMMA TopIs ==
  ASSUME stack \in Seq(Frame), NEW k, Running(k)
  PROVE  /\ Len(stack) \in Nat /\ Len(stack) # 0 /\ stack # <<>>
         /\ Len(stack) \in DOMAIN stack /\ DOMAIN stack = 1 .. Len(stack)
         /\ Top = stack[Len(stack)] /\ Top.in = k /\ Top \in Frame
  BY DEF Running, Idle, Top, Last

LEMMA FrontIs ==
  ASSUME stack \in Seq(Frame), stack # <<>>
  PROVE  /\ Front(stack) \in Seq(Frame) /\ Len(Front(stack)) = Len(stack) - 1
         /\ DOMAIN Front(stack) = 1 .. Len(stack) - 1
         /\ \A i \in 1 .. Len(stack) - 1 : Front(stack)[i] = stack[i]
<1>1. /\ Len(stack) \in Nat /\ Len(stack) # 0 /\ 1 \in Int /\ Len(stack) - 1 \in Int
      /\ \A i \in 1 .. Len(stack) - 1 : stack[i] \in Frame
  OBVIOUS
<1>2. /\ SubSeq(stack, 1, Len(stack) - 1) \in Seq(Frame)
      /\ Len(SubSeq(stack, 1, Len(stack) - 1))
           = IF 1 <= Len(stack) - 1 THEN (Len(stack) - 1) - 1 + 1 ELSE 0
      /\ \A i \in 1 .. (Len(stack) - 1) - 1 + 1 :
           SubSeq(stack, 1, Len(stack) - 1)[i] = stack[1 + i - 1]
  BY <1>1, SubSeqProperties
<1>3. /\ Front(stack) \in Seq(Frame) /\ Len(Front(stack)) = Len(stack) - 1
      /\ \A i \in 1 .. Len(stack) - 1 : Front(stack)[i] = stack[i]
  <2> DEFINE n == Len(stack) - 1
             t == SubSeq(stack, 1, n)
  <2>1. t \in Seq(Frame)
    BY <1>2
  <2>2. Len(t) = n
    <3>1. Len(t) = IF 1 <= n THEN n - 1 + 1 ELSE 0
      BY <1>2
    <3>2. n \in Nat
      BY <1>1
    <3> HIDE DEF n, t
    <3> QED
      BY <3>1, <3>2
  <2>3. ASSUME NEW i \in 1 .. n PROVE t[i] = stack[i]
    <3>1. i \in 1 .. (Len(stack) - 1) - 1 + 1 /\ 1 + i - 1 = i
      BY <1>1
    <3> QED
      BY <1>2, <3>1
  <2> QED
    BY <2>1, <2>2, <2>3 DEF Front
<1>4. DOMAIN Front(stack) = 1 .. Len(stack) - 1
  BY <1>3
<1> QED
  BY <1>3, <1>4

LEMMA Popped ==
  ASSUME stack \in Seq(Frame), stack # <<>>, Pop
  PROVE  /\ stack' \in Seq(Frame) /\ Len(stack) \in Nat /\ Len(stack') = Len(stack) - 1
         /\ DOMAIN stack = 1 .. Len(stack) /\ DOMAIN stack' = 1 .. Len(stack) - 1
         /\ \A i \in DOMAIN stack' : stack'[i] = stack[i]
  BY FrontIs DEF Pop

LEMMA Became ==
  ASSUME stack \in Seq(Frame), stack # <<>>, NEW f \in Frame, Become(f)
  PROVE  /\ stack' \in Seq(Frame) /\ Len(stack) \in Nat /\ Len(stack') = Len(stack)
         /\ DOMAIN stack = 1 .. Len(stack) /\ DOMAIN stack' = 1 .. Len(stack)
         /\ \A i \in 1 .. Len(stack) - 1 : stack'[i] = stack[i]
         /\ stack'[Len(stack)] = f
<1>1. /\ Front(stack) \in Seq(Frame) /\ Len(Front(stack)) = Len(stack) - 1
      /\ \A i \in 1 .. Len(stack) - 1 : Front(stack)[i] = stack[i]
      /\ Len(stack) \in Nat /\ Len(stack) # 0
  BY FrontIs
<1>2. stack' = Append(Front(stack), f)
  BY DEF Become
<1> QED
  BY <1>1, <1>2

LEMMA Frames ==
  /\ \A c \in Call : Waiting(c) \in Frame
  /\ \A r \in Seq(Piece) : Reading(r) \in Frame
  /\ Dispatching \in Frame /\ InSlot \in Frame
  BY DEF Frame, Waiting, Reading, Dispatching, InSlot
-----------------------------------------------------------------------------
(***************************************************************************)
(* The kinds of steps, by what they do to the stack and the open requests. *)
(***************************************************************************)
Requests == <<openRequests, waitingOnReturnUuid, used, closed>>
Calm == UNCHANGED <<Requests, finished, functionReturned>>

\* A frame without a call is pushed, over one without a call once the service is lost.
NeutralPush ==
  /\ Calm
  /\ closed => Idle \/ Top.call = NoCall
  /\ \E f \in Frame : Push(f) /\ f.call = NoCall /\ f.in # "waitForResponse"
                      /\ (f.raw # <<>> => f.in = "readIncoming")

NeutralPop == Calm /\ ~Idle /\ Top.call = NoCall /\ Pop

\* A read goes on, with a package to dispatch or without.
ReadOn ==
  /\ Calm /\ Running("readIncoming")
  /\ \E r \in Seq(Piece) :
       \/ Become(Reading(r))
       \/ stack' = Append(Append(Front(stack), Reading(r)), Dispatching)

LEMMA WireStep == WireInv /\ [Next]_vars => WireInv'
<1> SUFFICES ASSUME WireInv, [Next]_vars PROVE WireInv'
  OBVIOUS
<1>1. ASSUME NEW c \in Call, StartCall(c) PROVE WireInv'
  BY <1>1 DEF WireInv, StartCall
<1>2. ASSUME NEW n \in 1 .. Len(wire), Read(n) PROVE WireInv'
  <2>1. \A i \in n + 1 .. Len(wire) : wire[i] \in Piece
    BY DEF WireInv
  <2>2. n + 1 \in Int /\ Len(wire) \in Int
    BY DEF WireInv
  <2>3. SubSeq(wire, n + 1, Len(wire)) \in Seq(Piece)
    BY <2>1, <2>2, SubSeqProperties
  <2> QED
    BY <1>2, <2>3 DEF WireInv, Read, remote
<1>3. ASSUME NEW p \in Package, Send(p) PROVE wire' \in Seq(Piece)
  <2>1. <<<<p, 1>>, <<p, 2>>>> \in Seq(Piece)
    BY DEF Piece
  <2> QED
    BY <1>3, <2>1 DEF Send, WireInv
<1>4. CASE Answer
  <2>1. Head(asked) \in Call /\ Tail(asked) \in Seq(Call)
    BY <1>4 DEF Answer, WireInv
  <2> QED
    BY <1>3, <1>4, <2>1 DEF Answer, WireInv, Package
<1>5. ASSUME NEW x \in Signal, Emit(x) PROVE WireInv'
  BY <1>3, <1>5 DEF Emit, WireInv, Package
<1>6. CASE TimeOutCall \/ ReturnCall
  BY <1>6 DEF WireInv, TimeOutCall, ReturnCall, LeaveCall, remote
<1>7. CASE Disconnect \/ TakePiece \/ EndRead
  BY <1>7 DEF WireInv, Disconnect, TakePiece, EndRead, remote
<1>8. CASE DispatchReply \/ DispatchSignal \/ EndDispatch \/ EndSlot \/ RunPosted
  BY <1>8 DEF WireInv, DispatchReply, DispatchSignal, EndDispatch, EndSlot, RunPosted, remote
<1>9. CASE Die \/ UNCHANGED vars
  BY <1>9 DEF WireInv, Die, vars, remote
<1> QED
  BY <1>1, <1>2, <1>4, <1>5, <1>6, <1>7, <1>8, <1>9 DEF Next, ClientStep, ReadSome

LEMMA Kinds ==
  ASSUME StackInv, WireInv, [Next]_vars
  PROVE  \/ \E c \in Call : StartCall(c)
         \/ Running("waitForResponse") /\ LeaveCall(Top.call)
         \/ NeutralPush \/ NeutralPop \/ ReadOn
         \/ DispatchReply \/ Disconnect
         \/ Calm /\ UNCHANGED stack
<1> USE CallsAssumption
<1>1. CASE TimeOutCall \/ ReturnCall
  BY <1>1 DEF TimeOutCall, ReturnCall
<1>2. ASSUME NEW n \in 1 .. Len(wire), Read(n) PROVE NeutralPush
  <2>1. SubSeq(wire, 1, n) \in Seq(Piece)
    <3>1. \A i \in 1 .. n : wire[i] \in Piece
      BY DEF WireInv
    <3>2. 1 \in Int /\ n \in Int
      OBVIOUS
    <3> QED
      BY <3>1, <3>2, SubSeqProperties
  <2>2. Reading(SubSeq(wire, 1, n)) \in Frame
    BY <2>1, Frames
  <2> QED
    BY <1>2, <2>2 DEF NeutralPush, Calm, Requests, Read, MayRead, endPoint, Reading
<1>3. CASE TakePiece
  <2>1. Running("readIncoming") /\ Top.raw # <<>>
    BY <1>3 DEF TakePiece
  <2>2. Tail(Top.raw) \in Seq(Piece)
    <3>1. Top \in Frame
      BY <2>1, TopIs DEF StackInv
    <3> QED
      BY <2>1, <3>1 DEF Frame
  <2>3. Calm
    BY <1>3 DEF TakePiece, Calm, Requests, endPoint
  <2>4. \/ Become(Reading(Tail(Top.raw)))
        \/ stack' = Append(Append(Front(stack), Reading(Tail(Top.raw))), Dispatching)
    BY <1>3 DEF TakePiece
  <2> QED
    BY <2>1, <2>2, <2>3, <2>4 DEF ReadOn
<1>4. CASE EndRead \/ EndDispatch \/ EndSlot
  <2>1. \E k \in {"readIncoming", "newPackageReady", "slot"} : Running(k) /\ Pop
    BY <1>4 DEF EndRead, EndDispatch, EndSlot
  <2>2. ~Idle /\ Top.call = NoCall
    BY <2>1, TopIs DEF StackInv, Running
  <2>3. Calm
    BY <1>4 DEF EndRead, EndDispatch, EndSlot, Calm, Requests, endPoint, reader
  <2> QED
    BY <2>1, <2>2, <2>3 DEF NeutralPop
<1>5. CASE DispatchSignal
  <2>1. Top.call = NoCall /\ Push(InSlot) /\ Calm
    BY <1>5, TopIs DEF DispatchSignal, MayDispatch, StackInv, Running, Calm, Requests, endPoint
  <2> QED
    BY <2>1, Frames DEF NeutralPush, InSlot
<1>6. CASE RunPosted
  <2>1. Idle /\ Push(Dispatching) /\ Calm
    BY <1>6 DEF RunPosted, Calm, Requests, reader
  <2> QED
    BY <2>1, Frames DEF NeutralPush, Dispatching
<1>7. CASE Answer \/ Die \/ UNCHANGED vars \/ \E x \in Signal : Emit(x)
  BY <1>7 DEF Answer, Die, Emit, vars, Calm, Requests, endPoint, reader
<1> QED
  BY <1>1, <1>2, <1>3, <1>4, <1>5, <1>6, <1>7 DEF Next, ClientStep, ReadSome
-----------------------------------------------------------------------------
(***************************************************************************)
(* Each kind of step keeps the invariant.                                  *)
(***************************************************************************)
CoreInv == StackInv /\ CallsInv /\ ReturnFlagOwned /\ DisconnectWakesAll

LEMMA StartKeeps ==
  ASSUME CoreInv, NEW c \in Call, StartCall(c)
  PROVE  CoreInv'
<1> USE CallsAssumption DEF CoreInv
<1>1. /\ c \notin used /\ used' = used \cup {c} /\ openRequests' = openRequests \cup {c}
      /\ waitingOnReturnUuid' = IF c \in MethodCall THEN c ELSE waitingOnReturnUuid
      /\ Push(Waiting(c)) /\ UNCHANGED <<functionReturned, finished, closed>>
  BY DEF StartCall, reader
<1>2. /\ stack' \in Seq(Frame) /\ Len(stack) \in Nat /\ Len(stack') = Len(stack) + 1
      /\ DOMAIN stack = 1 .. Len(stack) /\ DOMAIN stack' = 1 .. Len(stack) + 1
      /\ \A i \in DOMAIN stack : stack'[i] = stack[i]
      /\ stack'[Len(stack) + 1] = Waiting(c)
  BY <1>1, Pushed, Frames DEF StackInv
<1>3. /\ Waiting(c).in = "waitForResponse" /\ Waiting(c).call = c /\ Waiting(c).raw = <<>>
      /\ c # NoCall
  BY DEF Waiting, Package
<1>4. \A i \in DOMAIN stack : stack[i].call # c
  BY <1>1, <1>3 DEF StackInv
<1>5. StackInv'
  <2>1. \A i \in DOMAIN stack' :
          /\ stack'[i].in = "waitForResponse" <=> stack'[i].call # NoCall
          /\ stack'[i].raw # <<>> => stack'[i].in = "readIncoming"
          /\ stack'[i].call \in used' \cup {NoCall}
    BY <1>1, <1>2, <1>3 DEF StackInv
  <2>2. \A i, j \in DOMAIN stack' :
          stack'[i].call = stack'[j].call /\ stack'[i].call # NoCall => i = j
    BY <1>2, <1>3, <1>4 DEF StackInv
  <2> QED
    BY <1>2, <2>1, <2>2 DEF StackInv
<1>6. CallsInv'
  <2>1. openRequests' = {d \in Call : \E i \in DOMAIN stack' : stack'[i].call = d}
    BY <1>1, <1>2, <1>3 DEF CallsInv
  <2>2. waitingOnReturnUuid' \in (MethodCall \cap openRequests') \cup {NoCall}
    BY <1>1 DEF CallsInv, Call
  <2> QED
    BY <1>1, <2>1, <2>2 DEF CallsInv
<1>7. ReturnFlagOwned'
  BY <1>1, <1>2 DEF ReturnFlagOwned
<1>8. DisconnectWakesAll'
  <2> SUFFICES ASSUME closed, NEW i \in 1 .. Len(stack)
               PROVE  stack[i].call \in finished \cup {NoCall}
    BY <1>1, <1>2 DEF DisconnectWakesAll
  <2>1. CASE i = Len(stack)
    <3>1. Running("slot")
      BY <2>1, <1>2 DEF StartCall, Idle
    <3> QED
      BY <2>1, <3>1, TopIs DEF StackInv
  <2>2. CASE i # Len(stack)
    BY <1>2, <2>2 DEF DisconnectWakesAll
  <2> QED
    BY <2>1, <2>2
<1> QED
  BY <1>5, <1>6, <1>7, <1>8

LEMMA LeaveKeeps ==
  ASSUME CoreInv, Running("waitForResponse"), LeaveCall(Top.call)
  PROVE  CoreInv'
<1> DEFINE c == Top.call
<1> USE CallsAssumption DEF CoreInv
<1>1. /\ Pop /\ openRequests' = openRequests \ {c} /\ finished' = finished \ {c}
      /\ waitingOnReturnUuid' = IF c \in MethodCall THEN NoCall ELSE waitingOnReturnUuid
      /\ functionReturned' = FALSE /\ UNCHANGED <<used, closed>>
  BY DEF LeaveCall, reader
<1>2. /\ stack # <<>> /\ Top = stack[Len(stack)] /\ Top.in = "waitForResponse" /\ Top \in Frame
      /\ Len(stack) \in DOMAIN stack
  BY TopIs DEF StackInv
<1>3. /\ stack' \in Seq(Frame) /\ Len(stack) \in Nat /\ Len(stack') = Len(stack) - 1
      /\ DOMAIN stack = 1 .. Len(stack) /\ DOMAIN stack' = 1 .. Len(stack) - 1
      /\ \A i \in DOMAIN stack' : stack'[i] = stack[i]
  BY <1>1, <1>2, Popped DEF StackInv
<1>4. c # NoCall /\ c = stack[Len(stack)].call /\ c \in Call
  BY <1>2 DEF StackInv, Frame
<1>5. \A i \in DOMAIN stack' : i \in DOMAIN stack /\ stack'[i].call # c
  BY <1>2, <1>3, <1>4 DEF StackInv
<1> HIDE DEF c
<1>6. StackInv'
  BY <1>1, <1>3, <1>5 DEF StackInv
<1>7. CallsInv'
  <2>1. openRequests' = {d \in Call : \E i \in DOMAIN stack' : stack'[i].call = d}
    <3>1. ASSUME NEW d \in Call, d # c
          PROVE  (\E i \in DOMAIN stack : stack[i].call = d)
                   <=> \E i \in DOMAIN stack' : stack'[i].call = d
      BY <1>3, <1>4, <3>1
    <3> QED
      BY <1>1, <1>5, <3>1 DEF CallsInv
  <2>2. waitingOnReturnUuid' \in (MethodCall \cap openRequests') \cup {NoCall}
    BY <1>1 DEF CallsInv
  <2> QED
    BY <1>1, <2>1, <2>2 DEF CallsInv
<1>8. ReturnFlagOwned'
  BY <1>1 DEF ReturnFlagOwned
<1>9. DisconnectWakesAll'
  <2> SUFFICES ASSUME closed, NEW i \in 1 .. Len(stack) - 2
               PROVE  stack'[i].call \in finished' \cup {NoCall}
    BY <1>1, <1>3 DEF DisconnectWakesAll
  <2>1. i \in DOMAIN stack' /\ i \in 1 .. Len(stack) - 1
    BY <1>3
  <2>2. stack[i].call \in finished \cup {NoCall}
    BY <2>1 DEF DisconnectWakesAll
  <2> QED
    BY <1>1, <1>3, <1>5, <2>1, <2>2
<1> QED
  BY <1>6, <1>7, <1>8, <1>9

LEMMA PushKeeps ==
  ASSUME CoreInv, NeutralPush
  PROVE  CoreInv'
<1> USE CallsAssumption DEF CoreInv
<1>1. PICK f \in Frame : /\ Push(f) /\ f.call = NoCall /\ f.in # "waitForResponse"
                         /\ f.raw # <<>> => f.in = "readIncoming"
  BY DEF NeutralPush
<1>2. /\ stack' \in Seq(Frame) /\ Len(stack) \in Nat /\ Len(stack') = Len(stack) + 1
      /\ DOMAIN stack = 1 .. Len(stack) /\ DOMAIN stack' = 1 .. Len(stack) + 1
      /\ \A i \in DOMAIN stack : stack'[i] = stack[i]
      /\ stack'[Len(stack) + 1] = f
  BY <1>1, Pushed DEF StackInv
<1>3. /\ UNCHANGED <<openRequests, waitingOnReturnUuid, used, closed, finished, functionReturned>>
      /\ closed => Idle \/ Top.call = NoCall
  BY DEF NeutralPush, Calm, Requests
<1>4. StackInv'
  <2>1. \A i \in DOMAIN stack' :
          /\ stack'[i].in = "waitForResponse" <=> stack'[i].call # NoCall
          /\ stack'[i].raw # <<>> => stack'[i].in = "readIncoming"
          /\ stack'[i].call \in used' \cup {NoCall}
    BY <1>1, <1>2, <1>3 DEF StackInv
  <2>2. \A i, j \in DOMAIN stack' :
          stack'[i].call = stack'[j].call /\ stack'[i].call # NoCall => i = j
    BY <1>1, <1>2 DEF StackInv
  <2> QED
    BY <1>2, <2>1, <2>2 DEF StackInv
<1>5. CallsInv'
  <2>1. NoCall \notin Call
    BY DEF Package
  <2>2. \A d \in Call : (\E i \in DOMAIN stack : stack[i].call = d)
                          <=> \E i \in DOMAIN stack' : stack'[i].call = d
    BY <1>1, <1>2, <2>1
  <2> QED
    BY <1>3, <2>2 DEF CallsInv
<1>6. ReturnFlagOwned'
  BY <1>2, <1>3 DEF ReturnFlagOwned
<1>7. DisconnectWakesAll'
  <2> SUFFICES ASSUME closed, NEW i \in 1 .. Len(stack)
               PROVE  stack[i].call \in finished \cup {NoCall}
    BY <1>2, <1>3 DEF DisconnectWakesAll
  <2>1. CASE i = Len(stack)
    <3>1. Top.call = NoCall
      BY <1>2, <1>3, <2>1 DEF Idle
    <3> QED
      BY <2>1, <3>1 DEF Top, Last
  <2>2. CASE i # Len(stack)
    <3>1. Len(stack) \in Nat
      BY <1>2
    <3>2. i \in 1 .. Len(stack) - 1
      BY <2>2, <3>1, Indices
    <3> QED
      BY <3>2 DEF DisconnectWakesAll
  <2> QED
    BY <2>1, <2>2
<1> QED
  BY <1>4, <1>5, <1>6, <1>7

LEMMA PopKeeps ==
  ASSUME CoreInv, NeutralPop
  PROVE  CoreInv'
<1> USE CallsAssumption DEF CoreInv
<1>1. /\ UNCHANGED <<openRequests, waitingOnReturnUuid, used, closed, finished, functionReturned>>
      /\ stack # <<>> /\ Top.call = NoCall /\ Pop
  BY DEF NeutralPop, Calm, Requests, Idle
<1>2. /\ stack' \in Seq(Frame) /\ Len(stack) \in Nat /\ Len(stack') = Len(stack) - 1
      /\ DOMAIN stack = 1 .. Len(stack) /\ DOMAIN stack' = 1 .. Len(stack) - 1
      /\ \A i \in DOMAIN stack' : stack'[i] = stack[i]
  BY <1>1, Popped DEF StackInv
<1>3. StackInv'
  BY <1>1, <1>2 DEF StackInv
<1>4. NoCall \notin Call /\ stack[Len(stack)].call = NoCall
  BY <1>1 DEF Package, Top, Last
<1>5. \A d \in Call : (\E i \in DOMAIN stack : stack[i].call = d)
                        <=> \E i \in DOMAIN stack' : stack'[i].call = d
  BY <1>2, <1>4
<1>6. CallsInv'
  BY <1>1, <1>5 DEF CallsInv
<1>7. ReturnFlagOwned'
  <2>1. \A d \in MethodCall \cap finished :
          (\E i \in DOMAIN stack : stack[i].call = d) => \E i \in DOMAIN stack' : stack'[i].call = d
    BY <1>5 DEF Call
  <2> QED
    BY <1>1, <2>1 DEF ReturnFlagOwned
<1>8. DisconnectWakesAll'
  BY <1>1, <1>2 DEF DisconnectWakesAll
<1> QED
  BY <1>3, <1>6, <1>7, <1>8

LEMMA ReadKeeps ==
  ASSUME CoreInv, ReadOn
  PROVE  CoreInv'
<1> USE CallsAssumption DEF CoreInv
<1>1. /\ UNCHANGED <<openRequests, waitingOnReturnUuid, used, closed, finished, functionReturned>>
      /\ Running("readIncoming")
  BY DEF ReadOn, Calm, Requests
<1>2. PICK r \in Seq(Piece) :
        \/ Become(Reading(r))
        \/ stack' = Append(Append(Front(stack), Reading(r)), Dispatching)
  BY DEF ReadOn
<1>3. /\ Len(stack) \in DOMAIN stack /\ DOMAIN stack = 1 .. Len(stack) /\ Len(stack) \in Nat
      /\ Len(stack) # 0 /\ stack # <<>> /\ stack[Len(stack)].call = NoCall
  BY <1>1, TopIs DEF StackInv
<1> DEFINE t == Append(Front(stack), Reading(r))
<1>4. /\ t \in Seq(Frame) /\ Len(t) = Len(stack) /\ DOMAIN t = 1 .. Len(stack)
      /\ \A i \in 1 .. Len(stack) - 1 : t[i] = stack[i]
      /\ t[Len(stack)] = Reading(r)
  <2>1. /\ Front(stack) \in Seq(Frame) /\ Len(Front(stack)) = Len(stack) - 1
        /\ \A i \in 1 .. Len(stack) - 1 : Front(stack)[i] = stack[i]
        /\ Reading(r) \in Frame
    BY <1>3, FrontIs, Frames DEF StackInv
  <2> DEFINE F == Front(stack)
             f == Reading(r)
  <2>2. F \in Seq(Frame) /\ f \in Frame /\ Len(F) + 1 = Len(stack)
    BY <1>3, <2>1
  <2>3. \A i \in 1 .. Len(stack) - 1 : F[i] = stack[i]
    BY <2>1
  <2> HIDE DEF F, f
  <2>4. /\ Append(F, f) \in Seq(Frame) /\ Len(Append(F, f)) = Len(stack)
        /\ DOMAIN Append(F, f) = 1 .. Len(stack)
        /\ \A i \in 1 .. Len(stack) - 1 : Append(F, f)[i] = F[i]
        /\ Append(F, f)[Len(stack)] = f
    <3>1. /\ Append(F, f) \in Seq(Frame) /\ Len(Append(F, f)) = Len(F) + 1
          /\ DOMAIN Append(F, f) = 1 .. Len(F) + 1
          /\ \A i \in 1 .. Len(F) : Append(F, f)[i] = F[i]
          /\ Append(F, f)[Len(F) + 1] = f
      BY <2>2
    <3>2. Len(F) = Len(stack) - 1
      BY <1>3, <2>1 DEF F
    <3> QED
      BY <2>2, <3>1, <3>2
  <2> QED
    BY <2>3, <2>4 DEF F, f
<1>5. \/ stack' = t
      \/ stack' = Append(t, Dispatching)
  BY <1>2 DEF Become
<1> HIDE DEF t
<1>6. /\ stack' \in Seq(Frame) /\ DOMAIN stack' = 1 .. Len(stack')
      /\ Len(stack') \in Nat
      /\ Len(stack') = Len(stack) \/ Len(stack') = Len(stack) + 1
      /\ \A i \in 1 .. Len(stack) - 1 : stack'[i] = stack[i]
      /\ stack'[Len(stack)] = Reading(r)
      /\ Len(stack') = Len(stack) + 1 => stack'[Len(stack) + 1] = Dispatching
  <2>1. CASE stack' = t
    <3>1. /\ Len(stack') = Len(stack) /\ Len(stack) \in Nat
          /\ stack' \in Seq(Frame) /\ DOMAIN stack' = 1 .. Len(stack)
          /\ stack'[Len(stack)] = Reading(r)
          /\ \A i \in 1 .. Len(stack) - 1 : stack'[i] = stack[i]
      BY <1>3, <1>4, <2>1
    <3>2. Len(stack') # Len(stack) + 1
      <4>1. \A n \in Nat : n # n + 1
        OBVIOUS
      <4> QED
        BY <3>1, <4>1
    <3> QED
      BY <3>1, <3>2
  <2>2. CASE stack' = Append(t, Dispatching)
    <3>1. Dispatching \in Frame
      BY Frames
    <3>2. /\ stack' \in Seq(Frame) /\ Len(stack') = Len(t) + 1 /\ DOMAIN stack' = 1 .. Len(t) + 1
          /\ \A i \in 1 .. Len(t) : stack'[i] = t[i]
          /\ stack'[Len(t) + 1] = Dispatching
      BY <1>4, <2>2, <3>1
    <3> QED
      BY <1>3, <1>4, <3>2
  <2> QED
    BY <1>5, <2>1, <2>2
<1>7. /\ Reading(r).call = NoCall /\ Reading(r).in = "readIncoming"
      /\ Dispatching.call = NoCall /\ Dispatching.in # "waitForResponse" /\ Dispatching.raw = <<>>
  BY DEF Reading, Dispatching
<1>8. \A i \in DOMAIN stack' :
        \/ i \in 1 .. Len(stack) - 1 /\ i \in DOMAIN stack /\ stack'[i] = stack[i]
        \/ stack'[i] = Reading(r) \/ stack'[i] = Dispatching
  <2> SUFFICES ASSUME NEW i \in DOMAIN stack'
               PROVE  \/ i \in 1 .. Len(stack) - 1 /\ i \in DOMAIN stack /\ stack'[i] = stack[i]
                      \/ stack'[i] = Reading(r) \/ stack'[i] = Dispatching
    OBVIOUS
  <2>1. i \in 1 .. Len(stack) - 1 \/ i = Len(stack) \/ (i = Len(stack) + 1 /\ Len(stack') = Len(stack) + 1)
    <3>1. i \in 1 .. Len(stack') /\ Len(stack) \in Nat /\ Len(stack') \in Nat
      BY <1>3, <1>6
    <3>2. Len(stack') = Len(stack) \/ Len(stack') = Len(stack) + 1
      BY <1>6
    <3> QED
      BY <3>1, <3>2, Indices
  <2>2. i \in 1 .. Len(stack) - 1 => i \in DOMAIN stack
    BY <1>3
  <2> QED
    BY <1>6, <2>1, <2>2
<1>9. StackInv'
  <2>1. \A i \in DOMAIN stack' :
          /\ stack'[i].in = "waitForResponse" <=> stack'[i].call # NoCall
          /\ stack'[i].raw # <<>> => stack'[i].in = "readIncoming"
          /\ stack'[i].call \in used' \cup {NoCall}
    BY <1>1, <1>7, <1>8 DEF StackInv
  <2>2. \A i, j \in DOMAIN stack' :
          stack'[i].call = stack'[j].call /\ stack'[i].call # NoCall => i = j
    BY <1>7, <1>8 DEF StackInv
  <2> QED
    BY <1>6, <2>1, <2>2 DEF StackInv
<1>10. ASSUME NEW d, d # NoCall
       PROVE  (\E i \in DOMAIN stack : stack[i].call = d)
                <=> \E i \in DOMAIN stack' : stack'[i].call = d
  <2>1. ASSUME NEW i \in DOMAIN stack, stack[i].call = d
        PROVE  i \in DOMAIN stack' /\ stack'[i].call = d
    <3>1. i # Len(stack)
      BY <1>3, <1>10, <2>1
    <3>2. i \in 1 .. Len(stack) - 1
      BY <1>3, <3>1
    <3>3. i \in DOMAIN stack'
      <4>1. /\ Len(stack) \in Nat /\ Len(stack') \in Nat
            /\ Len(stack') = Len(stack) \/ Len(stack') = Len(stack) + 1
        BY <1>3, <1>6
      <4>2. i \in 1 .. Len(stack')
        BY <3>2, <4>1, Indices
      <4> QED
        BY <1>6, <4>2
    <3> QED
      BY <1>6, <2>1, <3>2, <3>3
  <2> QED
    BY <1>7, <1>8, <1>10, <2>1
<1>11. NoCall \notin Call
  BY DEF Package
<1>12. CallsInv'
  BY <1>1, <1>10, <1>11 DEF CallsInv
<1>13. ReturnFlagOwned'
  BY <1>1, <1>10, <1>11 DEF ReturnFlagOwned, Call
<1>14. DisconnectWakesAll'
  <2>1. 1 .. Len(stack') - 1 \subseteq DOMAIN stack'
    <3>1. /\ Len(stack) \in Nat /\ Len(stack') \in Nat
          /\ Len(stack') = Len(stack) \/ Len(stack') = Len(stack) + 1
      BY <1>3, <1>6
    <3>2. 1 .. Len(stack') - 1 \subseteq 1 .. Len(stack')
      BY <3>1, Indices
    <3> QED
      BY <1>6, <3>2
  <2>2. ASSUME closed, NEW i \in DOMAIN stack'
        PROVE  stack'[i].call \in finished \cup {NoCall}
    BY <1>7, <1>8, <2>2 DEF DisconnectWakesAll
  <2> QED
    BY <1>1, <2>1, <2>2 DEF DisconnectWakesAll
<1> QED
  BY <1>9, <1>12, <1>13, <1>14

LEMMA CoreStep ==
  ASSUME CoreInv, WireInv, [Next]_vars
  PROVE  CoreInv'
<1> USE CallsAssumption DEF CoreInv
<1>1. CASE DispatchReply
  <2>1. PICK c \in Call :
          /\ functionReturned' = (c \in MethodCall /\ waitingOnReturnUuid = c)
          /\ finished' = finished \cup ({c} \cap openRequests)
    BY <1>1 DEF DispatchReply
  <2>2. UNCHANGED <<stack, waitingOnReturnUuid, openRequests, used, closed>>
    BY <1>1 DEF DispatchReply
  <2>3. c # NoCall
    BY DEF Package
  <2>4. functionReturned' => c \in MethodCall /\ c \in openRequests
    BY <2>1, <2>3 DEF CallsInv
  <2>5. ReturnFlagOwned'
    BY <2>1, <2>2, <2>4 DEF ReturnFlagOwned, CallsInv
  <2>6. finished \subseteq finished' /\ finished' \subseteq openRequests
    BY <2>1 DEF CallsInv
  <2> QED
    BY <2>2, <2>5, <2>6 DEF StackInv, CallsInv, DisconnectWakesAll
<1>2. CASE Disconnect
  <2>1. /\ finished' = openRequests
        /\ UNCHANGED <<stack, waitingOnReturnUuid, openRequests, functionReturned, used>>
    BY <1>2 DEF Disconnect
  <2>2. \A i \in DOMAIN stack : stack[i].call \in Call \cup {NoCall}
    <3>1. \A i \in DOMAIN stack : stack[i] \in Frame
      BY DEF StackInv
    <3> QED
      BY <3>1 DEF Frame
  <2>3. 1 .. Len(stack) - 1 \subseteq DOMAIN stack
    BY DEF StackInv
  <2>4. \A i \in DOMAIN stack : stack[i].call \in openRequests \cup {NoCall}
    BY <2>2 DEF CallsInv
  <2>5. DisconnectWakesAll'
    BY <2>1, <2>3, <2>4 DEF DisconnectWakesAll
  <2>6. ReturnFlagOwned'
    BY <2>1 DEF ReturnFlagOwned, CallsInv
  <2> QED
    BY <2>1, <2>5, <2>6 DEF StackInv, CallsInv
<1>3. CASE Calm /\ UNCHANGED stack
  BY <1>3 DEF Calm, Requests, StackInv, CallsInv, ReturnFlagOwned, DisconnectWakesAll
<1> QED
  BY <1>1, <1>2, <1>3, Kinds, StartKeeps, LeaveKeeps, PushKeeps, PopKeeps, ReadKeeps

LEMMA InitCore == Init => CoreInv /\ WireInv
<1> SUFFICES ASSUME Init PROVE CoreInv /\ WireInv
  OBVIOUS
<1>1. stack = <<>> /\ DOMAIN stack = {} /\ stack \in Seq(Frame)
  BY DEF Init
<1> QED
  BY <1>1 DEF Init, CoreInv, WireInv, StackInv, CallsInv, ReturnFlagOwned, DisconnectWakesAll

LEMMA Core == Spec => [](CoreInv /\ WireInv)
<1>1. CoreInv /\ WireInv /\ [Next]_vars => (CoreInv /\ WireInv)'
  BY CoreStep, WireStep
<1> QED
  BY <1>1, InitCore, PTL DEF Spec

\* The flag that stops all dispatching is set only while an answered method call is
\* on the stack to reset it, however deep calls nest, time out or lose the service.
THEOREM FlagOwned == Spec => []ReturnFlagOwned
<1>1. CoreInv => ReturnFlagOwned
  BY DEF CoreInv
<1> QED
  BY <1>1, Core, PTL

\* Losing the service has answered every caller on the stack but the innermost, who
\* sees it for himself.
THEOREM CallersWoken == Spec => []DisconnectWakesAll
<1>1. CoreInv => DisconnectWakesAll
  BY DEF CoreInv
<1> QED
  BY <1>1, Core, PTL

-----------------------------------------------------------------------------
(***************************************************************************)
(* Package boundaries.                                                     *)
(***************************************************************************)
\* With the package p half read (none: NoCall), the pieces s go on with it and
\* are whole packages from there on.
Framed(p, s) ==
  /\ s = <<>> => p = NoCall
  /\ s # <<>> => /\ IF p = NoCall THEN s[1][2] = 1 ELSE s[1] = <<p, 2>>
                 /\ s[Len(s)][2] = 2
  /\ \A i \in 1 .. Len(s) - 1 :
       IF s[i][2] = 1 THEN s[i + 1] = <<s[i][1], 2>> ELSE s[i + 1][2] = 1

LEMMA PieceIs ==
  ASSUME NEW x \in Piece
  PROVE  /\ x = <<x[1], x[2]>> /\ x[1] \in Package /\ x[2] \in {1, 2}
  BY DEF Piece

\* Taking the first piece off.
LEMMA FramedTail ==
  ASSUME NEW p \in Package \cup {NoCall}, NEW s \in Seq(Piece), s # <<>>, Framed(p, s)
  PROVE  /\ s[1] \in Piece
         /\ s[1][2] = 1 => p = NoCall /\ Framed(s[1][1], Tail(s))
         /\ s[1][2] = 2 => p = s[1][1] /\ Framed(NoCall, Tail(s))
<1> USE CallsAssumption
<1> DEFINE t == Tail(s)
<1>1. /\ Len(s) \in Nat /\ Len(s) # 0 /\ t \in Seq(Piece) /\ Len(t) = Len(s) - 1 /\ Len(t) \in Nat
      /\ \A i \in 1 .. Len(t) : t[i] = s[i + 1]
      /\ \A i \in 1 .. Len(s) : s[i] \in Piece
  BY HeadTailProperties
<1>2. s[1] \in Piece /\ s[1][1] \in Package /\ s[1][2] \in {1, 2}
  BY <1>1, PieceIs
<1>3. /\ IF p = NoCall THEN s[1][2] = 1 ELSE s[1] = <<p, 2>>
      /\ s[Len(s)][2] = 2
      /\ \A i \in 1 .. Len(s) - 1 :
           IF s[i][2] = 1 THEN s[i + 1] = <<s[i][1], 2>> ELSE s[i + 1][2] = 1
  BY DEF Framed
<1>4. t = <<>> <=> Len(s) = 1
  BY <1>1
<1>5. t # <<>> => 1 \in 1 .. Len(s) - 1 /\ t[1] = s[2] /\ t[Len(t)] = s[Len(s)] /\ 1 + 1 = 2
  BY <1>1, <1>4
<1>6. \A i \in 1 .. Len(t) - 1 :
        IF t[i][2] = 1 THEN t[i + 1] = <<t[i][1], 2>> ELSE t[i + 1][2] = 1
  <2> SUFFICES ASSUME NEW i \in 1 .. Len(t) - 1
               PROVE  IF t[i][2] = 1 THEN t[i + 1] = <<t[i][1], 2>> ELSE t[i + 1][2] = 1
    OBVIOUS
  <2>1. i \in 1 .. Len(t) /\ i + 1 \in 1 .. Len(t) /\ i + 1 \in 1 .. Len(s) - 1
    BY <1>1
  <2> QED
    BY <1>1, <1>3, <2>1
<1> HIDE DEF t
<1>7. ASSUME s[1][2] = 1
      PROVE  p = NoCall /\ Framed(s[1][1], t)
  <2>1. p = NoCall
    BY <1>3, <1>7
  <2>2. Len(s) # 1
    BY <1>3, <1>7
  <2>3. t # <<>>
    BY <1>4, <2>2
  <2>4. t[1] = <<s[1][1], 2>>
    BY <1>3, <1>5, <1>7, <2>3
  <2>5. t[Len(t)][2] = 2
    BY <1>3, <1>5, <2>3
  <2>6. s[1][1] # NoCall
    BY <1>2
  <2> QED
    BY <1>6, <2>1, <2>3, <2>4, <2>5, <2>6 DEF Framed
<1>8. ASSUME s[1][2] = 2
      PROVE  p = s[1][1] /\ Framed(NoCall, t)
  <2>1. p = s[1][1]
    BY <1>3, <1>8
  <2>2. t # <<>> => t[1][2] = 1 /\ t[Len(t)][2] = 2
    BY <1>3, <1>5, <1>8
  <2> QED
    BY <1>6, <2>1, <2>2 DEF Framed
<1> QED
  BY <1>2, <1>7, <1>8 DEF t

\* A whole package sent keeps what is underway whole.
LEMMA FramedSend ==
  ASSUME NEW p \in Package \cup {NoCall}, NEW s \in Seq(Piece), Framed(p, s), NEW q \in Package
  PROVE  Framed(p, s \o <<<<q, 1>>, <<q, 2>>>>)
<1> DEFINE x == <<<<q, 1>>, <<q, 2>>>>
           t == s \o x
           n == Len(s)
<1>1. /\ x \in Seq(Piece) /\ Len(x) = 2 /\ x[1] = <<q, 1>> /\ x[2] = <<q, 2>>
  BY DEF Piece
<1> HIDE DEF x
<1>2. /\ t \in Seq(Piece) /\ Len(t) = n + 2 /\ n \in Nat
      /\ \A i \in 1 .. n : t[i] = s[i]
      /\ t[n + 1] = <<q, 1>> /\ t[n + 2] = <<q, 2>>
  <2>1. /\ t \in Seq(Piece) /\ Len(t) = n + Len(x) /\ n \in Nat
        /\ \A i \in 1 .. n + Len(x) : t[i] = IF i <= n THEN s[i] ELSE x[i - n]
    <3>1. x \in Seq(Piece) /\ s \in Seq(Piece)
      BY <1>1
    <3>2. /\ s \o x \in Seq(Piece) /\ Len(s \o x) = Len(s) + Len(x)
          /\ \A i \in 1 .. Len(s) + Len(x) :
               (s \o x)[i] = IF i <= Len(s) THEN s[i] ELSE x[i - Len(s)]
      BY <3>1, ConcatProperties
    <3>3. Len(s) \in Nat
      OBVIOUS
    <3> QED
      BY <3>2, <3>3, Zenon
  <2> HIDE DEF t, n
  <2>2. \A i \in 1 .. n + 2 : t[i] = IF i <= n THEN s[i] ELSE x[i - n]
    BY <1>1, <2>1
  <2>3. \A i \in 1 .. n : i \in 1 .. n + 2 /\ i <= n
    BY <2>1
  <2>4. /\ n + 1 \in 1 .. n + 2 /\ ~(n + 1 <= n) /\ (n + 1) - n = 1
        /\ n + 2 \in 1 .. n + 2 /\ ~(n + 2 <= n) /\ (n + 2) - n = 2
    BY <2>1
  <2>5. t[n + 1] = x[1] /\ t[n + 2] = x[2]
    BY <2>2, <2>4
  <2> QED
    BY <1>1, <2>1, <2>2, <2>3, <2>5
<1>3. /\ s = <<>> => p = NoCall
      /\ s # <<>> => /\ IF p = NoCall THEN s[1][2] = 1 ELSE s[1] = <<p, 2>>
                     /\ s[n][2] = 2
      /\ \A i \in 1 .. n - 1 :
           IF s[i][2] = 1 THEN s[i + 1] = <<s[i][1], 2>> ELSE s[i + 1][2] = 1
      /\ s = <<>> <=> n = 0
  <2>1. s = <<>> <=> n = 0
    OBVIOUS
  <2> QED
    BY <2>1, Zenon DEF Framed
<1> HIDE DEF t, n
<1>4. t # <<>> /\ t[Len(t)][2] = 2
  BY <1>2
<1>5. IF p = NoCall THEN t[1][2] = 1 ELSE t[1] = <<p, 2>>
  <2>1. CASE n = 0
    BY <1>2, <1>3, <2>1
  <2>2. CASE n # 0
    <3>1. 1 \in 1 .. n
      BY <1>2, <2>2
    <3> QED
      BY <1>2, <1>3, <2>2, <3>1
  <2> QED
    BY <2>1, <2>2
<1>6. \A i \in 1 .. Len(t) - 1 :
        IF t[i][2] = 1 THEN t[i + 1] = <<t[i][1], 2>> ELSE t[i + 1][2] = 1
  <2> SUFFICES ASSUME NEW i \in 1 .. Len(t) - 1
               PROVE  IF t[i][2] = 1 THEN t[i + 1] = <<t[i][1], 2>> ELSE t[i + 1][2] = 1
    OBVIOUS
  <2>1. i \in 1 .. n + 1
    BY <1>2
  <2>2. CASE i = n + 1
    <3>1. i + 1 = n + 2
      BY <1>2, <2>2
    <3> QED
      BY <1>2, <2>2, <3>1
  <2>3. CASE i = n
    <3>1. i \in 1 .. n /\ n # 0
      BY <1>2, <2>1, <2>3
    <3>2. t[i][2] = 2 /\ t[i + 1][2] = 1
      BY <1>2, <1>3, <2>3, <3>1
    <3> QED
      BY <3>2
  <2>4. CASE i # n + 1 /\ i # n
    <3>1. i \in 1 .. n - 1 /\ i \in 1 .. n /\ i + 1 \in 1 .. n
      BY <1>2, <2>1, <2>4
    <3> QED
      BY <1>2, <1>3, <3>1
  <2> QED
    BY <2>2, <2>3, <2>4
<1> QED
  BY <1>4, <1>5, <1>6 DEF t, x, Framed

\* The unread bytes of a function and the stream behind them.
LEMMA TakeFirst ==
  ASSUME NEW u \in Seq(Piece), NEW w \in Seq(Piece), u # <<>>
  PROVE  /\ u \o w \in Seq(Piece) /\ u \o w # <<>>
         /\ (u \o w)[1] = Head(u)
         /\ Tail(u \o w) = Tail(u) \o w /\ Tail(u) \in Seq(Piece)
<1>1. /\ u \o w \in Seq(Piece) /\ Len(u \o w) = Len(u) + Len(w)
      /\ \A i \in 1 .. Len(u) + Len(w) : (u \o w)[i] = IF i <= Len(u) THEN u[i] ELSE w[i - Len(u)]
  BY ConcatProperties
<1>2. Len(u) \in Nat /\ Len(w) \in Nat /\ Len(u) # 0
  OBVIOUS
<1>3. Head(u) = u[1]
  OBVIOUS
<1>4. 1 \in 1 .. Len(u) + Len(w) /\ 1 <= Len(u) /\ Len(u) + Len(w) # 0
  BY <1>2
<1>5. u \o w # <<>> /\ (u \o w)[1] = Head(u)
  BY <1>1, <1>3, <1>4
<1>6. /\ Tail(u) \in Seq(Piece) /\ Len(Tail(u)) = Len(u) - 1
      /\ \A i \in 1 .. Len(u) - 1 : Tail(u)[i] = u[i + 1]
  BY HeadTailProperties
<1> DEFINE s == u \o w
           a == Tail(s)
           b == Tail(u) \o w
<1>7. /\ a \in Seq(Piece) /\ Len(a) = Len(s) - 1
      /\ \A i \in 1 .. Len(a) : a[i] = s[i + 1]
  BY <1>1, <1>5, HeadTailProperties
<1>8. /\ b \in Seq(Piece) /\ Len(b) = Len(Tail(u)) + Len(w)
      /\ \A i \in 1 .. Len(Tail(u)) + Len(w) :
           b[i] = IF i <= Len(Tail(u)) THEN Tail(u)[i] ELSE w[i - Len(Tail(u))]
  BY <1>6, ConcatProperties
<1> DEFINE m == Len(u)
           k == Len(w)
<1>9. /\ Len(a) = m + k - 1 /\ Len(b) = m - 1 + k
      /\ \A i \in 1 .. m + k : s[i] = IF i <= m THEN u[i] ELSE w[i - m]
      /\ \A i \in 1 .. m - 1 + k : b[i] = IF i <= m - 1 THEN Tail(u)[i] ELSE w[i - (m - 1)]
      /\ m \in Nat /\ k \in Nat /\ m # 0
  BY <1>1, <1>2, <1>6, <1>7, <1>8
<1> HIDE DEF a, b, s, m, k
<1>10. ASSUME NEW i \in 1 .. m + k - 1
       PROVE  a[i] = b[i]
  <2>1. i \in 1 .. Len(a) /\ i + 1 \in 1 .. m + k /\ i \in 1 .. m - 1 + k
    BY <1>9
  <2>2. a[i] = IF i + 1 <= m THEN u[i + 1] ELSE w[(i + 1) - m]
    BY <1>7, <1>9, <2>1
  <2>3. CASE i <= m - 1
    <3>1. i + 1 <= m /\ i \in 1 .. m - 1
      BY <1>9, <2>3
    <3>2. b[i] = Tail(u)[i] /\ Tail(u)[i] = u[i + 1]
      BY <1>6, <1>9, <2>1, <2>3, <3>1 DEF m
    <3> QED
      BY <2>2, <3>1, <3>2
  <2>4. CASE ~(i <= m - 1)
    <3>1. ~(i + 1 <= m) /\ (i + 1) - m = i - (m - 1)
      BY <1>9, <2>4
    <3> QED
      BY <1>9, <2>1, <2>2, <2>4, <3>1
  <2> QED
    BY <2>3, <2>4
<1>11. Len(a) = Len(b) /\ Len(a) = m + k - 1
  BY <1>9
<1>12. a = b
  BY <1>7, <1>8, <1>10, <1>11, SeqEqual
<1> QED
  BY <1>1, <1>5, <1>6, <1>12 DEF a, b, s

\* The bytes read and not taken yet: one function's, until a read overtakes another.
Unread(u) ==
  /\ \A i \in DOMAIN stack : stack[i].raw \in {<<>>, u}
  /\ u # <<>> => \E i \in DOMAIN stack : stack[i].raw = u

FramingInv ==
  /\ pending \in Package \cup {NoCall}
  /\ ~overtaken =>
       /\ ~misframed
       /\ \A i, j \in DOMAIN stack : stack[i].raw # <<>> /\ stack[j].raw # <<>> => i = j
       /\ \E u \in Seq(Piece) : Unread(u) /\ Framed(pending, u \o wire)

Framing == <<pending, misframed, overtaken>>

\* A function without unread bytes comes or goes.
SameUnread ==
  /\ UNCHANGED <<Framing, wire>>
  /\ \/ \E f \in Frame : Push(f) /\ f.raw = <<>>
     \/ ~Idle /\ Top.raw = <<>> /\ Pop
     \/ UNCHANGED stack

Sends == UNCHANGED <<Framing, stack>> /\ \E q \in Package : Send(q)

LEMMA FramingKinds ==
  ASSUME StackInv, WireInv, [Next]_vars
  PROVE  SameUnread \/ Sends \/ TakePiece \/ \E n \in 1 .. Len(wire) : Read(n)
<1> USE CallsAssumption
<1>1. ASSUME NEW c \in Call, StartCall(c) PROVE SameUnread
  <2>1. Push(Waiting(c)) /\ Waiting(c) \in Frame /\ Waiting(c).raw = <<>>
    BY <1>1, Frames DEF StartCall, Waiting
  <2> QED
    BY <1>1, <2>1 DEF SameUnread, Framing, StartCall, reader
<1>2. CASE TimeOutCall \/ ReturnCall
  <2>1. Running("waitForResponse") /\ LeaveCall(Top.call)
    BY <1>2 DEF TimeOutCall, ReturnCall
  <2>2. ~Idle /\ Top.raw = <<>>
    BY <2>1, TopIs DEF StackInv, Running
  <2> QED
    BY <2>1, <2>2 DEF SameUnread, Framing, LeaveCall, reader
<1>3. CASE EndRead \/ EndDispatch \/ EndSlot
  <2>1. ~Idle /\ Top.raw = <<>>
    <3>1. CASE EndRead
      BY <3>1 DEF EndRead, Running
    <3>2. CASE EndDispatch \/ EndSlot
      <4>1. Running("newPackageReady") \/ Running("slot")
        BY <3>2 DEF EndDispatch, EndSlot
      <4>2. ~Idle /\ Top.in # "readIncoming"
        BY <4>1 DEF Running
      <4>3. Top = stack[Len(stack)] /\ Len(stack) \in DOMAIN stack
        BY <4>1, TopIs DEF StackInv
      <4> QED
        BY <4>2, <4>3 DEF StackInv
    <3> QED
      BY <1>3, <3>1, <3>2
  <2> QED
    BY <1>3, <2>1 DEF SameUnread, Framing, EndRead, EndDispatch, EndSlot, reader
<1>4. CASE DispatchSignal
  <2>1. Push(InSlot) /\ InSlot \in Frame /\ InSlot.raw = <<>>
    BY <1>4, Frames DEF DispatchSignal, InSlot
  <2> QED
    BY <1>4, <2>1 DEF SameUnread, Framing, DispatchSignal
<1>5. CASE RunPosted
  <2>1. Push(Dispatching) /\ Dispatching \in Frame /\ Dispatching.raw = <<>>
    BY <1>5, Frames DEF RunPosted, Dispatching
  <2> QED
    BY <1>5, <2>1 DEF SameUnread, Framing, RunPosted, reader
<1>6. CASE DispatchReply \/ Disconnect \/ Die \/ UNCHANGED vars
  BY <1>6 DEF SameUnread, Framing, DispatchReply, Disconnect, Die, vars, reader
<1>7. CASE Answer
  <2>1. Head(asked) \in Package
    BY <1>7 DEF Answer, WireInv, Package
  <2> QED
    BY <1>7, <2>1 DEF Sends, Framing, Answer, reader
<1>8. ASSUME NEW x \in Signal, Emit(x) PROVE Sends
  BY <1>8 DEF Sends, Framing, Emit, reader, Package
<1> QED
  BY <1>1, <1>2, <1>3, <1>4, <1>5, <1>6, <1>7, <1>8 DEF Next, ClientStep, ReadSome

LEMMA SameKeeps ==
  ASSUME StackInv, FramingInv, SameUnread
  PROVE  FramingInv'
<1>1. UNCHANGED <<pending, misframed, overtaken, wire>>
  BY DEF SameUnread, Framing
<1>2. \/ /\ DOMAIN stack \subseteq DOMAIN stack'
         /\ \A i \in DOMAIN stack : stack'[i] = stack[i]
         /\ \A i \in DOMAIN stack' : stack'[i].raw = <<>> \/ i \in DOMAIN stack
      \/ /\ DOMAIN stack' \subseteq DOMAIN stack
         /\ \A i \in DOMAIN stack' : stack'[i] = stack[i]
         /\ \A i \in DOMAIN stack : stack[i].raw = <<>> \/ i \in DOMAIN stack'
  <2>1. CASE \E f \in Frame : Push(f) /\ f.raw = <<>>
    <3>1. PICK f \in Frame : Push(f) /\ f.raw = <<>>
      BY <2>1
    <3>2. /\ Len(stack) \in Nat /\ DOMAIN stack = 1 .. Len(stack) /\ DOMAIN stack' = 1 .. Len(stack) + 1
          /\ \A i \in DOMAIN stack : stack'[i] = stack[i]
          /\ stack'[Len(stack) + 1] = f
      BY <3>1, Pushed DEF StackInv
    <3>3. \A n \in Nat : 1 .. n \subseteq 1 .. n + 1 /\ \A i \in 1 .. n + 1 : i = n + 1 \/ i \in 1 .. n
      OBVIOUS
    <3> QED
      BY <3>1, <3>2, <3>3
  <2>2. CASE ~Idle /\ Top.raw = <<>> /\ Pop
    <3>1. /\ Len(stack) \in Nat /\ DOMAIN stack = 1 .. Len(stack) /\ DOMAIN stack' = 1 .. Len(stack) - 1
          /\ \A i \in DOMAIN stack' : stack'[i] = stack[i]
      BY <2>2, Popped DEF StackInv, Idle
    <3>2. stack[Len(stack)].raw = <<>>
      BY <2>2 DEF Top, Last
    <3>3. \A n \in Nat : 1 .. n - 1 \subseteq 1 .. n /\ \A i \in 1 .. n : i = n \/ i \in 1 .. n - 1
      OBVIOUS
    <3> QED
      BY <3>1, <3>2, <3>3
  <2>3. CASE UNCHANGED stack
    BY <2>3
  <2> QED
    BY <2>1, <2>2, <2>3 DEF SameUnread
<1>3. ASSUME ~overtaken
      PROVE  \A i, j \in DOMAIN stack' : stack'[i].raw # <<>> /\ stack'[j].raw # <<>> => i = j
  BY <1>2, <1>3 DEF FramingInv
<1>4. ASSUME NEW u \in Seq(Piece), Unread(u) PROVE Unread(u)'
  BY <1>2, <1>4 DEF Unread
<1> QED
  BY <1>1, <1>3, <1>4 DEF FramingInv

LEMMA SendKeeps ==
  ASSUME WireInv, FramingInv, Sends
  PROVE  FramingInv'
<1>1. UNCHANGED <<pending, misframed, overtaken, stack>>
  BY DEF Sends, Framing
<1>2. PICK q \in Package : wire' = wire \o <<<<q, 1>>, <<q, 2>>>>
  BY DEF Sends, Send
<1>3. <<<<q, 1>>, <<q, 2>>>> \in Seq(Piece) /\ wire \in Seq(Piece)
  BY DEF Piece, WireInv
<1>4. ASSUME NEW u \in Seq(Piece), Framed(pending, u \o wire), pending \in Package \cup {NoCall}
      PROVE  Framed(pending', u \o wire')
  <2>1. u \o wire \in Seq(Piece)
    BY <1>3, ConcatProperties
  <2>2. Framed(pending, (u \o wire) \o <<<<q, 1>>, <<q, 2>>>>)
    BY <1>4, <2>1, FramedSend
  <2>3. (u \o wire) \o <<<<q, 1>>, <<q, 2>>>> = u \o wire'
    BY <1>2, <1>3, ConcatAssociative
  <2> QED
    BY <1>1, <2>2, <2>3
<1> QED
  BY <1>1, <1>4 DEF FramingInv, Unread

LEMMA ReadFramed ==
  ASSUME StackInv, WireInv, FramingInv, NEW n \in 1 .. Len(wire), Read(n)
  PROVE  FramingInv'
<1>0. PICK r : r = SubSeq(wire, 1, n)
  OBVIOUS
<1>1. /\ Push(Reading(r)) /\ wire' = SubSeq(wire, n + 1, Len(wire))
      /\ overtaken' = (overtaken \/ \E i \in DOMAIN stack : stack[i].raw # <<>>)
      /\ UNCHANGED <<pending, misframed>>
  BY <1>0 DEF Read
<1>2. r \in Seq(Piece)
  <2>1. \A i \in 1 .. n : wire[i] \in Piece
    BY DEF WireInv
  <2>2. 1 \in Int /\ n \in Int
    OBVIOUS
  <2> QED
    BY <1>0, <2>1, <2>2, SubSeqProperties
<1>3. r \o wire' = wire
  <2>1. /\ wire \in Seq(Piece) /\ Len(wire) \in Nat
        /\ 1 \in 1 .. Len(wire) + 1 /\ n \in 1 - 1 .. Len(wire) /\ Len(wire) \in n .. Len(wire)
    BY DEF WireInv
  <2>2. SubSeq(wire, 1, n) \o SubSeq(wire, n + 1, Len(wire)) = SubSeq(wire, 1, Len(wire))
    BY <2>1, ConcatAdjacentSubSeq
  <2>3. SubSeq(wire, 1, Len(wire)) = wire
    BY <2>1, SubSeqFull
  <2> QED
    BY <1>0, <1>1, <2>2, <2>3
<1>4. /\ Len(stack) \in Nat /\ DOMAIN stack = 1 .. Len(stack) /\ DOMAIN stack' = 1 .. Len(stack) + 1
      /\ \A i \in DOMAIN stack : stack'[i] = stack[i]
      /\ stack'[Len(stack) + 1] = Reading(r)
  BY <1>1, <1>2, Pushed, Frames DEF StackInv
<1>5. \A m \in Nat : m + 1 \in 1 .. m + 1 /\ \A i \in 1 .. m + 1 : i = m + 1 \/ i \in 1 .. m
  OBVIOUS
<1>6. Reading(r).raw = r
  BY DEF Reading
<1>7. ASSUME ~overtaken'
      PROVE  /\ ~misframed'
             /\ \A i, j \in DOMAIN stack' : stack'[i].raw # <<>> /\ stack'[j].raw # <<>> => i = j
             /\ Unread(r)' /\ Framed(pending', r \o wire')
  <2>1. ~overtaken /\ \A i \in DOMAIN stack : stack[i].raw = <<>>
    BY <1>1, <1>7
  <2>2. \A i \in DOMAIN stack' : i = Len(stack) + 1 \/ stack'[i].raw = <<>>
    BY <1>4, <1>5, <2>1
  <2>3. Len(stack) + 1 \in DOMAIN stack' /\ stack'[Len(stack) + 1].raw = r
    BY <1>4, <1>5, <1>6
  <2>4. PICK u \in Seq(Piece) : Unread(u) /\ Framed(pending, u \o wire)
    BY <2>1 DEF FramingInv
  <2>5. u \o wire = wire
    <3>1. u = <<>>
      BY <2>1, <2>4 DEF Unread
    <3> QED
      BY <3>1, ConcatEmptySeq DEF WireInv
  <2>6. ~misframed'
    BY <1>1, <2>1 DEF FramingInv
  <2>7. Unread(r)'
    BY <2>2, <2>3 DEF Unread
  <2> QED
    BY <1>1, <1>3, <2>2, <2>4, <2>5, <2>6, <2>7
<1> QED
  BY <1>1, <1>2, <1>7 DEF FramingInv

LEMMA TakeFramed ==
  ASSUME StackInv, WireInv, FramingInv, TakePiece
  PROVE  FramingInv'
<1> USE CallsAssumption
<1> DEFINE k == Len(stack)
           x == Head(Top.raw)
<1>0. PICK r : r = Tail(Top.raw)
  OBVIOUS
<1>1. /\ UNCHANGED <<overtaken, wire>> /\ Running("readIncoming") /\ Top.raw # <<>>
  BY DEF TakePiece
<1>2. /\ k \in Nat /\ k # 0 /\ stack # <<>> /\ k \in DOMAIN stack /\ DOMAIN stack = 1 .. k
      /\ Top = stack[k] /\ Top.raw \in Seq(Piece)
  BY <1>1, TopIs DEF StackInv, Frame
<1>3. x \in Piece /\ x[1] \in Package /\ r \in Seq(Piece)
  BY <1>0, <1>1, <1>2, HeadTailProperties, PieceIs
<1>4. Reading(r) \in Frame /\ Reading(r).raw = r /\ Dispatching \in Frame /\ Dispatching.raw = <<>>
  BY <1>3, Frames DEF Reading, Dispatching
<1>5. pending' \in Package \cup {NoCall}
  BY <1>3 DEF TakePiece, FramingInv
<1>6. /\ \A i \in 1 .. k - 1 : i \in DOMAIN stack' /\ stack'[i] = stack[i]
      /\ k \in DOMAIN stack' /\ stack'[k].raw = r
      /\ \A i \in DOMAIN stack' : i \in 1 .. k - 1 \/ i = k \/ stack'[i].raw = <<>>
  <2>1. Become(Reading(r)) \/ stack' = Append(Append(Front(stack), Reading(r)), Dispatching)
    BY <1>0 DEF TakePiece
  <2> DEFINE F == Front(stack)
             f == Reading(r)
             d == Dispatching
  <2>2. /\ F \in Seq(Frame) /\ Len(F) + 1 = k
        /\ \A i \in 1 .. k - 1 : F[i] = stack[i]
    <3>1. /\ F \in Seq(Frame) /\ Len(F) = Len(stack) - 1
          /\ \A i \in 1 .. Len(stack) - 1 : F[i] = stack[i]
      BY <1>2, FrontIs DEF StackInv
    <3> QED
      BY <1>2, <3>1
  <2>3. f \in Frame /\ f.raw = r /\ d \in Frame /\ d.raw = <<>>
    BY <1>4
  <2>4. stack' = Append(F, f) \/ stack' = Append(Append(F, f), d)
    BY <2>1 DEF Become
  <2> HIDE DEF F, f, d, k
  <2>5. Len(F) = k - 1 /\ k \in Nat
    BY <1>2, <2>2
  <2>6. /\ Append(F, f) \in Seq(Frame) /\ Len(Append(F, f)) = k
        /\ DOMAIN Append(F, f) = 1 .. k
        /\ \A i \in 1 .. k - 1 : Append(F, f)[i] = stack[i]
        /\ Append(F, f)[k] = f
    <3>1. /\ Append(F, f) \in Seq(Frame) /\ Len(Append(F, f)) = Len(F) + 1
          /\ \A i \in 1 .. Len(F) : Append(F, f)[i] = F[i]
          /\ Append(F, f)[Len(F) + 1] = f
      BY <2>2, <2>3, AppendProperties
    <3>2. DOMAIN Append(F, f) = 1 .. Len(Append(F, f))
      BY <3>1
    <3> QED
      BY <2>2, <2>5, <3>1, <3>2
  <2> DEFINE G == Append(F, f)
  <2>7. /\ Len(Append(G, d)) = k + 1 /\ DOMAIN Append(G, d) = 1 .. k + 1
        /\ \A i \in 1 .. k : Append(G, d)[i] = G[i]
        /\ Append(G, d)[k + 1] = d
    <3>1. /\ Append(G, d) \in Seq(Frame) /\ Len(Append(G, d)) = Len(G) + 1
          /\ \A i \in 1 .. Len(G) : Append(G, d)[i] = G[i]
          /\ Append(G, d)[Len(G) + 1] = d
      BY <2>3, <2>6, AppendProperties
    <3>2. DOMAIN Append(G, d) = 1 .. Len(Append(G, d))
      BY <3>1
    <3> QED
      BY <2>6, <3>1, <3>2
  <2>8. /\ \A i \in 1 .. k - 1 : i \in 1 .. k /\ i \in 1 .. k + 1
        /\ k \in 1 .. k /\ k \in 1 .. k + 1
        /\ \A i \in 1 .. k : i \in 1 .. k - 1 \/ i = k
        /\ \A i \in 1 .. k + 1 : i \in 1 .. k - 1 \/ i = k \/ i = k + 1
    BY <1>2, <2>5
  <2> HIDE DEF G
  <2>9. CASE stack' = G
    BY <2>3, <2>6, <2>8, <2>9 DEF G
  <2>10. CASE stack' = Append(G, d)
    <3>1. /\ DOMAIN stack' = 1 .. k + 1
          /\ \A i \in 1 .. k - 1 : stack'[i] = stack[i]
          /\ stack'[k] = f /\ stack'[k + 1] = d
      BY <2>6, <2>7, <2>8, <2>10 DEF G
    <3> QED
      BY <2>3, <2>8, <3>1
  <2> QED
    BY <2>4, <2>9, <2>10 DEF G
<1> HIDE DEF x, k
<1>7. ASSUME ~overtaken
      PROVE  /\ ~misframed'
             /\ \A i, j \in DOMAIN stack' : stack'[i].raw # <<>> /\ stack'[j].raw # <<>> => i = j
             /\ Unread(r)' /\ Framed(pending', r \o wire')
  <2>1. PICK u \in Seq(Piece) : Unread(u) /\ Framed(pending, u \o wire)
    BY <1>7 DEF FramingInv
  <2>2. u = Top.raw /\ u # <<>>
    BY <1>1, <1>2, <2>1 DEF Unread
  <2>3. \A i \in 1 .. k - 1 : stack[i].raw = <<>>
    <3>1. \A i \in 1 .. k - 1 : i \in 1 .. k /\ i # k
      BY <1>2
    <3> QED
      BY <1>1, <1>2, <1>7, <3>1 DEF FramingInv
  <2>4. \A i \in DOMAIN stack' : i = k \/ stack'[i].raw = <<>>
    BY <1>6, <2>3
  <2>5. Unread(r)'
    BY <1>6, <2>4 DEF Unread
  <2>6. /\ u \o wire \in Seq(Piece) /\ u \o wire # <<>> /\ (u \o wire)[1] = x
        /\ Tail(u \o wire) = r \o wire
    BY <1>0, <2>2, TakeFirst DEF x, WireInv
  <2>7. /\ x[2] = 1 => pending = NoCall /\ Framed(x[1], r \o wire)
        /\ x[2] = 2 => pending = x[1] /\ Framed(NoCall, r \o wire)
        /\ x[2] \in {1, 2}
    <3>1. pending \in Package \cup {NoCall}
      BY DEF FramingInv
    <3>2. /\ x[2] = 1 => pending = NoCall /\ Framed(x[1], Tail(u \o wire))
          /\ x[2] = 2 => pending = x[1] /\ Framed(NoCall, Tail(u \o wire))
      BY <2>1, <2>6, <3>1, FramedTail
    <3>3. x[2] \in {1, 2}
      BY <1>3, PieceIs
    <3> QED
      BY <2>6, <3>2, <3>3
  <2>8. ~(misframed \/ (x[2] = 1 /\ pending # NoCall) \/ (x[2] = 2 /\ pending # x[1]))
    BY <1>7, <2>7 DEF FramingInv
  <2>9. /\ x[2] = 1 => pending' = x[1] /\ misframed' = misframed
        /\ x[2] # 1 => pending' = NoCall /\ misframed' = misframed
    BY <2>8 DEF TakePiece, x
  <2>10. ~misframed' /\ Framed(pending', r \o wire')
    BY <1>1, <2>7, <2>8, <2>9
  <2> QED
    BY <2>4, <2>5, <2>10
<1> QED
  BY <1>1, <1>3, <1>5, <1>7 DEF FramingInv

LEMMA FramingStep ==
  ASSUME StackInv, WireInv, FramingInv, [Next]_vars
  PROVE  FramingInv'
  BY FramingKinds, SameKeeps, SendKeeps, ReadFramed, TakeFramed

LEMMA InitFramed == Init => FramingInv
<1> SUFFICES ASSUME Init PROVE FramingInv
  OBVIOUS
<1>1. stack = <<>> /\ DOMAIN stack = {} /\ pending = NoCall /\ wire = <<>> /\ ~misframed
  BY DEF Init
<1>2. <<>> \in Seq(Piece) /\ <<>> \o wire = <<>>
  BY <1>1
<1>3. Framed(NoCall, <<>>)
  BY DEF Framed
<1>4. Unread(<<>>)
  BY <1>1 DEF Unread
<1> QED
  BY <1>1, <1>2, <1>3, <1>4 DEF FramingInv

\* However the stream is cut into reads, and whatever is read from inside a call, a
\* header is taken for a header and a payload for its own, as long as no read takes
\* bytes from behind those of a read still in progress.
THEOREM PackagesFramed == Spec => []FramingKept
<1>1. FramingInv => FramingKept
  BY DEF FramingInv, FramingKept
<1>2. CoreInv /\ WireInv => StackInv /\ WireInv
  BY DEF CoreInv
<1>3. StackInv /\ WireInv /\ FramingInv /\ [Next]_vars => FramingInv'
  BY FramingStep
<1> QED
  BY <1>1, <1>2, <1>3, InitFramed, Core, PTL DEF Spec
-----------------------------------------------------------------------------
(***************************************************************************)
(* The starting of a service: the files.                                   *)
(***************************************************************************)
\* Who binds the temporary file goes on to rename it.
TempOwned ==
  ~broken /\ tempFile # None => pc[tempFile] \in {"listen", "rename"}

\* Who unlinks the socket goes on to bind a temporary file, or finds one.
SocketReplaced ==
  ~broken /\ socketFile = None /\ (\E p \in Proc : Alive(p)) =>
    \/ tempFile # None
    \/ \E p \in Proc : pc[p] \in {"unlinkSocket", "unlinkTemp", "unlinkPid", "bind"}

\* A socket that is renamed has been bound, and will be listened on.
SocketBound ==
  ~broken /\ socketFile # None =>
    pc[socketFile] \in {"listen", "rename", "writePid", "serving", "dead"}

\* Who unlinks the pid file goes on to write it, or leaves that to another.
PidReplaced ==
  ~broken /\ pidFile = None /\ (\E p \in Proc : Alive(p)) => InSetup # {}

\* What a process that sets up alone has done so far.
LoneSetup ==
  lone # None =>
    /\ \A q \in Proc \ {lone} : pc[q] \notin Setup
    /\ pc[lone] \in Setup \cup {"serving"}
    /\ pc[lone] \in {"unlinkPid", "bind"} => tempFile = None
    /\ pc[lone] \in {"listen", "rename"} => tempFile = lone
    /\ pc[lone] \in {"writePid", "serving"} => socketFile = lone /\ tempFile = None
    /\ pc[lone] \in {"bind", "listen", "rename", "writePid"} => pidFile = None
    /\ pc[lone] = "serving" => pidFile = lone

\* Clients go to sleep from "launched" as well, without another look.
SleepersWoken ==
  lone # None /\ pc[lone] = "serving" =>
    \A c \in Client :
      phase[c] \in {"launched", "asleep"} => c \in notified \cup again \/ conn[c] # None

IInv == StartTypeOK /\ TempOwned /\ SocketReplaced /\ SocketBound /\ PidReplaced
        /\ LoneSetup /\ SleepersWoken

LEMMA InitEstablishes == StartInit => IInv
BY StartAssumption
   DEF StartInit, IInv, StartTypeOK, TempOwned, SocketReplaced, SocketBound, PidReplaced, LoneSetup,
       SleepersWoken, Alive, Setup, Phases

(***************************************************************************)
(* The steps of a process.                                                 *)
(***************************************************************************)
LEMMA ProcessTypes ==
  ASSUME IInv, NEW p \in Proc, CreateServiceEndPoint(p)
  PROVE  StartTypeOK'
BY DEF IInv, StartTypeOK, CreateServiceEndPoint, UnlinkSocket, UnlinkTemp, UnlinkPid, Bind, Listen,
       Rename, WritePid, Advance, Notify, Setup, Phases, files, connections, history

LEMMA ProcessSetup ==
  ASSUME IInv, NEW p \in Proc, CreateServiceEndPoint(p)
  PROVE  TempOwned' /\ SocketReplaced' /\ SocketBound' /\ PidReplaced'
<1> USE StartAssumption
    DEF IInv, StartTypeOK, TempOwned, SocketReplaced, SocketBound, PidReplaced, Alive, InSetup,
        Setup, Advance, files, history
<1>1. CASE UnlinkSocket(p)
  BY <1>1 DEF UnlinkSocket
<1>2. CASE UnlinkTemp(p)
  BY <1>2 DEF UnlinkTemp
<1>3. CASE UnlinkPid(p)
  BY <1>3 DEF UnlinkPid
<1>4. CASE Bind(p)
  BY <1>4 DEF Bind
<1>5. CASE Listen(p)
  BY <1>5 DEF Listen
<1>6. CASE Rename(p)
  BY <1>6 DEF Rename
<1>7. CASE WritePid(p)
  BY <1>7 DEF WritePid
<1> QED
  BY <1>1, <1>2, <1>3, <1>4, <1>5, <1>6, <1>7 DEF CreateServiceEndPoint

LEMMA ProcessLone ==
  ASSUME IInv, NEW p \in Proc, CreateServiceEndPoint(p)
  PROVE  LoneSetup' /\ SleepersWoken'
<1> USE StartAssumption
    DEF IInv, StartTypeOK, LoneSetup, SleepersWoken, Setup, Advance, InDoStart, connections, files, history
<1>0. lone # None /\ lone' # None => lone = p /\ lone' = lone
  BY DEF CreateServiceEndPoint, UnlinkSocket, UnlinkTemp, UnlinkPid, Bind, Listen, Rename,
         WritePid
<1>1. CASE UnlinkSocket(p)
  BY <1>0, <1>1 DEF UnlinkSocket, CreateServiceEndPoint
<1>2. CASE UnlinkTemp(p)
  BY <1>0, <1>2 DEF UnlinkTemp, CreateServiceEndPoint
<1>3. CASE UnlinkPid(p)
  BY <1>0, <1>3 DEF UnlinkPid, CreateServiceEndPoint
<1>4. CASE Bind(p)
  BY <1>0, <1>4 DEF Bind, CreateServiceEndPoint
<1>5. CASE Listen(p)
  BY <1>0, <1>5 DEF Listen, CreateServiceEndPoint
<1>6. CASE Rename(p)
  BY <1>0, <1>6 DEF Rename, CreateServiceEndPoint
<1>7. CASE WritePid(p)
  BY <1>0, <1>7 DEF WritePid, CreateServiceEndPoint, Notify
<1> QED
  BY <1>1, <1>2, <1>3, <1>4, <1>5, <1>6, <1>7 DEF CreateServiceEndPoint

LEMMA AcceptPreserves ==
  ASSUME IInv, NEW p \in Proc, ProcessIncoming(p)
  PROVE  IInv'
BY DEF IInv, StartTypeOK, TempOwned, SocketReplaced, SocketBound, PidReplaced, LoneSetup,
       SleepersWoken, Alive, InSetup, ProcessIncoming, files, wait, history

LEMMA EndPreserves ==
  ASSUME IInv, NEW p \in Proc, End(p)
  PROVE  IInv'
<1> USE StartAssumption DEF IInv, StartTypeOK, End, Alive, Setup, files, connections, wait
<1>1. StartTypeOK'
  OBVIOUS
<1>2. TempOwned' /\ SocketReplaced' /\ SocketBound' /\ PidReplaced'
  BY DEF TempOwned, SocketReplaced, SocketBound, PidReplaced, InSetup
<1>3. LoneSetup' /\ SleepersWoken'
  BY DEF LoneSetup, SleepersWoken
<1> QED
  BY <1>1, <1>2, <1>3

(***************************************************************************)
(* The steps of a client.  Only Launch disturbs the processes.             *)
(***************************************************************************)
LEMMA LaunchPreserves ==
  ASSUME IInv, NEW c \in Client, Launch(c)
  PROVE  IInv'
<1> USE StartAssumption DEF IInv, StartTypeOK, Goto, files, connections, wait
<1>1. PICK p \in Proc :
        /\ ~Alive(p) /\ ~Referenced(p)
        /\ pc' = [pc EXCEPT ![p] = "unlinkSocket"]
        /\ lone' = IF InSetup = {} THEN p ELSE None
  BY DEF Launch
<1>2. StartTypeOK'
  BY <1>1 DEF Launch, Setup, Phases, InDoStart
<1>3. TempOwned' /\ SocketReplaced' /\ SocketBound' /\ PidReplaced'
  BY <1>1 DEF Launch, TempOwned, SocketReplaced, SocketBound, PidReplaced, Alive, InSetup,
              Setup, Referenced
<1>4. LoneSetup' /\ SleepersWoken'
  BY <1>1 DEF Launch, LoneSetup, SleepersWoken, InSetup, Setup
<1> QED
  BY <1>2, <1>3, <1>4

\* What the other steps of a client may do to the wait of a client.
WaitKept ==
  \A c \in Client :
    phase'[c] \in {"launched", "asleep"} =>
      \/ /\ phase[c] \in {"launched", "asleep"}
         /\ (c \in notified \cup again \/ conn[c] # None)
            => (c \in notified' \cup again' \/ conn'[c] # None)
      \/ c \in again' \/ conn'[c] # None
      \/ ~TryAgain /\ ~MayConnect

LEMMA ClientTypes ==
  ASSUME IInv, NEW c \in Client, ProxyForService(c), ~Launch(c)
  PROVE  StartTypeOK' /\ UNCHANGED <<files, pc, history>>
<1> USE DEF IInv, StartTypeOK, Goto, Return, Connection, Phases, InDoStart
<1>1. MayConnect => socketFile \in Proc
  BY DEF MayConnect, Listening
<1>2. UNCHANGED <<files, pc, history>>
  BY DEF ProxyForService, DoStart, Connect, LeaveBusy, LaunchFails, ConnectEarly, Wake,
         ReadEvents, Retry, ConstructProxy, ConstructFails, Leave
<1>3. phase' \in [Client -> Phases] /\ notified' \subseteq Client /\ again' \subseteq Client
  BY DEF ProxyForService, DoStart, Connect, LeaveBusy, LaunchFails, ConnectEarly, Wake,
         ReadEvents, Retry, ConstructProxy, ConstructFails, Leave, Wait, TimeOut, wait
<1>4. conn' \in [Client -> Proc \cup {None}] /\ accepted' \subseteq Client
  BY <1>1 DEF ProxyForService, DoStart, Connect, LeaveBusy, LaunchFails, ConnectEarly, Wake,
         ReadEvents, Retry, ConstructProxy, ConstructFails, Leave, TimeOut, connections
<1>5. elapsed' \in [Client -> Elapsed \cup {0}]
  BY DEF ProxyForService, DoStart, Connect, LeaveBusy, LaunchFails, ConnectEarly, Wake,
         ReadEvents, Retry, ConstructProxy, ConstructFails, Leave, Wait, TimeOut, wait
<1> QED
  BY <1>2, <1>3, <1>4, <1>5 DEF files, history

LEMMA ClientKeepsWait ==
  ASSUME IInv, NEW c \in Client, ProxyForService(c), ~Launch(c)
  PROVE  WaitKept
<1> SUFFICES ASSUME NEW x \in Client, phase'[x] \in {"launched", "asleep"}
             PROVE  \/ /\ phase[x] \in {"launched", "asleep"}
                       /\ (x \in notified \cup again \/ conn[x] # None)
                          => (x \in notified' \cup again' \/ conn'[x] # None)
                    \/ x \in again' \/ conn'[x] # None
                    \/ ~TryAgain /\ ~MayConnect
  BY DEF WaitKept
<1> USE DEF IInv, StartTypeOK, Goto, Return, Connection, connections, wait
<1>1. CASE DoStart(c) \/ Connect(c) \/ LeaveBusy(c) \/ LaunchFails(c)
  BY <1>1 DEF DoStart, Connect, LeaveBusy, LaunchFails
<1>2. CASE Wake(c) \/ ReadEvents(c)
  BY <1>2 DEF Wake, ReadEvents
<1>3. CASE ConstructProxy(c) \/ ConstructFails(c) \/ Leave(c)
  BY <1>3 DEF ConstructProxy, ConstructFails, Leave
<1>4. MayConnect => socketFile # None
  BY StartAssumption DEF MayConnect, Listening
<1>5. CASE ConnectEarly(c)
  BY <1>4, <1>5 DEF ConnectEarly, Wait, TimeOut
<1>6. CASE Retry(c)
  BY <1>6 DEF Retry, Wait, TimeOut
<1> QED
  BY <1>1, <1>2, <1>3, <1>5, <1>6 DEF ProxyForService

LEMMA ClientPreserves ==
  ASSUME IInv, NEW c \in Client, ProxyForService(c)
  PROVE  IInv'
<1>1. CASE Launch(c)
  BY <1>1, LaunchPreserves
<1>2. CASE ~Launch(c)
  <2>1. StartTypeOK' /\ WaitKept /\ UNCHANGED <<files, pc, history>>
    BY <1>2, ClientTypes, ClientKeepsWait
  <2>2. TempOwned' /\ SocketReplaced' /\ SocketBound' /\ PidReplaced' /\ LoneSetup'
    BY <2>1 DEF IInv, TempOwned, SocketReplaced, SocketBound, PidReplaced, LoneSetup, Alive,
                InSetup, files, history
  <2>3. lone # None /\ pc[lone] = "serving" => MayConnect \/ TryAgain
    BY DEF IInv, StartTypeOK, LoneSetup, TryAgain, Listening
  <2>4. SleepersWoken'
    BY <2>1, <2>3 DEF IInv, SleepersWoken, WaitKept, history
  <2> QED
    BY <2>1, <2>2, <2>4 DEF IInv
<1> QED
  BY <1>1, <1>2

LEMMA StepPreserves == IInv /\ [StartNext]_startVars => IInv'
<1> SUFFICES ASSUME IInv, [StartNext]_startVars PROVE IInv'
  OBVIOUS
<1>1. ASSUME NEW p \in Proc, CreateServiceEndPoint(p) PROVE IInv'
  BY <1>1, ProcessTypes, ProcessSetup, ProcessLone DEF IInv
<1>2. ASSUME NEW p \in Proc, ProcessIncoming(p) \/ End(p) PROVE IInv'
  BY <1>2, AcceptPreserves, EndPreserves
<1>3. ASSUME NEW c \in Client, ProxyForService(c) PROVE IInv'
  BY <1>3, ClientPreserves
<1>4. CASE UNCHANGED startVars
  BY <1>4 DEF IInv, StartTypeOK, TempOwned, SocketReplaced, SocketBound, PidReplaced, LoneSetup,
              SleepersWoken, Alive, InSetup, startVars, files, connections, wait, history
<1> QED
  BY <1>1, <1>2, <1>3, <1>4 DEF StartNext

LEMMA Invariance == StartSpec => []IInv
BY InitEstablishes, StepPreserves, PTL DEF StartSpec

\* The variables keep their types, whatever the clients and processes do.
THEOREM StartTypes == StartSpec => []StartTypeOK
<1>1. IInv => StartTypeOK
  BY DEF IInv
<1> QED
  BY Invariance, <1>1, PTL

\* The setups of createServiceEndPoint converge, for any number of processes
\* started at once.
THEOREM Convergence == StartSpec => []SetupsConverge
<1>1. IInv => SetupsConverge
  <2> SUFFICES ASSUME IInv, InSetup = {}, ~broken, \E p \in Proc : Alive(p)
               PROVE  /\ socketFile # None /\ pidFile # None /\ tempFile = None
                      /\ pc[socketFile] \in {"serving", "dead"}
    BY DEF SetupsConverge
  <2>1. \A p \in Proc : pc[p] \notin Setup
    BY DEF InSetup
  <2>2. tempFile = None
    BY <2>1 DEF IInv, StartTypeOK, TempOwned, Setup
  <2>3. socketFile # None
    BY <2>1, <2>2 DEF IInv, SocketReplaced, Setup
  <2>4. pidFile # None
    BY DEF IInv, PidReplaced
  <2>5. pc[socketFile] \in {"serving", "dead"}
    BY <2>1, <2>3 DEF IInv, StartTypeOK, SocketBound, Setup
  <2> QED
    BY <2>2, <2>3, <2>4, <2>5
<1> QED
  BY Invariance, <1>1, PTL

\* createServiceEndPoint succeeds whatever processes that died left behind, if
\* nobody interferes.
THEOREM LoneSuccess == StartSpec => []LoneSetupSucceeds
<1>1. IInv => LoneSetupSucceeds
  BY DEF IInv, LoneSetup, LoneSetupSucceeds, Setup
<1> QED
  BY Invariance, <1>1, PTL

\* doStart's waiting loop sleeps through no such setup.
THEOREM Wakeup == StartSpec => []WaitersWoken
<1>1. IInv => WaitersWoken
  BY DEF IInv, SleepersWoken, WaitersWoken
<1> QED
  BY Invariance, <1>1, PTL
-----------------------------------------------------------------------------
(***************************************************************************)
(* The loads in the background: the requests, the replies and the thread.  *)
(***************************************************************************)

(***************************************************************************)
(* How often something is in a sequence.                                   *)
(***************************************************************************)
Times(s, e) == Cardinality({i \in DOMAIN s : s[i] = e})

LEMMA HitsFinite ==
  ASSUME NEW S, NEW s \in Seq(S), NEW e
  PROVE  IsFiniteSet({i \in DOMAIN s : s[i] = e})
<1>1. DOMAIN s = 1..Len(s) /\ Len(s) \in Nat
  OBVIOUS
<1>2. IsFiniteSet(1..Len(s))
  BY <1>1, FS_Interval
<1> QED
  BY <1>1, <1>2, FS_Subset

LEMMA TimesNat ==
  ASSUME NEW S, NEW s \in Seq(S), NEW e
  PROVE  Times(s, e) \in Nat
<1>1. IsFiniteSet({i \in DOMAIN s : s[i] = e})
  BY HitsFinite
<1> QED
  BY <1>1, FS_CardinalityType DEF Times

LEMMA TimesNone ==
  ASSUME NEW S, NEW s \in Seq(S), NEW e
  PROVE  (Times(s, e) = 0) <=> (\A i \in DOMAIN s : s[i] # e)
<1>1. IsFiniteSet({i \in DOMAIN s : s[i] = e})
  BY HitsFinite
<1> QED
  BY <1>1, FS_EmptySet DEF Times

\* Appending an element adds one to its number.
LEMMA TimesAppend ==
  ASSUME NEW S, NEW s \in Seq(S), NEW a \in S, NEW e
  PROVE  Times(Append(s, a), e) = Times(s, e) + (IF a = e THEN 1 ELSE 0)
<1> DEFINE Before == {i \in DOMAIN s : s[i] = e}
           After == {i \in DOMAIN Append(s, a) : Append(s, a)[i] = e}
<1>1. DOMAIN s = 1..Len(s) /\ Len(s) \in Nat
  OBVIOUS
<1>2. IsFiniteSet(Before)
  BY HitsFinite
<1>3. Len(s) + 1 \notin Before
  BY <1>1
<1>4. After = IF a = e THEN Before \cup {Len(s) + 1} ELSE Before
  BY <1>1
<1>5. Cardinality(Before \cup {Len(s) + 1}) = Cardinality(Before) + 1
  BY <1>2, <1>3, FS_AddElement
<1>6. Cardinality(Before) \in Nat
  BY <1>2, FS_CardinalityType
<1> HIDE DEF Before, After
<1>7. Cardinality(After) = Cardinality(Before) + (IF a = e THEN 1 ELSE 0)
  BY <1>4, <1>5, <1>6
<1> QED
  BY <1>7 DEF Before, After, Times

\* Taking the head takes one from its number.
LEMMA TimesTail ==
  ASSUME NEW S, NEW s \in Seq(S), s # <<>>, NEW e
  PROVE  Times(s, e) = Times(Tail(s), e) + (IF Head(s) = e THEN 1 ELSE 0)
<1> DEFINE t == Tail(s)
           Hits == {i \in DOMAIN s : s[i] = e}
           Rest == Hits \ {1}
           Moved == {i \in DOMAIN t : t[i] = e}
           Shift == [i \in Moved |-> i + 1]
<1>1. /\ DOMAIN s = 1..Len(s) /\ Len(s) \in Nat /\ Len(s) # 0
      /\ t \in Seq(S) /\ Len(t) = Len(s) - 1 /\ DOMAIN t = 1..Len(t)
      /\ \A i \in 1..Len(t) : t[i] = s[i + 1]
      /\ Head(s) = s[1]
  OBVIOUS
<1>2. IsFiniteSet(Moved) /\ IsFiniteSet(Hits)
  BY <1>1, HitsFinite
<1>3. IsFiniteSet(Rest)
  BY <1>2, FS_Subset
<1>4. Shift \in Bijection(Moved, Rest)
  <2>1. \A i \in Moved : i + 1 \in Rest
    BY <1>1
  <2>2. \A j \in Rest : \E i \in Moved : j = i + 1
    <3>1. SUFFICES ASSUME NEW j \in Rest PROVE \E i \in Moved : j = i + 1
      OBVIOUS
    <3>2. j - 1 \in Moved
      BY <1>1
    <3> QED
      BY <1>1, <3>2
  <2>3. \A i, k \in Moved : i + 1 = k + 1 => i = k
    BY <1>1
  <2> HIDE DEF Moved, Rest
  <2> QED
    BY <2>1, <2>2, <2>3 DEF Bijection, Injection, Surjection, IsInjective
<1>5. Cardinality(Moved) = Cardinality(Rest)
  BY <1>2, <1>3, <1>4, FS_Bijection DEF ExistsBijection
<1>6. Hits = IF Head(s) = e THEN Rest \cup {1} ELSE Rest
  BY <1>1
<1>7. Cardinality(Rest \cup {1}) = Cardinality(Rest) + 1
  BY <1>3, FS_AddElement
<1>8. Cardinality(Rest) \in Nat
  BY <1>3, FS_CardinalityType
<1>9. Times(Tail(s), e) = Cardinality(Moved) /\ Times(s, e) = Cardinality(Hits)
  BY DEF Times
<1> HIDE DEF Moved, Rest, Hits
<1> QED
  BY <1>5, <1>6, <1>7, <1>8, <1>9
-----------------------------------------------------------------------------
(***************************************************************************)
(* What may be posted to a reply and not yet delivered: a start, a result  *)
(* and an end, or what is left of them.                                    *)
(***************************************************************************)
Event == {"start", "finish"} \cup Outcomes
Results == {"object", "null", "error"}
Unended == {<<>>, <<"start">>}
Ended ==
  {<<"finish">>} \cup {<<o, "finish">> : o \in Results}
  \cup {<<"start", o, "finish">> : o \in Results}

LEMMA ShapeTypes == Unended \cup Ended \subseteq Seq(Event)
<1>1. <<>> \in Seq(Event) /\ <<"start">> \in Seq(Event) /\ <<"finish">> \in Seq(Event)
  BY DEF Event
<1>2. ASSUME NEW o \in Results
      PROVE  <<o, "finish">> \in Seq(Event) /\ <<"start", o, "finish">> \in Seq(Event)
  <2>1. o \in Event /\ "start" \in Event /\ "finish" \in Event
    BY DEF Event, Results, Outcomes
  <2> QED
    BY <2>1
<1> QED
  BY <1>1, <1>2 DEF Unended, Ended

LEMMA ShapeDisjoint == Unended \cap Ended = {} /\ <<>> \in Unended /\ <<"finish">> \in Ended
  BY DEF Unended, Ended, Results

\* What the delivery of the first event leaves.
LEMMA ShapeTail ==
  ASSUME NEW s \in Unended \cup Ended, s # <<>>
  PROVE  \/ s \in Unended /\ Head(s) = "start" /\ Tail(s) = <<>>
         \/ /\ s \in Ended
            /\ \/ s = <<"finish">> /\ Head(s) = "finish" /\ Tail(s) = <<>>
               \/ Head(s) \in Results /\ Tail(s) = <<"finish">>
               \/ Head(s) = "start" /\ Tail(s) \in Ended /\ Tail(s) # <<"finish">>
<1>1. CASE s = <<"start">>
  BY <1>1 DEF Unended
<1>2. CASE s = <<"finish">>
  BY <1>2 DEF Ended
<1>3. ASSUME NEW o \in Results, s = <<o, "finish">>
      PROVE  s \in Ended /\ Head(s) \in Results /\ Tail(s) = <<"finish">>
  BY <1>3 DEF Ended
<1>4. ASSUME NEW o \in Results, s = <<"start", o, "finish">>
      PROVE  s \in Ended /\ Head(s) = "start" /\ Tail(s) \in Ended /\ Tail(s) # <<"finish">>
  <2>1. Tail(s) = <<o, "finish">> /\ Head(s) = "start"
    BY <1>4
  <2>2. <<o, "finish">> # <<"finish">>
    BY DEF Results
  <2> QED
    BY <1>4, <2>1, <2>2 DEF Ended
<1> QED
  BY <1>1, <1>2, <1>3, <1>4 DEF Unended, Ended

\* An end is posted once or not at all.
LEMMA EndedTimes ==
  /\ \A s \in Unended : Times(s, "finish") = 0
  /\ \A s \in Ended : Times(s, "finish") = 1
<1>1. Times(<<>>, "finish") = 0
  <2>1. <<>> \in Seq(Event) /\ \A i \in DOMAIN <<>> : <<>>[i] # "finish"
    OBVIOUS
  <2> QED
    BY <2>1, TimesNone
<1>2. ASSUME NEW s \in Unended \cup Ended, s # <<>>
      PROVE  /\ Head(s) = "finish" => Times(s, "finish") = Times(Tail(s), "finish") + 1
             /\ Head(s) # "finish" => Times(s, "finish") = Times(Tail(s), "finish")
  <2>1. s \in Seq(Event) /\ Tail(s) \in Seq(Event)
    BY <1>2, ShapeTypes
  <2>2. Times(s, "finish") = Times(Tail(s), "finish") + (IF Head(s) = "finish" THEN 1 ELSE 0)
    BY <1>2, <2>1, TimesTail
  <2>3. Times(Tail(s), "finish") \in Nat
    BY <2>1, TimesNat
  <2> QED
    BY <2>2, <2>3
<1>3. ASSUME NEW s \in Unended
      PROVE  Times(s, "finish") = 0
  <2>1. CASE s = <<>>
    BY <1>1, <2>1
  <2>2. CASE s # <<>>
    <3>1. Head(s) = "start" /\ Tail(s) = <<>>
      BY <2>2, ShapeTail, ShapeDisjoint
    <3> QED
      BY <1>1, <1>2, <2>2, <3>1
  <2> QED
    BY <2>1, <2>2
<1>4. <<"finish">> # <<>> /\ <<"finish">> \in Ended /\ \A s \in Ended : s # <<>>
  BY DEF Ended
<1>5. Times(<<"finish">>, "finish") = 1
  <2>1. ASSUME NEW s, s = <<"finish">>
        PROVE  Times(s, "finish") = 1
    <3>1. Head(s) = "finish" /\ Tail(s) = <<>> /\ s \in Ended /\ s # <<>>
      BY <1>4, <2>1
    <3>2. Times(s, "finish") = Times(Tail(s), "finish") + 1
      BY <1>2, <3>1
    <3>3. Times(Tail(s), "finish") = 0
      BY <1>1, <3>1
    <3> QED
      BY <3>2, <3>3
  <2> QED
    BY <2>1
<1>6. "finish" \notin Results /\ "start" # "finish"
  BY DEF Results
<1>7. ASSUME NEW s \in Ended, Head(s) \in Results, Tail(s) = <<"finish">>
      PROVE  Times(s, "finish") = 1
  BY <1>2, <1>4, <1>5, <1>6, <1>7
<1>8. ASSUME NEW s \in Ended, Head(s) = "start", Tail(s) \in Ended, Tail(s) # <<"finish">>,
             Head(Tail(s)) \in Results, Tail(Tail(s)) = <<"finish">>
      PROVE  Times(s, "finish") = 1
  BY <1>2, <1>4, <1>6, <1>7, <1>8
<1>9. \A s \in Ended : Times(s, "finish") = 1
  <2>1. ASSUME NEW s \in Ended, Head(s) = "start", Tail(s) \in Ended, Tail(s) # <<"finish">>
        PROVE  Head(Tail(s)) \in Results /\ Tail(Tail(s)) = <<"finish">>
    <3>1. PICK o \in Results : s = <<"start", o, "finish">>
      BY <2>1 DEF Ended, Results
    <3>2. Tail(s) = <<o, "finish">>
      BY <3>1
    <3>3. Head(<<o, "finish">>) = o /\ Tail(<<o, "finish">>) = <<"finish">>
      OBVIOUS
    <3> QED
      BY <3>2, <3>3
  <2> QED
    BY <1>4, <1>5, <1>7, <1>8, <2>1, ShapeTail, ShapeDisjoint
<1> QED
  BY <1>3, <1>9
-----------------------------------------------------------------------------
(***************************************************************************)
(* The count of engaged managers, and the types.                           *)
(***************************************************************************)
Engaging == {m \in Manager : manager[m] \in {"engaged", "starting"}}

TypeInv ==
  /\ OperationsTypeOK
  /\ events \in [Reply -> Seq(Event)]
  /\ thread = "loading" <=> current # NoReply
  /\ IsFiniteSet(Engaging)
  /\ engageCount = Cardinality(Engaging)

Counted == {"engaged", "starting"}

\* One manager that comes or goes changes the count by one.
LEMMA EngagingStep ==
  ASSUME TypeInv, NEW m \in Manager, NEW place \in Places, MoveTo(m, place)
  PROVE  /\ IsFiniteSet(Engaging')
         /\ manager[m] \notin Counted /\ place \in Counted
              => Cardinality(Engaging') = engageCount + 1
         /\ manager[m] \in Counted /\ place \notin Counted
              => engageCount # 0 /\ Cardinality(Engaging') = engageCount - 1
         /\ (manager[m] \in Counted <=> place \in Counted)
              => Cardinality(Engaging') = engageCount
<1>1. /\ manager \in [Manager -> Places] /\ IsFiniteSet(Engaging)
      /\ manager' = [manager EXCEPT ![m] = place]
      /\ engageCount = Cardinality(Engaging)
  BY DEF TypeInv, OperationsTypeOK, MoveTo
<1>2. /\ place \in Counted => Engaging' = Engaging \cup {m}
      /\ place \notin Counted => Engaging' = Engaging \ {m}
      /\ m \in Engaging <=> manager[m] \in Counted
  BY <1>1 DEF Engaging, Counted
<1>3. /\ IsFiniteSet(Engaging \cup {m})
      /\ Cardinality(Engaging \cup {m})
           = IF m \in Engaging THEN Cardinality(Engaging) ELSE Cardinality(Engaging) + 1
  BY <1>1, FS_AddElement
<1>4. /\ IsFiniteSet(Engaging \ {m})
      /\ Cardinality(Engaging \ {m})
           = IF m \in Engaging THEN Cardinality(Engaging) - 1 ELSE Cardinality(Engaging)
  BY <1>1, FS_RemoveElement
<1>5. m \in Engaging => Cardinality(Engaging) # 0
  BY <1>1, FS_EmptySet
<1> QED
  BY <1>1, <1>2, <1>3, <1>4, <1>5

LEMMA TypeInit == OperationsInit => TypeInv
<1> SUFFICES ASSUME OperationsInit PROVE TypeInv
  OBVIOUS
<1>1. Engaging = {}
  BY DEF OperationsInit, Engaging
<1>2. IsFiniteSet(Engaging) /\ Cardinality(Engaging) = 0
  BY <1>1, FS_EmptySet
<1>3. <<>> \in Seq(Event) /\ <<>> \in Seq(Reply)
  OBVIOUS
<1>4. events \in [Reply -> Seq(Event)]
  BY <1>3 DEF OperationsInit
<1>5. /\ manager \in [Manager -> Places] /\ owner \in [Reply -> Manager \cup {NoManager}]
      /\ reply \in [Reply -> {"unused", "requested", "running", "finished"}]
      /\ outcome \in [Reply -> Outcomes]
  BY DEF OperationsInit, Places, Resting, Outcomes
<1>6. OperationsTypeOK
  BY <1>3, <1>4, <1>5 DEF OperationsInit, OperationsTypeOK, Event
<1> QED
  BY <1>2, <1>4, <1>6 DEF TypeInv, OperationsInit

LEMMA TypeStep == TypeInv /\ [OperationsNext]_operationsVars => TypeInv'
<1> SUFFICES ASSUME TypeInv, [OperationsNext]_operationsVars PROVE TypeInv'
  OBVIOUS
<1> USE OperationsAssumption
<1> DEFINE Counts == IsFiniteSet(Engaging) /\ engageCount = Cardinality(Engaging)
           Loads == thread = "loading" <=> current # NoReply
           Posts == events \in [Reply -> Seq(Event)]
<1>0. OperationsTypeOK /\ Posts /\ Loads /\ Counts
  BY DEF TypeInv
<1>1. UNCHANGED manager /\ UNCHANGED engageCount => Counts'
  BY <1>0 DEF Engaging
<1>2. ASSUME NEW m \in Manager, Application(m) \/ Continue(m)
      PROVE  TypeInv'
  <2>1. CASE EngageFirst(m)
    <3>1. Counts'
      BY <1>0, <2>1, EngagingStep DEF EngageFirst, At, Places, Resting, Counted
    <3> QED
      BY <1>0, <2>1, <3>1 DEF EngageFirst, At, MoveTo, TypeInv, OperationsTypeOK, Places, Resting,
         processor, replies
  <2>2. CASE EngageAnother(m)
    <3>1. Counts'
      BY <1>0, <2>2, EngagingStep DEF EngageAnother, At, Places, Resting, Counted
    <3> QED
      BY <1>0, <2>2, <3>1 DEF EngageAnother, At, MoveTo, TypeInv, OperationsTypeOK, Places, Resting,
         processor, replies
  <2>3. CASE Disengage(m)
    <3>1. Counts' /\ engageCount # 0
      <4>1. MoveTo(m, "quitting") \/ MoveTo(m, "idle")
        BY <2>3 DEF Disengage
      <4>2. manager[m] = "engaged" /\ engageCount' = engageCount - 1
        BY <2>3 DEF Disengage, At
      <4> QED
        BY <1>0, <4>1, <4>2, EngagingStep DEF Places, Resting, Counted
    <3>2. owner' \in [Reply -> Manager \cup {NoManager}]
      BY <1>0, <2>3 DEF Disengage, OperationsTypeOK
    <3>3. manager' \in [Manager -> Places]
      BY <1>0, <2>3 DEF Disengage, At, MoveTo, OperationsTypeOK, Places, Resting
    <3>4. engageCount' \in Nat
      BY <1>0, <2>3, <3>1 DEF Disengage, OperationsTypeOK
    <3> QED
      BY <1>0, <2>3, <3>1, <3>2, <3>3, <3>4 DEF Disengage, TypeInv, OperationsTypeOK, processor, replies
  <2>4. ASSUME NEW r \in Reply, LoadInterfaceRequest(m, r)
        PROVE  TypeInv'
    BY <1>0, <1>1, <2>4 DEF LoadInterfaceRequest, TypeInv, OperationsTypeOK, facade, processor
  <2>5. CASE Start(m)
    <3>1. Counts'
      BY <1>0, <2>5, EngagingStep DEF Start, At, Places, Resting, Counted
    <3> QED
      BY <1>0, <2>5, <3>1 DEF Start, At, MoveTo, TypeInv, OperationsTypeOK, Places, Resting,
         processor, replies
  <2>6. CASE Refer(m)
    <3>1. Counts'
      BY <1>0, <2>6, EngagingStep DEF Refer, At, Places, Resting, Counted
    <3> QED
      BY <1>0, <2>6, <3>1 DEF Refer, At, MoveTo, TypeInv, OperationsTypeOK, Places, Resting,
         processor, replies
  <2>7. CASE Quit(m)
    <3>1. Counts'
      BY <1>0, <2>7, EngagingStep DEF Quit, At, Places, Resting, Counted
    <3> QED
      BY <1>0, <2>7, <3>1 DEF Quit, At, MoveTo, TypeInv, OperationsTypeOK, Places, Resting,
         processor, replies
  <2>8. CASE Waited(m)
    <3>1. Counts'
      BY <1>0, <2>8, EngagingStep DEF Waited, At, Places, Resting, Counted
    <3> QED
      BY <1>0, <2>8, <3>1 DEF Waited, At, MoveTo, TypeInv, OperationsTypeOK, Places, Resting,
         processor, replies
  <2>9. CASE Terminate(m)
    <3>1. Counts'
      BY <1>0, <2>9, EngagingStep DEF Terminate, At, Places, Resting, Counted
    <3> QED
      BY <1>0, <2>9, <3>1 DEF Terminate, At, MoveTo, TypeInv, OperationsTypeOK, Places, Resting, replies
  <2> QED
    BY <1>2, <2>1, <2>2, <2>3, <2>4, <2>5, <2>6, <2>7, <2>8, <2>9
    DEF Application, Continue
<1>3. CASE Background
  <2>1. Counts'
    BY <1>1, <1>3 DEF Background, Exit, HandleRequest, HandleNested, TakePending, Loaded,
       RequestsHandled, facade
  <2>2. CASE Exit
    <3>1. thread' = "stopped" /\ thread = "running"
          /\ UNCHANGED <<manager, engageCount, exiting, submitted, pendingList, inRequest, current,
                         reply, outcome, events, owner, aborted>>
      BY <2>2 DEF Exit, facade, processor, replies
    <3> QED
      BY <1>0, <2>1, <3>1 DEF TypeInv, OperationsTypeOK, Event
  <2>3. CASE HandleRequest
    <3>1. Head(submitted) \in Reply /\ Tail(submitted) \in Seq(Reply)
      BY <1>0, <2>3 DEF HandleRequest, OperationsTypeOK
    <3>2. /\ submitted' \in Seq(Reply) /\ pendingList' \in Seq(Reply)
          /\ thread = "running" /\ thread' \in {"running", "handling"} /\ inRequest' \in BOOLEAN
      <4>1. pendingList' = Append(pendingList, Head(submitted)) /\ submitted' = Tail(submitted)
        BY <2>3 DEF HandleRequest
      <4>2. pendingList \in Seq(Reply) /\ inRequest \in BOOLEAN
        BY <1>0 DEF OperationsTypeOK
      <4>3. /\ thread = "running"
            /\ inRequest' = inRequest \/ inRequest' = TRUE
            /\ thread' = thread \/ thread' = "handling"
        BY <2>3 DEF HandleRequest
      <4>4. inRequest' \in BOOLEAN
        BY <4>2, <4>3
      <4>5. submitted' \in Seq(Reply) /\ pendingList' \in Seq(Reply)
        BY <3>1, <4>1, <4>2
      <4> QED
        BY <4>3, <4>4, <4>5
    <3>3. UNCHANGED <<manager, engageCount, exiting, current, reply, outcome, events, owner, aborted>>
      BY <2>3 DEF HandleRequest, facade, replies
    <3> QED
      BY <1>0, <2>1, <3>2, <3>3 DEF TypeInv, OperationsTypeOK, Event
  <2>4. CASE HandleNested
    BY <1>0, <2>1, <2>4 DEF HandleNested, TypeInv, OperationsTypeOK, facade, replies
  <2>5. CASE TakePending
    <3>1. Head(pendingList) \in Reply /\ Tail(pendingList) \in Seq(Reply)
      BY <1>0, <2>5 DEF TakePending, OperationsTypeOK
    <3>2. <<"start", "error", "finish">> \in Seq(Event) /\ <<"start">> \in Seq(Event)
      BY ShapeTypes DEF Unended, Ended, Results
    <3>3. ASSUME NEW r \in Reply, NEW evs \in Seq(Event), Post(r, evs)
          PROVE  Posts'
      <4>1. events[r] \o evs \in Seq(Event)
        BY <1>0
      <4> QED
        BY <1>0, <3>3, <4>1 DEF Post
    <3>4. Posts'
      BY <2>5, <3>1, <3>2, <3>3 DEF TakePending
    <3> QED
      BY <1>0, <2>1, <2>5, <3>1, <3>4 DEF TakePending, TypeInv, OperationsTypeOK, Event, facade
  <2>6. CASE Loaded
    <3>1. current \in Reply
      BY <1>0, <2>6 DEF Loaded, OperationsTypeOK
    <3>2. Posts'
      BY <1>0, <2>6, <3>1 DEF Loaded, Post, Event, Outcomes
    <3> QED
      BY <1>0, <2>1, <2>6, <3>2 DEF Loaded, TypeInv, OperationsTypeOK, Event, facade
  <2>7. CASE RequestsHandled
    BY <1>0, <2>1, <2>7 DEF RequestsHandled, TypeInv, OperationsTypeOK, facade, replies
  <2> QED
    BY <1>3, <2>2, <2>3, <2>4, <2>5, <2>6, <2>7 DEF Background
<1>4. ASSUME NEW r \in Reply, Deliver(r)
      PROVE  TypeInv'
  <2>1. Counts'
    BY <1>1, <1>4 DEF Deliver, facade
  <2>2. Head(events[r]) \in Event /\ Tail(events[r]) \in Seq(Event)
    BY <1>0, <1>4 DEF Deliver
  <2>3. Posts'
    BY <1>0, <1>4, <2>2 DEF Deliver
  <2>4. /\ reply' \in [Reply -> {"unused", "requested", "running", "finished"}]
        /\ outcome' \in [Reply -> Outcomes]
    <3>1. CASE Head(events[r]) = "start"
      BY <1>0, <1>4, <3>1 DEF Deliver, OperationsTypeOK
    <3>2. CASE Head(events[r]) = "finish"
      BY <1>0, <1>4, <3>2 DEF Deliver, OperationsTypeOK
    <3>3. CASE Head(events[r]) \notin {"start", "finish"}
      <4>1. /\ outcome' = [outcome EXCEPT ![r] = Head(events[r])] /\ UNCHANGED reply
        BY <1>4, <3>3 DEF Deliver
      <4> QED
        BY <1>0, <2>2, <3>3, <4>1 DEF OperationsTypeOK, Event
    <3> QED
      BY <3>1, <3>2, <3>3
  <2> QED
    BY <1>0, <1>4, <2>1, <2>3, <2>4 DEF Deliver, TypeInv, OperationsTypeOK, Event, facade, processor
<1>5. CASE UNCHANGED operationsVars
  BY <1>0, <1>1, <1>5 DEF operationsVars, TypeInv, OperationsTypeOK, facade, processor, replies
<1> QED
  BY <1>2, <1>3, <1>4, <1>5 DEF OperationsNext

\* Every state is of the declared types; the count of engaged managers never
\* goes below zero.
THEOREM OperationsTypes == OperationsSpec => []OperationsTypeOK
<1>1. TypeInv => OperationsTypeOK
  BY DEF TypeInv
<1> QED
  BY <1>1, TypeInit, TypeStep, PTL DEF OperationsSpec
-----------------------------------------------------------------------------
-----------------------------------------------------------------------------
(***************************************************************************)
(* Where a request is.                                                     *)
(***************************************************************************)
Open(r) == reply[r] \in {"requested", "running"} /\ r \notin aborted

\* A request is posted, pending, being loaded or at its end, as long as its reply is
\* open; nothing is posted to a reply before its request is taken, and nothing to
\* one that is finished or was not yet asked for.
PlaceInv(r) ==
  /\ events[r] \in Unended \cup Ended
  /\ Times(submitted, r) + Times(pendingList, r) + (IF current = r THEN 1 ELSE 0)
       + Times(events[r], "finish") = IF Open(r) THEN 1 ELSE 0
  /\ Times(submitted, r) + Times(pendingList, r) # 0 => events[r] = <<>>
  /\ events[r] # <<>> \/ r \in aborted => reply[r] \in {"requested", "running"}
  /\ events[r] = <<"finish">> \/ reply[r] = "finished" => outcome[r] # "none"

OperationsInv == TypeInv /\ \A r \in Reply : PlaceInv(r)

LEMMA Counts ==
  ASSUME TypeInv, NEW r \in Reply
  PROVE  /\ Times(submitted, r) \in Nat /\ Times(pendingList, r) \in Nat
         /\ Times(events[r], "finish") \in Nat
<1>1. submitted \in Seq(Reply) /\ pendingList \in Seq(Reply) /\ events[r] \in Seq(Event)
  BY DEF TypeInv, OperationsTypeOK
<1> QED
  BY <1>1, TimesNat

\* The heads of the two queues.
LEMMA PostedHead ==
  ASSUME TypeInv, submitted # <<>>, NEW r \in Reply
  PROVE  /\ Head(submitted) \in Reply
         /\ Times(submitted, r) = Times(Tail(submitted), r) + (IF Head(submitted) = r THEN 1 ELSE 0)
         /\ Times(Append(pendingList, Head(submitted)), r)
              = Times(pendingList, r) + (IF Head(submitted) = r THEN 1 ELSE 0)
         /\ Times(Tail(submitted), r) \in Nat
<1>1. submitted \in Seq(Reply) /\ pendingList \in Seq(Reply)
  BY DEF TypeInv, OperationsTypeOK
<1>2. Head(submitted) \in Reply /\ Tail(submitted) \in Seq(Reply)
  BY <1>1
<1>3. Times(submitted, r) = Times(Tail(submitted), r) + (IF Head(submitted) = r THEN 1 ELSE 0)
  BY <1>1, TimesTail
<1>4. Times(Append(pendingList, Head(submitted)), r)
        = Times(pendingList, r) + (IF Head(submitted) = r THEN 1 ELSE 0)
  BY <1>1, <1>2, TimesAppend
<1>5. Times(Tail(submitted), r) \in Nat
  BY <1>2, TimesNat
<1> QED
  BY <1>2, <1>3, <1>4, <1>5

LEMMA PendingHead ==
  ASSUME TypeInv, pendingList # <<>>, NEW r \in Reply
  PROVE  /\ Head(pendingList) \in Reply
         /\ Times(pendingList, r)
              = Times(Tail(pendingList), r) + (IF Head(pendingList) = r THEN 1 ELSE 0)
         /\ Times(Tail(pendingList), r) \in Nat
<1>1. pendingList \in Seq(Reply)
  BY DEF TypeInv, OperationsTypeOK
<1>2. Head(pendingList) \in Reply /\ Tail(pendingList) \in Seq(Reply)
  BY <1>1
<1> QED
  BY <1>1, <1>2, TimesTail, TimesNat

LEMMA PlaceInit == OperationsInit => \A r \in Reply : PlaceInv(r)
<1> SUFFICES ASSUME OperationsInit, NEW r \in Reply PROVE PlaceInv(r)
  OBVIOUS
<1>1. /\ submitted = <<>> /\ pendingList = <<>> /\ events[r] = <<>> /\ current # r
      /\ reply[r] = "unused" /\ r \notin aborted
  BY OperationsAssumption DEF OperationsInit
<1>2. Times(<<>>, r) = 0
  <2>1. <<>> \in Seq(Reply) /\ \A i \in DOMAIN <<>> : <<>>[i] # r
    OBVIOUS
  <2> QED
    BY <2>1, TimesNone
<1>3. <<>> \in Unended /\ Times(<<>>, "finish") = 0 /\ <<>> # <<"finish">>
  BY EndedTimes, ShapeDisjoint
<1> QED
  BY <1>1, <1>2, <1>3 DEF PlaceInv, Open

\* The part of the state that says where r is does not change.
LEMMA PlaceKept ==
  ASSUME NEW r \in Reply, PlaceInv(r),
         UNCHANGED <<submitted, pendingList, current, aborted>>,
         events'[r] = events[r], reply'[r] = reply[r], outcome'[r] = outcome[r]
  PROVE  PlaceInv(r)'
  BY DEF PlaceInv, Open

LEMMA PlaceStep == OperationsInv /\ [OperationsNext]_operationsVars => \A r \in Reply : PlaceInv(r)'
<1> SUFFICES ASSUME OperationsInv, [OperationsNext]_operationsVars, NEW r \in Reply PROVE PlaceInv(r)'
  OBVIOUS
<1> USE OperationsAssumption
<1>0. TypeInv /\ PlaceInv(r) /\ OperationsTypeOK
  BY DEF OperationsInv, TypeInv
<1>1. /\ Times(submitted, r) \in Nat /\ Times(pendingList, r) \in Nat
      /\ Times(events[r], "finish") \in Nat
  BY <1>0, Counts
<1>2. ASSUME NEW m \in Manager, Application(m) \/ Continue(m)
      PROVE  PlaceInv(r)'
  <2>1. CASE EngageFirst(m) \/ EngageAnother(m) \/ Disengage(m) \/ Start(m) \/ Refer(m)
             \/ Quit(m) \/ Waited(m)
    BY <1>0, <2>1, PlaceKept DEF EngageFirst, EngageAnother, Disengage, Start, Refer, Quit, Waited,
       processor, replies
  <2>2. ASSUME NEW q \in Reply, LoadInterfaceRequest(m, q)
        PROVE  PlaceInv(r)'
    <3>1. Times(submitted', r) = Times(submitted, r) + (IF q = r THEN 1 ELSE 0)
      BY <1>0, <2>2, TimesAppend DEF LoadInterfaceRequest, OperationsTypeOK
    <3>2. /\ UNCHANGED <<pendingList, current, outcome, events, aborted>>
          /\ reply[q] = "unused" /\ reply' = [reply EXCEPT ![q] = "requested"]
      BY <2>2 DEF LoadInterfaceRequest, processor
    <3>3. reply'[r] = IF q = r THEN "requested" ELSE reply[r]
      BY <1>0, <3>2 DEF OperationsTypeOK
    <3>4. CASE q = r
      <4>1. events[r] = <<>> /\ r \notin aborted
        BY <1>0, <3>2, <3>4 DEF PlaceInv
      <4>2. <<>> # <<"finish">>
        OBVIOUS
      <4>3. ~Open(r) /\ Open(r)'
        BY <3>2, <3>3, <3>4, <4>1 DEF Open
      <4> QED
        BY <1>0, <1>1, <3>1, <3>2, <3>3, <3>4, <4>1, <4>2, <4>3 DEF PlaceInv
    <3>5. CASE q # r
      <4>1. Open(r)' <=> Open(r)
        BY <3>2, <3>3, <3>5 DEF Open
      <4> QED
        BY <1>0, <1>1, <3>1, <3>2, <3>3, <3>5, <4>1 DEF PlaceInv
    <3> QED
      BY <3>4, <3>5
  <2>3. CASE Terminate(m)
    <3>1. /\ current \in Reply /\ current' = NoReply /\ aborted' = aborted \cup {current}
          /\ UNCHANGED <<submitted, pendingList, reply, outcome, events>>
      BY <1>0, <2>3 DEF Terminate, TypeInv, OperationsTypeOK, replies
    <3>2. current' # r
      BY <3>1
    <3>3. CASE current = r
      <4>1. Open(r) /\ Times(events[r], "finish") = 0
        BY <1>0, <1>1, <3>3 DEF PlaceInv
      <4>2. ~Open(r)'
        BY <3>1, <3>3 DEF Open
      <4> QED
        BY <1>0, <1>1, <3>1, <3>2, <3>3, <4>1, <4>2 DEF PlaceInv, Open
    <3>4. CASE current # r
      <4>1. Open(r)' <=> Open(r)
        BY <3>1, <3>4 DEF Open
      <4> QED
        BY <1>0, <1>1, <3>1, <3>2, <3>4, <4>1 DEF PlaceInv
    <3> QED
      BY <3>3, <3>4
  <2> QED
    BY <1>2, <2>1, <2>2, <2>3 DEF Application, Continue
<1>3. CASE Background
  <2>1. CASE Exit \/ RequestsHandled
    BY <1>0, <2>1, PlaceKept DEF Exit, RequestsHandled, processor, replies
  <2>2. CASE HandleRequest \/ HandleNested
    <3>1. /\ submitted # <<>> /\ submitted' = Tail(submitted)
          /\ pendingList' = Append(pendingList, Head(submitted))
          /\ UNCHANGED <<current, reply, outcome, events, aborted>>
      BY <2>2 DEF HandleRequest, HandleNested, replies
    <3>2. Times(submitted', r) + Times(pendingList', r) = Times(submitted, r) + Times(pendingList, r)
      BY <1>0, <1>1, <3>1, PostedHead
    <3>3. Open(r)' <=> Open(r)
      BY <3>1 DEF Open
    <3> QED
      BY <1>0, <3>1, <3>2, <3>3 DEF PlaceInv
  <2>3. CASE TakePending
    <3> DEFINE q == Head(pendingList)
    <3>1. /\ pendingList # <<>> /\ pendingList' = Tail(pendingList) /\ thread = "handling"
          /\ UNCHANGED <<submitted, reply, outcome, aborted>>
          /\ \/ Post(q, <<"start", "error", "finish">>) /\ UNCHANGED current
             \/ Post(q, <<"start">>) /\ current' = q
      BY <2>3 DEF TakePending
    <3>2. q \in Reply /\ q # NoReply /\ current = NoReply
      BY <1>0, <3>1, PendingHead DEF TypeInv
    <3>3. /\ Times(pendingList, r) = Times(pendingList', r) + (IF q = r THEN 1 ELSE 0)
          /\ Times(pendingList', r) \in Nat
      BY <1>0, <3>1, PendingHead
    <3>4. Open(r)' <=> Open(r)
      BY <3>1 DEF Open
    <3>5. events \in [Reply -> Seq(Event)]
      BY <1>0 DEF TypeInv
    <3> HIDE DEF q
    <3>6. CASE q = r
      <4>1. Open(r) /\ events[r] = <<>>
        BY <1>0, <1>1, <3>3, <3>6 DEF PlaceInv
      <4>2. Times(submitted, r) = 0 /\ Times(pendingList', r) = 0
        BY <1>0, <1>1, <3>2, <3>3, <3>6, <4>1 DEF PlaceInv
      <4>3. \/ events'[r] = <<"start", "error", "finish">> /\ current' # r
            \/ events'[r] = <<"start">> /\ current' = r
        <5>1. \A evs \in Seq(Event) : <<>> \o evs = evs
          OBVIOUS
        <5>2. <<"start", "error", "finish">> \in Seq(Event) /\ <<"start">> \in Seq(Event)
          BY ShapeTypes DEF Unended, Ended, Results
        <5> QED
          BY <3>1, <3>2, <3>5, <3>6, <4>1, <5>1, <5>2 DEF Post
      <4>4. <<"start", "error", "finish">> \in Ended /\ <<"start">> \in Unended
        BY DEF Ended, Unended, Results
      <4>5. <<"start", "error", "finish">> # <<"finish">> /\ <<"start">> # <<"finish">>
        OBVIOUS
      <4>6. /\ events'[r] \in Unended \cup Ended /\ events'[r] # <<"finish">>
            /\ (IF current' = r THEN 1 ELSE 0) + Times(events'[r], "finish") = 1
        BY <4>3, <4>4, <4>5, EndedTimes
      <4>7. Times(submitted', r) = 0
        BY <3>1, <4>2
      <4>8. reply[r] \in {"requested", "running"} /\ reply'[r] = reply[r]
        BY <3>1, <4>1 DEF Open
      <4> QED
        BY <3>4, <4>1, <4>2, <4>6, <4>7, <4>8 DEF PlaceInv
    <3>7. CASE q # r
      <4>1. events'[r] = events[r] /\ (current' = r <=> current = r)
        BY <3>1, <3>2, <3>5, <3>7 DEF Post
      <4>2. Times(pendingList', r) = Times(pendingList, r) /\ Times(submitted', r) = Times(submitted, r)
        BY <1>1, <3>1, <3>3, <3>7
      <4>3. reply'[r] = reply[r] /\ outcome'[r] = outcome[r] /\ (r \in aborted' <=> r \in aborted)
        BY <3>1
      <4> QED
        BY <1>0, <3>4, <4>1, <4>2, <4>3 DEF PlaceInv
    <3> QED
      BY <3>6, <3>7
  <2>4. CASE Loaded
    <3>1. /\ current \in Reply /\ current' = NoReply
          /\ UNCHANGED <<submitted, pendingList, reply, outcome, aborted>>
          /\ events \in [Reply -> Seq(Event)]
      BY <1>0, <2>4 DEF Loaded, TypeInv, OperationsTypeOK
    <3>2. PICK o \in Results : Post(current, <<o, "finish">>)
      BY <2>4 DEF Loaded, Results
    <3>3. Open(r)' <=> Open(r)
      BY <3>1 DEF Open
    <3>4. current' # r
      BY <3>1
    <3>5. CASE current = r
      <4>1. Open(r) /\ Times(events[r], "finish") = 0 /\ Times(submitted, r) + Times(pendingList, r) = 0
        BY <1>0, <1>1, <3>5 DEF PlaceInv
      <4>2. events[r] \in Unended
        BY <1>0, <4>1, EndedTimes DEF PlaceInv
      <4>3. events'[r] = events[r] \o <<o, "finish">>
        BY <3>1, <3>2, <3>5 DEF Post
      <4>4. events'[r] = <<o, "finish">> \/ events'[r] = <<"start", o, "finish">>
        <5>1. <<o, "finish">> \in Seq(Event)
          BY ShapeTypes DEF Ended
        <5>2. <<>> \o <<o, "finish">> = <<o, "finish">>
          BY <5>1
        <5>3. <<"start">> \o <<o, "finish">> = <<"start", o, "finish">>
          <6> DEFINE a == <<"start">>
                     b == <<o, "finish">>
                     c == <<"start", o, "finish">>
          <6>1. a \in Seq(Event) /\ b \in Seq(Event) /\ c \in Seq(Event)
            BY ShapeTypes DEF Unended, Ended
          <6>2. /\ Len(a) = 1 /\ a[1] = "start"
                /\ Len(b) = 2 /\ b[1] = o /\ b[2] = "finish"
                /\ Len(c) = 3 /\ c[1] = "start" /\ c[2] = o /\ c[3] = "finish"
            OBVIOUS
          <6> HIDE DEF a, b, c
          <6>3. /\ a \o b \in Seq(Event) /\ Len(a \o b) = 3
                /\ \A i \in 1 .. 3 : (a \o b)[i] = IF i <= 1 THEN a[i] ELSE b[i - 1]
            <7>1. /\ a \o b \in Seq(Event) /\ Len(a \o b) = Len(a) + Len(b)
                  /\ \A i \in 1 .. Len(a) + Len(b) :
                       (a \o b)[i] = IF i <= Len(a) THEN a[i] ELSE b[i - Len(a)]
              BY <6>1, ConcatProperties, Zenon
            <7> QED
              BY <6>2, <7>1
          <6>4. (a \o b)[1] = c[1] /\ (a \o b)[2] = c[2] /\ (a \o b)[3] = c[3]
            BY <6>2, <6>3
          <6>5. \A i \in 1 .. 3 : i = 1 \/ i = 2 \/ i = 3
            OBVIOUS
          <6>6. a \o b = c
            BY <6>1, <6>2, <6>3, <6>4, <6>5, SeqEqual
          <6> QED
            BY <6>6 DEF a, b, c
        <5> QED
          BY <4>2, <4>3, <5>2, <5>3 DEF Unended
      <4>5. events'[r] \in Ended /\ events'[r] # <<"finish">>
        BY <4>4 DEF Ended, Results
      <4>6. Times(events'[r], "finish") = 1
        BY <4>5, EndedTimes
      <4>7. reply[r] \in {"requested", "running"} /\ reply'[r] = reply[r]
        BY <3>1, <4>1 DEF Open
      <4> QED
        BY <1>1, <3>1, <3>3, <3>4, <4>1, <4>5, <4>6, <4>7 DEF PlaceInv
    <3>6. CASE current # r
      <4>1. events'[r] = events[r]
        BY <3>1, <3>2, <3>6 DEF Post
      <4> QED
        BY <1>0, <1>1, <3>1, <3>3, <3>4, <3>6, <4>1 DEF PlaceInv
    <3> QED
      BY <3>5, <3>6
  <2> QED
    BY <1>3, <2>1, <2>2, <2>3, <2>4 DEF Background
<1>4. ASSUME NEW q \in Reply, Deliver(q)
      PROVE  PlaceInv(r)'
  <2>1. /\ UNCHANGED <<submitted, pendingList, current, aborted>>
        /\ events[q] # <<>> /\ events' = [events EXCEPT ![q] = Tail(@)]
    BY <1>4 DEF Deliver, processor
  <2>2. CASE q # r
    <3>1. /\ events'[r] = events[r] /\ reply'[r] = reply[r] /\ outcome'[r] = outcome[r]
      BY <1>0, <1>4, <2>2 DEF Deliver, TypeInv, OperationsTypeOK
    <3> QED
      BY <1>0, <2>1, <3>1, PlaceKept
  <2>3. CASE q = r
    <3> DEFINE s == events[r]
    <3>1. s # <<>> /\ events'[r] = Tail(s) /\ s \in Unended \cup Ended
      BY <1>0, <2>1, <2>3 DEF TypeInv, PlaceInv
    <3>2. /\ reply[r] \in {"requested", "running"}
          /\ Times(submitted, r) + Times(pendingList, r) = 0
      BY <1>0, <1>1, <3>1 DEF PlaceInv
    <3>3. /\ Head(s) = "start" => reply'[r] = "running" /\ outcome'[r] = outcome[r]
          /\ Head(s) = "finish" => reply'[r] = "finished" /\ outcome'[r] = outcome[r]
          /\ Head(s) \in Results => reply'[r] = reply[r] /\ outcome'[r] = Head(s)
      BY <1>0, <1>4, <2>3 DEF Deliver, OperationsTypeOK, Results
    <3>4. Tail(s) \in Unended \cup Ended
      BY <3>1, ShapeTail, ShapeDisjoint
    <3>5. CASE s \in Unended
      <4>1. Head(s) = "start" /\ Tail(s) = <<>> /\ Times(s, "finish") = 0
        BY <3>1, <3>5, ShapeTail, ShapeDisjoint, EndedTimes
      <4>2. Open(r)' <=> Open(r)
        BY <2>1, <3>2, <3>3, <4>1 DEF Open
      <4>3. Times(Tail(s), "finish") = 0
        BY <4>1, ShapeDisjoint, EndedTimes
      <4>4. Tail(s) # <<"finish">> /\ reply'[r] = "running"
        BY <3>3, <4>1
      <4> QED
        BY <1>0, <2>1, <3>1, <3>4, <4>1, <4>2, <4>3, <4>4, <3>2 DEF PlaceInv
    <3>6. CASE s = <<"finish">>
      <4>1. Head(s) = "finish" /\ Tail(s) = <<>> /\ Times(s, "finish") = 1
        BY <3>6, ShapeDisjoint, EndedTimes
      <4>2. Times(Tail(s), "finish") = 0
        BY <4>1, ShapeDisjoint, EndedTimes
      <4>3. Open(r) /\ current # r /\ outcome[r] # "none"
        BY <1>0, <1>1, <3>2, <3>6, <4>1 DEF PlaceInv
      <4>4. reply'[r] = "finished" /\ outcome'[r] # "none" /\ r \notin aborted'
        BY <2>1, <3>3, <4>1, <4>3 DEF Open
      <4>5. ~Open(r)'
        BY <4>4 DEF Open
      <4> QED
        BY <2>1, <3>1, <3>2, <3>4, <4>1, <4>2, <4>3, <4>4, <4>5 DEF PlaceInv
    <3>7. CASE s \in Ended /\ s # <<"finish">>
      <4>1. \/ Head(s) \in Results /\ Tail(s) = <<"finish">>
            \/ Head(s) = "start" /\ Tail(s) \in Ended /\ Tail(s) # <<"finish">>
        BY <3>1, <3>7, ShapeTail, ShapeDisjoint
      <4>2. Tail(s) \in Ended /\ Times(s, "finish") = 1 /\ Times(Tail(s), "finish") = 1
        BY <3>7, <4>1, ShapeDisjoint, EndedTimes
      <4>3. reply'[r] \in {"requested", "running"}
        BY <3>2, <3>3, <4>1
      <4>4. Open(r)' <=> Open(r)
        BY <2>1, <3>2, <4>3 DEF Open
      <4>5. Tail(s) = <<"finish">> => outcome'[r] # "none"
        BY <3>3, <4>1 DEF Results
      <4> QED
        BY <1>0, <2>1, <3>1, <3>2, <3>4, <4>2, <4>3, <4>4, <4>5 DEF PlaceInv
    <3> QED
      BY <3>1, <3>5, <3>6, <3>7
  <2> QED
    BY <2>2, <2>3
<1>5. CASE UNCHANGED operationsVars
  BY <1>0, <1>5, PlaceKept DEF operationsVars, processor, replies
<1> QED
  BY <1>2, <1>3, <1>4, <1>5 DEF OperationsNext

LEMMA Inductive == OperationsSpec => []OperationsInv
<1>1. OperationsInit => OperationsInv
  BY TypeInit, PlaceInit DEF OperationsInv
<1>2. OperationsInv /\ [OperationsNext]_operationsVars => OperationsInv'
  BY TypeStep, PlaceStep DEF OperationsInv
<1> QED
  BY <1>1, <1>2, PTL DEF OperationsSpec

\* Each request is in one place until its reply is finished, neither lost nor handled
\* twice, however many managers come and go, threads end and begin, and requests
\* arrive within others.
THEOREM RequestsOnce == OperationsSpec => []EachRequestOnce
<1>1. OperationsInv => EachRequestOnce
  <2> SUFFICES ASSUME OperationsInv, NEW r \in Reply \ aborted
               PROVE  Unfinished(r) = IF reply[r] \in {"requested", "running"} THEN 1 ELSE 0
    BY DEF EachRequestOnce
  <2>1. PlaceInv(r)
    BY DEF OperationsInv
  <2>2. Unfinished(r) = Times(submitted, r) + Times(pendingList, r) + (IF current = r THEN 1 ELSE 0)
                     + Times(events[r], "finish")
    BY DEF Unfinished, Times
  <2> QED
    BY <2>1, <2>2 DEF PlaceInv, Open
<1> QED
  BY <1>1, Inductive, PTL

\* A reply starts and finishes once, in that order, and has its result before it is
\* finished.
THEOREM RepliesInOrder == OperationsSpec => ReplyInOrder
<1> DEFINE InOrder ==
      \A r \in Reply :
        /\ reply[r] = "finished" => reply'[r] = "finished" /\ outcome'[r] = outcome[r]
        /\ reply'[r] = "running" => reply[r] \in {"requested", "running"}
        /\ reply'[r] = "finished" => outcome'[r] # "none"
<1>1. OperationsInv /\ OperationsInv' /\ [OperationsNext]_operationsVars => [InOrder]_operationsVars
  <2> SUFFICES ASSUME OperationsInv, OperationsInv', OperationsNext, NEW r \in Reply
               PROVE  /\ reply[r] = "finished" => reply'[r] = "finished" /\ outcome'[r] = outcome[r]
                      /\ reply'[r] = "running" => reply[r] \in {"requested", "running"}
                      /\ reply'[r] = "finished" => outcome'[r] # "none"
    OBVIOUS
  <2>1. PlaceInv(r) /\ PlaceInv(r)' /\ OperationsTypeOK
    BY DEF OperationsInv, TypeInv
  <2>2. reply'[r] = "finished" => outcome'[r] # "none"
    BY <2>1 DEF PlaceInv
  <2>3. \/ reply'[r] = reply[r] /\ outcome'[r] = outcome[r]
        \/ reply[r] = "unused" /\ reply'[r] = "requested"
        \/ events[r] # <<>>
    <3>1. ASSUME NEW m \in Manager, Application(m) \/ Continue(m)
          PROVE  \/ reply'[r] = reply[r] /\ outcome'[r] = outcome[r]
                 \/ reply[r] = "unused" /\ reply'[r] = "requested"
      BY <2>1, <3>1 DEF Application, Continue, EngageFirst, EngageAnother, Disengage, Start, Refer,
         Quit, Waited, Terminate, LoadInterfaceRequest, OperationsTypeOK, replies
    <3>2. CASE Background
      BY <3>2 DEF Background, Exit, HandleRequest, HandleNested, TakePending, Loaded,
         RequestsHandled, replies
    <3>3. ASSUME NEW q \in Reply, Deliver(q), events[r] = <<>>
          PROVE  reply'[r] = reply[r] /\ outcome'[r] = outcome[r]
      <4>1. q # r
        BY <3>3 DEF Deliver
      <4> QED
        BY <2>1, <3>3, <4>1 DEF Deliver, OperationsTypeOK
    <3> QED
      BY <3>1, <3>2, <3>3 DEF OperationsNext
  <2>4. events[r] # <<>> => reply[r] \in {"requested", "running"}
    BY <2>1 DEF PlaceInv
  <2> QED
    BY <2>2, <2>3, <2>4
<1> QED
  BY <1>1, Inductive, PTL DEF OperationsSpec, ReplyInOrder
-----------------------------------------------------------------------------
(***************************************************************************)
(* The thread, when all managers live in one: the manager that is on its   *)
(* way in or out is alone, and those who go leave no one engaged behind.   *)
(***************************************************************************)
AloneInv == \A m, n \in Manager : m # n /\ manager[m] \notin Resting => manager[n] \in Resting

Leaving == {"quitting", "waiting"}

ThreadInv ==
  /\ \A m, n \in Manager : manager[m] \in Leaving \cup {"starting"} => manager[n] # "engaged"
  /\ \A m \in Manager : manager[m] = "referring" => \E n \in Manager : manager[n] = "engaged"
  /\ (\E m \in Manager : manager[m] = "engaged") => thread # "stopped" /\ ~exiting
  /\ (\A m \in Manager : manager[m] \notin {"engaged"} \cup Leaving) => thread = "stopped"

\* What the count tells.
LEMMA CountTells ==
  ASSUME TypeInv
  PROVE  /\ engageCount = 0 <=> \A m \in Manager : manager[m] \notin Counted
         /\ \A m \in Manager : engageCount = 1 /\ manager[m] \in Counted
              => \A n \in Manager \ {m} : manager[n] \notin Counted
         /\ \A m \in Manager : engageCount # 1 /\ manager[m] \in Counted
              => \E n \in Manager \ {m} : manager[n] \in Counted
<1>1. IsFiniteSet(Engaging) /\ engageCount = Cardinality(Engaging)
  BY DEF TypeInv
<1>2. engageCount = 0 <=> Engaging = {}
  BY <1>1, FS_EmptySet
<1>3. ASSUME NEW m \in Engaging
      PROVE  engageCount = 1 <=> Engaging \ {m} = {}
  <2>1. /\ IsFiniteSet(Engaging \ {m})
        /\ Cardinality(Engaging \ {m}) = Cardinality(Engaging) - 1
    BY <1>1, <1>3, FS_RemoveElement
  <2>2. Cardinality(Engaging \ {m}) = 0 <=> Engaging \ {m} = {}
    BY <2>1, FS_EmptySet
  <2>3. Cardinality(Engaging) \in Nat
    BY <1>1, FS_CardinalityType
  <2> HIDE DEF Engaging
  <2> QED
    BY <1>1, <2>1, <2>2, <2>3
<1>4. \A m \in Manager : m \in Engaging <=> manager[m] \in Counted
  BY DEF Engaging, Counted
<1>5. Engaging \subseteq Manager
  BY DEF Engaging
<1> HIDE DEF Engaging
<1> QED
  BY <1>2, <1>3, <1>4, <1>5

LEMMA AloneStep ==
  ASSUME SameThread, TypeInv, AloneInv, [OperationsNext]_operationsVars
  PROVE  AloneInv'
<1>1. manager \in [Manager -> Places]
  BY DEF TypeInv, OperationsTypeOK
<1>2. ASSUME NEW m \in Manager, Application(m) \/ Continue(m)
      PROVE  AloneInv'
  <2>1. \/ UNCHANGED manager
        \/ Foreground(m) /\ \E place \in Places : MoveTo(m, place)
    BY <1>2 DEF Application, Continue, EngageFirst, EngageAnother, Disengage, Start, Refer, Quit,
       Waited, Terminate, LoadInterfaceRequest, At, facade, Places, Resting
  <2> QED
    BY <1>1, <2>1 DEF AloneInv, Foreground, MoveTo
<1>3. CASE Background
  BY <1>3 DEF Background, Exit, HandleRequest, HandleNested, TakePending, Loaded, RequestsHandled,
     facade, AloneInv
<1>4. ASSUME NEW r \in Reply, Deliver(r)
      PROVE  AloneInv'
  BY <1>4 DEF Deliver, facade, AloneInv
<1>5. CASE UNCHANGED operationsVars
  BY <1>5 DEF operationsVars, facade, AloneInv
<1> QED
  BY <1>2, <1>3, <1>4, <1>5 DEF OperationsNext

LEMMA ThreadStep ==
  ASSUME SameThread, TypeInv, AloneInv, ThreadInv, [OperationsNext]_operationsVars
  PROVE  ThreadInv'
<1>1. manager \in [Manager -> Places]
  BY DEF TypeInv, OperationsTypeOK
<1>2. ASSUME NEW m \in Manager, Application(m) \/ Continue(m)
      PROVE  ThreadInv'
  <2> DEFINE Alone == \A n \in Manager \ {m} : manager[n] \in Resting
  <2>1. CASE EngageFirst(m)
    <3>1. /\ manager[m] = "idle" /\ manager' = [manager EXCEPT ![m] = "starting"] /\ Alone
          /\ UNCHANGED <<thread, exiting>> /\ engageCount = 0
      BY <2>1 DEF EngageFirst, At, Foreground, MoveTo
    <3>2. \A n \in Manager : manager[n] = "idle"
      BY <3>1, CountTells DEF Counted, Resting
    <3> QED
      BY <1>1, <3>1, <3>2 DEF ThreadInv, Leaving
  <2>2. CASE EngageAnother(m)
    <3>1. /\ manager[m] = "idle" /\ manager' = [manager EXCEPT ![m] = "referring"] /\ Alone
          /\ UNCHANGED <<thread, exiting>> /\ engageCount # 0
      BY <2>2 DEF EngageAnother, At, Foreground, MoveTo
    <3>2. \E n \in Manager \ {m} : manager[n] = "engaged"
      BY <3>1, CountTells DEF Counted, Resting
    <3> QED
      BY <1>1, <3>1, <3>2 DEF ThreadInv, Leaving
  <2>3. CASE Disengage(m)
    <3>1. /\ manager[m] = "engaged" /\ Alone /\ UNCHANGED <<thread, exiting>>
          /\ engageCount' = engageCount - 1
          /\ manager' = [manager EXCEPT ![m] = IF engageCount' = 0 THEN "quitting" ELSE "idle"]
      BY <2>3 DEF Disengage, At, Foreground, MoveTo
    <3>2. engageCount' = 0 <=> engageCount = 1
      BY <3>1 DEF TypeInv, OperationsTypeOK
    <3>3. CASE engageCount = 1
      <4>1. \A n \in Manager \ {m} : manager[n] = "idle"
        BY <3>1, <3>3, CountTells DEF Counted, Resting
      <4> QED
        BY <1>1, <3>1, <3>2, <3>3, <4>1 DEF ThreadInv, Leaving
    <3>4. CASE engageCount # 1
      <4>1. \E n \in Manager \ {m} : manager[n] = "engaged"
        BY <3>1, <3>4, CountTells DEF Counted, Resting
      <4> QED
        BY <1>1, <3>1, <3>2, <3>4, <4>1 DEF ThreadInv, Leaving, Resting
    <3> QED
      BY <3>3, <3>4
  <2>4. ASSUME NEW r \in Reply, LoadInterfaceRequest(m, r)
        PROVE  ThreadInv'
    BY <2>4 DEF LoadInterfaceRequest, facade, ThreadInv
  <2>5. CASE Start(m)
    <3>1. /\ manager[m] = "starting" /\ manager' = [manager EXCEPT ![m] = "engaged"] /\ Alone
          /\ IF thread = "stopped" THEN thread' = "running" /\ exiting' = FALSE
             ELSE UNCHANGED <<thread, exiting>>
      BY <2>5 DEF Start, At, Foreground, MoveTo
    <3>2. \A n \in Manager \ {m} : manager[n] = "idle"
      BY <3>1 DEF ThreadInv, Resting
    <3>3. thread = "stopped"
      BY <3>1, <3>2 DEF ThreadInv, Leaving
    <3> QED
      BY <1>1, <3>1, <3>2, <3>3 DEF ThreadInv, Leaving
  <2>6. CASE Refer(m)
    <3>1. /\ manager[m] = "referring" /\ manager' = [manager EXCEPT ![m] = "engaged"] /\ Alone
          /\ UNCHANGED <<thread, exiting>>
      BY <2>6 DEF Refer, At, Foreground, MoveTo
    <3> QED
      BY <1>1, <3>1 DEF ThreadInv, Leaving, Resting
  <2>7. CASE Quit(m)
    <3>1. /\ manager[m] = "quitting" /\ manager' = [manager EXCEPT ![m] = "waiting"] /\ Alone
          /\ UNCHANGED thread
      BY <2>7 DEF Quit, At, Foreground, MoveTo
    <3> QED
      BY <1>1, <3>1 DEF ThreadInv, Leaving, Resting
  <2>8. CASE Waited(m) \/ Terminate(m)
    <3>1. /\ manager[m] = "waiting" /\ manager' = [manager EXCEPT ![m] = "idle"] /\ Alone
          /\ thread' = "stopped" /\ UNCHANGED exiting
      BY <2>8 DEF Waited, Terminate, At, Foreground, MoveTo
    <3> QED
      BY <1>1, <3>1 DEF ThreadInv, Leaving, Resting
  <2> QED
    BY <1>2, <2>1, <2>2, <2>3, <2>4, <2>5, <2>6, <2>7, <2>8 DEF Application, Continue
<1>3. CASE Background
  <2>1. UNCHANGED <<manager, exiting>> /\ thread # "stopped"
    BY <1>3 DEF Background, Exit, HandleRequest, HandleNested, TakePending, Loaded,
       RequestsHandled, facade
  <2>2. thread' = "stopped" => exiting
    BY <1>3 DEF Background, Exit, HandleRequest, HandleNested, TakePending, Loaded,
       RequestsHandled
  <2> QED
    BY <2>1, <2>2 DEF ThreadInv
<1>4. ASSUME NEW r \in Reply, Deliver(r)
      PROVE  ThreadInv'
  BY <1>4 DEF Deliver, facade, ThreadInv
<1>5. CASE UNCHANGED operationsVars
  BY <1>5 DEF operationsVars, facade, ThreadInv
<1> QED
  BY <1>2, <1>3, <1>4, <1>5 DEF OperationsNext

\* Managers of one thread never find the background thread gone or going while one
\* of them is engaged and none comes or goes.
THEOREM ManagersServed == SameThread => (OperationsSpec => []EngagedIsServed)
<1> SUFFICES ASSUME SameThread PROVE OperationsSpec => []EngagedIsServed
  OBVIOUS
<1>1. OperationsInit => AloneInv /\ ThreadInv
  BY DEF OperationsInit, AloneInv, ThreadInv, Resting, Leaving
<1>2. TypeInv /\ (AloneInv /\ ThreadInv) /\ [OperationsNext]_operationsVars => (AloneInv /\ ThreadInv)'
  BY AloneStep, ThreadStep
<1>3. AloneInv /\ ThreadInv => EngagedIsServed
  BY DEF ThreadInv, EngagedIsServed
<1> QED
  BY <1>1, <1>2, <1>3, TypeInit, TypeStep, PTL DEF OperationsSpec
=============================================================================
