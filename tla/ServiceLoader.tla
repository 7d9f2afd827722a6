------------------------------- MODULE ServiceLoader -------------------------------
(***************************************************************************)
(* The QML element ServiceLoader (qdeclarativeservice.cpp): it loads the   *)
(* service its interfaceName or serviceDescriptor names, by a request or   *)
(* blocking, and starts over whenever one of them changes.  Its signals    *)
(* run the handlers of the document at once, and a handler may set the     *)
(* properties again: the functions interrupted by a signal are a stack.    *)
(* Two pointers outlive what they point to: m_serviceReply, which          *)
(* startLoading deletes, and m_serviceObject, which the end of the service *)
(* deletes.                                                                *)
(***************************************************************************)
EXTENDS Naturals, Sequences

CONSTANTS Name,        \* interface names
          Descriptor,  \* service descriptors
          MaxChanges   \* bound on what the application sets

VARIABLES
  background,      \* QT_NO_SFW_BACKGROUND_OPERATION is not set
  interfaceName, serviceDescriptor, asynchronous, componentComplete,
  status,
  serviceReply,    \* where m_serviceReply points
  serviceObject,   \* where m_serviceObject points; "fresh" before the connect
  serviceManager,  \* m_serviceManager # 0
  orphans,         \* requests that are answered, but m_serviceReply left
  abandoned,       \* an object let go of, not yet deleted, still connected
  leaked,          \* an object overwritten, never deleted, still connected
  stack,           \* where each interrupted function goes on, the innermost first
  lost,            \* nobody serves the last request, or its manager goes (history)
  crashed,         \* a deleted object or no object was used
  changes

properties == <<interfaceName, serviceDescriptor, asynchronous, componentComplete>>
objects == <<serviceObject, abandoned, leaked>>
requests == <<serviceReply, serviceManager, orphans, lost>>
vars == <<background, properties, status, objects, requests, stack, crashed, changes>>

Unset == "none"

\* What is left of a function: the step it goes on with, whether the handlers run
\* before, and whether there was an object when it began (prevObject).
Ending == {"failed", "reported", "connect", "finish"}
Frames == [at : {"name", "descriptor", "start", "complete", "fault"} \cup Ending,
           heard : BOOLEAN, had : BOOLEAN]
Frame(at, heard, had) == [at |-> at, heard |-> heard, had |-> had]

TypeOK ==
  /\ background \in BOOLEAN
  /\ interfaceName \in Name \cup {Unset}
  /\ serviceDescriptor \in Descriptor \cup {Unset}
  /\ asynchronous \in BOOLEAN /\ componentComplete \in BOOLEAN
  /\ status \in {"Null", "Ready", "Loading", "Error"}
  /\ serviceReply \in {"null", "pending", "deleted"}
  /\ serviceObject \in {"null", "fresh", "alive", "dying", "deleted"}
  /\ serviceManager \in BOOLEAN /\ orphans \in Nat
  /\ abandoned \in BOOLEAN /\ leaked \in BOOLEAN
  /\ stack \in Seq(Frames)
  /\ lost \in BOOLEAN /\ crashed \in BOOLEAN
  /\ changes \in 0..MaxChanges

Init ==
  /\ background \in BOOLEAN
  /\ interfaceName = Unset /\ serviceDescriptor = Unset
  /\ asynchronous = TRUE /\ componentComplete = FALSE
  /\ status = "Null"
  /\ serviceReply = "null" /\ serviceObject = "null"
  /\ serviceManager = FALSE /\ orphans = 0
  /\ abandoned = FALSE /\ leaked = FALSE
  /\ stack = <<>> /\ lost = FALSE /\ crashed = FALSE
  /\ changes = 0
-----------------------------------------------------------------------------
(***************************************************************************)
(* Loading.  rest is what is interrupted below the function at hand.       *)
(***************************************************************************)
Crash(rest) ==
  /\ crashed' = TRUE /\ stack' = rest
  /\ UNCHANGED <<status, objects, requests>>

\* finishLoading has its answer, which may come without an object: the status is
\* set, and its signal sent, before the object is connected, its own signal sent and
\* the manager deleted.
Answer(object, manager, rest) ==
  LET had == serviceObject # "null" IN
  /\ leaked' = (leaked \/ serviceObject = "alive")
  /\ abandoned' = (abandoned \/ serviceObject = "dying")
  /\ serviceReply' = "null" /\ serviceManager' = manager
  /\ \/ /\ status' = "Ready"
        /\ serviceObject' = object
        /\ stack' = <<Frame("connect", status # "Ready", had)>> \o rest
     \/ /\ serviceObject' = "null"
        /\ IF asynchronous
           THEN /\ status' = "Error"
                /\ stack' = <<Frame("reported", status # "Error", had)>> \o rest
           ELSE /\ stack' = <<Frame("failed", TRUE, had)>> \o rest
                /\ UNCHANGED status
  /\ UNCHANGED <<lost, crashed>>

\* finishLoading when m_serviceReply has no answer: it is waited for, or the object
\* is loaded on the spot.  Of the requests left behind some are still to be answered.
FinishUnasked(reply, manager, left, rest) ==
  IF reply = "deleted" \/ (reply = "null" /\ ~manager) THEN Crash(rest)
  ELSE /\ orphans' = left
       /\ IF reply = "null" THEN Answer("fresh", manager, rest)
          ELSE /\ serviceReply' = reply /\ serviceManager' = manager /\ stack' = rest
               /\ UNCHANGED <<status, objects, lost, crashed>>

\* What a new request gets: by name none where background operations are off.
Request == IF serviceDescriptor = Unset /\ ~background THEN "null" ELSE "pending"

\* startLoading, once the object is let go of.
Load(reply, rest) ==
  \/ /\ serviceDescriptor = Unset /\ interfaceName = Unset
     /\ status' = "Null" /\ serviceReply' = reply /\ stack' = rest
     /\ UNCHANGED <<objects, serviceManager, orphans, lost, crashed>>
  \/ /\ serviceDescriptor # Unset \/ interfaceName # Unset
     /\ asynchronous
     /\ serviceReply' = Request /\ serviceManager' = TRUE /\ status' = "Loading"
     /\ orphans' = IF reply = "pending" THEN orphans + 1 ELSE orphans
     /\ lost' = \/ Request = "null"
                \/ \E i \in DOMAIN rest : rest[i].at \in Ending
     /\ stack' = rest
     /\ UNCHANGED <<objects, crashed>>
  \/ /\ serviceDescriptor # Unset \/ interfaceName # Unset
     /\ ~asynchronous
     /\ FinishUnasked(reply, TRUE, orphans, rest)

\* startLoading: the pending request is deleted and the pointer kept; the object
\* is left to deleteLater and its absence told.
StartLoading(rest) ==
  LET reply == IF serviceReply = "null" THEN "null" ELSE "deleted" IN
  IF serviceReply = "deleted" \/ serviceObject = "deleted" THEN Crash(rest)
  ELSE IF serviceObject # "null"
  THEN /\ abandoned' = (abandoned \/ serviceObject \in {"alive", "dying"})
       /\ serviceObject' = "null"
       /\ serviceReply' = reply
       /\ stack' = <<Frame("start", TRUE, FALSE)>> \o rest
       /\ UNCHANGED <<status, leaked, serviceManager, orphans, lost, crashed>>
  ELSE Load(reply, rest)

Idle(rest) ==
  stack' = rest /\ UNCHANGED <<status, objects, requests, crashed>>
-----------------------------------------------------------------------------
(***************************************************************************)
(* What the document sets, from outside or from a handler of a signal.     *)
(***************************************************************************)
Heard == stack # <<>> => Head(stack).heard
Change == ~crashed /\ Heard /\ changes < MaxChanges /\ changes' = changes + 1
Changed(at) == /\ stack' = <<Frame(at, TRUE, FALSE)>> \o stack
               /\ UNCHANGED <<background, asynchronous, componentComplete, status, objects,
                              requests, crashed>>

SetInterfaceName(n) ==
  /\ Change /\ n # interfaceName
  /\ interfaceName' = n
  /\ Changed("name")
  /\ UNCHANGED serviceDescriptor

SetServiceDescriptor(d) ==
  /\ Change /\ d # serviceDescriptor
  /\ serviceDescriptor' = d
  /\ Changed("descriptor")
  /\ UNCHANGED interfaceName

SetAsynchronous ==
  /\ Change
  /\ asynchronous' = ~asynchronous
  /\ UNCHANGED <<background, interfaceName, serviceDescriptor, componentComplete, status,
                 objects, requests, stack, crashed>>

ComponentComplete ==
  /\ ~crashed /\ stack = <<>> /\ ~componentComplete
  /\ IF interfaceName # Unset \/ serviceDescriptor # Unset
     THEN /\ StartLoading(<<Frame("complete", TRUE, FALSE)>>)
          /\ UNCHANGED componentComplete
     ELSE /\ componentComplete' = TRUE
          /\ UNCHANGED <<status, objects, requests, stack, crashed>>
  /\ UNCHANGED <<background, interfaceName, serviceDescriptor, asynchronous, changes>>
-----------------------------------------------------------------------------
(***************************************************************************)
(* The handlers of a signal return, and the function goes on.              *)
(***************************************************************************)
\* The new object is connected to IPCFault, and then told of.
Connect(had, rest) ==
  IF serviceObject = "deleted" THEN Crash(rest)
  ELSE /\ serviceObject' = IF serviceObject = "fresh" THEN "alive" ELSE serviceObject
       /\ stack' = <<Frame("finish", had \/ serviceObject # "null", had)>> \o rest
       /\ UNCHANGED <<status, abandoned, leaked, requests, crashed>>

Tell(had, rest) ==
  /\ stack' = <<Frame("finish", had \/ serviceObject # "null", had)>> \o rest
  /\ UNCHANGED <<status, objects, requests, crashed>>

Fail(had, rest) ==
  /\ status' = "Error"
  /\ stack' = <<Frame("reported", status # "Error", had)>> \o rest
  /\ UNCHANGED <<objects, requests, crashed>>

DeleteManager(rest) ==
  /\ serviceManager' = FALSE /\ stack' = rest
  /\ UNCHANGED <<status, objects, serviceReply, orphans, lost, crashed>>

DeleteFaulty(rest) ==
  IF serviceObject \in {"null", "deleted"} THEN Crash(rest)
  ELSE /\ serviceObject' = IF serviceObject = "alive" THEN "dying" ELSE serviceObject
       /\ stack' = rest
       /\ UNCHANGED <<status, abandoned, leaked, requests, crashed>>

Return ==
  /\ ~crashed /\ stack # <<>>
  /\ LET at == Head(stack).at
         had == Head(stack).had
         rest == Tail(stack) IN
     /\ CASE at = "name" -> IF serviceDescriptor = Unset /\ componentComplete
                            THEN StartLoading(rest) ELSE Idle(rest)
          [] at = "descriptor" -> IF componentComplete THEN StartLoading(rest) ELSE Idle(rest)
          [] at = "start" -> Load(serviceReply, rest)
          [] at = "complete" -> Idle(rest)
          [] at = "failed" -> Fail(had, rest)
          [] at = "reported" -> Tell(had, rest)
          [] at = "connect" -> Connect(had, rest)
          [] at = "finish" -> DeleteManager(rest)
          [] at = "fault" -> DeleteFaulty(rest)
     /\ componentComplete' = (componentComplete \/ at = "complete")
  /\ UNCHANGED <<background, interfaceName, serviceDescriptor, asynchronous, changes>>
-----------------------------------------------------------------------------
(***************************************************************************)
(* What the event loop delivers.                                           *)
(***************************************************************************)
EventLoop == ~crashed /\ stack = <<>>

\* The request of m_serviceReply has an answer.  Requests are answered in turn.
FinishLoading ==
  /\ EventLoop /\ serviceReply = "pending" /\ orphans = 0
  /\ \E object \in {"fresh", "null"} : Answer(object, serviceManager, <<>>)
  /\ UNCHANGED orphans
  /\ UNCHANGED <<background, properties, changes>>

\* A request has an answer that m_serviceReply has left.
FinishOrphan ==
  /\ EventLoop /\ orphans > 0
  /\ FinishUnasked(serviceReply, serviceManager, orphans - 1, <<>>)
  /\ UNCHANGED <<background, properties, changes>>

\* The service ends.  The signal of an object let go of is taken for one of the
\* present object.
IPCFault ==
  /\ EventLoop
  /\ serviceObject \in {"alive", "dying"} \/ abandoned \/ leaked
  /\ status' = "Error"
  /\ stack' = <<Frame("fault", status # "Error", FALSE)>>
  /\ UNCHANGED <<background, properties, objects, requests, crashed, changes>>

\* The event loop runs the deferred deletions.
DeferredDelete ==
  /\ EventLoop /\ (serviceObject = "dying" \/ abandoned)
  /\ serviceObject' = IF serviceObject = "dying" THEN "deleted" ELSE serviceObject
  /\ abandoned' = FALSE
  /\ UNCHANGED <<background, properties, status, leaked, requests, stack, crashed, changes>>

Next ==
  \/ \E n \in Name \cup {Unset} : SetInterfaceName(n)
  \/ \E d \in Descriptor \cup {Unset} : SetServiceDescriptor(d)
  \/ SetAsynchronous \/ ComponentComplete \/ Return
  \/ FinishLoading \/ FinishOrphan \/ IPCFault \/ DeferredDelete

Spec == Init /\ [][Next]_vars

\* Handlers return, the event loop runs, and requests are answered while there is
\* a manager.
FairSpec ==
  /\ Spec
  /\ WF_vars(Return) /\ WF_vars(DeferredDelete)
  /\ WF_vars(serviceManager /\ (FinishLoading \/ FinishOrphan))
-----------------------------------------------------------------------------
\* Whoever sees Loading is waiting for a request that is there and that a manager
\* serves, unless it was lost, is being replaced or has just failed.
LoadingHasRequest ==
  /\ status = "Loading" /\ ~lost /\ ~crashed
  /\ \A i \in DOMAIN stack : stack[i].at \notin {"start", "failed"}
  => serviceReply = "pending" /\ serviceManager

\* Nothing is loading without the application being told so, but for the fault
\* of an object let go of.
RequestShows == serviceReply = "pending" => status \in {"Loading", "Error"}

\* Loading ends.
LoadingEnds == status = "Loading" ~> (status # "Loading" \/ crashed \/ lost)

\* A request is served and ends, whatever handler made it and however the
\* process was started.
\* (The code does not keep it; no run checks it.)
NoneLost == status = "Loading" => ~lost

\* "serviceObject is only valid when the status property is set to
\* ServiceLoader.Ready. Otherwise, it should be a null reference."
\* (The code does not keep it; no run checks it.)
ObjectOnlyWhenReady == serviceObject # "null" => status = "Ready"

\* No pointer is used after what it pointed to.
\* (The code does not keep it; no run checks it.)
PointersValid == ~crashed
=============================================================================
