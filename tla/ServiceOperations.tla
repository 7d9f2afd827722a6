--------------------------- MODULE ServiceOperations ---------------------------
(***************************************************************************)
(* Loading interfaces in the background: QServiceManager's                 *)
(* loadInterfaceRequest, the thread QServiceOperations that all managers   *)
(* of a process share while one of them is engaged, its processor's        *)
(* handleRequest, and the QServiceReply the answer comes back through.     *)
(*                                                                         *)
(* Requests go to the processor, and results to the replies, as posted     *)
(* events, in order.  A load may spin the event loop, so that requests     *)
(* arrive within it.  Managers live in the application's thread, which     *)
(* disengage blocks, or (SameThread = FALSE) in threads of their own.      *)
(***************************************************************************)
EXTENDS Naturals, Sequences, FiniteSets

CONSTANTS Manager, NoManager,
          Reply, NoReply,  \* a reply stands for its request
          SameThread

ASSUME OperationsAssumption ==
  /\ NoManager \notin Manager /\ NoReply \notin Reply
  /\ SameThread \in BOOLEAN

VARIABLES
  manager,      \* each QServiceManager, and where it is in an operation
  engageCount,
  thread,       \* the background thread: its event loop, handleRequest, a load
  exiting,      \* QThread: quit() was called
  submitted,       \* the requests posted to the processor
  pendingList, inRequest,  \* QServiceOperationProcessor
  current,      \* the request handleRequest is at
  reply,        \* each reply: running, finished
  outcome,      \* what its proxy object and error tell
  owner,        \* the manager that made it
  events,       \* what is posted to each reply
  aborted       \* the requests whose load was terminated (history)

facade == <<manager, engageCount>>
processor == <<pendingList, inRequest, current>>
replies == <<reply, outcome, events>>
operationsVars == <<facade, thread, exiting, submitted, processor, replies, owner, aborted>>

\* "starting" and "referring" are between the halves of engage, "quitting" and
\* "waiting" those of disengage.
Resting == {"idle", "engaged"}
Places == Resting \cup {"starting", "referring", "quitting", "waiting"}
Outcomes == {"none", "object", "null", "error"}

OperationsTypeOK ==
  /\ manager \in [Manager -> Places]
  /\ engageCount \in Nat
  /\ thread \in {"stopped", "running", "handling", "loading"}
  /\ exiting \in BOOLEAN
  /\ submitted \in Seq(Reply) /\ pendingList \in Seq(Reply)
  /\ inRequest \in BOOLEAN
  /\ current \in Reply \cup {NoReply}
  /\ reply \in [Reply -> {"unused", "requested", "running", "finished"}]
  /\ outcome \in [Reply -> Outcomes]
  /\ owner \in [Reply -> Manager \cup {NoManager}]
  /\ \A r \in Reply : events[r] \in Seq({"start", "finish"} \cup Outcomes)
  /\ aborted \subseteq Reply

OperationsInit ==
  /\ manager = [m \in Manager |-> "idle"] /\ engageCount = 0
  /\ thread = "stopped" /\ exiting = FALSE
  /\ submitted = <<>> /\ pendingList = <<>> /\ inRequest = FALSE /\ current = NoReply
  /\ reply = [r \in Reply |-> "unused"]
  /\ outcome = [r \in Reply |-> "none"]
  /\ owner = [r \in Reply |-> NoManager]
  /\ events = [r \in Reply |-> <<>>]
  /\ aborted = {}

\* The thread of the manager runs: no other one blocks it.
Foreground(m) == SameThread => \A n \in Manager \ {m} : manager[n] \in Resting

At(m, place) == manager[m] = place /\ Foreground(m)
MoveTo(m, place) == manager' = [manager EXCEPT ![m] = place]
-----------------------------------------------------------------------------
(***************************************************************************)
(* engage, by the first request of a manager.                              *)
(***************************************************************************)
EngageFirst(m) ==
  /\ At(m, "idle") /\ engageCount = 0
  /\ engageCount' = 1 /\ MoveTo(m, "starting")
  /\ UNCHANGED <<thread, exiting, submitted, processor, replies, owner, aborted>>

\* QThread::start does nothing while the thread still runs.
Start(m) ==
  /\ At(m, "starting") /\ MoveTo(m, "engaged")
  /\ IF thread = "stopped"
     THEN thread' = "running" /\ exiting' = FALSE
     ELSE UNCHANGED <<thread, exiting>>
  /\ UNCHANGED <<engageCount, submitted, processor, replies, owner, aborted>>

EngageAnother(m) ==
  /\ At(m, "idle") /\ engageCount # 0
  /\ MoveTo(m, "referring")
  /\ UNCHANGED <<engageCount, thread, exiting, submitted, processor, replies, owner, aborted>>

Refer(m) ==
  /\ At(m, "referring") /\ MoveTo(m, "engaged")
  /\ engageCount' = engageCount + 1
  /\ UNCHANGED <<thread, exiting, submitted, processor, replies, owner, aborted>>

LoadInterfaceRequest(m, r) ==
  /\ At(m, "engaged") /\ reply[r] = "unused"
  /\ reply' = [reply EXCEPT ![r] = "requested"]
  /\ owner' = [owner EXCEPT ![r] = m]
  /\ submitted' = Append(submitted, r)
  /\ UNCHANGED <<facade, thread, exiting, processor, outcome, events, aborted>>

\* Mutant: every manager that goes stops the thread.
DisengageAll(m) ==
  /\ At(m, "engaged") /\ MoveTo(m, "quitting")
  /\ engageCount' = engageCount - 1
  /\ owner' = [r \in Reply |-> IF owner[r] = m THEN NoManager ELSE owner[r]]
  /\ UNCHANGED <<thread, exiting, submitted, processor, replies, aborted>>

\* ~QServiceManager; another manager may take its place.
Disengage(m) ==
  /\ At(m, "engaged")
  /\ engageCount' = engageCount - 1
  /\ MoveTo(m, IF engageCount' = 0 THEN "quitting" ELSE "idle")
  /\ owner' = [r \in Reply |-> IF owner[r] = m THEN NoManager ELSE owner[r]]
  /\ UNCHANGED <<thread, exiting, submitted, processor, replies, aborted>>

Quit(m) ==
  /\ At(m, "quitting") /\ MoveTo(m, "waiting")
  /\ exiting' = TRUE
  /\ UNCHANGED <<engageCount, thread, submitted, processor, replies, owner, aborted>>

\* wait() sees the thread end.
Waited(m) ==
  /\ At(m, "waiting") /\ thread = "stopped"
  /\ MoveTo(m, "idle")
  /\ UNCHANGED <<engageCount, thread, exiting, submitted, processor, replies, owner, aborted>>

\* It does not in 3 x 500 ms, because of a load: terminate().
Terminate(m) ==
  /\ At(m, "waiting") /\ thread = "loading"
  /\ thread' = "stopped" /\ current' = NoReply
  /\ aborted' = aborted \cup {current}
  /\ MoveTo(m, "idle")
  /\ UNCHANGED <<engageCount, exiting, submitted, pendingList, inRequest, replies, owner>>
-----------------------------------------------------------------------------
(***************************************************************************)
(* The background thread.  Posted events survive it: whoever starts it     *)
(* again finds them.                                                       *)
(***************************************************************************)
Exit ==
  /\ thread = "running" /\ exiting
  /\ thread' = "stopped"
  /\ UNCHANGED <<facade, exiting, submitted, processor, replies, owner, aborted>>

\* The processor takes a request; a loop that is told to exit may still do so.
HandleRequest ==
  /\ thread = "running" /\ submitted # <<>>
  /\ submitted' = Tail(submitted)
  /\ pendingList' = Append(pendingList, Head(submitted))
  /\ IF inRequest
     THEN UNCHANGED <<thread, inRequest>>
     ELSE thread' = "handling" /\ inRequest' = TRUE
  /\ UNCHANGED <<facade, exiting, current, replies, owner, aborted>>

\* Mutant: a request that arrives within another is not kept.
HandleNestedDropped ==
  /\ thread = "loading" /\ submitted # <<>>
  /\ submitted' = Tail(submitted)
  /\ UNCHANGED <<facade, thread, exiting, processor, replies, owner, aborted>>

\* The same within a load that spins the event loop.
HandleNested ==
  /\ thread = "loading" /\ submitted # <<>>
  /\ submitted' = Tail(submitted)
  /\ pendingList' = Append(pendingList, Head(submitted))
  /\ UNCHANGED <<facade, thread, exiting, inRequest, current, replies, owner, aborted>>

Post(r, evs) == events' = [events EXCEPT ![r] = @ \o evs]

\* The next request fails at once (no descriptor or no library), or is loaded.
TakePending ==
  /\ thread = "handling" /\ pendingList # <<>>
  /\ pendingList' = Tail(pendingList)
  /\ LET r == Head(pendingList) IN
     \/ /\ Post(r, <<"start", "error", "finish">>)
        /\ UNCHANGED <<thread, current>>
     \/ /\ Post(r, <<"start">>)
        /\ thread' = "loading" /\ current' = r
  /\ UNCHANGED <<facade, exiting, submitted, inRequest, reply, outcome, owner, aborted>>

\* Mutant: the reply is finished before it gets its result.
LoadedAfterFinish ==
  /\ thread = "loading"
  /\ \E result \in {"object", "null", "error"} : Post(current, <<"finish", result>>)
  /\ thread' = "handling" /\ current' = NoReply
  /\ UNCHANGED <<facade, exiting, submitted, pendingList, inRequest, reply, outcome, owner,
                 aborted>>

\* A plugin that does not load is an error; a service process that does not
\* answer is a null object.
Loaded ==
  /\ thread = "loading"
  /\ \E result \in {"object", "null", "error"} : Post(current, <<result, "finish">>)
  /\ thread' = "handling" /\ current' = NoReply
  /\ UNCHANGED <<facade, exiting, submitted, pendingList, inRequest, reply, outcome, owner, aborted>>

\* Mutant: inRequest stays set.
RequestsHandledStill ==
  /\ thread = "handling" /\ pendingList = <<>>
  /\ thread' = "running"
  /\ UNCHANGED <<facade, exiting, submitted, processor, replies, owner, aborted>>

RequestsHandled ==
  /\ thread = "handling" /\ pendingList = <<>>
  /\ thread' = "running" /\ inRequest' = FALSE
  /\ UNCHANGED <<facade, exiting, submitted, pendingList, current, replies, owner, aborted>>
-----------------------------------------------------------------------------
\* A slot of the reply runs in its thread, unless disengage blocks it.
Unblocked(r) ==
  \A m \in Manager : SameThread \/ owner[r] = m => manager[m] \in Resting

Deliver(r) ==
  /\ events[r] # <<>> /\ Unblocked(r)
  /\ events' = [events EXCEPT ![r] = Tail(@)]
  /\ LET e == Head(events[r]) IN
     CASE e = "start" ->
            /\ reply' = [reply EXCEPT ![r] = "running"] /\ UNCHANGED outcome
       [] e = "finish" ->
            /\ reply' = [reply EXCEPT ![r] = "finished"] /\ UNCHANGED outcome
       [] OTHER ->
            /\ outcome' = [outcome EXCEPT ![r] = e] /\ UNCHANGED reply
  /\ UNCHANGED <<facade, thread, exiting, submitted, processor, owner, aborted>>

\* What a manager does without the application asking: the halves of an operation.
Continue(m) == Start(m) \/ Refer(m) \/ Quit(m) \/ Waited(m) \/ Terminate(m)

Application(m) ==
  \/ EngageFirst(m) \/ EngageAnother(m) \/ Disengage(m)
  \/ \E r \in Reply : LoadInterfaceRequest(m, r)

Background ==
  \/ Exit \/ HandleRequest \/ HandleNested \/ TakePending \/ Loaded \/ RequestsHandled

OperationsNext ==
  \/ \E m \in Manager : Application(m) \/ Continue(m)
  \/ Background
  \/ \E r \in Reply : Deliver(r)

OperationsSpec == OperationsInit /\ [][OperationsNext]_operationsVars

\* Threads run, a load ends, and a thread that gets back to its event loop again
\* and again delivers what is posted there.
FairOperations ==
  /\ OperationsSpec
  /\ \A m \in Manager : WF_operationsVars(Continue(m))
  /\ WF_operationsVars(Background) /\ WF_operationsVars(Loaded)
  /\ \A r \in Reply : SF_operationsVars(Deliver(r))
-----------------------------------------------------------------------------
\* A request that its reply does not yet know the end of is in one place, neither
\* lost nor handled twice, across any number of threads' ends and beginnings,
\* unless its load was terminated.
Unfinished(r) ==
  Cardinality({i \in DOMAIN submitted : submitted[i] = r})
  + Cardinality({i \in DOMAIN pendingList : pendingList[i] = r})
  + (IF current = r THEN 1 ELSE 0)
  + Cardinality({i \in DOMAIN events[r] : events[r][i] = "finish"})
EachRequestOnce ==
  \A r \in Reply \ aborted :
    Unfinished(r) = IF reply[r] \in {"requested", "running"} THEN 1 ELSE 0

\* The asserts of QServiceReply: a reply starts and finishes once, in that order,
\* with its outcome set in between.
ReplyInOrder ==
  [][\A r \in Reply :
       /\ reply[r] = "finished" => reply'[r] = "finished" /\ outcome'[r] = outcome[r]
       /\ reply'[r] = "running" => reply[r] \in {"requested", "running"}
       /\ reply'[r] = "finished" => outcome'[r] # "none"]_operationsVars

\* While a manager is engaged and none is on its way in or out, the thread is
\* there and stays.
EngagedIsServed ==
  (\E m \in Manager : manager[m] = "engaged") /\ (\A m \in Manager : manager[m] \in Resting)
  => thread # "stopped" /\ ~exiting

\* As long as no load was terminated, every request completes while its manager
\* is there, also one that arrives within another's load or was left behind by a
\* thread that ended.
CompleteUnlessAborted ==
  \A r \in Reply :
    reply[r] = "requested"
    ~> reply[r] = "finished" \/ owner[r] = NoManager \/ aborted # {}

\* The documentation of QServiceReply, "Finally the request is completed, and it
\* will emit the finished() signal": so it is, while its manager is there.
\* (The code does not keep it; no run checks it.)
RequestsComplete ==
  \A r \in Reply :
    reply[r] = "requested" ~> reply[r] = "finished" \/ owner[r] = NoManager
=============================================================================
