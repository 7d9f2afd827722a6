------------------------------ MODULE ServiceStart ------------------------------
(***************************************************************************)
(* Starting a service of the Unix socket backend: doStart in each client   *)
(* that finds no service at the socket's path, and createServiceEndPoint   *)
(* in each process they fork.  They meet in three files: the socket, the   *)
(* temporary one it is renamed from, and the pid file isServiceRunning     *)
(* reads.  Every system call on them is an action; any process may end     *)
(* between any two, and the files stay.                                    *)
(*                                                                         *)
(* A file is the process that bound or wrote it.  Process identifiers are  *)
(* used again only when nothing refers to them.                            *)
(***************************************************************************)
EXTENDS Naturals, FiniteSets

CONSTANTS Client, Proc, None,
          Backlog,  \* of listen(2); 50 in the code
          Elapsed   \* when a client may go to sleep in doStart, in milliseconds

SFW_PROCESS_TIMEOUT == 10000

ASSUME StartAssumption ==
  /\ None \notin Proc
  /\ Elapsed # {} /\ Elapsed \subseteq 0 .. SFW_PROCESS_TIMEOUT - 1

VARIABLES
  socketFile, tempFile, pidFile,
  pc,        \* where each process is in createServiceEndPoint
  phase,     \* where each client is in doStart and proxyForService
  conn,      \* the process the client's socket is connected with
  accepted,  \* the connections processIncoming has accepted
  notified,  \* the clients with an unread event on the directory (inotify)
  again,     \* the clients whose last connect said EAGAIN (errno)
  elapsed,   \* total_time when a client went to sleep
  lone,      \* the last process forked, if it sets up alone (history)
  broken     \* a process did not come through its setup (history)

files == <<socketFile, tempFile, pidFile>>
connections == <<conn, accepted>>
wait == <<notified, again, elapsed>>
history == <<lone, broken>>
startVars == <<files, pc, phase, connections, wait, history>>

\* The system calls of createServiceEndPoint, each about to be made.
Setup == {"unlinkSocket", "unlinkTemp", "unlinkPid", "bind", "listen", "rename", "writePid"}

\* "busy" waits for a service whose backlog is full.  "asleep" is in select(2),
\* "awake" and "retry" are about to read the events and to connect: the loop that
\* waits for the process forked.  A socket returned without a connection is
\* "unconnected".
InDoStart == {"connect", "busy", "launch", "launched", "asleep", "awake", "retry"}
Phases == InDoStart \cup {"idle", "unconnected", "connected", "served"}

StartTypeOK ==
  /\ socketFile \in Proc \cup {None}
  /\ tempFile \in Proc \cup {None}
  /\ pidFile \in Proc \cup {None}
  /\ pc \in [Proc -> Setup \cup {"serving", "failed", "dead"}]
  /\ phase \in [Client -> Phases]
  /\ conn \in [Client -> Proc \cup {None}]
  /\ accepted \subseteq Client /\ notified \subseteq Client /\ again \subseteq Client
  /\ elapsed \in [Client -> Elapsed \cup {0}]
  /\ lone \in Proc \cup {None}
  /\ broken \in BOOLEAN

StartInit ==
  /\ socketFile = None /\ tempFile = None /\ pidFile = None
  /\ pc = [p \in Proc |-> "dead"]
  /\ phase = [c \in Client |-> "idle"]
  /\ conn = [c \in Client |-> None]
  /\ accepted = {} /\ notified = {} /\ again = {}
  /\ elapsed = [c \in Client |-> 0]
  /\ lone = None /\ broken = FALSE

Alive(p) == pc[p] # "dead"
InSetup == {p \in Proc : pc[p] \in Setup}
-----------------------------------------------------------------------------
(***************************************************************************)
(* createServiceEndPoint in the process p.                                 *)
(***************************************************************************)
Advance(p, from, to) == pc[p] = from /\ pc' = [pc EXCEPT ![p] = to]

\* A file is created in the directory or moved there.
Notify == notified' = notified \cup {c \in Client : phase[c] \in InDoStart}

UnlinkSocket(p) ==
  /\ Advance(p, "unlinkSocket", "unlinkTemp")
  /\ socketFile' = None
  /\ UNCHANGED <<tempFile, pidFile, notified, history>>

\* Mutant: the temporary file of a process that died stays.
UnlinkTempForgotten(p) ==
  /\ Advance(p, "unlinkTemp", "unlinkPid")
  /\ UNCHANGED <<files, notified, history>>

UnlinkTemp(p) ==
  /\ Advance(p, "unlinkTemp", "unlinkPid")
  /\ tempFile' = None
  /\ UNCHANGED <<socketFile, pidFile, notified, history>>

UnlinkPid(p) ==
  /\ Advance(p, "unlinkPid", "bind")
  /\ pidFile' = None
  /\ UNCHANGED <<socketFile, tempFile, notified, history>>

\* bind(2) fails when the file exists; the process runs on, without a socket.
Bind(p) ==
  /\ UNCHANGED <<socketFile, pidFile, history>>
  /\ \/ /\ tempFile = None
        /\ Advance(p, "bind", "listen") /\ tempFile' = p /\ Notify
     \/ /\ tempFile # None
        /\ Advance(p, "bind", "failed") /\ UNCHANGED <<tempFile, notified>>

\* Mutant: the old socket is unlinked here, just before the new one is renamed.
ListenUnlinking(p) ==
  /\ Advance(p, "listen", "rename") /\ socketFile' = None
  /\ UNCHANGED <<tempFile, pidFile, notified, history>>

\* chown(2) or listen(2) may fail, and leave the temporary file.
Listen(p) ==
  /\ \/ Advance(p, "listen", "rename") /\ UNCHANGED history
     \/ /\ Advance(p, "listen", "failed")
        /\ broken' = TRUE /\ lone' = IF lone = p THEN None ELSE lone
  /\ UNCHANGED <<files, notified>>

\* Whose socket it is that moves to the path is not looked at, nor whether any
\* does.
Rename(p) ==
  /\ Advance(p, "rename", "writePid")
  /\ IF tempFile = None
     THEN UNCHANGED <<socketFile, notified>>
     ELSE socketFile' = tempFile /\ Notify
  /\ tempFile' = None
  /\ UNCHANGED <<pidFile, history>>

WritePid(p) ==
  /\ Advance(p, "writePid", "serving")
  /\ pidFile' = p
  /\ IF pidFile = None THEN Notify ELSE UNCHANGED notified
  /\ UNCHANGED <<socketFile, tempFile, history>>

CreateServiceEndPoint(p) ==
  /\ \/ UnlinkSocket(p) \/ UnlinkTemp(p) \/ UnlinkPid(p) \/ Bind(p)
     \/ Listen(p) \/ Rename(p) \/ WritePid(p)
  /\ UNCHANGED <<phase, connections, again, elapsed>>

ProcessIncoming(p) ==
  /\ pc[p] = "serving"
  /\ \E c \in Client : conn[c] = p /\ c \notin accepted /\ accepted' = accepted \cup {c}
  /\ UNCHANGED <<files, pc, phase, conn, wait, history>>

\* The service quits, or is ended wherever it is.
End(p) ==
  /\ Alive(p)
  /\ pc' = [pc EXCEPT ![p] = "dead"]
  /\ broken' = (broken \/ pc[p] \in Setup)
  /\ lone' = IF lone = p THEN None ELSE lone
  /\ UNCHANGED <<files, phase, connections, wait>>
-----------------------------------------------------------------------------
(***************************************************************************)
(* doStart and proxyForService in the client c.                            *)
(***************************************************************************)
Goto(c, to) == phase' = [phase EXCEPT ![c] = to]

\* The client's socket is connected with p, or closed.
Connection(c, p) ==
  /\ conn' = [conn EXCEPT ![c] = p]
  /\ accepted' = accepted \ {c}

\* doStart returns, and its watch and its variables are gone.
Return(c, to) ==
  /\ Goto(c, to)
  /\ notified' = notified \ {c} /\ again' = again \ {c}
  /\ elapsed' = [elapsed EXCEPT ![c] = 0]

Listening == {p \in Proc : pc[p] \in {"rename", "writePid", "serving"}}
Pending(p) == {c \in Client \ accepted : conn[c] = p}

\* connect(2): done, EAGAIN, or an error.
MayConnect == socketFile \in Listening /\ Cardinality(Pending(socketFile)) < Backlog
TryAgain == socketFile \in Listening /\ ~MayConnect

DoStart(c) ==
  /\ phase[c] = "idle" /\ Goto(c, "connect")
  /\ UNCHANGED <<files, pc, connections, wait, history>>

Connect(c) ==
  /\ phase[c] = "connect"
  /\ \/ MayConnect /\ Return(c, "connected") /\ Connection(c, socketFile)
     \/ TryAgain /\ Goto(c, "busy") /\ UNCHANGED <<connections, wait>>
     \/ ~MayConnect /\ ~TryAgain /\ Goto(c, "launch") /\ UNCHANGED <<connections, wait>>
  /\ UNCHANGED <<files, pc, history>>

\* The socket that is not connected may count as readable; if not, the wait ends
\* after five seconds.
LeaveBusy(c) ==
  /\ phase[c] = "busy"
  /\ \/ Return(c, "unconnected")
     \/ Goto(c, "launch") /\ UNCHANGED wait
  /\ UNCHANGED <<files, pc, connections, history>>

Referenced(p) == p \in {socketFile, tempFile, pidFile} \cup {conn[c] : c \in Client}

\* fork and exec.  The client waits for the outcome of exec, before which the
\* child does nothing others see.
Launch(c) ==
  /\ phase[c] = "launch" /\ Goto(c, "launched")
  /\ \E p \in Proc :
       /\ ~Alive(p) /\ ~Referenced(p)
       /\ pc' = [pc EXCEPT ![p] = "unlinkSocket"]
       /\ lone' = IF InSetup = {} THEN p ELSE None
  /\ UNCHANGED <<files, connections, wait, broken>>

\* pipe, fork or exec fails.
LaunchFails(c) ==
  /\ phase[c] = "launch" /\ Return(c, "unconnected")
  /\ UNCHANGED <<files, pc, connections, history>>

\* Mutant: events are read between connect and select.
WaitUnnotified(c) ==
  /\ Goto(c, "asleep") /\ notified' = notified \ {c}
  /\ \E e \in Elapsed : elapsed' = [elapsed EXCEPT ![c] = e]

\* The head of the loop: SFW_PROCESS_TIMEOUT has passed, or select waits.
Wait(c) ==
  /\ Goto(c, "asleep") /\ UNCHANGED notified
  /\ \E e \in Elapsed : elapsed' = [elapsed EXCEPT ![c] = e]
TimeOut(c) == Return(c, "idle") /\ Connection(c, None)

\* The connect before the loop, whose success only the loop notices (EISCONN).
ConnectEarly(c) ==
  /\ phase[c] = "launched"
  /\ \/ /\ Wait(c) /\ UNCHANGED again
        /\ IF MayConnect THEN Connection(c, socketFile) ELSE UNCHANGED connections
     \/ TimeOut(c)
  /\ UNCHANGED <<files, pc, history>>

\* select returns: the event, another file's or end point's, or its timeout.
Wake(c) ==
  /\ phase[c] = "asleep" /\ Goto(c, "awake")
  /\ UNCHANGED <<files, pc, connections, wait, history>>

ReadEvents(c) ==
  /\ phase[c] = "awake" /\ Goto(c, "retry")
  /\ notified' = notified \ {c}
  /\ UNCHANGED <<files, pc, connections, again, elapsed, history>>

Retry(c) ==
  /\ phase[c] = "retry"
  /\ \/ conn[c] # None /\ Return(c, "connected") /\ UNCHANGED connections
     \/ /\ conn[c] = None /\ MayConnect
        /\ Return(c, "connected") /\ Connection(c, socketFile)
     \/ /\ conn[c] = None /\ ~MayConnect /\ UNCHANGED connections
        /\ Wait(c) /\ again' = IF TryAgain THEN again \cup {c} ELSE again \ {c}
     \/ /\ conn[c] = None /\ ~MayConnect /\ TimeOut(c)
  /\ UNCHANGED <<files, pc, history>>

\* constructProxy gets its answer.
ConstructProxy(c) ==
  /\ phase[c] = "connected" /\ c \in accepted /\ pc[conn[c]] = "serving"
  /\ Goto(c, "served")
  /\ UNCHANGED <<files, pc, connections, wait, history>>

\* constructProxy fails at once, or gets no answer or a rejection.
ConstructFails(c) ==
  /\ phase[c] \in {"unconnected", "connected"} /\ Goto(c, "idle")
  /\ Connection(c, None)
  /\ UNCHANGED <<files, pc, wait, history>>

\* The proxy is deleted.
Leave(c) ==
  /\ phase[c] = "served" /\ Goto(c, "idle")
  /\ Connection(c, None)
  /\ UNCHANGED <<files, pc, wait, history>>

ProxyForService(c) ==
  \/ DoStart(c) \/ Connect(c) \/ LeaveBusy(c) \/ Launch(c) \/ LaunchFails(c)
  \/ ConnectEarly(c) \/ Wake(c) \/ ReadEvents(c) \/ Retry(c)
  \/ ConstructProxy(c) \/ ConstructFails(c) \/ Leave(c)
-----------------------------------------------------------------------------
StartNext ==
  \/ \E p \in Proc : CreateServiceEndPoint(p) \/ ProcessIncoming(p) \/ End(p)
  \/ \E c \in Client : ProxyForService(c)

StartSpec == StartInit /\ [][StartNext]_startVars
-----------------------------------------------------------------------------
\* However the setups of processes that were started at once interleave, when
\* all have come through there is a socket at the path that somebody listened
\* on, a pid file, and no temporary file: each process unlinks what it finds,
\* but one that does is followed by one that replaces it.
SetupsConverge ==
  InSetup = {} /\ ~broken /\ (\E p \in Proc : Alive(p)) =>
    /\ socketFile # None /\ pidFile # None /\ tempFile = None
    /\ pc[socketFile] \in {"serving", "dead"}

\* A process that sets up alone comes through, whatever those that ended within
\* their setups left behind, and the socket and the pid file are its own.
LoneSetupSucceeds ==
  lone # None =>
    /\ pc[lone] # "failed"
    /\ pc[lone] = "serving" => socketFile = lone /\ pidFile = lone /\ tempFile = None

\* No client sleeps through the setup of a process that sets up alone: once that
\* is done, who is asleep has an event to read, or knows a full backlog.
WaitersWoken ==
  lone # None /\ pc[lone] = "serving" =>
    \A c \in Client : phase[c] = "asleep" => c \in notified \cup again \/ conn[c] # None

\* runLocalEventLoop's timeval: seconds and microseconds are exchanged.
Timeval(msec) == [tv_sec |-> (msec * 1000) % 1000000, tv_usec |-> (msec * 1000) \div 1000000]
Millis(tv) == tv.tv_sec * 1000 + tv.tv_usec \div 1000

\* What SFW_PROCESS_TIMEOUT says, and the warning that doStart will "fall back to
\* timeout": the client does not sleep beyond the end of its ten seconds.
DeadlineKept ==
  \A c \in Client : phase[c] = "asleep" =>
    Millis(Timeval(SFW_PROCESS_TIMEOUT - elapsed[c])) <= SFW_PROCESS_TIMEOUT - elapsed[c]
=============================================================================
