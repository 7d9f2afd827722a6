-------------------------- MODULE ServiceMetaObjectDBus --------------------------
(***************************************************************************)
(* How a proxy calls its service over D-Bus, and how the service's signals *)
(* come back: QServiceMetaObjectDBus (ipc/qservicemetaobject_dbus.cpp)     *)
(* stands for the object on the bus, the ObjectEndPoint of the client      *)
(* (ipc/objectendpoint_dbus.cpp) makes the calls and connects the signals. *)
(* D-Bus has no QVariant and no type of the service's own: both travel in  *)
(* a QDBusVariant, one of its own as its name and a buffer, and what is    *)
(* meant is found again from what arrives.                                 *)
(***************************************************************************)
EXTENDS Naturals, Sequences, FiniteSets

CONSTANTS Plain,       \* types D-Bus has
          Custom,      \* registered types of the service's own
          Methods,     \* methods and signals of the service, as records
          Properties,  \* its properties, of types D-Bus has
          MaxSignals   \* bound on the signals under way

VARIABLES
  property,  \* the value of each property
  call,      \* the call the client waits for: QDBus::Block
  ran,       \* what the service ran for it
  signals,   \* signals on the bus, each with what the service emitted
  heard      \* the last signal that came, and what the proxy emitted for it

vars == <<property, call, ran, signals, heard>>

\* A value is of a type, and 0 is what a new one has.  What a QVariant holds may
\* be of any type; a "list" stands for what comes off the bus as a QDBusArgument.
Value(t) ==
  IF t = "QVariant" THEN [type : Plain \cup Custom \cup {"list"}, v : 0..1]
  ELSE [type : {t}, v : 0..1]
Default(t) == [type |-> IF t \in {"QVariant", "void"} THEN "none" ELSE t, v |-> 0]

Arguments(m) == {a \in [DOMAIN m.params -> UNION {Value(t) : t \in {m.params[i] : i \in DOMAIN m.params}}] :
                   \A i \in DOMAIN m.params : a[i] \in Value(m.params[i])}
Calls == {m \in Methods : m.kind = "call"}
Signals == {m \in Methods : m.kind = "signal"}

NoCall == [state |-> "idle"]
Nothing == [name |-> "nothing"]

TypeOK ==
  /\ property \in [Properties -> 0..1]
  /\ call.state \in {"idle", "asked", "answered", "failed"}
  /\ ran \in {Nothing} \cup [name : {m.name : m \in Methods}, params : {m.params : m \in Methods},
                             args : UNION {Arguments(m) : m \in Methods}, gave : Value("QVariant") \cup {Default("void")}]
  /\ \A n \in DOMAIN signals : signals[n].sent.method \in Signals
  /\ heard = Nothing \/ heard.sent.method \in Signals

Init ==
  /\ property = [p \in Properties |-> 0]
  /\ call = NoCall /\ ran = Nothing /\ signals = <<>> /\ heard = Nothing
-----------------------------------------------------------------------------
(***************************************************************************)
(* The conversions.                                                        *)
(***************************************************************************)
Wire(t) == IF t \in Plain THEN t ELSE "QDBusVariant"

\* The signature in the meta object made for the bus (dbusMetaObject).
WireParams(m) == [i \in DOMAIN m.params |-> Wire(m.params[i])]

\* toDBusVariant: what a QDBusVariant holds comes to be a value of its own, the
\* name and buffer of a custom type, or an argument nobody has looked into.
ToDBusVariant(t, value) ==
  [wire |-> Wire(t), value |-> value,
   holds |-> IF t \in Custom THEN "user" ELSE IF value.type = "list" THEN "argument" ELSE "value"]
ToDBus(m, args) == [i \in DOMAIN args |-> ToDBusVariant(m.params[i], args[i])]

\* A QVariant that holds a custom type is not made a buffer, and D-Bus knows no
\* such type.
Marshals(m, args) == \A i \in DOMAIN args : m.params[i] = "QVariant" => args[i].type \notin Custom

\* The type the adaptor takes an argument for (qt_metacall): a name read from what
\* is no name and buffer is empty.
Recovered(arg) ==
  CASE arg.wire # "QDBusVariant" -> arg.wire
    [] arg.holds = "user" -> arg.value.type
    [] arg.holds = "argument" -> ""
    [] OTHER -> "QVariant"
Signature(args) ==
  IF Len(args) = 1 /\ Recovered(args[1]) = "" THEN <<>>
  ELSE [i \in DOMAIN args |-> Recovered(args[i])]

\* The methods of the service a call is for: one, or none.
Target(name, args) == {m \in Calls : m.name = name /\ m.params = Signature(args)}

\* What is answered where the service gave something: a call with arguments of
\* custom types is invoked without a place for what it returns, unless that is of
\* a custom type too.
TakesCustom(m) == \E i \in DOMAIN m.params : m.params[i] \in Custom
Answer(m, gave) == IF m.ret \notin Custom /\ TakesCustom(m) THEN Default(m.ret) ELSE gave
-----------------------------------------------------------------------------
(***************************************************************************)
(* Calls, one at a time.                                                   *)
(***************************************************************************)
\* QServiceProxy::qt_metacall and invokeRemote.
InvokeRemote(m, args) ==
  /\ call.state = "idle"
  /\ call' = [state |-> IF Marshals(m, args) THEN "asked" ELSE "failed", method |-> m, args |-> args,
              wire |-> ToDBus(m, args)]
  /\ ran' = Nothing
  /\ UNCHANGED <<property, signals, heard>>

\* QServiceMetaObjectDBus::qt_metacall.  A call that is for no method is relayed
\* with index -1, which nobody complains of: the answer is a new value.
Metacall ==
  /\ call.state = "asked"
  /\ \/ \E m \in Target(call.method.name, call.wire) :
          \E gave \in IF m.ret = "void" THEN {Default("void")}
                      ELSE {value \in Value(m.ret) : value.type \notin Custom \/ m.ret \in Custom} :
            /\ ran' = [name |-> m.name, params |-> m.params, gave |-> gave,
                       args |-> IF m.params = <<>> THEN <<>>
                                ELSE [i \in DOMAIN call.wire |-> call.wire[i].value]]
            /\ call' = [state |-> "answered", method |-> call.method, args |-> call.args,
                        result |-> Answer(m, gave)]
     \/ /\ Target(call.method.name, call.wire) = {}
        /\ call' = [state |-> "answered", method |-> call.method, args |-> call.args,
                    result |-> Default(call.method.ret)]
        /\ UNCHANGED ran
  /\ UNCHANGED <<property, signals, heard>>

Return ==
  /\ call.state \in {"answered", "failed"}
  /\ call' = NoCall /\ ran' = Nothing
  /\ UNCHANGED <<property, signals, heard>>

\* invokeRemoteProperty: a property is set over D-Bus, and read and reset by two
\* methods the adaptor adds; each of them waits for the service.
WriteProperty(p, v) ==
  /\ call.state = "idle" /\ property' = [property EXCEPT ![p] = v]
  /\ UNCHANGED <<call, ran, signals, heard>>

ResetProperty(p) == WriteProperty(p, 0)

ReadProperty(p) ==
  /\ call.state = "idle"
  /\ call' = [state |-> "answered", read |-> p, result |-> property[p]]
  /\ UNCHANGED <<property, ran, signals, heard>>
-----------------------------------------------------------------------------
(***************************************************************************)
(* Signals.                                                                *)
(***************************************************************************)
Relayed(m) == \A i \in DOMAIN m.params : m.params[i] \in Plain

\* A signal of plain types is relayed by itself; another one is intercepted and
\* activateMetaSignal converts it.  What does not marshal is not sent.
EmitSignal(m, args) ==
  /\ Len(signals) < MaxSignals /\ Marshals(m, args)
  /\ signals' = Append(signals, [sent |-> [method |-> m, args |-> args],
                                 name |-> m.name, params |-> WireParams(m), wire |-> ToDBus(m, args)])
  /\ UNCHANGED <<property, call, ran, heard>>

\* The signals of the proxy that are connected to one of the interface.
Connected(name, params) == {m \in Signals : m.name = name /\ WireParams(m) = params}

\* What an intercepter of the client makes of what the signals object hands it
\* (invokeRemote of a signal): a buffer is loaded where a custom type is due.
Unwrapped(t, arg) ==
  CASE t \in Plain -> arg.value
    [] t = "QVariant" -> IF arg.holds = "value" THEN arg.value ELSE [type |-> "list", v |-> 0]
    [] OTHER -> IF arg.holds = "user" /\ arg.value.type = t THEN arg.value ELSE Default(t)
Activated(m, args) == [method |-> m, args |-> [i \in DOMAIN args |-> Unwrapped(m.params[i], args[i])]]

\* constructProxy connects, for each signal of the proxy, the interface's signal to
\* the proxy's, or to the signals object and that to an intercepter: signals that
\* share a signature on the bus share these.
DeliverSignal ==
  /\ call.state = "idle" /\ signals # <<>>
  /\ signals' = Tail(signals)
  /\ LET s == Head(signals)
         to == Connected(s.name, s.params)
     IN heard' = [sent |-> s.sent, got |-> {Activated(m, s.wire) : m \in to},
                  times |-> IF Relayed(s.sent.method) THEN 1 ELSE Cardinality(to)]
  /\ UNCHANGED <<property, call, ran>>

Next ==
  \/ \E m \in Calls : \E args \in Arguments(m) : InvokeRemote(m, args)
  \/ Metacall \/ Return
  \/ \E p \in Properties, v \in 0..1 : WriteProperty(p, v)
  \/ \E p \in Properties : ResetProperty(p) \/ ReadProperty(p)
  \/ \E m \in Signals : \E args \in Arguments(m) : EmitSignal(m, args)
  \/ DeliverSignal

Spec == Init /\ [][Next]_vars
-----------------------------------------------------------------------------
Complex(args) == \E i \in DOMAIN args : args[i].type = "list"

\* The method a proxy was asked to call is the one the service runs, with its
\* arguments, among all that share its signature on the bus, unless a QVariant
\* holds a list or a map; and what it gives comes back, unless an argument of a
\* custom type takes the place (qservicemetaobject_dbus.cpp 341-501).
CallsReach ==
  (call.state = "answered" /\ "method" \in DOMAIN call /\ ~Complex(call.args)) =>
    /\ ran.name = call.method.name /\ ran.params = call.method.params /\ ran.args = call.args
    /\ ~TakesCustom(call.method) \/ call.method.ret \in Custom => call.result = ran.gave

\* A signal of the service comes as the proxy's signal of that name and types, once
\* and with its arguments, where no other has its signature on the bus
\* (objectendpoint_dbus.cpp 237-271 and 627-671).
SignalsReach ==
  (heard # Nothing /\ ~Complex(heard.sent.args)) =>
    LET m == heard.sent.method IN
    Connected(m.name, WireParams(m)) = {m} =>
      heard.times = 1 /\ heard.got = {heard.sent}

\* "Signals are automatically relayed from QtDBus to the proxy object": each is, once.
\* (The code does not keep it; no run checks it.)
SignalsComeOnce == heard # Nothing => heard.times = 1 /\ heard.got = {heard.sent}

\* "All arguments and return types are processed and converted accordingly".
\* (The code does not keep it; no run checks it.)
ReturnsArrive ==
  (call.state = "answered" /\ "method" \in DOMAIN call /\ ran # Nothing) => call.result = ran.gave

\* "Supports conversion from a QVariant, QList, QMap, QHash": whatever is answered
\* without an error was run.
\* (The code does not keep it; no run checks it.)
AnsweredWasRun ==
  (call.state = "answered" /\ "method" \in DOMAIN call) =>
    ran # Nothing /\ ran.params = call.method.params
=============================================================================
