------------------------------- MODULE OfonoWrapper -------------------------------
(***************************************************************************)
(* QOfonoWrapper: the modems oFono knows, as a process sees them over      *)
(* D-Bus.  A reader is answered by oFono until a signal is connected; from *)
(* then on by what the wrapper keeps.  A signal of oFono is sent to the    *)
(* process once the bus has the match the process adds for it, after it    *)
(* has asked what there is; what comes in between is lost.  All properties *)
(* of a modem's registration are one value here, for the wrapper treats    *)
(* them alike.                                                             *)
(***************************************************************************)
EXTENDS Integers, Sequences, SequencesExt

CONSTANTS
  Modem,
  Registration       \* what a modem's properties may be

VARIABLES
  modems,            \* oFono's list of modems
  registration,      \* the properties of each
  messages,          \* oFono's signals on their way to the wrapper
  wrapper            \* the QOfonoWrapper, with the matches it has asked for and the
                     \* bus has not got yet (of Manager and of the modems), and
                     \* whether a modem came or went before that (history)

world == <<modems, registration>>
ofonoVars == <<world, messages, wrapper>>

Unread == "none"
NoWrapper == [watchAllModems |-> FALSE, allModemPaths |-> <<>>,
              watchProperties |-> FALSE, cached |-> [m \in Modem |-> Unread],
              matched |-> {}, asked |-> {}, askedOf |-> {}, missed |-> FALSE]

Wrapper == [watchAllModems : BOOLEAN, allModemPaths : Seq(Modem), watchProperties : BOOLEAN,
            cached : [Modem -> Registration \cup {Unread}], matched : SUBSET Modem,
            asked : SUBSET {"ModemAdded", "ModemRemoved"}, askedOf : SUBSET Modem,
            missed : BOOLEAN]
OfonoTypeOK ==
  /\ modems \in Seq(Modem) /\ registration \in [Modem -> Registration]
  /\ messages \in Seq([kind : {"ModemAdded", "ModemRemoved", "PropertyChanged"}, modem : Modem,
                       value : Registration \cup {Unread}])
  /\ wrapper \in Wrapper

OfonoInit ==
  /\ modems \in {<<>>} \cup {<<m>> : m \in Modem}
  /\ registration \in [Modem -> Registration]
  /\ messages = <<>>
  /\ wrapper = NoWrapper
-----------------------------------------------------------------------------
AllModems == IF wrapper.watchAllModems THEN wrapper.allModemPaths ELSE modems

\* A property of the i-th modem, the first being 1.
ModemProperty(i) ==
  IF i \notin DOMAIN AllModems THEN Unread
  ELSE LET m == AllModems[i]
       IN  IF wrapper.watchProperties THEN wrapper.cached[m]
           ELSE IF Contains(modems, m) THEN registration[m] ELSE Unread

\* A message with no hook is dropped when it is received: at the latest while the
\* process waits for an answer of oFono, which comes behind it.
Hooked(message) ==
  IF message.kind = "PropertyChanged" THEN message.modem \in wrapper.matched
  ELSE wrapper.watchAllModems
Ask ==
  LET heard[n \in 0 .. Len(messages)] ==
        IF n = 0 THEN <<>>
        ELSE IF Hooked(messages[n]) THEN Append(heard[n - 1], messages[n]) ELSE heard[n - 1]
  IN  messages' = heard[Len(messages)]

\* A call comes behind the matches asked for before it.
Heard == wrapper.asked = {} /\ wrapper.askedOf = {}

ConnectCount ==
  /\ Heard
  /\ wrapper' = [wrapper EXCEPT !.watchAllModems = TRUE, !.allModemPaths = modems,
                                !.asked = {"ModemAdded", "ModemRemoved"}, !.missed = FALSE]
  /\ Ask /\ UNCHANGED world

\* The modems of the moment are read and matched; one added later is neither.
ConnectProperty ==
  LET known == ToSet(AllModems)
  IN  /\ Heard
      /\ wrapper' = [wrapper EXCEPT
                       !.watchProperties = TRUE,
                       !.matched = @ \cup known,
                       !.askedOf = known \ wrapper.matched,
                       !.cached = [m \in Modem |->
                                     IF m \in known /\ Contains(modems, m)
                                       THEN registration[m] ELSE Unread]]
      /\ Ask /\ UNCHANGED world

DisconnectCount ==
  /\ wrapper' = [wrapper EXCEPT !.watchAllModems = FALSE, !.asked = {}]
  /\ UNCHANGED <<world, messages>>

\* Matches are for all the properties; what is kept of them is kept for good.
DisconnectProperty ==
  /\ wrapper' = [wrapper EXCEPT !.matched = @ \ ToSet(AllModems),
                                !.askedOf = @ \ ToSet(AllModems)]
  /\ UNCHANGED <<world, messages>>

\* The bus gets a match.
AddMatch ==
  /\ \/ \E kind \in wrapper.asked : wrapper' = [wrapper EXCEPT !.asked = @ \ {kind}]
     \/ \E m \in wrapper.askedOf : wrapper' = [wrapper EXCEPT !.askedOf = @ \ {m}]
  /\ UNCHANGED <<world, messages>>
-----------------------------------------------------------------------------
Message(kind, m, value) == [kind |-> kind, modem |-> m, value |-> value]
Announce(kind, m) ==
  /\ messages' = IF wrapper.watchAllModems /\ kind \notin wrapper.asked
                 THEN Append(messages, Message(kind, m, Unread)) ELSE messages
  /\ wrapper' = [wrapper EXCEPT !.missed = @ \/ kind \in wrapper.asked]

AddModem(m) ==
  /\ ~Contains(modems, m)
  /\ modems' = Append(modems, m)
  /\ Announce("ModemAdded", m)
  /\ UNCHANGED registration

RemoveModem(m) ==
  /\ Contains(modems, m)
  /\ modems' = RemoveFirst(modems, m)
  /\ Announce("ModemRemoved", m)
  /\ UNCHANGED registration

Register(m, r) ==
  /\ Contains(modems, m) /\ registration[m] # r
  /\ registration' = [registration EXCEPT ![m] = r]
  /\ messages' = IF m \in wrapper.matched \ wrapper.askedOf
                 THEN Append(messages, Message("PropertyChanged", m, r)) ELSE messages
  /\ UNCHANGED <<modems, wrapper>>

\* onOfonoModemAdded, onOfonoModemRemoved, onOfonoPropertyChanged: the last only
\* passes the news on.
HandleMessage ==
  /\ messages # <<>>
  /\ messages' = Tail(messages)
  /\ LET message == Head(messages)
         list == wrapper.allModemPaths
     IN  wrapper' =
           CASE message.kind = "ModemAdded" /\ Hooked(message) ->
                  [wrapper EXCEPT !.allModemPaths = Append(list, message.modem)]
             [] message.kind = "ModemRemoved" /\ Hooked(message) ->
                  [wrapper EXCEPT !.allModemPaths = RemoveFirst(list, message.modem)]
             [] OTHER -> wrapper
  /\ UNCHANGED world

\* The list kept while it is watched is oFono's, but for the news on its way, unless
\* a modem came or went after the list was asked for and before the match.
Apply(list, message) ==
  CASE message.kind = "ModemAdded" -> Append(list, message.modem)
    [] message.kind = "ModemRemoved" -> RemoveFirst(list, message.modem)
    [] OTHER -> list
ModemListFollows ==
  wrapper.watchAllModems /\ ~wrapper.missed =>
    LET list[n \in 0 .. Len(messages)] ==
          IF n = 0 THEN wrapper.allModemPaths ELSE Apply(list[n - 1], messages[n])
    IN  list[Len(messages)] = modems

\* No modem is missed.
\* (The code does not keep it; no run checks it.)
ModemsNotMissed == wrapper.watchAllModems => ~wrapper.missed
===============================================================================
