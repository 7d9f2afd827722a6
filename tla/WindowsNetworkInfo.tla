---------------------------- MODULE WindowsNetworkInfo ----------------------------
(***************************************************************************)
(* QNetworkInfoPrivate of the Windows build (qnetworkinfo_win.cpp): the    *)
(* handles of the WLAN service and the callback registered on each, the    *)
(* WMI queries behind the Ethernet and Bluetooth answers, and the timers   *)
(* that poll where the system is neither Vista nor 7.                      *)
(***************************************************************************)
EXTENDS Integers, FiniteSets, FiniteSetsExt, Sequences

CONSTANTS Handle,      \* handles the WLAN service gives out (a set of positive numbers)
          Quality,     \* signal qualities, positive numbers
          Adapters,    \* sequences of network interfaces allInterfaces() may return
          Polls,       \* a subset of BOOLEAN: is the system one without notifications of strength?
          Fails,       \* a subset of BOOLEAN: may WlanEnumInterfaces fail?
          MaxTimers,   \* bound on the single shots pending
          MaxInbox,    \* bound on the notifications under way
          MaxChanges   \* bound on what the system changes

VARIABLES
  polls,        \* QSysInfo::WindowsVersion is neither Vista nor 7
  wlan,         \* the wireless interfaces: [ready, state, quality]
  adapters,     \* the network interfaces, in the order allInterfaces() has them
  handles,      \* WLAN handles that are open
  callbacks,    \* those a callback was registered on
  hWlan,        \* the member; 0 is NULL
  wlanCallbackInitialized,
  wifiStrength, ethStrength,
  timers,       \* singleShot(networkStrengthTimeout) pending
  inbox,        \* notifications the service still has to deliver
  toldWifi, toldEthernet, toldStatus, toldMode, \* what the signals told last
  enumerationFailed,
  changes

told == <<toldWifi, toldEthernet, toldStatus, toldMode>>
vars == <<polls, wlan, adapters, handles, callbacks, hWlan, wlanCallbackInitialized,
          wifiStrength, ethStrength, timers, inbox, told, enumerationFailed, changes>>

wlanVars == <<handles, callbacks, hWlan, wlanCallbackInitialized, enumerationFailed>>

Unheard == -1
WlanState == {"disconnected", "authenticating", "connected"}
WlanInterfaces == [ready : BOOLEAN, state : WlanState, quality : Quality]
Notice == {"disconnected", "connected", "start", "quality"}

TypeOK ==
  /\ polls \in BOOLEAN
  /\ wlan \in Seq(WlanInterfaces) /\ adapters \in Adapters
  /\ handles \subseteq Handle /\ callbacks \subseteq handles
  /\ hWlan \in Handle \cup {0} /\ wlanCallbackInitialized \in BOOLEAN
  /\ wifiStrength \in Quality \cup {0} /\ ethStrength \in {0, 100}
  /\ timers \in 0..MaxTimers
  /\ inbox \in Seq(Notice) /\ Len(inbox) <= MaxInbox
  /\ toldWifi \in Quality \cup {0, Unheard} /\ toldEthernet \in {0, 100, Unheard}
  /\ toldStatus \in {"NoNetworkAvailable", "HomeNetwork", "Searching", "UnknownStatus"}
  /\ toldMode \in {"WlanMode", "UnknownMode"}
  /\ enumerationFailed \in BOOLEAN
  /\ changes \in 0..MaxChanges

\* interfaceForMode: the first interface whose device says it is of the mode.  A
\* device that cannot be opened is skipped, one that refuses the query ends the
\* search, one without a physical medium counts as Ethernet.
Fits(adapter, mode) ==
  /\ adapter.device = "opens"
  /\ \/ mode = "EthernetMode" /\ adapter.physical \in {"none", "Unspecified"}
     \/ mode = "WlanMode" /\ adapter.physical \in {"WirelessWan", "WirelessLan"}
     \/ mode = "BluetoothMode" /\ adapter.physical = "Bluetooth"

NoAdapter == [device |-> "none", physical |-> "none", status |-> 0, gateway |-> FALSE]

InterfaceForMode(mode) ==
  LET ends == {i \in DOMAIN adapters : \/ adapters[i].device = "refuses"
                                       \/ Fits(adapters[i], mode)}
  IN IF ends = {} \/ adapters[Min(ends)].device = "refuses" THEN NoAdapter
     ELSE adapters[Min(ends)]

IsDefaultMode(mode) == InterfaceForMode(mode).gateway

CurrentNetworkMode ==
  LET order == <<"EthernetMode", "WlanMode", "BluetoothMode">>
      default == {i \in DOMAIN order : IsDefaultMode(order[i])}
  IN IF default = {} THEN "UnknownMode" ELSE order[Min(default)]

\* getWifiConnectionAttributes answers for the last interface that is connected,
\* networkSignalStrength for the first.
Readable == {i \in DOMAIN wlan : wlan[i].ready /\ wlan[i].state # "disconnected"}

NetworkStatus(mode) ==
  CASE mode = "WlanMode" ->
         IF Readable = {} THEN "UnknownStatus"
         ELSE IF wlan[Max(Readable)].state = "connected" THEN "HomeNetwork" ELSE "Searching"
    [] OTHER -> IF InterfaceForMode(mode).status = 2 THEN "HomeNetwork" ELSE "UnknownStatus"

\* The value of NetConnectionStatus: 2 is connected, 9 is waiting for an address.
EthernetStrength == IF InterfaceForMode("EthernetMode").status \in {2, 9} THEN 100 ELSE 0

\* startWifiCallback does nothing once it was initialised, unless the network is
\* connected; otherwise the handle it had is forgotten, not closed.
StartWifiCallback ==
  IF NetworkStatus("WlanMode") # "HomeNetwork" /\ wlanCallbackInitialized
  THEN UNCHANGED <<handles, callbacks, hWlan, wlanCallbackInitialized>>
  ELSE \/ \E h \in Handle \ handles :
            /\ handles' = handles \cup {h} /\ hWlan' = h
            /\ \/ /\ callbacks' = callbacks \cup {h} /\ wlanCallbackInitialized' = TRUE
               \/ UNCHANGED <<callbacks, wlanCallbackInitialized>>
       \/ hWlan' = 0 /\ UNCHANGED <<handles, callbacks, wlanCallbackInitialized>>

Init ==
  /\ polls \in Polls
  /\ wlan \in {<<>>} \cup {<<w>> : w \in [ready : {TRUE}, state : WlanState, quality : Quality]}
  /\ adapters \in Adapters
  /\ \/ \E h \in Handle : /\ handles = {h} /\ hWlan = h
                          /\ callbacks = {h} /\ wlanCallbackInitialized = TRUE
     \/ handles = {} /\ hWlan = 0 /\ callbacks = {} /\ wlanCallbackInitialized = FALSE
  /\ wifiStrength = 0 /\ ethStrength \in {0, 100}
  /\ timers = IF polls THEN 1 ELSE 0
  /\ inbox = <<>>
  /\ toldWifi = Unheard /\ toldEthernet = Unheard
  /\ toldStatus = "UnknownStatus" /\ toldMode = "UnknownMode"
  /\ enumerationFailed = FALSE
  /\ changes = 0

\* The wireless half of networkSignalStrength, on the handle hWlan.  A failed
\* enumeration closes the handle and keeps it.
QualityRead ==
  IF Readable = {} THEN UNCHANGED <<wifiStrength, toldWifi>>
  ELSE LET sig == wlan[Min(Readable)].quality IN
       /\ wifiStrength' = sig
       /\ toldWifi' = IF sig # wifiStrength THEN sig ELSE toldWifi

WlanRead ==
  \/ /\ hWlan \in handles
     /\ QualityRead /\ UNCHANGED wlanVars
  \/ /\ hWlan # 0
     /\ hWlan \in handles => TRUE \in Fails
     /\ handles' = handles \ {hWlan} /\ callbacks' = callbacks \ {hWlan}
     /\ enumerationFailed' = (enumerationFailed \/ hWlan \in handles)
     /\ UNCHANGED <<hWlan, wlanCallbackInitialized, wifiStrength, toldWifi>>
  \/ /\ hWlan = 0
     /\ \/ \E h \in Handle \ handles : /\ hWlan' = h /\ handles' = handles \cup {h}
                                       /\ QualityRead
        \/ UNCHANGED <<hWlan, handles, wifiStrength, toldWifi>>
     /\ UNCHANGED <<callbacks, wlanCallbackInitialized, enumerationFailed>>

\* Mutant: the new strength is not kept.
EthernetForgotten(returned) ==
  /\ toldEthernet' = IF returned \/ EthernetStrength # ethStrength
                     THEN EthernetStrength ELSE toldEthernet
  /\ UNCHANGED ethStrength

\* The Ethernet half: emitted when it is not what it was.
EthernetRead(returned) ==
  /\ ethStrength' = EthernetStrength
  /\ toldEthernet' = IF returned \/ EthernetStrength # ethStrength
                     THEN EthernetStrength ELSE toldEthernet

ReadWlanStrength ==
  /\ WlanRead
  /\ UNCHANGED <<polls, wlan, adapters, ethStrength, timers, inbox,
                 toldEthernet, toldStatus, toldMode, changes>>

ReadEthernetStrength ==
  /\ EthernetRead(TRUE)
  /\ UNCHANGED <<polls, wlan, adapters, wlanVars, wifiStrength, timers, inbox,
                 toldWifi, toldStatus, toldMode, changes>>

\* networkStrengthTimeout reads the strength of every mode, and goes on.
NetworkStrengthTimeout ==
  /\ timers > 0
  /\ WlanRead /\ EthernetRead(FALSE)
  /\ UNCHANGED <<polls, wlan, adapters, timers, inbox, toldStatus, toldMode, changes>>

NoticedStatus == [disconnected |-> "NoNetworkAvailable", connected |-> "HomeNetwork",
                  start |-> "Searching"]

\* emitNetworkStatusChanged.  That the mode in use changed is told only of a
\* wireless network that has the gateway.
EmitNetworkStatusChanged(status) ==
  /\ toldStatus' = status
  /\ IF status = "Searching"
     THEN toldWifi' = 0 /\ UNCHANGED <<toldMode, wlanVars>>
     ELSE /\ StartWifiCallback
          /\ toldMode' = IF IsDefaultMode("WlanMode") THEN "WlanMode" ELSE toldMode
          /\ UNCHANGED <<toldWifi, enumerationFailed>>

\* wlanNotificationCallback.  emitNetworkSignalStrengthChanged starts one more
\* chain of timers and reads the strength itself.
WlanNotificationCallback ==
  /\ inbox # <<>> /\ inbox' = Tail(inbox)
  /\ \/ /\ Head(inbox) \in DOMAIN NoticedStatus
        /\ EmitNetworkStatusChanged(NoticedStatus[Head(inbox)])
        /\ UNCHANGED <<wifiStrength, timers>>
     \/ /\ Head(inbox) = "quality"
        /\ WlanRead
        /\ polls => timers < MaxTimers
        /\ timers' = IF polls THEN timers + 1 ELSE timers
        /\ UNCHANGED <<toldStatus, toldMode>>
  /\ UNCHANGED <<polls, wlan, adapters, ethStrength, toldEthernet, changes>>

\* The wireless network changes, and every callback hears of it.
WlanChanges(i, state, quality) ==
  LET notice == CASE state = "connected" /\ wlan[i].state = "connected" -> "quality"
                  [] state = "connected" -> "connected"
                  [] state = "authenticating" -> "start"
                  [] OTHER -> "disconnected"
  IN
  /\ changes < MaxChanges /\ changes' = changes + 1
  /\ wlan' = [wlan EXCEPT ![i].state = state, ![i].quality = quality]
  /\ wlan' # wlan
  /\ Len(inbox) + Cardinality(callbacks) <= MaxInbox
  /\ inbox' = inbox \o [n \in 1..Cardinality(callbacks) |-> notice]
  /\ UNCHANGED <<polls, adapters, wlanVars, wifiStrength, ethStrength, timers, told>>

AdaptersChange(list) ==
  /\ changes < MaxChanges /\ changes' = changes + 1
  /\ list # adapters /\ adapters' = list
  /\ UNCHANGED <<polls, wlan, wlanVars, wifiStrength, ethStrength, timers, inbox, told>>

Next ==
  \/ ReadWlanStrength \/ ReadEthernetStrength
  \/ NetworkStrengthTimeout \/ WlanNotificationCallback
  \/ \E i \in DOMAIN wlan, state \in WlanState, quality \in Quality :
       WlanChanges(i, state, quality)
  \/ \E list \in Adapters : AdaptersChange(list)

Spec == Init /\ [][Next]_vars
-----------------------------------------------------------------------------
\* Whoever follows the signal of the Ethernet strength has the value the getter
\* gave last.
EthernetReported == toldEthernet # Unheard => toldEthernet = ethStrength

\* Whatever handles are forgotten, a callback stays registered until an
\* enumeration fails, and the polling never stops.
StillNotified ==
  /\ wlanCallbackInitialized /\ ~enumerationFailed => callbacks # {}
  /\ polls => timers > 0

\* "Emitted whenever the signal strength has changed": whoever heard of the
\* strength has the one the getter gave last.
\* (The code does not keep it; no run checks it.)
StrengthReported == toldWifi # Unheard => toldWifi = wifiStrength

\* "Emitted whenever the current network mode has changed".
\* (The code does not keep it; no run checks it.)
ModeReported == toldMode # "UnknownMode" => toldMode = CurrentNetworkMode

\* One notification reaches the application once.
\* (The code does not keep it; no run checks it.)
OneCallback == Cardinality(callbacks) <= 1
=============================================================================
