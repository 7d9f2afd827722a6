------------------------------ MODULE MCSystemInfo ------------------------------
(***************************************************************************)
(* Small instances of the components of QtSystemInfo.                      *)
(***************************************************************************)
EXTENDS SystemInfo

MCModeOf == <<"EthernetMode", "WlanMode">>
MCNetSignal == {"networkInterfaceCountChanged", "networkStatusChanged", "currentNetworkModeChanged"}
\* All is well at first, or the first interface has no carrier and no network the modem.
MCNetStart == {<<[d \in {1, 2} |-> "up"], [m \in {"m"} |-> "registered"]>>,
                <<[d \in {1, 2} |-> IF d = 1 THEN "down" ELSE "up"],
                  [m \in {"m"} |-> "unregistered"]>>}
MCBatCondition == {[state |-> "Charging", raw |-> 2], [state |-> "Discharging", raw |-> 2]}
MCSupply == {[ac |-> TRUE, usb |-> "none"], [ac |-> FALSE, usb |-> "USB_CDP"]}
\* What the batteries say at first; it may change once.
MCBatStart ==
  {<<[b \in {0, 1} |-> [state |-> "Charging", raw |-> 2]], [ac |-> TRUE, usb |-> "none"]>>}
\* UPower's AC and its battery, listed in either order.
MCLists == {<<>>, <<"ac">>, <<"b">>, <<"ac", "b">>, <<"b", "ac">>}
\* Two devices that are given the same event node, one after the other.
MCInputDevice == {"mouse", "keyboard"}
MCInputName == [mouse |-> "input1", keyboard |-> "input2"]
MCEventName == [mouse |-> "event1", keyboard |-> "event1"]
MCInputTypes == [d \in MCInputDevice |-> {d}]
MCNodeName == {"input1", "input2", "event1"}
MCContains == [p \in MCNodeName \X MCNodeName |-> p[1] = p[2]]
MCModelTypes == <<{"mouse"}, {"keyboard"}, {"mouse", "keyboard"}>>
MCReading == {[ok |-> TRUE, temp |-> 5, critical |-> 4, emergency |-> 9],
               [ok |-> TRUE, temp |-> 5, critical |-> 9, emergency |-> 4],
               [ok |-> FALSE, temp |-> 5, critical |-> 9, emergency |-> 4]}
Adapter(device, physical, status, gateway) ==
  [device |-> device, physical |-> physical, status |-> status, gateway |-> gateway]
MCAdapters == {<<Adapter("opens", "Unspecified", 2, TRUE)>>,
                <<Adapter("opens", "none", 9, FALSE), Adapter("opens", "WirelessLan", 2, TRUE)>>,
                <<Adapter("refuses", "none", 7, FALSE), Adapter("opens", "Unspecified", 2, TRUE)>>}
WinBattery(voltage, capacity, power, kind) ==
  [kind |-> kind, power |-> power, voltage |-> voltage, rate |-> 1, capacity |-> capacity,
   full |-> 100, critical |-> FALSE, online |-> power = "charging"]
MCAnswers == {<<>>, <<WinBattery(2, 4, "charging", "system")>>,
               <<WinBattery(2, 6, "discharging", "system"), WinBattery(3, 90, "idle", "system")>>,
               <<WinBattery(-1, 5, "idle", "system"), WinBattery(2, 2, "charging", "mute")>>,
               <<WinBattery(3, 2, "discharging", "system")>>}

SimPacket(full, left, other) ==
  [f \in {"currentFlow", "voltage", "remainingChargingTime", "chargerType", "chargingState",
          "levelStatus", "health", "temperature", "cycleCount", "maximumCapacity",
          "remainingCapacity"} |->
     IF f = "maximumCapacity" THEN full ELSE IF f = "remainingCapacity" THEN left ELSE other]
MCPackets == {SimPacket(100, 50, 1), SimPacket(40, 20, 1), SimPacket(0, 20, 2)}
=============================================================================
