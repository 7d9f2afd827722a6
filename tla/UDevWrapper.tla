------------------------------- MODULE UDevWrapper -------------------------------
(***************************************************************************)
(* QUDevWrapper: one udev monitor for the signals driveChanged,            *)
(* batteryDataChanged and chargerTypeChanged of the device information     *)
(* classes.  It is watched by subsystem, not by signal; what it does on    *)
(* a connection or disconnection is a function of its state, a record.     *)
(***************************************************************************)

Wrapper ==
  [made : BOOLEAN, udev : {"none", "held", "freed"}, monitor : BOOLEAN,
   watchDrives : BOOLEAN, watchPowerSupply : BOOLEAN, fault : BOOLEAN]

NoUDevWrapper ==
  [made |-> FALSE, udev |-> "none", monitor |-> FALSE,
   watchDrives |-> FALSE, watchPowerSupply |-> FALSE,
   fault |-> FALSE]   \* a freed udev handle was used

MadeWrapper(w) == IF w.made THEN w ELSE [NoUDevWrapper EXCEPT !.made = TRUE]

\* A handle given back is not forgotten, so it is used as if it were there.
AddUDevWatcher(w) ==
  [w EXCEPT !.fault = @ \/ w.udev = "freed", !.udev = "held", !.monitor = TRUE]

ConnectNotify(w, signal) ==
  CASE signal = "driveChanged" /\ ~w.watchDrives -> [AddUDevWatcher(w) EXCEPT !.watchDrives = TRUE]
    [] signal # "driveChanged" /\ ~w.watchPowerSupply ->
         [AddUDevWatcher(w) EXCEPT !.watchPowerSupply = TRUE]
    [] OTHER -> w

\* The subsystem goes unwatched, whatever else is connected; with none left the
\* monitor and the handle are given back, each time.
DisconnectNotify(w, signal) ==
  LET less == IF signal = "driveChanged" THEN [w EXCEPT !.watchDrives = FALSE]
              ELSE [w EXCEPT !.watchPowerSupply = FALSE]
  IN  IF less.watchDrives \/ less.watchPowerSupply THEN less
      ELSE [less EXCEPT !.monitor = FALSE, !.fault = @ \/ w.udev = "freed", !.udev = "freed"]
===============================================================================
