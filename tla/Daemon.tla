------------------------------- MODULE Daemon -------------------------------
(***************************************************************************)
(* The daemon of main.go: the virtual device that the tray menu            *)
(* (tray/tray.go), the auto-switch and the USB monitor (usbmon/usbmon.go)  *)
(* start and stop, shutdown by a signal, and the restart after a failure   *)
(* that contrib/blueripple-passkey.service asks for.                       *)
(*                                                                         *)
(* One mutex guards dev, devCancel and the auto-switch flags: a section    *)
(* between Lock and Unlock is one action.  What a callback read there is   *)
(* kept in its program counter, which says what it does next; the other    *)
(* goroutines run in between.  devCancel is set and cleared with dev.  The *)
(* wording of the menu and its YubiKey line are left out; a scan of the    *)
(* USB devices finds the key exactly while it is plugged.                  *)
(***************************************************************************)
EXTENDS Integers

CONSTANTS
  Devs,  \* fidohid.Device objects; one is used again once it is gone, so
         \* that their number bounds those that exist at a time
  None   \* Go's nil

ASSUME NoneAssumption == None \notin Devs

Actors == {"main", "ready", "click", "monitor", "signal"}

VARIABLES
  process,        \* "up", "exited" with status 0, or "failed"
  options,        \* the flags -tray and -auto-switch
  plugged,        \* a YubiKey is plugged in
  dev,            \* runDaemonWithTray's dev
  device,         \* each device: the goroutine that runs it, whether its
                  \* context is cancelled, whether the kernel shows it
  autoSwitchOn, stoppedByAuto, yubiKeyPresent, \* runDaemonWithTray's flags
  monitorPresent, \* present in Monitor.Run
  monCancelled,   \* monCtx is cancelled
  tray,           \* the menu items exist, Tray.active, the checkbox
  at,             \* where each goroutine is
  user,           \* history: what the user last did with the device by hand,
                  \* until the auto-switch or a start overrides it
  calm            \* history: no state of this process was Disturbed

flags == <<autoSwitchOn, stoppedByAuto, yubiKeyPresent>>
usb == <<monitorPresent, monCancelled>>
vars == <<process, options, plugged, dev, device, flags, usb, tray, at,
          user, calm>>

Gone == [stage |-> "gone", cancelled |-> FALSE, kernel |-> FALSE]
Spawned == [Gone EXCEPT !.stage = "spawned"]
\* A device that is gone is not in the kernel any more.
Device == {r \in [stage : {"gone", "spawned", "running", "returned"},
                  cancelled : BOOLEAN, kernel : BOOLEAN] : r.stage = "gone" => ~r.kernel}

Places == [main : {"boot", "started", "serving"},
           ready : {"none", "menu", "show", "done"},
           click : {"none", "idle", "onEnable", "onDisable", "enabling", "disabling",
                    "autoChanged", "reenable", "autodisable", "starting", "stopping",
                    "showOn", "showOff", "quitStop", "quit"},
           monitor : {"none", "first", "idle", "onInsert", "onRemove", "starting",
                      "stopping", "showOn", "showOff", "ended"},
           signal : {"none", "waiting", "stop", "exit", "done"}]

TypeOK ==
  /\ process \in {"up", "exited", "failed"}
  /\ options \in [tray : BOOLEAN, autoSwitch : BOOLEAN]
  /\ plugged \in BOOLEAN
  /\ dev \in Devs \cup {None}
  /\ device \in [Devs -> Device]
  /\ autoSwitchOn \in BOOLEAN /\ stoppedByAuto \in BOOLEAN
  /\ yubiKeyPresent \in BOOLEAN
  /\ monitorPresent \in BOOLEAN /\ monCancelled \in BOOLEAN
  /\ tray \in [made : BOOLEAN, active : BOOLEAN, checked : BOOLEAN]
  /\ at \in Places
  /\ user \in {"none", "on", "off"}
  /\ calm \in BOOLEAN

FreshDevices == [d \in Devs |-> Gone]
FreshTray == [made |-> FALSE, active |-> TRUE, checked |-> FALSE]
FreshPlaces == [main |-> "boot", ready |-> "none", click |-> "none", monitor |-> "none",
                signal |-> IF options.tray THEN "waiting" ELSE "none"]
\* In headless mode there is no auto-switch.
FreshSwitch == options.tray /\ options.autoSwitch

\* What a process starts with.
Fresh ==
  /\ dev = None
  /\ device = FreshDevices
  /\ autoSwitchOn = FreshSwitch
  /\ stoppedByAuto = FALSE /\ yubiKeyPresent = FALSE
  /\ monitorPresent = FALSE /\ monCancelled = FALSE
  /\ tray = FreshTray
  /\ at = FreshPlaces
  /\ user = "none"
  /\ calm = TRUE

Init ==
  /\ process = "up"
  /\ options \in [tray : BOOLEAN, autoSwitch : BOOLEAN]
  /\ plugged \in BOOLEAN
  /\ Fresh

Goto(a, place) == at' = [at EXCEPT ![a] = place]

-----------------------------------------------------------------------------
(* startDevice and stopDevice, run under the mutex.                        *)

\* Mutated form: no test for a device that runs already.
StartDeviceAlways ==
  \E d \in Devs \ {dev} :
    /\ device[d].stage = "gone"
    /\ dev' = d
    /\ device' = [device EXCEPT ![d] = Spawned]

StartDevice ==
  \/ /\ dev # None            \* already running
     /\ UNCHANGED <<dev, device>>
  \/ /\ dev = None            \* fidohid.New failed: logged, nothing else
     /\ UNCHANGED <<dev, device>>
  \/ /\ dev = None
     /\ \E d \in Devs :
          /\ device[d].stage = "gone"
          /\ dev' = d
          /\ device' = [device EXCEPT ![d] = Spawned]

\* Cancels the context and closes the device, which the goroutine that runs
\* it notices later.
StopDevice ==
  /\ dev' = None
  /\ device' = IF dev = None THEN device
               ELSE [device EXCEPT ![dev].cancelled = TRUE, ![dev].kernel = FALSE]

-----------------------------------------------------------------------------
(* The goroutine of startDevice: Device.Run, then Device.Close.            *)

\* Run opens the device.  Nothing tells it that the device was closed before.
DeviceOpen(d) ==
  /\ device[d].stage = "spawned"
  /\ device' = [device EXCEPT ![d].stage = "running", ![d].kernel = TRUE]
  /\ UNCHANGED <<plugged, dev, flags, usb, tray, at, user>>

\* Run ends because its context is cancelled.
DeviceRunEnds(d) ==
  /\ device[d].stage = "running" /\ device[d].cancelled
  /\ device' = [device EXCEPT ![d].stage = "returned"]
  /\ UNCHANGED <<plugged, dev, flags, usb, tray, at, user>>

\* Run ends by itself: the device cannot be opened, or its events end.
DeviceRunFails(d) ==
  /\ device[d].stage \in {"spawned", "running"}
  /\ device' = [device EXCEPT ![d].stage = "returned"]
  /\ UNCHANGED <<plugged, dev, flags, usb, tray, at, user>>

\* Mutated form: the goroutine leaves the device to stopDevice.
DeviceNotClosed(d) ==
  /\ options.tray
  /\ device[d].stage = "returned"
  /\ device' = [device EXCEPT ![d].stage = "gone"]
  /\ UNCHANGED <<plugged, dev, flags, usb, tray, at, user>>

\* The goroutine closes the device and ends; dev stays what it is.
DeviceClose(d) ==
  /\ options.tray
  /\ device[d].stage = "returned"
  /\ device' = [device EXCEPT ![d] = Gone]
  /\ UNCHANGED <<plugged, dev, flags, usb, tray, at, user>>

DeviceStep(d) == DeviceOpen(d) \/ DeviceRunEnds(d) \/ DeviceClose(d)

-----------------------------------------------------------------------------
(* main and the tray's onReady.                                            *)

MainStart ==
  /\ options.tray /\ at.main = "boot"
  /\ StartDevice
  /\ Goto("main", "started")
  /\ UNCHANGED <<plugged, flags, usb, tray, user>>

\* go mon.Run, then t.Run, which has onReady called on a goroutine.
MainServe ==
  /\ at.main = "started"
  /\ at' = [at EXCEPT !.main = "serving", !.monitor = "first", !.ready = "menu"]
  /\ UNCHANGED <<plugged, dev, device, flags, usb, tray, user>>

\* onReady makes the menu items.  The checkbox starts checked: SetAutoSwitch
\* came before it existed and did nothing.
CreateMenu ==
  /\ at.ready = "menu"
  /\ tray' = [tray EXCEPT !.made = TRUE, !.checked = TRUE]
  /\ Goto("ready", "show")
  /\ UNCHANGED <<plugged, dev, device, flags, usb, user>>

\* onReady shows the initial state and starts the goroutine of the clicks.
ShowReady ==
  /\ at.ready = "show"
  /\ tray' = [tray EXCEPT !.active = TRUE]
  /\ at' = [at EXCEPT !.ready = "done", !.click = "idle"]
  /\ UNCHANGED <<plugged, dev, device, flags, usb, user>>

-----------------------------------------------------------------------------
(* The end of every callback, on the goroutine a of the clicks or of the   *)
(* monitor: startDevice or stopDevice, then SetActive.                     *)

Start(a) ==
  /\ at[a] \in {"starting", "enabling"}
  /\ StartDevice
  /\ Goto(a, "showOn")
  /\ user' = IF at[a] = "enabling" THEN "on" ELSE IF user = "off" THEN "none" ELSE user
  /\ UNCHANGED <<plugged, flags, usb, tray>>

Stop(a) ==
  /\ at[a] \in {"stopping", "disabling"}
  /\ StopDevice
  /\ Goto(a, "showOff")
  /\ user' = IF at[a] = "disabling" THEN "off" ELSE user
  /\ UNCHANGED <<plugged, flags, usb, tray>>

\* SetActive, once the menu items exist.
Show(a) ==
  /\ at[a] \in {"showOn", "showOff"} /\ tray.made
  /\ tray' = [tray EXCEPT !.active = (at[a] = "showOn")]
  /\ Goto(a, "idle")
  /\ UNCHANGED <<plugged, dev, device, flags, usb, user>>

-----------------------------------------------------------------------------
(* The goroutine of the clicks.                                            *)

\* The user clicks the toggle: t.active is read without the mutex.
ClickToggle ==
  /\ at.click = "idle"
  /\ Goto("click", IF tray.active THEN "onDisable" ELSE "onEnable")
  /\ UNCHANGED <<plugged, dev, device, flags, usb, tray, user>>

\* Mutated form: the flag is left as it was.
OnToggleKeepsFlag ==
  /\ at.click \in {"onEnable", "onDisable"}
  /\ Goto("click", IF at.click = "onEnable" THEN "enabling" ELSE "disabling")
  /\ UNCHANGED <<plugged, dev, device, flags, usb, tray, user>>

\* onEnable and onDisable, up to startDevice or stopDevice.
OnToggle ==
  /\ at.click \in {"onEnable", "onDisable"}
  /\ stoppedByAuto' = FALSE
  /\ Goto("click", IF at.click = "onEnable" THEN "enabling" ELSE "disabling")
  /\ UNCHANGED <<plugged, dev, device, autoSwitchOn, yubiKeyPresent, usb, tray, user>>

\* The user clicks the checkbox.
ClickAutoSwitch ==
  /\ at.click = "idle"
  /\ tray' = [tray EXCEPT !.checked = ~tray.checked]
  /\ Goto("click", "autoChanged")
  /\ UNCHANGED <<plugged, dev, device, flags, usb, user>>

\* Mutated form: a key that is already plugged in is ignored.
OnAutoSwitchChangedOnly ==
  /\ at.click = "autoChanged"
  /\ autoSwitchOn' = tray.checked
  /\ Goto("click", IF ~tray.checked /\ stoppedByAuto THEN "reenable" ELSE "idle")
  /\ UNCHANGED <<plugged, dev, device, stoppedByAuto, yubiKeyPresent, usb, tray, user>>

\* onAutoSwitchChanged up to its first Unlock; what it does next was
\* decided by what it read here.
OnAutoSwitchChanged ==
  /\ at.click = "autoChanged"
  /\ autoSwitchOn' = tray.checked
  /\ Goto("click", IF ~tray.checked /\ stoppedByAuto THEN "reenable"
                   ELSE IF tray.checked /\ yubiKeyPresent THEN "autodisable"
                   ELSE "idle")
  /\ UNCHANGED <<plugged, dev, device, stoppedByAuto, yubiKeyPresent, usb, tray, user>>

\* Its second critical section.
ReEnable ==
  /\ at.click = "reenable"
  /\ stoppedByAuto' = FALSE
  /\ Goto("click", "starting")
  /\ UNCHANGED <<plugged, dev, device, autoSwitchOn, yubiKeyPresent, usb, tray, user>>

AutoDisable ==
  /\ at.click = "autodisable"
  /\ stoppedByAuto' = TRUE
  /\ Goto("click", "stopping")
  /\ user' = IF user = "on" THEN "none" ELSE user
  /\ UNCHANGED <<plugged, dev, device, autoSwitchOn, yubiKeyPresent, usb, tray>>

\* The user clicks Quit: onQuit, in two steps.
ClickQuit ==
  /\ at.click = "idle"
  /\ monCancelled' = TRUE
  /\ Goto("click", "quitStop")
  /\ UNCHANGED <<plugged, dev, device, flags, monitorPresent, tray, user>>

QuitStop ==
  /\ at.click = "quitStop"
  /\ StopDevice
  /\ Goto("click", "quit")
  /\ UNCHANGED <<plugged, flags, usb, tray, user>>

-----------------------------------------------------------------------------
(* The USB monitor.                                                        *)

\* The scan at the start.
FirstScan ==
  /\ at.monitor = "first"
  /\ monitorPresent' = plugged
  /\ Goto("monitor", IF plugged THEN "onInsert" ELSE "idle")
  /\ UNCHANGED <<plugged, dev, device, flags, monCancelled, tray, user>>

\* A tick whose scan finds a change.
Tick ==
  /\ at.monitor = "idle" /\ plugged # monitorPresent
  /\ monitorPresent' = plugged
  /\ Goto("monitor", IF plugged THEN "onInsert" ELSE "onRemove")
  /\ UNCHANGED <<plugged, dev, device, flags, monCancelled, tray, user>>

MonitorEnds ==
  /\ at.monitor = "idle" /\ monCancelled
  /\ Goto("monitor", "ended")
  /\ UNCHANGED <<plugged, dev, device, flags, usb, tray, user>>

\* OnInsert up to its Unlock.
OnInsert ==
  /\ at.monitor = "onInsert"
  /\ yubiKeyPresent' = TRUE
  /\ stoppedByAuto' = (stoppedByAuto \/ autoSwitchOn)
  /\ Goto("monitor", IF autoSwitchOn THEN "stopping" ELSE "idle")
  /\ user' = IF autoSwitchOn /\ user = "on" THEN "none" ELSE user
  /\ UNCHANGED <<plugged, dev, device, autoSwitchOn, usb, tray>>

\* Mutated form: the removal does not start the device.
OnRemoveIdle ==
  /\ at.monitor = "onRemove"
  /\ yubiKeyPresent' = FALSE
  /\ stoppedByAuto' = (stoppedByAuto /\ ~autoSwitchOn)
  /\ Goto("monitor", "idle")
  /\ UNCHANGED <<plugged, dev, device, autoSwitchOn, usb, tray, user>>

\* OnRemove up to its Unlock.
OnRemove ==
  /\ at.monitor = "onRemove"
  /\ yubiKeyPresent' = FALSE
  /\ stoppedByAuto' = (stoppedByAuto /\ ~autoSwitchOn)
  /\ Goto("monitor", IF autoSwitchOn /\ stoppedByAuto THEN "starting" ELSE "idle")
  /\ UNCHANGED <<plugged, dev, device, autoSwitchOn, usb, tray, user>>

-----------------------------------------------------------------------------
(* SIGTERM and SIGINT, and headless mode.                                  *)

\* A signal reaches the handler's goroutine.
Signal ==
  /\ options.tray /\ at.signal = "waiting"
  /\ monCancelled' = TRUE
  /\ Goto("signal", "stop")
  /\ UNCHANGED <<plugged, dev, device, flags, monitorPresent, tray, user>>

SignalStop ==
  /\ at.signal = "stop"
  /\ StopDevice
  /\ Goto("signal", "exit")
  /\ UNCHANGED <<plugged, flags, usb, tray, user>>

\* runDaemonHeadless: main runs the device itself.
HeadlessStart ==
  /\ ~options.tray /\ at.main = "boot"
  /\ \E d \in Devs :
       /\ dev' = d
       /\ device' = [device EXCEPT ![d] = Spawned]
  /\ at' = [at EXCEPT !.main = "serving", !.signal = "waiting"]
  /\ UNCHANGED <<plugged, flags, usb, tray, user>>

\* Mutated form: the handler forgets the context.
HeadlessSignalLost ==
  /\ ~options.tray /\ at.signal = "waiting"
  /\ Goto("signal", "done")
  /\ UNCHANGED <<plugged, dev, device, flags, usb, tray, user>>

HeadlessSignal ==
  /\ ~options.tray /\ at.signal = "waiting"
  /\ device' = [device EXCEPT ![dev].cancelled = TRUE]
  /\ Goto("signal", "done")
  /\ UNCHANGED <<plugged, dev, flags, usb, tray, user>>

-----------------------------------------------------------------------------
(* The end of the process: the kernel closes its devices, and what is left *)
(* is the state the next process starts with.                              *)

EndProcess(how) ==
  /\ process' = how
  /\ dev' = None
  /\ device' = FreshDevices
  /\ autoSwitchOn' = FreshSwitch
  /\ stoppedByAuto' = FALSE /\ yubiKeyPresent' = FALSE
  /\ monitorPresent' = FALSE /\ monCancelled' = FALSE
  /\ tray' = FreshTray
  /\ at' = FreshPlaces
  /\ user' = "none"
  /\ calm' = TRUE
  /\ UNCHANGED <<options, plugged>>

\* os.Exit(0) of the handler, or main returns after systray.Quit.
Exit ==
  /\ at.signal = "exit" \/ at.click = "quit"
  /\ EndProcess("exited")

\* Headless: Run returned.  An error that is not the cancellation is fatal.
HeadlessEnd ==
  /\ ~options.tray /\ at.main = "serving"
  /\ device[dev].stage = "returned"
  /\ \E how \in {"exited", "failed"} : EndProcess(how)

\* Headless: fidohid.New failed.
HeadlessFatal ==
  /\ ~options.tray /\ at.main = "boot"
  /\ EndProcess("failed")

\* SetActive before the menu items exist dereferences nil.
Panic ==
  /\ \E a \in {"click", "monitor"} : at[a] \in {"showOn", "showOff"}
  /\ ~tray.made
  /\ EndProcess("failed")

\* Restart=on-failure.
Restart ==
  /\ process = "failed"
  /\ process' = "up"
  /\ UNCHANGED <<options, plugged, dev, device, flags, usb, tray, at, user, calm>>

-----------------------------------------------------------------------------

Busy(a) == at[a] \notin {"none", "idle", "ended"}

\* What the callbacks do not expect: two of them at a time, or one before
\* onReady or during shutdown; a device that could not be made, or whose Run
\* ended by itself.
Disturbed ==
  \/ Busy("click") /\ Busy("monitor")
  \/ Busy("monitor") /\ at.monitor # "first" /\ at.ready # "done"
  \/ monCancelled
  \/ dev = None /\ (at.main = "started" \/ at.click = "showOn" \/ at.monitor = "showOn")
  \/ dev # None /\ device[dev].stage \in {"gone", "returned"}

\* A step of a live process that does not end it.
Live(A) ==
  /\ process = "up"
  /\ A
  /\ calm' = (calm /\ ~Disturbed')
  /\ UNCHANGED <<process, options>>

MainStep == MainStart \/ MainServe \/ HeadlessStart
ReadyStep == CreateMenu \/ ShowReady
ClickStep == OnToggle \/ OnAutoSwitchChanged \/ ReEnable \/ AutoDisable \/ QuitStop
             \/ Start("click") \/ Stop("click") \/ Show("click")
MonitorStep == FirstScan \/ Tick \/ MonitorEnds \/ OnInsert \/ OnRemove
               \/ Start("monitor") \/ Stop("monitor") \/ Show("monitor")
UserStep == ClickToggle \/ ClickAutoSwitch \/ ClickQuit
End == process = "up" /\ (Exit \/ HeadlessEnd \/ HeadlessFatal \/ Panic)

\* A YubiKey is plugged in or pulled out.
Plug ==
  /\ plugged' = ~plugged
  /\ UNCHANGED <<process, options, dev, device, flags, usb, tray, at, user, calm>>

Next ==
  \/ Live(MainStep \/ ReadyStep \/ ClickStep \/ MonitorStep \/ UserStep)
  \/ Live(Signal \/ SignalStop \/ HeadlessSignal)
  \/ \E d \in Devs : Live(DeviceStep(d) \/ DeviceRunFails(d))
  \/ End \/ Restart \/ Plug

\* In headless mode main runs the device itself.
HeadlessRun == ~options.tray /\ at.main = "serving" /\ DeviceStep(dev)

\* Every goroutine that can go on does so; nobody has to click, to plug a
\* key or to send a signal, and nothing has to fail.
MainFairness == WF_vars(Live(MainStep \/ HeadlessRun))
MonitorFairness == WF_vars(Live(MonitorStep))
SignalFairness == WF_vars(Live(SignalStop)) /\ WF_vars(End)
DeviceFairness(d) == WF_vars(Live(DeviceStep(d)))
Fairness ==
  /\ MainFairness /\ WF_vars(Live(ReadyStep)) /\ WF_vars(Live(ClickStep))
  /\ MonitorFairness /\ SignalFairness
  /\ \A d \in Devs : DeviceFairness(d)

Spec == Init /\ [][Next]_vars
FairSpec == Spec /\ Fairness

-----------------------------------------------------------------------------
(* Properties.                                                             *)

\* A device that was not told to stop is the one stopDevice will stop: no
\* interleaving of clicks, insertions and removals starts a second one or
\* forgets one that runs on.
LiveDeviceIsCurrent ==
  \A d \in Devs :
    device[d].stage \in {"spawned", "running"} /\ ~device[d].cancelled => d = dev

Quiet == /\ process = "up" /\ at.click = "idle" /\ at.monitor = "idle"
         /\ at.signal = "waiting"

Settled ==
  /\ tray.active <=> dev # None
  /\ autoSwitchOn /\ yubiKeyPresent => dev = None \/ user = "on"
  /\ dev = None => user = "off" \/ stoppedByAuto
  /\ stoppedByAuto => dev = None /\ autoSwitchOn /\ yubiKeyPresent

\* As long as the callbacks came one at a time and no device failed, then
\* between callbacks the tray shows what the device does; with the
\* auto-switch on and a key present the device is off unless the user turned
\* it on after the insertion; it is off only by the user's hand or by the
\* auto-switch, which then remembers it; and the checkbox shows the
\* auto-switch if the option -auto-switch was not turned off.
CalmAgrees ==
  Quiet /\ calm => Settled /\ (options.autoSwitch => (tray.checked <=> autoSwitchOn))

Leaving(d) == /\ options.tray
              /\ \/ device[d].stage = "running" /\ device[d].cancelled
                 \/ device[d].stage = "returned"
HeadlessEnded == ~options.tray /\ at.main = "serving" /\ device[dev].stage = "returned"

\* Whoever can go on is enabled: a device whose Run must end, a shutdown
\* under way, and main, the clicks and the monitor as their conditions say.
Enabled(run, click, monitor) ==
  process = "up" =>
    /\ \A d \in Devs : Leaving(d) => ENABLED <<Live(DeviceStep(d))>>_vars
    /\ at.signal = "stop" => ENABLED <<Live(SignalStop)>>_vars
    /\ at.signal = "exit" \/ at.click = "quit" \/ HeadlessEnded => ENABLED <<End>>_vars
    /\ run => ENABLED <<Live(MainStep \/ HeadlessRun)>>_vars
    /\ click => ENABLED <<Live(ClickStep)>>_vars
    /\ monitor => ENABLED <<Live(MonitorStep)>>_vars

\* What main needs to run its device in headless mode.
CanRun ==
  /\ ~options.tray /\ at.main = "serving" /\ dev \in Devs
  /\ \/ device[dev].stage = "spawned"
     \/ device[dev].stage = "running" /\ device[dev].cancelled

\* What a callback needs to show the device's state in the menu.
CanShow(a) == at[a] \in {"showOn", "showOff"} => tray.made
Clicking == Busy("click") /\ at.click # "quit"
Noticing == Busy("monitor") \/ (at.monitor = "idle" /\ plugged # monitorPresent)

\* What the liveness theorems assume of ENABLED: the guards above are all
\* that a step needs.  What remains of NeverStuck is that one of them holds.
GuardsEnable ==
  Enabled(CanRun, Clicking /\ CanShow("click"), Noticing /\ CanShow("monitor"))

\* Whoever has something left to do can do it, whatever the others did
\* meanwhile: a device whose Run must end, a shutdown under way in either
\* mode, a callback of the clicks and, once there is a menu, the monitor
\* in a callback or with a change to notice.
NeverStuck ==
  Enabled(at.signal = "done" /\ ~HeadlessEnded, Clicking, tray.made /\ Noticing)

\* A device that is not the current one leaves the kernel, also when its
\* goroutine opened it only after it was stopped.
StaleDevicesGo ==
  \A d \in Devs : (device[d].kernel /\ d # dev) ~> ~(device[d].kernel /\ d # dev)

\* SIGTERM ends the daemon, whatever else is under way.
ExitsOnSignal == (at.signal \in {"stop", "done"}) ~> (process # "up")

\* In a process that stays up with a key plugged in for good, with the
\* auto-switch on and no click under way, the device is off in the end, or
\* the user turned it on after the key was noticed: whatever raced before.
YieldsToKey ==
  <>[](process = "up" /\ plugged /\ autoSwitchOn /\ at.click = "idle")
    => <>[](dev = None \/ user = "on")

\* In a process whose callbacks never overlapped, once the key is pulled
\* out for good, the device is back, unless the user turned it off.
ComesBack ==
  <>[](process = "up" /\ calm /\ ~plugged /\ autoSwitchOn /\ at.click = "idle")
    => <>[](dev # None \/ user = "off")

=============================================================================
