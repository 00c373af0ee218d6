--------------------------- MODULE DaemonLiveness ---------------------------
(***************************************************************************)
(* Liveness of Daemon, for any number of device objects: stopped devices   *)
(* leave the kernel, a signal ends the process, and the device follows the *)
(* YubiKey.  What ENABLED says of a single action is beyond the provers:   *)
(* that the guards of an action are all it needs is the hypothesis         *)
(* GuardsEnable of the theorems.  That nobody loses such a guard,          *)
(* NobodyStuck, is proved.                                                 *)
(***************************************************************************)
EXTENDS DaemonProofs

\* A device in the kernel is one that some goroutine runs or is about to close.
Opened == \A d \in Devs : device[d].kernel => device[d].stage \in {"running", "returned"}

\* The mode the process was started in.
Modes ==
  /\ at.click \in {"quitStop", "quit"} \/ at.signal \in {"stop", "exit"} <=> monCancelled
  /\ at.monitor = "ended" => monCancelled
  /\ options.tray => at.signal \in {"waiting", "stop", "exit"}
  /\ ~options.tray =>
       /\ ~autoSwitchOn
       /\ at.main \in {"boot", "serving"} /\ at.signal \in {"none", "waiting", "done"}
       /\ at.ready = "none" /\ at.click = "none" /\ at.monitor = "none"
       /\ at.main = "serving" => dev \in Devs /\ device[dev].stage # "gone"
       /\ at.main = "boot" => at.signal = "none"
       /\ at.signal = "done" => device[dev].cancelled
       /\ \A d \in Devs : d # dev => device[d].stage = "gone"

\* What the monitor has seen, and what it has told the callbacks.
Monitoring ==
  /\ at.monitor \in {"onInsert", "stopping", "showOff"} => monitorPresent
  /\ at.monitor \in {"none", "first", "onRemove", "starting", "showOn"} => ~monitorPresent
  /\ yubiKeyPresent <=> \/ monitorPresent /\ at.monitor # "onInsert"
                        \/ at.monitor = "onRemove"

\* The auto-switch stops a device that runs beside the key.
Yielding ==
  /\ at.click \in {"reenable", "starting"} => ~autoSwitchOn
  /\ autoSwitchOn /\ yubiKeyPresent /\ dev # None /\ user # "on" =>
       at.monitor = "stopping" \/ at.click \in {"autodisable", "stopping"}

\* The clicks come once there is a menu, and that once the monitor runs.
Menu ==
  /\ at.click # "none" => tray.made /\ at.monitor # "none" /\ at.ready = "done"
  /\ at.ready # "none" => at.monitor # "none"
  /\ at.main # "serving" => at.monitor = "none"


Leads == Opened /\ Modes /\ Monitoring /\ Yielding /\ Menu

LEMMA FreshLeads ==
  ASSUME Fresh
  PROVE  Leads
BY DEF Fresh, Leads, Opened, Modes, Monitoring, Yielding, Menu, FreshDevices, FreshPlaces,
       FreshSwitch, Gone

LEMMA StartDeviceOpened ==
  ASSUME TypeOK, Opened, StartDevice
  PROVE  Opened'
BY DEF TypeOK, Opened, StartDevice, Spawned, Gone

LEMMA StopDeviceOpened ==
  ASSUME TypeOK, Opened, StopDevice
  PROVE  Opened'
<1>1. \A d \in Devs : device'[d].kernel =>
                     device[d].kernel /\ device'[d].stage = device[d].stage
  BY NoneAssumption DEF TypeOK, StopDevice, Device
<1> QED BY <1>1 DEF Opened

\* main, onReady and the signals.
LEMMA MainLeads ==
  ASSUME IInv, Leads, process = "up", options' = options,
         MainStep \/ ReadyStep \/ Signal \/ SignalStop \/ HeadlessSignal
  PROVE  Leads'
<1>a. TypeOK /\ Quiescent /\ Checkbox
  BY DEF IInv
<1> USE DEF Leads
<1>1. CASE MainStart
  <2>1. /\ at'.main = "started" /\ at'.ready = at.ready /\ at'.click = at.click
        /\ at'.monitor = at.monitor /\ at'.signal = at.signal /\ at.main = "boot"
    BY <1>a, <1>1 DEF MainStart, Goto, TypeOK, Places
  <2>2. Opened'
    BY <1>a, <1>1, StartDeviceOpened DEF MainStart
  <2> QED BY <1>a, <1>1, <2>1, <2>2
             DEF MainStart, Modes, Monitoring, Yielding, Menu, Quiescent, flags, usb
<1>2. CASE MainServe
  <2>1. /\ at'.main = "serving" /\ at'.ready = "menu" /\ at'.click = at.click
        /\ at'.monitor = "first" /\ at'.signal = at.signal /\ at.main = "started"
        /\ at.ready = "none" /\ at.click = "none" /\ options.tray
    BY <1>a, <1>2 DEF MainServe, TypeOK, Places, Checkbox
  <2>2. at.monitor = "none"
    BY <2>1 DEF Menu
  <2> QED BY <1>2, <2>1, <2>2
             DEF MainServe, Opened, Modes, Monitoring, Yielding, Menu, flags, usb
<1>3. CASE HeadlessStart
  <2>1. /\ at'.main = "serving" /\ at'.ready = at.ready /\ at'.click = at.click
        /\ at'.monitor = at.monitor /\ at'.signal = "waiting" /\ at.main = "boot"
    BY <1>a, <1>3 DEF HeadlessStart, TypeOK, Places
  <2>2. Opened'
    BY <1>a, <1>3 DEF HeadlessStart, Opened, Spawned, Gone, TypeOK
  <2>3. Modes'
    BY <1>a, <1>3, <2>1 DEF HeadlessStart, Modes, Spawned, Gone, Quiescent, TypeOK, flags, usb
  <2> QED BY <1>a, <1>3, <2>1, <2>2, <2>3
             DEF HeadlessStart, Monitoring, Yielding, Menu, Quiescent, flags, usb, Modes
<1>4. CASE ReadyStep
  <2>1. /\ at'.main = at.main /\ at'.monitor = at.monitor /\ at'.signal = at.signal
        /\ at.ready # "none" /\ at'.ready # "none"
        /\ \/ at'.click = at.click /\ at.ready = "menu"
           \/ at'.click = "idle" /\ at'.ready = "done" /\ at.ready = "show"
    BY <1>a, <1>4 DEF ReadyStep, CreateMenu, ShowReady, Goto, TypeOK, Places
  <2>2. at.click = "none" /\ (at'.click # "none" => tray'.made) /\ at.main = "serving"
    BY <1>a, <1>4, <2>1 DEF ReadyStep, CreateMenu, ShowReady, Checkbox, TypeOK
  <2> QED BY <1>4, <2>1, <2>2 DEF ReadyStep, CreateMenu, ShowReady, Opened, Modes, Monitoring,
                             Yielding, Menu, flags, usb
<1>5. CASE Signal
  <2>1. /\ at'.main = at.main /\ at'.monitor = at.monitor /\ at'.signal = "stop"
        /\ at'.ready = at.ready /\ at'.click = at.click
    BY <1>a, <1>5 DEF Signal, Goto, TypeOK, Places
  <2> QED BY <1>5, <2>1 DEF Signal, Opened, Modes, Monitoring, Yielding, Menu, flags
<1>6. CASE SignalStop
  <2>1. /\ at'.main = at.main /\ at'.monitor = at.monitor /\ at'.signal = "exit"
        /\ at'.ready = at.ready /\ at'.click = at.click /\ at.signal = "stop"
    BY <1>a, <1>6 DEF SignalStop, Goto, TypeOK, Places
  <2>2. Opened'
    BY <1>a, <1>6, StopDeviceOpened DEF SignalStop
  <2> QED BY <1>6, <2>1, <2>2
             DEF SignalStop, StopDevice, Modes, Monitoring, Yielding, Menu, flags, usb
<1>7. CASE HeadlessSignal
  <2>1. /\ at'.main = at.main /\ at'.monitor = at.monitor /\ at'.signal = "done"
        /\ at'.ready = at.ready /\ at'.click = at.click /\ at.signal = "waiting"
    BY <1>a, <1>7 DEF HeadlessSignal, Goto, TypeOK, Places
  <2>2. \A d \in Devs : /\ device'[d].stage = device[d].stage
                        /\ device'[d].kernel = device[d].kernel
    BY <1>a, <1>7 DEF HeadlessSignal, TypeOK, Device
  <2>3. dev \in Devs => device'[dev].cancelled
    BY <1>a, <1>7 DEF HeadlessSignal, TypeOK, Device
  <2> QED BY <1>7, <2>1, <2>2, <2>3
             DEF HeadlessSignal, Opened, Modes, Monitoring, Yielding, Menu, flags, usb
<1> QED BY <1>1, <1>2, <1>3, <1>4, <1>5, <1>6, <1>7 DEF MainStep

\* The end of a callback, on either goroutine.
LEMMA CallbackLeads ==
  ASSUME IInv, Leads, process = "up", options' = options,
         NEW a \in {"click", "monitor"}, Start(a) \/ Stop(a) \/ Show(a)
  PROVE  Leads'
<1>a. TypeOK
  BY DEF IInv
<1> USE DEF Leads
<1>b. /\ at'.main = at.main /\ at'.ready = at.ready /\ at'.signal = at.signal
      /\ \/ a = "click" /\ at'.monitor = at.monitor
         \/ a = "monitor" /\ at'.click = at.click
  BY <1>a DEF Start, Stop, Show, Goto, TypeOK, Places
<1>c. options.tray /\ UNCHANGED <<autoSwitchOn, yubiKeyPresent, usb>>
  BY <1>a DEF Start, Stop, Show, Modes, flags
<1>1. CASE Start(a)
  <2>1. at[a] \in {"starting", "enabling"} /\ at'[a] = "showOn"
    BY <1>a, <1>1 DEF Start, Goto, TypeOK, Places
  <2>2. Opened'
    BY <1>a, <1>1, StartDeviceOpened DEF Start
  <2>3. /\ at[a] = "enabling" => user' = "on"
        /\ at[a] = "starting" => (user = "on" => user' = "on")
    BY <1>1 DEF Start
  <2>4. Yielding'
    <3>1. CASE a = "click"
      BY <1>b, <1>c, <2>1, <2>3, <3>1 DEF Yielding
    <3>2. CASE a = "monitor"
      <4>1. at.monitor = "starting"
        BY <1>a, <2>1, <3>2 DEF TypeOK, Places
      <4> QED BY <1>b, <1>c, <2>1, <2>3, <3>2, <4>1 DEF Yielding, Monitoring
    <3> QED BY <3>1, <3>2
  <2>5. a = "monitor" => at.monitor = "starting"
    BY <1>a, <2>1 DEF TypeOK, Places
  <2> QED BY <1>1, <1>b, <1>c, <2>1, <2>2, <2>4, <2>5 DEF Start, Modes, Monitoring, Menu, usb
<1>2. CASE Stop(a)
  <2>1. at[a] \in {"stopping", "disabling"} /\ at'[a] = "showOff" /\ dev' = None
    BY <1>a, <1>2 DEF Stop, StopDevice, Goto, TypeOK, Places
  <2>2. Opened'
    BY <1>a, <1>2, StopDeviceOpened DEF Stop
  <2>3. a = "monitor" => at.monitor = "stopping"
    BY <1>a, <2>1 DEF TypeOK, Places
  <2> QED BY <1>2, <1>b, <1>c, <2>1, <2>2, <2>3
             DEF Stop, Modes, Monitoring, Yielding, Menu, usb
<1>3. CASE Show(a)
  <2>1. at[a] \in {"showOn", "showOff"} /\ at'[a] = "idle" /\ tray'.made = tray.made
    BY <1>a, <1>3 DEF Show, Goto, TypeOK, Places
  <2> QED BY <1>3, <1>b, <1>c, <2>1
             DEF Show, Opened, Modes, Monitoring, Yielding, Menu, usb, flags
<1> QED BY <1>1, <1>2, <1>3

LEMMA ClickLeads ==
  ASSUME IInv, Leads, process = "up", options' = options, ClickStep \/ UserStep
  PROVE  Leads'
<1>a. TypeOK
  BY DEF IInv
<1> USE DEF Leads
<1>1. CASE OnToggle \/ OnAutoSwitchChanged \/ ReEnable \/ AutoDisable \/ UserStep
  <2>1. /\ at'.main = at.main /\ at'.ready = at.ready /\ at'.signal = at.signal
        /\ at'.monitor = at.monitor /\ at.click \notin {"none", "quitStop", "quit"}
        /\ \/ at'.click \notin {"none", "starting", "reenable", "quitStop", "quit"}
              /\ at.click \notin {"autodisable", "stopping"}
           \/ at'.click = "reenable" /\ OnAutoSwitchChanged /\ ~tray.checked
           \/ at'.click = "starting" /\ at.click = "reenable"
           \/ at'.click = "stopping" /\ at.click = "autodisable"
           \/ at'.click = "quitStop" /\ ClickQuit /\ at.click = "idle"
    BY <1>a, <1>1 DEF OnToggle, OnAutoSwitchChanged, ReEnable, AutoDisable, UserStep,
                      ClickToggle, ClickAutoSwitch, ClickQuit, Goto, TypeOK, Places
  <2>2. UNCHANGED <<dev, device, yubiKeyPresent, monitorPresent>>
        /\ tray'.made = tray.made
        /\ (monCancelled' <=> monCancelled \/ ClickQuit) /\ options.tray
    BY <1>a, <1>1 DEF OnToggle, OnAutoSwitchChanged, ReEnable, AutoDisable, UserStep,
                      ClickToggle, ClickAutoSwitch, ClickQuit, TypeOK, flags, usb, Modes
  <2>3. ClickQuit => at'.click = "quitStop"
    BY <1>a DEF ClickQuit, Goto, TypeOK, Places
  <2>4. Yielding'
    <3>1. CASE OnAutoSwitchChanged
      <4>1. /\ autoSwitchOn' = tray.checked /\ user' = user
            /\ at'.click = IF ~tray.checked /\ stoppedByAuto THEN "reenable"
                           ELSE IF tray.checked /\ yubiKeyPresent THEN "autodisable"
                           ELSE "idle"
        BY <1>a, <3>1 DEF OnAutoSwitchChanged, Goto, TypeOK, Places
      <4> QED BY <2>2, <4>1 DEF Yielding
    <3>2. CASE ~OnAutoSwitchChanged
      <4>1. /\ autoSwitchOn' = autoSwitchOn
            /\ user' = user \/ at'.click = "stopping"
        BY <1>a, <1>1, <3>2 DEF OnToggle, ReEnable, AutoDisable, UserStep, ClickToggle,
             ClickAutoSwitch, ClickQuit, Goto, TypeOK, Places, flags
      <4> QED BY <2>1, <2>2, <3>2, <4>1 DEF Yielding
    <3> QED BY <3>1, <3>2
  <2> QED BY <2>1, <2>2, <2>3, <2>4 DEF Opened, Modes, Monitoring, Menu
<1>2. CASE QuitStop
  <2>1. /\ at'.main = at.main /\ at'.ready = at.ready /\ at'.signal = at.signal
        /\ at'.monitor = at.monitor /\ at.click = "quitStop" /\ at'.click = "quit"
        /\ dev' = None
    BY <1>a, <1>2 DEF QuitStop, StopDevice, Goto, TypeOK, Places
  <2>2. Opened' /\ options.tray
    BY <1>a, <1>2, <2>1, StopDeviceOpened DEF QuitStop, Modes
  <2> QED BY <1>2, <2>1, <2>2 DEF QuitStop, Modes, Monitoring, Yielding, Menu, usb, flags
<1>3. Start("click") \/ Stop("click") \/ Show("click") => Leads'
  BY CallbackLeads
<1> QED BY <1>1, <1>2, <1>3 DEF ClickStep

LEMMA MonitorLeads ==
  ASSUME IInv, Leads, process = "up", options' = options, MonitorStep
  PROVE  Leads'
<1>a. TypeOK
  BY DEF IInv
<1> USE DEF Leads
<1>b. CASE FirstScan \/ Tick \/ MonitorEnds \/ OnInsert \/ OnRemove
  <2>1. /\ at'.main = at.main /\ at'.ready = at.ready /\ at'.signal = at.signal
        /\ at'.click = at.click
    BY <1>a, <1>b DEF FirstScan, Tick, MonitorEnds, OnInsert, OnRemove, Goto, TypeOK, Places
  <2>2. UNCHANGED <<dev, device, autoSwitchOn, monCancelled, tray>> /\ options.tray
    BY <1>a, <1>b
       DEF FirstScan, Tick, MonitorEnds, OnInsert, OnRemove, flags, usb, Modes
  <2>3. CASE FirstScan \/ Tick \/ MonitorEnds
    <3>1. /\ at.monitor \in {"first", "idle"}
          /\ \/ at'.monitor = "onInsert" /\ monitorPresent'
             \/ at'.monitor = "onRemove" /\ ~monitorPresent' /\ monitorPresent
             \/ at'.monitor = "idle" /\ ~monitorPresent' /\ at.monitor = "first"
             \/ at'.monitor = "ended" /\ monitorPresent' = monitorPresent
                  /\ at.monitor = "idle" /\ monCancelled
      BY <1>a, <2>3 DEF FirstScan, Tick, MonitorEnds, Goto, TypeOK, Places, usb, Monitoring
    <3>2. yubiKeyPresent' = yubiKeyPresent /\ user' = user
      BY <2>3 DEF FirstScan, Tick, MonitorEnds, flags
    <3>3. at'.monitor = "onInsert" => ~monitorPresent
      BY <1>a, <2>3 DEF FirstScan, Tick, MonitorEnds, Goto, TypeOK, Places, Monitoring
    <3> QED BY <2>1, <2>2, <3>1, <3>2, <3>3 DEF Opened, Modes, Monitoring, Yielding, Menu
  <2>4. CASE OnInsert
    <3>1. /\ at.monitor = "onInsert" /\ yubiKeyPresent' /\ monitorPresent' = monitorPresent
          /\ at'.monitor = IF autoSwitchOn THEN "stopping" ELSE "idle"
      BY <1>a, <2>4 DEF OnInsert, Goto, TypeOK, Places, usb
    <3> QED BY <2>1, <2>2, <3>1 DEF Opened, Modes, Monitoring, Yielding, Menu
  <2>5. CASE OnRemove
    <3>1. /\ at.monitor = "onRemove" /\ ~yubiKeyPresent' /\ monitorPresent' = monitorPresent
          /\ at'.monitor \in {"starting", "idle"}
      BY <1>a, <2>5 DEF OnRemove, Goto, TypeOK, Places, usb
    <3> QED BY <2>1, <2>2, <3>1 DEF Opened, Modes, Monitoring, Yielding, Menu
  <2> QED BY <1>b, <2>3, <2>4, <2>5
<1>1. Start("monitor") \/ Stop("monitor") \/ Show("monitor") => Leads'
  BY CallbackLeads
<1> QED BY <1>b, <1>1 DEF MonitorStep

LEMMA DeviceLeads ==
  ASSUME IInv, Leads, process = "up", options' = options,
         NEW d \in Devs, DeviceStep(d) \/ DeviceRunFails(d)
  PROVE  Leads'
<1>a. TypeOK
  BY DEF IInv
<1>1. UNCHANGED <<dev, flags, usb, tray, at, user>>
  BY DEF DeviceStep, DeviceOpen, DeviceRunEnds, DeviceClose, DeviceRunFails
<1>2. /\ device[d].stage # "gone"
      /\ ~options.tray => device'[d].stage # "gone" /\ device'[d].cancelled = device[d].cancelled
      /\ device'[d].kernel => device'[d].stage \in {"running", "returned"}
      /\ \A c \in Devs : c # d => device'[c] = device[c]
  BY <1>a DEF DeviceStep, DeviceOpen, DeviceRunEnds, DeviceClose, DeviceRunFails, Gone,
              TypeOK, Device, Opened, Leads
<1> QED BY <1>1, <1>2 DEF Leads, Opened, Modes, Monitoring, Yielding, Menu, flags, usb

LEMMA NextLeads ==
  ASSUME IInv, Leads, [Next]_vars
  PROVE  Leads'
<1>1. CASE UNCHANGED vars
  BY <1>1 DEF Leads, Opened, Modes, Monitoring, Yielding, Menu, vars, flags, usb
<1>2. CASE Live(LiveNext)
  BY <1>2, MainLeads, ClickLeads, MonitorLeads, DeviceLeads DEF Live, LiveNext
<1>3. ASSUME NEW how \in {"exited", "failed"}, EndProcess(how)
      PROVE  Leads'
  <2>1. Fresh'
    BY <1>3, EndFresh
  <2> QED BY <2>1 DEF Fresh, Leads, Opened, Modes, Monitoring, Yielding, Menu, FreshDevices,
                      FreshPlaces, FreshSwitch, Gone
<1>4. CASE Restart \/ Plug
  BY <1>4 DEF Restart, Plug, Leads, Opened, Modes, Monitoring, Yielding, Menu, flags, usb
<1> QED BY <1>1, <1>2, <1>3, <1>4, NextSplit

\* What every reachable state has besides IInv.
LEMMA Leading == Spec => [](IInv /\ Leads)
<1>1. Init => Leads
  BY FreshLeads DEF Init
<1> QED BY <1>1, NextLeads, Invariance, PTL DEF Spec

-----------------------------------------------------------------------------
(* Nobody is ever stuck.                                                   *)

\* After a signal in headless mode main's device can run on until its Run
\* returns; clicks come after the menu.
LEMMA CanGoOn ==
  ASSUME IInv, Leads
  PROVE  /\ at.signal = "done" /\ ~HeadlessEnded => CanRun
         /\ Clicking => CanShow("click")
<1>1. ASSUME at.signal = "done", ~HeadlessEnded
      PROVE  CanRun
  <2>1. ~options.tray /\ at.main = "serving"
    BY <1>1 DEF Leads, Modes, IInv, TypeOK
  <2>2. /\ dev \in Devs /\ device[dev].stage # "gone" /\ device[dev].cancelled
        /\ device[dev].stage \in {"gone", "spawned", "running", "returned"}
    BY <1>1, <2>1 DEF Leads, Modes, IInv, TypeOK, Device
  <2> QED BY <1>1, <2>1, <2>2 DEF CanRun, HeadlessEnded
<1>2. Clicking => tray.made
  BY DEF Clicking, Busy, Leads, Menu
<1> QED BY <1>1, <1>2 DEF CanShow

\* Whatever callbacks, devices and signals raced before, who has something
\* left to do has a step of its own to take.
THEOREM NobodyStuck == Spec /\ []GuardsEnable => []NeverStuck
<1>1. IInv /\ Leads /\ GuardsEnable => NeverStuck
  BY CanGoOn DEF GuardsEnable, NeverStuck, Enabled, CanShow
<1> QED BY <1>1, Leading, PTL

-----------------------------------------------------------------------------
(* Stopped devices leave the kernel.                                       *)

Stale(d) == device[d].kernel /\ d # dev
StaleRunning(d) == Stale(d) /\ device[d].stage = "running"
StaleReturned(d) == Stale(d) /\ device[d].stage = "returned"

\* Every step leaves a device where it is, or takes it further.
LEMMA DeviceOnward ==
  ASSUME IInv, Leads, [Next]_vars, NEW d \in Devs, process = "up"
  PROVE  \/ process' # "up" /\ device'[d] = Gone
         \/ device'[d].stage = device[d].stage
         \/ device[d].stage = "gone" /\ device'[d].stage = "spawned"
         \/ device[d].stage = "spawned" /\ device'[d].stage \in {"running", "returned"}
         \/ device[d].stage = "running" /\ device'[d].stage = "returned"
         \/ device[d].stage = "returned" /\ device'[d] = Gone /\ options.tray
<1>a. TypeOK /\ Quiescent
  BY DEF IInv
<1>1. CASE UNCHANGED vars
  BY <1>1 DEF vars
<1>2. CASE Live(LiveNext)
  <2>1. CASE StartDevice
    BY <1>a, <2>1 DEF StartDevice, TypeOK, Spawned, Gone
  <2>2. CASE StopDevice
    BY <1>a, <2>2, NoneAssumption DEF StopDevice, TypeOK, Device
  <2>3. CASE HeadlessStart
    BY <1>a, <2>3 DEF HeadlessStart, TypeOK, Spawned, Gone, Quiescent
  <2>4. CASE HeadlessSignal
    BY <1>a, <2>4 DEF HeadlessSignal, TypeOK, Device
  <2>5. ASSUME NEW c \in Devs, DeviceStep(c) \/ DeviceRunFails(c)
        PROVE  \/ device'[d].stage = device[d].stage
               \/ device[d].stage = "spawned" /\ device'[d].stage \in {"running", "returned"}
               \/ device[d].stage = "running" /\ device'[d].stage = "returned"
               \/ device[d].stage = "returned" /\ device'[d] = Gone /\ options.tray
    BY <1>a, <2>5 DEF DeviceStep, DeviceOpen, DeviceRunEnds, DeviceClose, DeviceRunFails,
                      TypeOK, Device
  <2>6. CASE UNCHANGED device
    BY <2>6
  <2>7. \A a \in {"click", "monitor"} :
          Start(a) \/ Stop(a) \/ Show(a) => StartDevice \/ StopDevice \/ UNCHANGED device
    BY DEF Start, Stop, Show
  <2>8. MainStep \/ ReadyStep \/ ClickStep \/ MonitorStep \/ UserStep \/ Signal \/ SignalStop =>
          StartDevice \/ StopDevice \/ HeadlessStart \/ UNCHANGED device
    BY <2>7 DEF MainStep, MainStart, MainServe, ReadyStep, CreateMenu, ShowReady, ClickStep,
         MonitorStep, UserStep, OnToggle, OnAutoSwitchChanged, ReEnable, AutoDisable, QuitStop,
         FirstScan, Tick, MonitorEnds, OnInsert, OnRemove, ClickToggle, ClickAutoSwitch,
         ClickQuit, Signal, SignalStop
  <2> QED BY <1>2, <2>1, <2>2, <2>3, <2>4, <2>5, <2>6, <2>8 DEF Live, LiveNext
<1>3. ASSUME NEW how \in {"exited", "failed"}, EndProcess(how)
      PROVE  process' # "up" /\ device'[d] = Gone
  BY <1>3 DEF EndProcess, FreshDevices
<1>4. CASE Restart \/ Plug
  BY <1>4 DEF Restart, Plug
<1> QED BY <1>1, <1>2, <1>3, <1>4, NextSplit

\* A stale device belongs to a live process in tray mode, and must end.
LEMMA StaleLeaves ==
  ASSUME IInv, Leads, NEW d \in Devs, Stale(d)
  PROVE  process = "up" /\ Leaving(d) /\ (StaleRunning(d) \/ StaleReturned(d))
<1>1. process = "up"
  BY DEF IInv, Quiescent, Fresh, FreshDevices, Gone, Stale
<1>2. device[d].stage \in {"running", "returned"}
  BY DEF Leads, Opened, Stale
<1>3. device[d].stage = "running" => device[d].cancelled
  BY DEF IInv, LiveDeviceIsCurrent, Stale
<1>4. options.tray
  BY <1>2 DEF IInv, TypeOK, Leads, Modes, Stale
<1> QED BY <1>1, <1>2, <1>3, <1>4 DEF Leaving, StaleRunning, StaleReturned

LEMMA StaleOnTheWay ==
  ASSUME IInv, Leads, [Next]_vars, NEW d \in Devs
  PROVE  /\ StaleRunning(d) => StaleRunning(d)' \/ StaleReturned(d)' \/ ~Stale(d)'
         /\ StaleReturned(d) => StaleReturned(d)' \/ ~Stale(d)'
BY DeviceOnward, StaleLeaves DEF StaleRunning, StaleReturned, Stale, Gone

LEMMA StaleOwnSteps ==
  ASSUME IInv, NEW d \in Devs, DeviceStep(d)
  PROVE  /\ StaleRunning(d) => ~StaleRunning(d)'
         /\ StaleReturned(d) => ~StaleReturned(d)'
BY DEF IInv, TypeOK, Device, DeviceStep, DeviceOpen, DeviceRunEnds, DeviceClose, Gone,
       StaleRunning, StaleReturned, Stale

\* A device that was stopped leaves the kernel: even one that its goroutine opened only after it was stopped.
THEOREM StoppedDevicesLeave == FairSpec /\ []GuardsEnable => StaleDevicesGo
<1>1. ASSUME NEW d \in Devs
      PROVE  Spec /\ DeviceFairness(d) /\ []NeverStuck =>
               ((device[d].kernel /\ d # dev) ~> ~(device[d].kernel /\ d # dev))
  <2>1. IInv /\ Leads /\ [Next]_vars =>
          /\ StaleRunning(d) => StaleRunning(d)' \/ StaleReturned(d)' \/ ~Stale(d)'
          /\ StaleReturned(d) => StaleReturned(d)' \/ ~Stale(d)'
    BY StaleOnTheWay
  <2>2. IInv /\ <<Live(DeviceStep(d))>>_vars =>
          /\ StaleRunning(d) => ~StaleRunning(d)'
          /\ StaleReturned(d) => ~StaleReturned(d)'
    BY StaleOwnSteps DEF Live
  <2>3. IInv /\ Leads => (Stale(d) => StaleRunning(d) \/ StaleReturned(d))
    BY StaleLeaves
  <2>4. IInv /\ Leads /\ NeverStuck =>
          (StaleRunning(d) \/ StaleReturned(d) => ENABLED <<Live(DeviceStep(d))>>_vars)
    BY StaleLeaves DEF NeverStuck, Enabled, StaleRunning, StaleReturned
  <2>5. Stale(d) <=> device[d].kernel /\ d # dev
    BY DEF Stale
  <2> QED BY <2>1, <2>2, <2>3, <2>4, <2>5, Leading, PTL DEF Spec, DeviceFairness
<1>2. FairSpec => Spec /\ \A d \in Devs : DeviceFairness(d)
  BY PTL DEF FairSpec, Fairness
<1>3. Spec /\ (\A d \in Devs : DeviceFairness(d)) /\ []NeverStuck => StaleDevicesGo
  BY <1>1 DEF StaleDevicesGo
<1> QED BY <1>2, <1>3, NobodyStuck, PTL

-----------------------------------------------------------------------------
(* A signal ends the process.                                              *)

\* Where a shutdown stands: with the tray in the handler's goroutine, in
\* headless mode with the device that main runs.
Stopping == at.signal = "stop"
Exiting == at.signal = "exit"
Unopened == at.signal = "done" /\ device[dev].stage = "spawned"
Unfinished == at.signal = "done" /\ device[dev].stage = "running"
Finished == at.signal = "done" /\ device[dev].stage = "returned"
Ending == at.signal \in {"stop", "exit", "done"}
Over == process # "up"

\* A process that a signal reached is alive, and has none of what the other
\* mode has.
LEMMA EndingFacts ==
  ASSUME IInv, Leads
  PROVE  /\ Ending => process = "up"
         /\ Ending => Stopping \/ Exiting \/ Unopened \/ Unfinished \/ Finished
         /\ at.signal = "done" => /\ ~options.tray /\ at.main = "serving" /\ dev \in Devs
                                 /\ at.click = "none" /\ at.monitor = "none"
                                 /\ at.ready = "none" /\ device[dev].cancelled
<1>1. Ending => process = "up"
  BY DEF IInv, Quiescent, Fresh, FreshPlaces, Ending
<1>2. at.signal = "done" => ~options.tray /\ at.main = "serving"
  BY DEF Leads, Modes, IInv, TypeOK
<1>3. at.signal = "done" => dev \in Devs /\ device[dev].stage \in {"spawned", "running", "returned"}
  BY <1>2 DEF Leads, Modes, IInv, TypeOK, Device
<1> QED BY <1>1, <1>2, <1>3
        DEF Leads, Modes, Ending, Stopping, Exiting, Unopened, Unfinished, Finished

\* Only the handler's own steps and the end move at.signal once a signal came.
LEMMA SignalOnward ==
  ASSUME IInv, Leads, [Next]_vars, Ending
  PROVE  \/ process' # "up"
         \/ at'.signal = at.signal /\ (at.signal = "done" => dev' = dev)
         \/ at.signal = "stop" /\ at'.signal = "exit"
<1>a. TypeOK /\ process = "up"
  BY EndingFacts DEF IInv
<1>1. CASE UNCHANGED vars
  BY <1>1 DEF vars
<1>2. CASE Live(LiveNext)
  <2>1. CASE MainStep
    <3>1. CASE HeadlessStart
      BY <1>a, <3>1 DEF HeadlessStart, Ending, Leads, Modes, TypeOK, Places
    <3>2. CASE MainStart \/ MainServe
      <4>1. options.tray
        BY <3>2 DEF MainStart, MainServe, IInv, Checkbox, Leads, Modes
      <4> QED BY <1>a, <3>2, <4>1, EndingFacts
                 DEF MainStart, MainServe, Goto, TypeOK, Places
    <3> QED BY <2>1, <3>1, <3>2 DEF MainStep
  <2>6. CASE ReadyStep
    BY <1>a, <2>6 DEF ReadyStep, CreateMenu, ShowReady, Goto, TypeOK, Places
  <2>7. CASE HeadlessSignal \/ Signal
    BY <2>7 DEF HeadlessSignal, Signal, Ending
  <2>2. CASE ClickStep \/ UserStep
    BY <1>a, <2>2, EndingFacts
       DEF ClickStep, UserStep, OnToggle, OnAutoSwitchChanged, ReEnable, AutoDisable, QuitStop,
           Start, Stop, Show, ClickToggle, ClickAutoSwitch, ClickQuit, Goto, TypeOK, Places
  <2>3. CASE MonitorStep
    BY <1>a, <2>3, EndingFacts
       DEF MonitorStep, FirstScan, Tick, MonitorEnds, OnInsert, OnRemove, Start, Stop, Show,
           Goto, TypeOK, Places
  <2>4. CASE SignalStop
    BY <1>a, <2>4 DEF SignalStop, Goto, TypeOK, Places
  <2>5. CASE \E d \in Devs : DeviceStep(d) \/ DeviceRunFails(d)
    BY <2>5 DEF DeviceStep, DeviceOpen, DeviceRunEnds, DeviceClose, DeviceRunFails
  <2> QED BY <1>2, <2>1, <2>2, <2>3, <2>4, <2>5, <2>6, <2>7 DEF Live, LiveNext
<1>3. CASE \E how \in {"exited", "failed"} : EndProcess(how)
  BY <1>3 DEF EndProcess
<1>4. CASE Restart \/ Plug
  BY <1>a, <1>4 DEF Restart, Plug
<1> QED BY <1>1, <1>2, <1>3, <1>4, NextSplit

LEMMA EndingOnTheWay ==
  ASSUME IInv, Leads, [Next]_vars
  PROVE  /\ Stopping => Stopping' \/ Exiting' \/ Over'
         /\ Exiting => Exiting' \/ Over'
         /\ Unopened => Unopened' \/ Unfinished' \/ Finished' \/ Over'
         /\ Unfinished => Unfinished' \/ Finished' \/ Over'
         /\ Finished => Finished' \/ Over'
<1>1. ASSUME Stopping \/ Exiting
      PROVE  \/ process' # "up" \/ at'.signal = at.signal
             \/ at.signal = "stop" /\ at'.signal = "exit"
  <2>1. Ending
    BY <1>1 DEF Stopping, Exiting, Ending
  <2> QED BY <2>1, SignalOnward
<1>2. at.signal = "done" => \/ process' # "up"
                            \/ at'.signal = "done" /\ dev' = dev /\ dev \in Devs /\ ~options.tray
                                 /\ process = "up"
  BY SignalOnward, EndingFacts DEF Ending
<1>3. at.signal = "done" =>
        \/ process' # "up"
        \/ at'.signal = "done" /\
             \/ device'[dev'].stage = device[dev].stage
             \/ device[dev].stage = "gone"
             \/ device[dev].stage = "spawned" /\ device'[dev'].stage \in {"running", "returned"}
             \/ device[dev].stage = "running" /\ device'[dev'].stage = "returned"
  BY <1>2, DeviceOnward
<1> QED BY <1>1, <1>3 DEF Stopping, Exiting, Unopened, Unfinished, Finished, Over

LEMMA EndingOwnSteps ==
  ASSUME IInv, Leads
  PROVE  /\ Live(SignalStop) => (Stopping => ~Stopping')
         /\ End => Over'
         /\ Live(MainStep \/ HeadlessRun) =>
              (Unopened => ~Unopened') /\ (Unfinished => ~Unfinished')
<1>a. TypeOK
  BY DEF IInv
<1>1. Live(SignalStop) => (Stopping => ~Stopping')
  BY <1>a DEF Live, SignalStop, Stopping, Goto, TypeOK, Places
<1>2. End => Over'
  BY DEF Over, End, Exit, HeadlessEnd, HeadlessFatal, Panic, EndProcess
<1>3. ASSUME Live(MainStep \/ HeadlessRun), Unopened \/ Unfinished
      PROVE  (Unopened => ~Unopened') /\ (Unfinished => ~Unfinished')
  <2>1. ~options.tray /\ at.main = "serving" /\ dev \in Devs
    BY <1>3, EndingFacts DEF Unopened, Unfinished
  <2>2. HeadlessRun
    BY <1>3, <2>1 DEF Live, MainStep, MainStart, MainServe, HeadlessStart
  <2>3. DeviceStep(dev) /\ dev' = dev
    BY <2>2 DEF HeadlessRun, DeviceStep, DeviceOpen, DeviceRunEnds, DeviceClose
  <2> QED BY <1>a, <2>1, <2>3 DEF DeviceStep, DeviceOpen, DeviceRunEnds, DeviceClose, TypeOK,
                                  Device, Gone, Unopened, Unfinished
<1> QED BY <1>1, <1>2, <1>3

\* A shutdown under way ends the process.
LEMMA EndingLeadsToEnd == FairSpec /\ []GuardsEnable => (Ending ~> Over)
<1>1. Spec /\ MainFairness /\ SignalFairness /\ []NeverStuck => (Ending ~> Over)
  <2>1. IInv /\ Leads /\ [Next]_vars =>
          /\ Stopping => Stopping' \/ Exiting' \/ Over'
          /\ Exiting => Exiting' \/ Over'
          /\ Unopened => Unopened' \/ Unfinished' \/ Finished' \/ Over'
          /\ Unfinished => Unfinished' \/ Finished' \/ Over'
          /\ Finished => Finished' \/ Over'
    BY EndingOnTheWay
  <2>2. IInv /\ Leads =>
          /\ <<Live(SignalStop)>>_vars => (Stopping => ~Stopping')
          /\ <<End>>_vars => Over'
          /\ <<Live(MainStep \/ HeadlessRun)>>_vars =>
               (Unopened => ~Unopened') /\ (Unfinished => ~Unfinished')
    BY EndingOwnSteps
  <2>3. IInv /\ Leads => (Ending => Stopping \/ Exiting \/ Unopened \/ Unfinished \/ Finished)
    BY EndingFacts
  <2>4. IInv /\ Leads /\ NeverStuck =>
          /\ Stopping => ENABLED <<Live(SignalStop)>>_vars
          /\ Exiting \/ Finished => ENABLED <<End>>_vars
          /\ Unopened \/ Unfinished => ENABLED <<Live(MainStep \/ HeadlessRun)>>_vars
    <3> SUFFICES ASSUME IInv, Leads, NeverStuck
                 PROVE  /\ Stopping => ENABLED <<Live(SignalStop)>>_vars
                        /\ Exiting \/ Finished => ENABLED <<End>>_vars
                        /\ Unopened \/ Unfinished =>
                             ENABLED <<Live(MainStep \/ HeadlessRun)>>_vars
      OBVIOUS
    <3>1. Stopping \/ Exiting \/ Unopened \/ Unfinished \/ Finished => process = "up"
      BY EndingFacts DEF Ending, Stopping, Exiting, Unopened, Unfinished, Finished
    <3>2. Finished => HeadlessEnded
      BY EndingFacts DEF Finished, HeadlessEnded
    <3>3. Unopened \/ Unfinished => at.signal = "done" /\ ~HeadlessEnded
      BY DEF Unopened, Unfinished, HeadlessEnded
    <3> QED BY <3>1, <3>2, <3>3 DEF NeverStuck, Enabled, Stopping, Exiting
  <2> QED BY <2>1, <2>2, <2>3, <2>4, Leading, PTL DEF Spec, MainFairness, SignalFairness
<1>2. FairSpec => Spec /\ MainFairness /\ SignalFairness
  BY PTL DEF FairSpec, Fairness
<1> QED BY <1>1, <1>2, NobodyStuck, PTL

\* A signal leads to the end of the process, whatever the tray, the monitor and the devices do meanwhile.
THEOREM SignalEndsProcess == FairSpec /\ []GuardsEnable => ExitsOnSignal
<1>1. Over <=> process # "up"
  BY DEF Over
<1>2. (at.signal \in {"stop", "done"}) => Ending
  BY DEF Ending
<1> QED BY <1>1, <1>2, EndingLeadsToEnd, PTL DEF ExitsOnSignal

-----------------------------------------------------------------------------
(* The device follows the YubiKey.                                         *)

\* What both properties suppose of the process, and where the monitor is:
\* in a callback, or idle with the key noticed or missed.
Undisturbed == /\ process = "up" /\ autoSwitchOn /\ at.click = "idle"
               /\ ~Ending
Scanning == at.monitor = "first"
Inserting == at.monitor = "onInsert"
StoppingDevice == at.monitor = "stopping"
ShowingOff == at.monitor = "showOff"
Noticed == at.monitor = "idle" /\ monitorPresent
Removing == at.monitor = "onRemove"
StartingDevice == at.monitor = "starting"
ShowingOn == at.monitor = "showOn"
Missed == at.monitor = "idle" /\ ~monitorPresent

Monitors == \/ Scanning \/ Inserting \/ StoppingDevice \/ ShowingOff \/ Noticed
            \/ Removing \/ StartingDevice \/ ShowingOn \/ Missed

\* Nobody has told the monitor to end, and there is a menu for it to use.
LEMMA UndisturbedFacts ==
  ASSUME IInv, Leads, Undisturbed
  PROVE  Monitors /\ ~monCancelled /\ tray.made /\ options.tray
<1>1. options.tray
  BY DEF Leads, Modes, Undisturbed
<1>2. ~monCancelled
  BY <1>1 DEF Leads, Modes, Undisturbed, Ending
<1>3. tray.made /\ at.monitor # "none"
  BY DEF Leads, Menu, Undisturbed
<1>4. Monitors
  BY <1>2, <1>3 DEF Leads, Modes, IInv, TypeOK, Places, Monitors, Scanning, Inserting,
     StoppingDevice, ShowingOff, Noticed, Removing, StartingDevice, ShowingOn, Missed
<1> QED BY <1>1, <1>2, <1>3, <1>4

\* How a step may move the monitor while the auto-switch is on.
MonitorGoes ==
  \/ at'.monitor = at.monitor /\ monitorPresent' = monitorPresent
  \/ Scanning /\ (IF plugged THEN Inserting' ELSE Missed')
  \/ Missed /\ plugged /\ Inserting'
  \/ Noticed /\ ~plugged /\ Removing'
  \/ Inserting /\ StoppingDevice'
  \/ StoppingDevice /\ ShowingOff'
  \/ ShowingOff /\ Noticed'
  \/ Removing /\ (StartingDevice' \/ Missed')
  \/ StartingDevice /\ ShowingOn'
  \/ ShowingOn /\ Missed'

LEMMA MonitorStepGoes ==
  ASSUME IInv, Leads, Undisturbed, MonitorStep
  PROVE  /\ MonitorGoes
         /\ at'.monitor # at.monitor
<1>a. TypeOK /\ Monitoring /\ Monitors /\ ~monCancelled /\ autoSwitchOn
  BY UndisturbedFacts DEF IInv, Leads, Undisturbed
<1> USE DEF MonitorGoes, Scanning, Inserting, StoppingDevice, ShowingOff, Noticed, Removing,
            StartingDevice, ShowingOn, Missed
<1>1. CASE FirstScan
  BY <1>a, <1>1 DEF FirstScan, Goto, TypeOK, Places
<1>2. CASE Tick
  BY <1>a, <1>2 DEF Tick, Goto, TypeOK, Places
<1>3. CASE MonitorEnds
  BY <1>a, <1>3 DEF MonitorEnds
<1>4. CASE OnInsert
  BY <1>a, <1>4 DEF OnInsert, Goto, TypeOK, Places
<1>5. CASE OnRemove
  BY <1>a, <1>5 DEF OnRemove, Goto, TypeOK, Places, Monitoring, usb
<1>6. CASE Start("monitor")
  BY <1>a, <1>6 DEF Start, Goto, TypeOK, Places
<1>7. CASE Stop("monitor")
  BY <1>a, <1>7 DEF Stop, Goto, TypeOK, Places
<1>8. CASE Show("monitor")
  BY <1>a, <1>8 DEF Show, Goto, TypeOK, Places, Monitoring, usb
<1> QED BY <1>1, <1>2, <1>3, <1>4, <1>5, <1>6, <1>7, <1>8 DEF MonitorStep

LEMMA UndisturbedStep ==
  ASSUME IInv, Leads, Undisturbed, Undisturbed', [Next]_vars
  PROVE  MonitorGoes
<1>a. TypeOK /\ process = "up" /\ process' = "up" /\ at.click = "idle" /\ at'.click = "idle"
      /\ options.tray /\ at.monitor # "none" /\ tray.made
  BY UndisturbedFacts DEF IInv, Undisturbed, Leads, Menu
<1>1. CASE UNCHANGED vars
  BY <1>1 DEF vars, usb, MonitorGoes
<1>2. CASE Live(LiveNext)
  <2>1. CASE MainStep
    <3>1. at.main = "serving"
      BY <1>a DEF Leads, Menu, IInv, TypeOK, Places
    <3> QED BY <2>1, <3>1 DEF MainStep, MainStart, MainServe, HeadlessStart, Leads, Modes
  <2>2. CASE ReadyStep
    BY <1>a, <2>2 DEF ReadyStep, CreateMenu, ShowReady, Goto, TypeOK, Places, usb, MonitorGoes
  <2>3. CASE ClickStep
    BY <1>a, <2>3 DEF ClickStep, OnToggle, OnAutoSwitchChanged, ReEnable, AutoDisable,
                      QuitStop, Start, Stop, Show
  <2>4. CASE UserStep
    BY <1>a, <2>4
       DEF UserStep, ClickToggle, ClickAutoSwitch, ClickQuit, Goto, TypeOK, Places
  <2>5. CASE MonitorStep
    BY <2>5, MonitorStepGoes
  <2>6. CASE Signal \/ SignalStop \/ HeadlessSignal
    BY <1>a, <2>6
       DEF Signal, SignalStop, HeadlessSignal, Goto, TypeOK, Places, usb, MonitorGoes
  <2>7. CASE \E d \in Devs : DeviceStep(d) \/ DeviceRunFails(d)
    BY <2>7 DEF DeviceStep, DeviceOpen, DeviceRunEnds, DeviceClose, DeviceRunFails, usb,
                MonitorGoes
  <2> QED BY <1>2, <2>1, <2>2, <2>3, <2>4, <2>5, <2>6, <2>7 DEF Live, LiveNext
<1>3. CASE \E how \in {"exited", "failed"} : EndProcess(how)
  BY <1>a, <1>3 DEF EndProcess
<1>4. CASE Restart \/ Plug
  BY <1>a, <1>4 DEF Restart, Plug, usb, MonitorGoes
<1> QED BY <1>1, <1>2, <1>3, <1>4, NextSplit

\* A monitor that has something to do can do it.
LEMMA MonitorEnabled ==
  ASSUME IInv, Leads, NeverStuck, Undisturbed
  PROVE  \/ Noticed /\ plugged
         \/ Missed /\ ~plugged
         \/ ENABLED <<Live(MonitorStep)>>_vars
<1>1. Monitors /\ tray.made /\ process = "up"
  BY UndisturbedFacts DEF Undisturbed
<1>2. \/ Noticed /\ plugged
      \/ Missed /\ ~plugged
      \/ Busy("monitor")
      \/ at.monitor = "idle" /\ plugged # monitorPresent
  BY <1>1 DEF Monitors, Scanning, Inserting, StoppingDevice, ShowingOff, Noticed, Removing,
              StartingDevice, ShowingOn, Missed, Busy, IInv, TypeOK
<1> QED BY <1>1, <1>2 DEF NeverStuck, Enabled, Noticing

\* Each of the monitor's own steps leaves where it is.
LEMMA MonitorOwnSteps ==
  ASSUME IInv, Leads, Undisturbed, MonitorStep
  PROVE  /\ Scanning => ~Scanning'
         /\ Inserting => ~Inserting'
         /\ StoppingDevice => ~StoppingDevice'
         /\ ShowingOff => ~ShowingOff'
         /\ Noticed => ~Noticed'
         /\ Removing => ~Removing'
         /\ StartingDevice => ~StartingDevice'
         /\ ShowingOn => ~ShowingOn'
         /\ Missed => ~Missed'
BY MonitorStepGoes
   DEF Scanning, Inserting, StoppingDevice, ShowingOff, Noticed, Removing, StartingDevice,
       ShowingOn, Missed

\* With the key plugged in, the way leads to Noticed.
LEMMA PluggedOnTheWay ==
  ASSUME IInv, Leads, Undisturbed, Undisturbed', plugged, [Next]_vars
  PROVE  /\ Scanning => Scanning' \/ Inserting'
         /\ Removing => Removing' \/ StartingDevice' \/ Missed'
         /\ StartingDevice => StartingDevice' \/ ShowingOn'
         /\ ShowingOn => ShowingOn' \/ Missed'
         /\ Missed => Missed' \/ Inserting'
         /\ Inserting => Inserting' \/ StoppingDevice'
         /\ StoppingDevice => StoppingDevice' \/ ShowingOff'
         /\ ShowingOff => ShowingOff' \/ Noticed'
         /\ Noticed => Noticed'
BY UndisturbedStep
   DEF MonitorGoes, Scanning, Inserting, StoppingDevice, ShowingOff, Noticed, Removing,
       StartingDevice, ShowingOn, Missed

\* Without it, to Missed.
LEMMA UnpluggedOnTheWay ==
  ASSUME IInv, Leads, Undisturbed, Undisturbed', ~plugged, [Next]_vars
  PROVE  /\ Scanning => Scanning' \/ Missed'
         /\ Inserting => Inserting' \/ StoppingDevice'
         /\ StoppingDevice => StoppingDevice' \/ ShowingOff'
         /\ ShowingOff => ShowingOff' \/ Noticed'
         /\ Noticed => Noticed' \/ Removing'
         /\ Removing => Removing' \/ StartingDevice' \/ Missed'
         /\ StartingDevice => StartingDevice' \/ ShowingOn'
         /\ ShowingOn => ShowingOn' \/ Missed'
         /\ Missed => Missed'
BY UndisturbedStep
   DEF MonitorGoes, Scanning, Inserting, StoppingDevice, ShowingOff, Noticed, Removing,
       StartingDevice, ShowingOn, Missed

\* Without a signal that ends the process, a live one stays undisturbed.
LEMMA NoSignal ==
  FairSpec /\ []GuardsEnable =>
    (<>[](process = "up" /\ autoSwitchOn /\ at.click = "idle") => <>[]Undisturbed)
<1>1. Undisturbed <=> process = "up" /\ autoSwitchOn /\ at.click = "idle" /\ ~Ending
  BY DEF Undisturbed
<1>2. Over <=> process # "up"
  BY DEF Over
<1>3. process = "up" /\ autoSwitchOn /\ at.click = "idle" => ~Over
  BY DEF Over
<1> QED BY <1>1, <1>3, EndingLeadsToEnd, PTL

\* Whatever raced before, the device yields to a key that stays.
THEOREM DeviceYields == FairSpec /\ []GuardsEnable => YieldsToKey
<1>1. IInv /\ Leads /\ Undisturbed /\ Undisturbed' /\ plugged /\ [Next]_vars =>
        /\ Scanning => Scanning' \/ Inserting'
        /\ Removing => Removing' \/ StartingDevice' \/ Missed'
        /\ StartingDevice => StartingDevice' \/ ShowingOn'
        /\ ShowingOn => ShowingOn' \/ Missed'
        /\ Missed => Missed' \/ Inserting'
        /\ Inserting => Inserting' \/ StoppingDevice'
        /\ StoppingDevice => StoppingDevice' \/ ShowingOff'
        /\ ShowingOff => ShowingOff' \/ Noticed'
        /\ Noticed => Noticed'
  BY PluggedOnTheWay
<1>2. IInv /\ Leads /\ Undisturbed /\ <<Live(MonitorStep)>>_vars =>
        /\ Scanning => ~Scanning'
        /\ Inserting => ~Inserting'
        /\ StoppingDevice => ~StoppingDevice'
        /\ ShowingOff => ~ShowingOff'
        /\ Removing => ~Removing'
        /\ StartingDevice => ~StartingDevice'
        /\ ShowingOn => ~ShowingOn'
        /\ Missed => ~Missed'
  BY MonitorOwnSteps DEF Live
<1>3. IInv /\ Leads /\ NeverStuck /\ Undisturbed /\ plugged =>
        Noticed \/ ENABLED <<Live(MonitorStep)>>_vars
  BY MonitorEnabled
<1>4. IInv /\ Leads /\ Undisturbed =>
        \/ Scanning \/ Inserting \/ StoppingDevice \/ ShowingOff \/ Noticed
        \/ Removing \/ StartingDevice \/ ShowingOn \/ Missed
  BY UndisturbedFacts DEF Monitors
<1>5. IInv /\ Leads /\ Undisturbed /\ Noticed => dev = None \/ user = "on"
  BY DEF Leads, Monitoring, Yielding, Noticed, Undisturbed
<1>6. FairSpec => Spec /\ MonitorFairness
  BY PTL DEF FairSpec, Fairness
<1>7. Spec /\ MonitorFairness /\ []NeverStuck =>
        (<>[](Undisturbed /\ plugged) => <>[](dev = None \/ user = "on"))
  BY <1>1, <1>2, <1>3, <1>4, <1>5, Leading, PTL DEF Spec, MonitorFairness
<1> QED BY <1>6, <1>7, NoSignal, NobodyStuck, PTL DEF YieldsToKey

\* Once the key is gone for good the device is back, if the callbacks
\* never overlapped.
THEOREM DeviceComesBack == FairSpec /\ []GuardsEnable => ComesBack
<1>1. IInv /\ Leads /\ Undisturbed /\ Undisturbed' /\ ~plugged /\ [Next]_vars =>
        /\ Scanning => Scanning' \/ Missed'
        /\ Inserting => Inserting' \/ StoppingDevice'
        /\ StoppingDevice => StoppingDevice' \/ ShowingOff'
        /\ ShowingOff => ShowingOff' \/ Noticed'
        /\ Noticed => Noticed' \/ Removing'
        /\ Removing => Removing' \/ StartingDevice' \/ Missed'
        /\ StartingDevice => StartingDevice' \/ ShowingOn'
        /\ ShowingOn => ShowingOn' \/ Missed'
        /\ Missed => Missed'
  BY UnpluggedOnTheWay
<1>2. IInv /\ Leads /\ Undisturbed /\ <<Live(MonitorStep)>>_vars =>
        /\ Scanning => ~Scanning'
        /\ Inserting => ~Inserting'
        /\ StoppingDevice => ~StoppingDevice'
        /\ ShowingOff => ~ShowingOff'
        /\ Noticed => ~Noticed'
        /\ Removing => ~Removing'
        /\ StartingDevice => ~StartingDevice'
        /\ ShowingOn => ~ShowingOn'
  BY MonitorOwnSteps DEF Live
<1>3. IInv /\ Leads /\ NeverStuck /\ Undisturbed /\ ~plugged =>
        Missed \/ ENABLED <<Live(MonitorStep)>>_vars
  BY MonitorEnabled
<1>4. IInv /\ Leads /\ Undisturbed =>
        \/ Scanning \/ Inserting \/ StoppingDevice \/ ShowingOff \/ Noticed
        \/ Removing \/ StartingDevice \/ ShowingOn \/ Missed
  BY UndisturbedFacts DEF Monitors
<1>5. IInv /\ Leads /\ Undisturbed /\ calm /\ Missed => dev # None \/ user = "off"
  <2> SUFFICES ASSUME IInv, Leads, Undisturbed, calm, Missed
               PROVE  dev # None \/ user = "off"
    OBVIOUS
  <2>1. CalmFacts /\ at.click = "idle" /\ at.monitor = "idle" /\ ~monitorPresent
    BY DEF IInv, CalmInv, Undisturbed, Missed
  <2>2. Settled /\ ~yubiKeyPresent
    BY <2>1 DEF CalmFacts, Early, Resting, Leads, Monitoring
  <2> QED BY <2>2 DEF Settled
<1>6. FairSpec => Spec /\ MonitorFairness
  BY PTL DEF FairSpec, Fairness
<1>7. Spec /\ MonitorFairness /\ []NeverStuck =>
        (<>[](Undisturbed /\ calm /\ ~plugged) => <>[](dev # None \/ user = "off"))
  BY <1>1, <1>2, <1>3, <1>4, <1>5, Leading, PTL DEF Spec, MonitorFairness
<1> QED BY <1>6, <1>7, NoSignal, NobodyStuck, PTL DEF ComesBack

=============================================================================
