---------------------------- MODULE DaemonProofs ----------------------------
(***************************************************************************)
(* Theorems about Daemon, for any number of device objects.                *)
(***************************************************************************)
EXTENDS Daemon, TLAPS

\* The steps of a live process.
LiveNext ==
  MainStep \/ ReadyStep \/ ClickStep \/ MonitorStep \/ UserStep \/ Signal \/ SignalStop
  \/ HeadlessSignal \/ \E d \in Devs : DeviceStep(d) \/ DeviceRunFails(d)

\* Next, split by who steps.
LEMMA NextSplit ==
  ASSUME Next
  PROVE  \/ Live(LiveNext)
         \/ \E how \in {"exited", "failed"} : EndProcess(how)
         \/ Restart
         \/ Plug
BY DEF Next, Live, LiveNext, End, Exit, HeadlessEnd, HeadlessFatal, Panic

-----------------------------------------------------------------------------
(* Types, and the device that runs.                                        *)

LEMMA GoneDevice == Gone \in Device /\ Spawned \in Device
BY DEF Gone, Spawned, Device

LEMMA FreshTypes ==
  ASSUME process \in {"up", "exited", "failed"},
         options \in [tray : BOOLEAN, autoSwitch : BOOLEAN], plugged \in BOOLEAN,
         Fresh
  PROVE  TypeOK
BY GoneDevice DEF Fresh, TypeOK, FreshDevices, FreshTray, FreshPlaces, FreshSwitch, Places

LEMMA StartDeviceTypes ==
  ASSUME TypeOK, StartDevice
  PROVE  dev' \in Devs \cup {None} /\ device' \in [Devs -> Device]
BY GoneDevice DEF TypeOK, StartDevice

LEMMA StopDeviceTypes ==
  ASSUME TypeOK, StopDevice
  PROVE  dev' \in Devs \cup {None} /\ device' \in [Devs -> Device]
<1>1. CASE dev = None
  BY <1>1 DEF TypeOK, StopDevice
<1>2. CASE dev # None
  <2>1. [device[dev] EXCEPT !.cancelled = TRUE, !.kernel = FALSE] \in Device
    BY <1>2, ZenonT(60) DEF TypeOK, Device, Gone
  <2>2. device' = [device EXCEPT ![dev] = [device[dev] EXCEPT !.cancelled = TRUE, !.kernel = FALSE]]
    BY <1>2 DEF TypeOK, StopDevice
  <2> QED BY <1>2, <2>1, <2>2 DEF TypeOK, StopDevice
<1> QED BY <1>1, <1>2

\* Every step of a live process keeps the types.
LEMMA LiveTypes ==
  ASSUME TypeOK, Live(LiveNext)
  PROVE  TypeOK'
<1>a. /\ process' \in {"up", "exited", "failed"} /\ calm' \in BOOLEAN
      /\ options' \in [tray : BOOLEAN, autoSwitch : BOOLEAN]
  BY DEF TypeOK, Live
<1>1. CASE MainStep
  <2>1. at' \in Places
    BY <1>1, ZenonT(60) DEF TypeOK, MainStep, MainStart, MainServe, HeadlessStart, Goto, Places
  <2>2. dev' \in Devs \cup {None} /\ device' \in [Devs -> Device]
    BY <1>1, StartDeviceTypes, GoneDevice
       DEF TypeOK, MainStep, MainStart, MainServe, HeadlessStart
  <2> QED BY <1>1, <1>a, <2>1, <2>2
             DEF TypeOK, MainStep, MainStart, MainServe, HeadlessStart, flags, usb
<1>2. CASE ReadyStep
  <2>1. at' \in Places
    BY <1>2 DEF TypeOK, ReadyStep, CreateMenu, ShowReady, Goto, Places
  <2>2. tray' \in [made : BOOLEAN, active : BOOLEAN, checked : BOOLEAN]
    BY <1>2 DEF TypeOK, ReadyStep, CreateMenu, ShowReady
  <2> QED BY <1>2, <1>a, <2>1, <2>2 DEF TypeOK, ReadyStep, CreateMenu, ShowReady, flags, usb
<1>3. ASSUME NEW a \in {"click", "monitor"}, Start(a) \/ Stop(a) \/ Show(a)
      PROVE  TypeOK'
  <2>1. at' \in Places
    BY <1>3 DEF TypeOK, Start, Stop, Show, Goto, Places
  <2>2. dev' \in Devs \cup {None} /\ device' \in [Devs -> Device]
    BY <1>3, StartDeviceTypes, StopDeviceTypes DEF TypeOK, Start, Stop, Show
  <2>3. tray' \in [made : BOOLEAN, active : BOOLEAN, checked : BOOLEAN]
    BY <1>3 DEF TypeOK, Start, Stop, Show
  <2> QED BY <1>3, <1>a, <2>1, <2>2, <2>3 DEF TypeOK, Start, Stop, Show, flags, usb
<1>4. CASE OnToggle \/ OnAutoSwitchChanged \/ ReEnable \/ AutoDisable
  <2>1. at' \in Places
    BY <1>4 DEF TypeOK, OnToggle, OnAutoSwitchChanged, ReEnable, AutoDisable, Goto, Places
  <2> QED BY <1>4, <1>a, <2>1
             DEF TypeOK, OnToggle, OnAutoSwitchChanged, ReEnable, AutoDisable, usb
<1>5. CASE QuitStop \/ SignalStop
  <2>1. at' \in Places
    BY <1>5 DEF TypeOK, QuitStop, SignalStop, Goto, Places
  <2> QED BY <1>5, <1>a, <2>1, StopDeviceTypes DEF TypeOK, QuitStop, SignalStop, flags, usb
<1>6. CASE FirstScan \/ Tick \/ MonitorEnds
  <2>1. at' \in Places
    BY <1>6 DEF TypeOK, FirstScan, Tick, MonitorEnds, Goto, Places
  <2> QED BY <1>6, <1>a, <2>1 DEF TypeOK, FirstScan, Tick, MonitorEnds, flags, usb
<1>7. CASE OnInsert \/ OnRemove
  <2>1. at' \in Places
    BY <1>7 DEF TypeOK, OnInsert, OnRemove, Goto, Places
  <2> QED BY <1>7, <1>a, <2>1 DEF TypeOK, OnInsert, OnRemove, usb
<1>8. CASE UserStep \/ Signal
  <2>1. at' \in Places
    BY <1>8 DEF TypeOK, UserStep, ClickToggle, ClickAutoSwitch, ClickQuit, Signal, Goto, Places
  <2>2. tray' \in [made : BOOLEAN, active : BOOLEAN, checked : BOOLEAN]
    BY <1>8 DEF TypeOK, UserStep, ClickToggle, ClickAutoSwitch, ClickQuit, Signal
  <2> QED BY <1>8, <1>a, <2>1, <2>2
             DEF TypeOK, UserStep, ClickToggle, ClickAutoSwitch, ClickQuit, Signal, flags, usb
<1>9. CASE HeadlessSignal
  <2>1. at' \in Places
    BY <1>9 DEF TypeOK, HeadlessSignal, Goto, Places
  <2>2. device' \in [Devs -> Device]
    BY <1>9 DEF TypeOK, HeadlessSignal, Device
  <2> QED BY <1>9, <1>a, <2>1, <2>2 DEF TypeOK, HeadlessSignal, flags, usb
<1>10. ASSUME NEW d \in Devs, DeviceStep(d) \/ DeviceRunFails(d)
       PROVE  TypeOK'
  <2>1. device' \in [Devs -> Device]
    BY <1>10, GoneDevice
       DEF TypeOK, DeviceStep, DeviceOpen, DeviceRunEnds, DeviceClose, DeviceRunFails, Device
  <2> QED BY <1>10, <1>a, <2>1
             DEF TypeOK, DeviceStep, DeviceOpen, DeviceRunEnds, DeviceClose, DeviceRunFails,
                 flags, usb
<1>11. Start("click") \/ Stop("click") \/ Show("click") => TypeOK'
  BY <1>3
<1>12. Start("monitor") \/ Stop("monitor") \/ Show("monitor") => TypeOK'
  BY <1>3
<1> QED BY <1>1, <1>2, <1>11, <1>12, <1>4, <1>5, <1>6, <1>7, <1>8, <1>9, <1>10
           DEF Live, LiveNext, ClickStep, MonitorStep

LEMMA EndFresh ==
  ASSUME NEW how \in {"exited", "failed"}, EndProcess(how)
  PROVE  Fresh'
BY DEF EndProcess, Fresh, FreshDevices, FreshTray, FreshPlaces, FreshSwitch

LEMMA NextTypes ==
  ASSUME TypeOK, [Next]_vars
  PROVE  TypeOK'
<1>1. CASE UNCHANGED vars
  BY <1>1 DEF vars, flags, usb, TypeOK
<1>2. CASE Live(LiveNext)
  BY <1>2, LiveTypes
<1>3. ASSUME NEW how \in {"exited", "failed"}, EndProcess(how) PROVE TypeOK'
  <2>1. Fresh' BY <1>3, EndFresh
  <2>2. /\ process' \in {"up", "exited", "failed"} /\ plugged' \in BOOLEAN
        /\ options' \in [tray : BOOLEAN, autoSwitch : BOOLEAN]
    BY <1>3 DEF EndProcess, TypeOK
  <2> QED BY <2>1, <2>2, GoneDevice
             DEF Fresh, TypeOK, FreshDevices, FreshTray, FreshPlaces, FreshSwitch, Places
<1>4. CASE Restart
  BY <1>4 DEF Restart, TypeOK, flags, usb
<1>5. CASE Plug
  BY <1>5 DEF Plug, TypeOK, flags, usb
<1> QED BY <1>1, <1>2, <1>3, <1>4, <1>5, NextSplit

-----------------------------------------------------------------------------


\* Before main's first step and after the process's end nothing is there.
Quiescent ==
  /\ process # "up" => Fresh
  /\ at.main = "boot" =>
       /\ dev = None /\ \A d \in Devs : device[d].stage = "gone"
       /\ at.ready = "none" /\ at.click = "none" /\ at.monitor = "none"

LEMMA FreshQuiescent ==
  ASSUME Fresh
  PROVE  Quiescent /\ LiveDeviceIsCurrent
BY DEF Fresh, Quiescent, FreshDevices, FreshPlaces, Gone, LiveDeviceIsCurrent

\* main still has its first step to do only if it had, and the goroutines
\* it starts are not there.
BootUnchanged ==
  at'.main = "boot" => /\ at.main = "boot"
                       /\ at'.ready = at.ready /\ at'.click = at.click
                       /\ at'.monitor = at.monitor

\* Steps that leave the devices alone.
LEMMA DevicesAlone ==
  ASSUME TypeOK, Quiescent, LiveDeviceIsCurrent, process' = "up",
         UNCHANGED <<dev, device>>, BootUnchanged
  PROVE  Quiescent' /\ LiveDeviceIsCurrent'
BY DEF Quiescent, LiveDeviceIsCurrent, BootUnchanged

LEMMA StopDeviceCurrent ==
  ASSUME TypeOK, Quiescent, LiveDeviceIsCurrent, process' = "up",
         StopDevice, BootUnchanged
  PROVE  Quiescent' /\ LiveDeviceIsCurrent'
BY NoneAssumption DEF StopDevice, Quiescent, LiveDeviceIsCurrent, TypeOK, BootUnchanged

LEMMA LiveCurrent ==
  ASSUME TypeOK, Quiescent, LiveDeviceIsCurrent, Live(LiveNext)
  PROVE  Quiescent' /\ LiveDeviceIsCurrent'
<1>a. process' = "up"
  BY DEF Live
<1>1. CASE MainStep
  <2>1. CASE MainServe
    BY <2>1, <1>a, DevicesAlone DEF MainServe, TypeOK, Places, BootUnchanged
  <2>2. at.main = "boot" /\ at'.main # "boot" /\ (StartDevice \/ HeadlessStart)
        => Quiescent' /\ LiveDeviceIsCurrent'
    BY <1>a, NoneAssumption
       DEF StartDevice, HeadlessStart, Spawned, Gone, Quiescent, LiveDeviceIsCurrent, TypeOK
  <2>3. MainStart \/ HeadlessStart =>
          at.main = "boot" /\ at'.main # "boot" /\ (StartDevice \/ HeadlessStart)
    BY DEF MainStart, HeadlessStart, Goto, TypeOK, Places
  <2> QED BY <1>1, <2>1, <2>2, <2>3 DEF MainStep
<1>2. ASSUME NEW a \in {"click", "monitor"}, Start(a) \/ Stop(a) \/ Show(a)
      PROVE  Quiescent' /\ LiveDeviceIsCurrent'
  <2>1. at.main # "boot" /\ at'.main = at.main
    BY <1>2 DEF Start, Stop, Show, Goto, TypeOK, Places, Quiescent
  <2>2. CASE Show(a)
    BY <1>a, <2>1, <2>2, DevicesAlone DEF Show, BootUnchanged
  <2>3. CASE Stop(a)
    BY <1>a, <2>1, <2>3, StopDeviceCurrent DEF Stop, BootUnchanged
  <2>4. CASE Start(a)
    <3>1. Quiescent'
      BY <1>a, <2>1 DEF Quiescent
    <3>2. StartDevice
      BY <2>4 DEF Start
    <3>3. LiveDeviceIsCurrent'
      BY <3>2, NoneAssumption DEF StartDevice, Spawned, Gone, LiveDeviceIsCurrent, TypeOK
    <3> QED BY <3>1, <3>3
  <2> QED BY <1>2, <2>2, <2>3, <2>4
<1>3. CASE QuitStop \/ SignalStop
  <2>1. BootUnchanged
    BY <1>3 DEF QuitStop, SignalStop, Goto, TypeOK, Places, Quiescent, BootUnchanged
  <2> QED BY <1>3, <1>a, <2>1, StopDeviceCurrent DEF QuitStop, SignalStop
<1>4. CASE HeadlessSignal
  <2>1. BootUnchanged
    BY <1>4 DEF HeadlessSignal, Goto, TypeOK, Places, BootUnchanged
  <2>2. \A d \in Devs : /\ device'[d].stage = device[d].stage
                        /\ ~device'[d].cancelled => ~device[d].cancelled
    BY <1>4 DEF HeadlessSignal, TypeOK, Device
  <2>3. dev' = dev
    BY <1>4 DEF HeadlessSignal
  <2> QED BY <1>a, <2>1, <2>2, <2>3 DEF Quiescent, LiveDeviceIsCurrent, BootUnchanged
<1>5. ASSUME NEW d \in Devs, DeviceStep(d) \/ DeviceRunFails(d)
      PROVE  Quiescent' /\ LiveDeviceIsCurrent'
  <2>1. dev' = dev /\ at' = at /\ device[d].stage # "gone"
    BY <1>5 DEF DeviceStep, DeviceOpen, DeviceRunEnds, DeviceClose, DeviceRunFails
  <2>2. Quiescent'
    BY <1>a, <2>1 DEF Quiescent
  <2>3. \A c \in Devs : device'[c].stage \in {"spawned", "running"} /\ ~device'[c].cancelled
                         => device[c].stage \in {"spawned", "running"} /\ ~device[c].cancelled
    BY <1>5 DEF DeviceStep, DeviceOpen, DeviceRunEnds, DeviceClose, DeviceRunFails,
                Gone, TypeOK, Device
  <2> QED BY <2>1, <2>2, <2>3 DEF LiveDeviceIsCurrent
<1>6. CASE ReadyStep
  <2>1. at.main # "boot" /\ at'.main = at.main
    BY <1>6 DEF ReadyStep, CreateMenu, ShowReady, Goto, TypeOK, Places, Quiescent
  <2> QED BY <1>6, <1>a, <2>1, DevicesAlone DEF ReadyStep, CreateMenu, ShowReady, BootUnchanged
<1>7. CASE OnToggle \/ OnAutoSwitchChanged \/ ReEnable \/ AutoDisable \/ UserStep \/ Signal
  <2>1. BootUnchanged
    BY <1>7 DEF OnToggle, OnAutoSwitchChanged, ReEnable, AutoDisable, UserStep, ClickToggle,
                ClickAutoSwitch, ClickQuit, Signal, Goto, TypeOK, Places, Quiescent, BootUnchanged
  <2> QED BY <1>7, <1>a, <2>1, DevicesAlone
             DEF OnToggle, OnAutoSwitchChanged, ReEnable, AutoDisable, UserStep, ClickToggle,
                 ClickAutoSwitch, ClickQuit, Signal
<1>8. CASE FirstScan \/ Tick \/ MonitorEnds \/ OnInsert \/ OnRemove
  <2>1. BootUnchanged
    BY <1>8 DEF FirstScan, Tick, MonitorEnds, OnInsert, OnRemove, Goto, TypeOK, Places,
                Quiescent, BootUnchanged
  <2> QED BY <1>8, <1>a, <2>1, DevicesAlone
             DEF FirstScan, Tick, MonitorEnds, OnInsert, OnRemove
<1>9. Start("click") \/ Stop("click") \/ Show("click") => Quiescent' /\ LiveDeviceIsCurrent'
  BY <1>2
<1>10. Start("monitor") \/ Stop("monitor") \/ Show("monitor") => Quiescent' /\ LiveDeviceIsCurrent'
  BY <1>2
<1> QED BY <1>1, <1>9, <1>10, <1>3, <1>4, <1>5, <1>6, <1>7, <1>8
           DEF Live, LiveNext, ClickStep, MonitorStep

LEMMA NextCurrent ==
  ASSUME TypeOK, Quiescent, LiveDeviceIsCurrent, [Next]_vars
  PROVE  Quiescent' /\ LiveDeviceIsCurrent'
<1>1. CASE UNCHANGED vars
  BY <1>1 DEF vars, flags, usb, Quiescent, LiveDeviceIsCurrent, Fresh, FreshPlaces, FreshSwitch,
              FreshDevices, FreshTray
<1>2. CASE Live(LiveNext)
  BY <1>2, LiveCurrent
<1>3. ASSUME NEW how \in {"exited", "failed"}, EndProcess(how)
      PROVE  Quiescent' /\ LiveDeviceIsCurrent'
  <2>1. Fresh'
    BY <1>3, EndFresh
  <2> QED BY <2>1 DEF Fresh, Quiescent, FreshDevices, FreshPlaces, Gone, LiveDeviceIsCurrent
<1>4. CASE Restart
  BY <1>4 DEF Restart, Quiescent, LiveDeviceIsCurrent
<1>5. CASE Plug
  BY <1>5 DEF Plug, flags, usb, Quiescent, LiveDeviceIsCurrent, Fresh, FreshPlaces,
              FreshSwitch, FreshDevices, FreshTray
<1> QED BY <1>1, <1>2, <1>3, <1>4, <1>5, NextSplit

-----------------------------------------------------------------------------
(* CalmAgrees.                                                             *)

\* The checkbox and the auto-switch, in every state of a live process.
Checkbox ==
  process = "up" =>
    /\ at.main # "serving" => at.ready = "none"
    /\ at.main = "started" \/ at.ready # "none" => options.tray
    /\ at.ready # "done" => at.click = "none"
    /\ at.ready \in {"none", "menu"} <=> ~tray.made
    /\ ~tray.made => autoSwitchOn = FreshSwitch
    /\ tray.made /\ at.click # "autoChanged" =>
         (autoSwitchOn => tray.checked) /\ (options.autoSwitch /\ tray.checked => autoSwitchOn)
    /\ tray.made /\ at.click = "autoChanged" =>
         (autoSwitchOn => ~tray.checked) /\ (options.autoSwitch /\ ~tray.checked => autoSwitchOn)

\* What holds until onReady is through.
Early ==
  at.ready # "done" =>
    /\ ~stoppedByAuto /\ ~yubiKeyPresent /\ tray.active /\ user = "none"
    /\ at.click = "none" /\ at.monitor \in {"none", "first", "idle"}
    /\ at.main # "boot" => dev # None

\* No callback is past its first critical section.
Resting ==
  /\ at.click \in {"idle", "autoChanged", "onEnable", "onDisable"}
  /\ at.monitor \in {"first", "idle", "onInsert", "onRemove"}

\* What holds in the middle of a callback on goroutine a.
Between(a) ==
  /\ at[a] = "onEnable" => ~tray.active
  /\ at[a] = "onDisable" => tray.active
  /\ at[a] = "autodisable" => /\ autoSwitchOn /\ yubiKeyPresent /\ ~stoppedByAuto
                              /\ dev = None => user = "off"
  /\ at[a] = "reenable" => ~autoSwitchOn /\ dev = None
  /\ at[a] = "enabling" => dev = None /\ ~stoppedByAuto
  /\ at[a] = "disabling" => ~stoppedByAuto
  /\ at[a] = "starting" => dev = None /\ ~stoppedByAuto /\ ~(autoSwitchOn /\ yubiKeyPresent)
  /\ at[a] = "stopping" => stoppedByAuto /\ autoSwitchOn /\ yubiKeyPresent
  /\ at[a] = "showOn" => /\ dev # None /\ ~stoppedByAuto
                         /\ autoSwitchOn /\ yubiKeyPresent => user = "on"
  /\ at[a] = "showOff" => /\ dev = None
                          /\ stoppedByAuto => autoSwitchOn /\ yubiKeyPresent
                          /\ ~stoppedByAuto => user = "off"

CalmFacts ==
  /\ Early
  /\ at.ready # "none" => at.main = "serving" /\ at.monitor # "none"
  /\ at.ready = "done" => at.click # "none"
  /\ at.click \notin {"quitStop", "quit"} /\ at.monitor # "ended"
  /\ at.signal \notin {"stop", "exit"}
  /\ at.ready = "done" /\ Resting => Settled
  /\ Between("click") /\ Between("monitor")

CalmInv == process = "up" /\ calm => ~Disturbed /\ CalmFacts

\* What every step of a live process that stays calm can rely on.
LEMMA CalmBefore ==
  ASSUME CalmInv, Live(LiveNext), calm'
  PROVE  ~Disturbed /\ ~Disturbed' /\ CalmFacts
BY DEF CalmInv, Live

\* The goroutines of main and of the devices, and a signal.
LEMMA CalmOthers ==
  ASSUME TypeOK, Quiescent, Checkbox, ~Disturbed, ~Disturbed', CalmFacts,
         \/ MainStep \/ ReadyStep \/ Signal \/ SignalStop \/ HeadlessSignal
         \/ \E d \in Devs : DeviceStep(d) \/ DeviceRunFails(d)
  PROVE  CalmFacts'
<1>1. CASE MainStart \/ HeadlessStart
  <2>1. /\ at.main = "boot" /\ at.click = "none" /\ at.monitor = "none" /\ at.ready = "none"
        /\ at'.click = "none" /\ at'.monitor = "none" /\ at'.ready = "none"
        /\ at'.main = "started" \/ HeadlessStart
        /\ at'.signal \in {at.signal, "waiting"}
    BY <1>1 DEF MainStart, HeadlessStart, Goto, TypeOK, Places, Quiescent
  <2>2. dev' # None
    BY <1>1, <2>1, NoneAssumption DEF Disturbed, HeadlessStart
  <2> QED BY <1>1, <2>1, <2>2
             DEF MainStart, HeadlessStart, CalmFacts, Early, Between, Resting, flags
<1>2. CASE MainServe
  <2>1. /\ at'.main = "serving" /\ at'.click = at.click /\ at'.monitor = "first"
        /\ at'.ready = "menu" /\ at.main = "started" /\ at'.signal = at.signal
    BY <1>2 DEF MainServe, TypeOK, Places
  <2> QED BY <1>2, <2>1 DEF MainServe, CalmFacts, Early, Between, Resting, flags
<1>3. CASE CreateMenu
  <2>1. /\ at'.main = at.main /\ at'.click = at.click /\ at'.monitor = at.monitor
        /\ at'.ready = "show" /\ at.ready = "menu" /\ tray'.active = tray.active
        /\ at'.signal = at.signal
    BY <1>3 DEF CreateMenu, Goto, TypeOK, Places
  <2> QED BY <1>3, <2>1 DEF CreateMenu, CalmFacts, Early, Between, Resting, flags
<1>4. CASE ShowReady
  <2>1. /\ at'.main = at.main /\ at'.click = "idle" /\ at'.monitor = at.monitor
        /\ at'.ready = "done" /\ at.ready = "show" /\ tray'.active = TRUE
        /\ at'.signal = at.signal
    BY <1>4 DEF ShowReady, Goto, TypeOK, Places
  <2> QED BY <1>4, <2>1
             DEF ShowReady, CalmFacts, Early, Between, Resting, Settled, flags
<1>5. CASE Signal
  BY <1>5 DEF Signal, Disturbed
<1>6. CASE SignalStop
  BY <1>6 DEF SignalStop, CalmFacts
<1>7. CASE HeadlessSignal
  <2>1. /\ at'.main = at.main /\ at'.click = at.click /\ at'.monitor = at.monitor
        /\ at'.ready = at.ready /\ at'.signal = "done"
    BY <1>7 DEF HeadlessSignal, Goto, TypeOK, Places
  <2> QED BY <1>7, <2>1 DEF HeadlessSignal, CalmFacts, Early, Between, Resting, Settled, flags
<1>8. ASSUME NEW d \in Devs, DeviceStep(d) \/ DeviceRunFails(d)
      PROVE  CalmFacts'
  BY <1>8 DEF DeviceStep, DeviceOpen, DeviceRunEnds, DeviceClose, DeviceRunFails, flags,
              CalmFacts, Early, Between, Resting, Settled
<1> QED BY <1>1, <1>2, <1>3, <1>4, <1>5, <1>6, <1>7, <1>8 DEF MainStep, ReadyStep

\* The goroutine of the clicks.
LEMMA CalmClick ==
  ASSUME TypeOK, Checkbox, ~Disturbed, ~Disturbed', CalmFacts, process = "up",
         ClickStep \/ UserStep
  PROVE  CalmFacts'
<1> DEFINE Others == /\ at'.main = at.main /\ at'.monitor = at.monitor
                     /\ at'.ready = at.ready /\ at'.signal = at.signal
<1>a. at.click # "none" /\ at.ready = "done" /\ at.main = "serving" /\ at.monitor # "none"
      /\ tray.made
  <2>1. at.click # "none"
    BY DEF ClickStep, UserStep, OnToggle, OnAutoSwitchChanged, ReEnable, AutoDisable, QuitStop,
           Start, Stop, Show, ClickToggle, ClickAutoSwitch, ClickQuit
  <2> QED BY <2>1 DEF CalmFacts, Early, Checkbox
<1>b. at'.click \notin {"none", "idle", "ended"} => at'.monitor \in {"none", "idle", "ended"}
  BY DEF Disturbed, Busy
<1>c. at.click # "idle" => at.monitor = "idle"
  <2>1. at.click # "ended"
    BY DEF TypeOK, Places
  <2> QED BY <1>a, <2>1 DEF Disturbed, Busy, CalmFacts
<1>d. ~monCancelled
  BY DEF Disturbed
<1> USE DEF CalmFacts, Early, Between, Resting, Settled
<1>1. CASE ClickToggle
  <2>1. /\ Others /\ at'.click = IF tray.active THEN "onDisable" ELSE "onEnable"
    BY <1>1 DEF ClickToggle, Goto, TypeOK, Places
  <2> QED BY <1>1, <2>1, <1>a DEF ClickToggle, flags
<1>2. CASE ClickAutoSwitch
  <2>1. /\ Others /\ at'.click = "autoChanged" /\ at.click = "idle"
        /\ tray'.active = tray.active
    BY <1>2 DEF ClickAutoSwitch, Goto, TypeOK, Places
  <2> QED BY <1>2, <2>1, <1>a DEF ClickAutoSwitch, flags
<1>3. CASE ClickQuit
  BY <1>3 DEF ClickQuit, Disturbed
<1>4. CASE OnToggle
  <2>1. Others /\ at'.click \in {"enabling", "disabling"}
    BY <1>4 DEF OnToggle, Goto, TypeOK, Places
  <2>2. Settled /\ (at'.click = "enabling" => ~tray.active)
    BY <1>4, <1>a, <1>c DEF OnToggle, Goto, TypeOK, Places
  <2> QED BY <1>4, <2>1, <2>2, <1>a, <1>b DEF OnToggle
<1>5. CASE OnAutoSwitchChanged
  <2>1. Others
    BY <1>5 DEF OnAutoSwitchChanged, Goto, TypeOK, Places
  <2>2. at'.click = IF ~tray.checked /\ stoppedByAuto THEN "reenable"
                    ELSE IF tray.checked /\ yubiKeyPresent THEN "autodisable" ELSE "idle"
    BY <1>5 DEF OnAutoSwitchChanged, Goto, TypeOK, Places
  <2>3. Settled /\ (autoSwitchOn => ~tray.checked)
    BY <1>5, <1>a, <1>c DEF OnAutoSwitchChanged, Checkbox
  <2> QED BY <1>5, <2>1, <2>2, <2>3, <1>a, <1>b, <1>c DEF OnAutoSwitchChanged, TypeOK
<1>6. CASE ReEnable
  <2>1. Others /\ at'.click = "starting"
    BY <1>6 DEF ReEnable, Goto, TypeOK, Places
  <2> QED BY <1>6, <2>1, <1>a, <1>b DEF ReEnable
<1>7. CASE AutoDisable
  <2>1. Others /\ at'.click = "stopping"
    BY <1>7 DEF AutoDisable, Goto, TypeOK, Places
  <2> QED BY <1>7, <2>1, <1>a, <1>b DEF AutoDisable
<1>8. CASE QuitStop
  BY <1>8 DEF QuitStop
<1>9. CASE Start("click")
  <2>1. Others /\ at'.click = "showOn"
    BY <1>9 DEF Start, Goto, TypeOK, Places
  <2>2. dev' # None
    BY <2>1 DEF Disturbed
  <2> QED BY <1>9, <2>1, <2>2, <1>a, <1>b DEF Start, flags
<1>10. CASE Stop("click")
  <2>1. Others /\ at'.click = "showOff" /\ dev' = None
    BY <1>10 DEF Stop, StopDevice, Goto, TypeOK, Places
  <2> QED BY <1>10, <2>1, <1>a, <1>b DEF Stop, flags
<1>11. CASE Show("click")
  <2>1. Others /\ at'.click = "idle" /\ tray'.active = (at.click = "showOn")
    BY <1>11 DEF Show, Goto, TypeOK, Places
  <2> QED BY <1>11, <2>1, <1>a, <1>c DEF Show, flags
<1> QED BY <1>1, <1>2, <1>3, <1>4, <1>5, <1>6, <1>7, <1>8, <1>9, <1>10, <1>11
           DEF ClickStep, UserStep

\* The goroutine of the USB monitor.
LEMMA CalmMonitor ==
  ASSUME TypeOK, Quiescent, Checkbox, ~Disturbed, ~Disturbed', CalmFacts, process = "up",
         MonitorStep
  PROVE  CalmFacts'
<1> DEFINE Others == /\ at'.main = at.main /\ at'.click = at.click
                     /\ at'.ready = at.ready /\ at'.signal = at.signal
<1>a. at.monitor # "none" /\ at.main # "boot"
  BY DEF MonitorStep, FirstScan, Tick, MonitorEnds, OnInsert, OnRemove, Start, Stop, Show,
         Quiescent
<1>b. at.monitor \notin {"first", "idle", "ended"} => at.ready = "done" /\ at.click = "idle"
  <2>1. at.click # "ended"
    BY DEF TypeOK, Places
  <2> QED BY <1>a, <2>1 DEF Disturbed, Busy, CalmFacts
<1> USE DEF CalmFacts, Early, Between, Resting, Settled
<1>1. CASE FirstScan \/ Tick
  <2>1. Others /\ at'.monitor \in {"idle", "onInsert", "onRemove"}
        /\ at.monitor \in {"first", "idle"}
    BY <1>1 DEF FirstScan, Tick, Goto, TypeOK, Places
  <2>2. at.ready # "done" => at'.monitor = "idle"
    BY <2>1 DEF Disturbed, Busy
  <2> QED BY <1>1, <2>1, <2>2, <1>a DEF FirstScan, Tick, flags
<1>2. CASE MonitorEnds
  BY <1>2 DEF MonitorEnds, Disturbed
<1>3. CASE OnInsert
  <2>1. Others /\ at'.monitor = IF autoSwitchOn THEN "stopping" ELSE "idle"
    BY <1>3 DEF OnInsert, Goto, TypeOK, Places
  <2>2. Settled /\ at.ready = "done" /\ at.click = "idle"
    BY <1>3, <1>b DEF OnInsert
  <2> QED BY <1>3, <2>1, <2>2, <1>a DEF OnInsert, TypeOK
<1>4. CASE OnRemove
  <2>1. Others
        /\ at'.monitor = IF autoSwitchOn /\ stoppedByAuto THEN "starting" ELSE "idle"
    BY <1>4 DEF OnRemove, Goto, TypeOK, Places
  <2>2. Settled /\ at.ready = "done" /\ at.click = "idle"
    BY <1>4, <1>b DEF OnRemove
  <2> QED BY <1>4, <2>1, <2>2, <1>a DEF OnRemove, TypeOK
<1>5. CASE Start("monitor")
  <2>1. Others /\ at'.monitor = "showOn" /\ at.monitor = "starting"
    BY <1>5 DEF Start, Goto, TypeOK, Places
  <2>2. dev' # None
    BY <2>1 DEF Disturbed
  <2> QED BY <1>5, <2>1, <2>2, <1>a, <1>b DEF Start, flags
<1>6. CASE Stop("monitor")
  <2>1. Others /\ at'.monitor = "showOff" /\ dev' = None /\ at.monitor = "stopping"
    BY <1>6 DEF Stop, StopDevice, Goto, TypeOK, Places
  <2> QED BY <1>6, <2>1, <1>a, <1>b DEF Stop, flags
<1>7. CASE Show("monitor")
  <2>1. Others /\ at'.monitor = "idle" /\ tray'.active = (at.monitor = "showOn")
    BY <1>7 DEF Show, Goto, TypeOK, Places
  <2> QED BY <1>7, <2>1, <1>a, <1>b DEF Show, flags
<1> QED BY <1>1, <1>2, <1>3, <1>4, <1>5, <1>6, <1>7 DEF MonitorStep

\* Checkbox is inductive: steps that leave it alone.
LEMMA CheckboxAlone ==
  ASSUME Checkbox, process = "up", options' = options, UNCHANGED <<tray, autoSwitchOn>>,
         at'.main = at.main, at'.ready = at.ready,
         at'.click = at.click \/ (at.ready = "done" /\ "autoChanged" \notin {at.click, at'.click})
  PROVE  Checkbox'
<1>1. FreshSwitch' = FreshSwitch
  BY DEF FreshSwitch
<1> QED BY <1>1 DEF Checkbox

LEMMA CheckboxStep ==
  ASSUME TypeOK, Quiescent, Checkbox, Live(LiveNext)
  PROVE  Checkbox'
<1>a. process = "up" /\ options' = options /\ FreshSwitch' = FreshSwitch
  BY DEF Live, FreshSwitch
<1>1. CASE MainStart
  <2>1. /\ at'.click = at.click /\ at'.main = "started" /\ at.main = "boot"
        /\ at'.ready = at.ready
    BY <1>1 DEF MainStart, Goto, TypeOK, Places
  <2> QED BY <1>1, <1>a, <2>1 DEF MainStart, Checkbox, flags
<1>2. CASE MainServe
  <2>1. /\ at'.click = at.click /\ at'.main = "serving" /\ at.main = "started"
        /\ at'.ready = "menu"
    BY <1>2 DEF MainServe, TypeOK, Places
  <2> QED BY <1>2, <1>a, <2>1 DEF MainServe, Checkbox, flags
<1>3. CASE HeadlessStart
  <2>1. /\ at'.click = at.click /\ at'.main = "serving" /\ at.main = "boot"
        /\ at'.ready = at.ready
    BY <1>3 DEF HeadlessStart, TypeOK, Places
  <2> QED BY <1>3, <1>a, <2>1 DEF HeadlessStart, Checkbox, flags
<1>4. CASE CreateMenu
  <2>1. /\ at'.click = at.click /\ at'.ready = "show" /\ at'.main = at.main
        /\ tray'.made /\ tray'.checked
    BY <1>4 DEF CreateMenu, Goto, TypeOK, Places
  <2> QED BY <1>4, <1>a, <2>1 DEF CreateMenu, Checkbox, FreshSwitch, flags
<1>5. CASE ShowReady
  <2>1. /\ at'.click = "idle" /\ at'.ready = "done" /\ at'.main = at.main
        /\ tray'.made = tray.made /\ tray'.checked = tray.checked
        /\ at.ready = "show"
    BY <1>5 DEF ShowReady, Goto, TypeOK, Places
  <2> QED BY <1>5, <1>a, <2>1 DEF ShowReady, Checkbox, flags
<1>6. CASE ClickAutoSwitch
  <2>1. /\ at'.click = "autoChanged" /\ at'.ready = at.ready /\ at'.main = at.main
        /\ tray'.made = tray.made /\ tray'.checked = ~tray.checked
        /\ at.click = "idle"
    BY <1>6 DEF ClickAutoSwitch, Goto, TypeOK, Places
  <2> QED BY <1>6, <1>a, <2>1 DEF ClickAutoSwitch, Checkbox, flags, TypeOK
<1>7. CASE OnAutoSwitchChanged
  <2>1. /\ at'.click # "autoChanged" /\ at'.ready = at.ready /\ at'.main = at.main
        /\ at.click = "autoChanged"
    BY <1>7 DEF OnAutoSwitchChanged, Goto, TypeOK, Places
  <2> QED BY <1>7, <1>a, <2>1 DEF OnAutoSwitchChanged, Checkbox, TypeOK
<1>8. CASE OnToggle \/ ReEnable \/ AutoDisable \/ QuitStop \/ ClickToggle \/ ClickQuit
  <2>1. /\ at'.ready = at.ready /\ at'.main = at.main /\ at.click # "none"
        /\ "autoChanged" \notin {at.click, at'.click}
    BY <1>8 DEF OnToggle, ReEnable, AutoDisable, QuitStop, ClickToggle, ClickQuit, Goto,
                TypeOK, Places
  <2>2. UNCHANGED <<tray, autoSwitchOn>>
    BY <1>8 DEF OnToggle, ReEnable, AutoDisable, QuitStop, ClickToggle, ClickQuit, flags
  <2> QED BY <1>a, <2>1, <2>2, CheckboxAlone DEF Checkbox
<1>9. ASSUME NEW a \in {"click", "monitor"}, Start(a) \/ Stop(a) \/ Show(a)
      PROVE  Checkbox'
  <2>1. /\ at'.ready = at.ready /\ at'.main = at.main
        /\ \/ at'.click = at.click
           \/ at.click # "none" /\ "autoChanged" \notin {at.click, at'.click}
    BY <1>9 DEF Start, Stop, Show, Goto, TypeOK, Places
  <2>2. /\ autoSwitchOn' = autoSwitchOn
        /\ tray'.made = tray.made /\ tray'.checked = tray.checked
    BY <1>9 DEF Start, Stop, Show, flags, TypeOK
  <2> QED BY <1>a, <2>1, <2>2 DEF Checkbox
<1>10. CASE FirstScan \/ Tick \/ MonitorEnds \/ OnInsert \/ OnRemove \/ Signal \/ SignalStop
            \/ HeadlessSignal
  <2>1. at'.ready = at.ready /\ at'.main = at.main /\ at'.click = at.click
    BY <1>10 DEF FirstScan, Tick, MonitorEnds, OnInsert, OnRemove, Signal, SignalStop,
                 HeadlessSignal, Goto, TypeOK, Places
  <2>2. UNCHANGED <<tray, autoSwitchOn>>
    BY <1>10 DEF FirstScan, Tick, MonitorEnds, OnInsert, OnRemove, Signal, SignalStop,
                 HeadlessSignal, flags
  <2> QED BY <1>a, <2>1, <2>2, CheckboxAlone
<1>11. ASSUME NEW d \in Devs, DeviceStep(d) \/ DeviceRunFails(d)
       PROVE  Checkbox'
  <2>1. at' = at /\ UNCHANGED <<tray, autoSwitchOn>>
    BY <1>11 DEF DeviceStep, DeviceOpen, DeviceRunEnds, DeviceClose, DeviceRunFails, flags
  <2> QED BY <1>a, <2>1, CheckboxAlone
<1>12. Start("click") \/ Stop("click") \/ Show("click") => Checkbox'
  BY <1>9
<1>13. Start("monitor") \/ Stop("monitor") \/ Show("monitor") => Checkbox'
  BY <1>9
<1> QED BY <1>1, <1>2, <1>3, <1>4, <1>5, <1>6, <1>7, <1>8, <1>10, <1>11, <1>12, <1>13
           DEF Live, LiveNext, MainStep, ReadyStep, ClickStep, MonitorStep, UserStep

-----------------------------------------------------------------------------

IInv == TypeOK /\ Quiescent /\ LiveDeviceIsCurrent /\ Checkbox /\ CalmInv

LEMMA FreshCalm ==
  ASSUME Fresh
  PROVE  Checkbox /\ CalmInv
<1>1. /\ at.main = "boot" /\ at.ready = "none" /\ at.click = "none" /\ at.monitor = "none"
      /\ at.signal \in {"none", "waiting"} /\ ~tray.made /\ tray.active
  BY DEF Fresh, FreshPlaces, FreshTray
<1>2. Checkbox
  BY <1>1 DEF Fresh, Checkbox
<1>3. ~Disturbed
  BY <1>1 DEF Fresh, Disturbed, Busy
<1>4. CalmFacts
  BY <1>1 DEF Fresh, CalmFacts, Early, Between, Resting
<1> QED BY <1>2, <1>3, <1>4 DEF CalmInv

LEMMA NextIInv ==
  ASSUME IInv, [Next]_vars
  PROVE  IInv'
<1>1. TypeOK' /\ Quiescent' /\ LiveDeviceIsCurrent'
  BY NextTypes, NextCurrent DEF IInv
<1>2. CASE UNCHANGED vars
  BY <1>1, <1>2 DEF IInv, vars, flags, usb, Checkbox, FreshSwitch, CalmInv, CalmFacts, Early,
                    Between, Resting, Settled, Disturbed, Busy
<1>3. CASE Live(LiveNext)
  <2>1. Checkbox'
    BY <1>3, CheckboxStep DEF IInv
  <2>2. ASSUME calm' PROVE ~Disturbed' /\ CalmFacts'
    <3>1. ~Disturbed /\ ~Disturbed' /\ CalmFacts /\ process = "up"
      BY <1>3, <2>2, CalmBefore DEF IInv, Live
    <3> QED BY <1>3, <3>1, CalmOthers, CalmClick, CalmMonitor DEF IInv, Live, LiveNext
  <2> QED BY <1>1, <2>1, <2>2 DEF IInv, CalmInv
<1>4. ASSUME NEW how \in {"exited", "failed"}, EndProcess(how)
      PROVE  IInv'
  <2>1. Checkbox' /\ CalmInv'
    BY <1>4 DEF EndProcess, Checkbox, CalmInv
  <2> QED BY <1>1, <2>1 DEF IInv
<1>5. CASE Restart
  <2>1. Fresh
    BY <1>5 DEF Restart, IInv, Quiescent
  <2>2. Fresh'
    BY <1>5, <2>1 DEF Restart, Fresh, FreshDevices, FreshTray, FreshPlaces, FreshSwitch,
                      flags, usb
  <2>3. Checkbox' /\ CalmInv'
    <3>1. ASSUME Fresh' PROVE Checkbox' /\ CalmInv'
      <4>1. /\ at'.main = "boot" /\ at'.ready = "none" /\ at'.click = "none"
            /\ at'.monitor = "none" /\ at'.signal \in {"none", "waiting"}
            /\ ~tray'.made /\ tray'.active
        BY <3>1 DEF Fresh, FreshPlaces, FreshTray
      <4>2. Checkbox'
        BY <3>1, <4>1 DEF Fresh, Checkbox
      <4>3. ~Disturbed'
        BY <3>1, <4>1 DEF Fresh, Disturbed, Busy
      <4>4. CalmFacts'
        BY <3>1, <4>1 DEF Fresh, CalmFacts, Early, Between, Resting
      <4> QED BY <4>2, <4>3, <4>4 DEF CalmInv
    <3> QED BY <2>2, <3>1
  <2> QED BY <1>1, <2>3 DEF IInv
<1>6. CASE Plug
  BY <1>1, <1>6 DEF Plug, IInv, flags, usb, Checkbox, FreshSwitch, CalmInv, CalmFacts, Early,
                    Between, Resting, Settled, Disturbed, Busy
<1> QED BY <1>2, <1>3, <1>4, <1>5, <1>6, NextSplit

\* The inductive invariant holds in every reachable state.
THEOREM Invariance == Spec => []IInv
<1>1. Init => IInv
  BY FreshTypes, FreshQuiescent, FreshCalm DEF Init, IInv
<1> QED BY <1>1, NextIInv, PTL DEF Spec

\* The daemon's data keep their types, and the kernel shows no device whose
\* goroutine is gone.
THEOREM TypeCorrect == Spec => []TypeOK
<1>1. IInv => TypeOK
  BY DEF IInv
<1> QED BY <1>1, Invariance, PTL

\* No device runs on that stopDevice would not stop, and none is started
\* while another one, not told to stop, runs.
THEOREM OneLiveDevice == Spec => []LiveDeviceIsCurrent
<1>1. IInv => LiveDeviceIsCurrent
  BY DEF IInv
<1> QED BY <1>1, Invariance, PTL

\* Callbacks that do not overlap, on devices that work, leave the tray, the
\* device and the flags of the auto-switch in agreement.
THEOREM CalmCallbacksAgree == Spec => []CalmAgrees
<1>1. ASSUME IInv PROVE CalmAgrees
  <2> SUFFICES ASSUME Quiet, calm
               PROVE  Settled /\ (options.autoSwitch => (tray.checked <=> autoSwitchOn))
    BY DEF CalmAgrees
  <2>1. /\ process = "up" /\ CalmFacts /\ Checkbox
        /\ at.click = "idle" /\ at.monitor = "idle"
    BY <1>1 DEF IInv, CalmInv, Quiet
  <2>2. at.ready = "done"
    BY <2>1 DEF CalmFacts, Early
  <2>3. Settled
    BY <2>1, <2>2 DEF CalmFacts, Resting
  <2> QED BY <2>1, <2>2, <2>3 DEF Checkbox
<1> QED BY <1>1, Invariance, PTL

=============================================================================
