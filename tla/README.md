# UsbHidHost: a TLA+ verification project

UsbHidHost is a USB HID host library for the ESP32: a C driver derived from
Espressif's `usb_host_hid` (`src/src/usb/hid_host.c`) and a C++ class on top of
it (`src/src/UsbHidHost.cpp`) that opens whatever HID interface is plugged in
and hands its reports to report classes. The modules here model the parts of it
whose correctness depends on the order in which tasks, callbacks and the bus
act.

## Inventory

Paths below are in `src/src/` unless they say otherwise.

| Component | State | Operations | Meets |
|---|---|---|---|
| Driver: devices and interfaces (`usb/hid_host.c`) | `hid_devices_tailq`, `hid_ifaces_tailq`, per interface `state`, `user_cb`, `in_xfer`, `parent` | attach, list creation, IN completion, disconnect, close, shutdown, uninstall of a device (driver task); open, start, stop, close, get_params (any task) | USB Host Library by calls and callbacks; user by callbacks |
| Control transfers (`usb/hid_host.c` 731-1005, 1389-1573) | per device `ctrl_xfer`, mutex `device_busy`, semaphore `ctrl_xfer_done` | class requests, report descriptor | driver task gives the semaphore |
| Driver life (`usb/hid_host.c` 1106-1214, 1288-1302) | `s_hid_driver`, `end_client_event_handling`, `all_events_handled` | install, uninstall, handle_events | every other call |
| UsbHidHost events (`UsbHidHost.cpp` 255-453) | `eventQueue` (10 entries), what the processor task is doing | hidHostDeviceCallback and hidHostInterfaceCallback (driver task), handleHidHostEvent (processor task) | driver API, report classes |
| UsbHidHost life (`UsbHidHost.cpp` 13-215) | task handles, queue handle | constructor, init, start, stop, deinit, usbLibTask | driver life |
| Reports (`reports/`) | last report, raw report, callbacks | processReportData, triggerEvent, registerCallback | called from the driver task |
| Example (`../examples/basic`) | none of its own | init, start, logging | |
| USB Host Library (ESP-IDF, not in the repository) | ports, open devices, claims, transfers, messages | the `usb_host_*` calls | |

Two tasks matter most. The **driver task** (`event_handler_task`) runs
`usb_host_client_handle_events` and, from it, every callback: a new device, a
gone device, a finished transfer. The **processor task** of UsbHidHost takes
CONNECTED events from the queue and calls `hid_host_device_open`, the class
requests and `hid_host_device_start`. They share the two lists and the objects
in them; the spinlock is held for a list operation only, and each call of the
API looks its handle up in the list, drops the lock, and uses the pointer.

What is hard, by component, and what makes it correct:

* *Driver and events*: an unplug may come between any two steps of an open or a
  start. An interface must not outlive its device; a submitted transfer must
  belong to an interface that can take its completion; an open interface must
  own its claim, so that it can be closed and the device with it; every
  attached interface must reach ACTIVE; an unplugged device must be taken down.
* *Control transfers*: one request at a time per device, each answered by its
  own completion, also after a timeout; the buffer may be reallocated.
* *Driver life and UsbHidHost life*: install and uninstall against the event
  loop; deinit must end.
* *Reports*: an event is raised exactly when something happened.

## Modules

| Module | Models |
|---|---|
| `UsbHostLib` | What the driver relies on from ESP-IDF's USB Host Library: when a call succeeds, what unplugging does to transfers in flight, in which order events arrive. External. |
| `HidHost` | The driver and the event path of UsbHidHost: one action per handler or per step of a handler between two points where the other task can run. |
| `MCHidHost` | The configurations of devices and the instances TLC checks. |
| `HidHostProofs` | Theorems about `HidHost`: types, and that no interface outlives its device. |
| `HidHostTransferProofs` | Theorems about its transfers, claims, lists and assertions; extends `HidHostProofs`. |
| `HidHostQueueProofs` | The theorems about its event queue, and that it implements `InterfaceLife`; extends `HidHostTransferProofs`. |
| `HidControl` | The class requests of one installed device, made by any number of tasks: mutex, semaphore, timeout, late completion, the transfer's reallocation for a long report descriptor. |
| `SyncRequest` | What `HidControl` promises: one request at a time, and success after the answer to that very request. |
| `HidDriverLife` | Installing and uninstalling the driver while its background task handles events. |
| `HidDeviceApi` | The device calls in any order, by any tasks: open, start, stop, close, against reports and an unplug. |
| `MCDeviceApi` | A device with two interfaces for it. |
| `InterfaceLife` | What the driver promises of an interface: claimed, opened, started, stopped, released and closed in this order, one transfer awaited at a time; implemented by `HidHost` and by `HidDeviceApi`. |
| `UsbHidHostLife` | The UsbHidHost object: constructor, init, start, stop, deinit, destructor, and the two tasks they create. |
| `ReportClasses` | What a report makes of a report object, whether it raises an event, and which: pure operators. |
| `Reports` | The dispatch of reports to the objects, the registration and the calling of callbacks, and the reports that keyboards, mice and the remote send. |
| `MCReports` | The devices of its run. |
| `HidControlProofs` | The invariants, the theorems about `HidControl`, and that it implements `SyncRequest`. |
| `HidDriverLifeProofs`, `HidDeviceApiProofs`, `UsbHidHostLifeProofs`, `ReportsProofs` | The invariants and theorems about the modules they are named after. |

### How HidHost corresponds to the code

* `ifaces` is `hid_ifaces_tailq`, a sequence of heap addresses; `obj[a]` the
  `hid_iface_t` there: its parent and interface number (`dev`, `n`), `state`,
  whether `user_cb` is set (`cb`) and `in_xfer` (`xfer`: null, allocated, or
  pointing at a freed transfer, since the code never clears it). `devs` is
  `hid_devices_tailq`; `ctrl[d]` the state of the device's `ctrl_xfer`.
* `queue` is `eventQueue`, bounded by `QueueCap` (`EVENT_QUEUE_SIZE`). The only
  event UsbHidHost queues is CONNECTED, so an entry is its handle.
* `hid` is where the driver task is. Between callbacks it is at `"wait"`.
  `NewDevice`, `InstallDevice`, `AddInterface`, `ListCreated`,
  `NotifyConnected` are `hid_host_device_init_attempt` and what it calls;
  `DeviceGone`, `GoneFirst`, `Close...`, `Shutdown...`, `Uninstall...` are
  `hid_host_device_disconnected`. `hid_host_device_close` runs twice for an
  opened interface, once called by the loop and once by the user's DISCONNECTED
  callback inside `hid_host_interface_shutdown`: `hid.ctx` tells which.
  `InXferDone` and `Resubmit` are `in_xfer_done`.
* `proc` is where the processor task is. Each driver call it makes is a
  `Lookup` of the handle followed by steps that use `proc.ptr`. When the driver
  task frees an interface or a device, a pointer the processor task still holds
  becomes `Dangling`, even if the address is handed out again; using it is
  `UseAfterFree`. A handle in the queue, in contrast, is only compared with
  addresses, so it may well match an interface allocated later at the same
  address.
* `Stop` is `UsbHidHost::stop`, which deletes the processor task wherever it is
  (constant `Stops`), and `Start` creates another. What the deleted task held, it
  keeps: an event in hand is lost, an interface half open stays so, and the
  control transfer of a class request is `"held"`, with its mutex.
* `fault` records what the program cannot survive: a failed `assert`,
  `ESP_ERROR_CHECK` (`"abort"`; those of the callbacks of UsbHidHost, which ask for
  the device's information first of all, are `CallbackFails`), a use after free, an index out of bounds, a
  close of an uninitialised handle. Undefined behaviour is not followed
  further: what is shown of a run holds up to that point, and after it for the
  program the panic handler restarts (`Reboot`; ESP-IDF's default, kept by
  `sdkconfig`).
* The disconnect loop takes the first listed interface; if it is another
  device's, the loop turns without a change of state. The model has no action
  there, as a loop that only turns is a stutter.

### How HidControl corresponds to the code

* `device_busy` is the mutex's owner, `ctrl_xfer_done` the binary semaphore,
  `ctrl_xfer` the address in `hid_device->ctrl_xfer`. `buffer[b]` is the
  `usb_transfer_t` at address `b`: whether it is allocated, how much it carries,
  and, in place of bytes, whose setup packet is in it, whose request is on the
  bus, and whose answer its data are. `actual` tells whether `actual_num_bytes`
  still counts a setup packet (`"whole"`), which the copy subtracts, or never did, as
  the transfer failed (`"short"`).
* `call[t]` is the request task `t` is in, with its locals: `xfer` is the copy of
  `ctrl_xfer` each request function takes before it has the mutex (826, 923,
  968), `size` the `ctrl_size` of 827.
* `Ask`, `AskDescriptor` and `RecallDescriptor` enter a request; `TryLock` and
  `LockTimeout` are `hid_device_try_lock`; `Resize`, `InfoFails`, `ResizeFails` lines 837-850;
  `WriteSetup` the setup packet and a SET's data, `SetOverflows` those data when they
  are longer than the buffer; `Submit` to `ResetFails` are `hid_control_transfer`;
  `SetDone`, `CopyAnswer` and `CopyRefused` (`ESP_ERR_INVALID_SIZE`) what follows it;
  `Unlock` the end. `CtrlXferDone` is the callback in the driver task.
* `DriverCaller` is a task whose requests are made from a callback of the driver
  task: while it is in one, `CtrlXferDone` cannot run.
* `SyncRequest` sees of a call whether it was asked, is served, was answered, and
  how it returned. `Phase` maps a call to that, and `device_busy` is the holder.
* A fault (`"freed_xfer"`, a write through a freed transfer; `"bad_length"`, a copy
  of a negative length; `"overflow"`, a SET's data past the end of the buffer;
  `"abort"`, the `ESP_ERROR_CHECK` of line 839) ends the behaviour, as in `HidHost`.

`HidHost` has the two class requests of the connect path as steps of the
processor task, because what matters there is the device leaving in the middle;
`HidControl` has a device that stays installed and many callers. Removing the
device under a request is therefore `HidHost`'s subject.

### How HidDriverLife corresponds to the code

* `s_hid_driver` is the global pointer, `driver[h]` the `hid_driver_t` at heap
  address `h`: `ending` is `end_client_event_handling`, `started`
  `event_handling_started`, `handled` the semaphore `all_events_handled`,
  `client` whether the client is registered, `unblocked` and `device` what its
  event loop has pending.
* `Install` to `CreateTaskFails` are `hid_host_install`, with its failure path
  `Undo`, which clears `s_hid_driver` whosever it is. `Uninstall` to `Clear` are
  `hid_host_uninstall`, one action between two reads of the global pointer.
* `Check`, `Mark`, `HandleEvents` or `HandleFails`, and `Test` are one
  `hid_host_handle_events` of `event_handler_task`, which ends on any result but
  `ESP_OK`: as `"ended"` if the driver ends, as `"failed"` if the library reported an
  error. The task has no pointer of its own: it reads
  `s_hid_driver` before and after the events. The library call has the client it
  was given (`loop[l].drv`).
* `Crash` and `LoopCrash` are reads through a pointer that is null or freed;
  `Deregister` aborts when the library refuses.

### How HidDeviceApi corresponds to the code

* `iface[p]` is the `hid_iface_t` of interface `p`, with the `state`, `user_cb` and
  `in_xfer` of `HidHost`, and `listed` the list. A handle is its interface: that an
  address is used again is left to `HidHost`.
* `call[c]` is where caller `c` is, an application's task or the driver task.
  `Ask` is the lookup of the handle that begins every call (258), after which the
  pointer is used without the lock; `FirstStep` names what follows it. The steps of
  one call, such as `CheckClose`, `Disable`, `Disabled`, `Release`, `FreeTransfer`,
  `Finish` of a close, interleave with those of every other.
* `AllocTransferFails` is the error return of line 629, after the claim. `leaked` is a
  history variable that remembers it: the code has no such field, and no call of the
  model reads it.
* `GoneEmpty` is `hid_host_uninstall_device` in one step. Of what it frees and unlists,
  the control transfer and semaphores are `HidControl`'s, the list of devices is
  `HidHost`'s, and no call of this module looks at either.
* The driver task makes the same calls: the disconnect loop closes each interface
  (`op` is `"loop"`), and the application's DISCONNECTED callback once more
  (`"user"`). `InXferDone` and `Resubmit` are the two halves of `in_xfer_done`, before
  and after the user's report callback: other calls run in between.
* `Serial` says whether the application makes one call at a time in an interface.
  It is a demand on the application, as nothing in the driver enforces it.

### How the driver implements InterfaceLife

`InterfaceLife` has for each interface a phase (`away`, `closed`, `open`, `started`)
and whether it is claimed (`held`) and a transfer was submitted to it (`awaited`). In
both modules the phase is IDLE, READY or ACTIVE of an interface that is listed and
whose device is plugged in (`Phase`, `Present`); after an unplug it is `away`, with its
claim and its transfer, because the takedown that follows is a matter of
`TakenDown` and `SettledUnplug`. In `HidHost`, `AddInterface` is `Appear`, `Unplug` and
`Reboot` are `Leave`, `ClaimInterface` is `Claim`, `PrepareTransfer` is `Open`, `Activate`
is `Start`, `SubmitIn` and `Resubmit` are `Await`, `InXferDone` is `Return`, and all else
stutters. `HidDeviceApi` adds `Disabled` (`Stop`), `Release` and `FreeTransfer` (`Close`).

### How UsbHidHostLife corresponds to the code

* `eventQueue`, `hidProcessorTaskHandle`, `usbLibTaskHandle` are the members;
  `procs` the processor tasks that run, whether the object knows them or not;
  `lib[l]` where the usbLibTask created by an init is. `notified` is the
  notification value of the application's task, which outlives an init that gave up
  waiting for it (51).
* `CallInit` to `InstallDriver` are init, `CallDeinit` to `DeleteQueue` deinit,
  `LibInstall` to `LibShutdown` usbLibTask. `flags` are the library's events, taken
  all at once by a turn of the loop.
* The HID driver is here only installed or not (`driver`; `HidDriverLife` has the
  rest), and `listed` whether it has a device, so that it refuses to be uninstalled.
* `ConnectedCallback` is the driver task's only use of the object.
* `Careful` says what the application minds: `"once"`, that it does not init or start
  again while what the former call created is there, nor after deinit;
  `"uninstall"`, that it calls `hid_host_uninstall` itself before deinit.

### How Reports and ReportClasses correspond to the code

* `ReportClasses` has, of each class, the kept report (`KeyboardReport`,
  `MouseReport`, `G20sState`), what `processReportData` makes of it (`NextKeyboard`,
  `NextMouse`, `NextG20s`), whether it raises an event (`Changed`; the remote's always
  does) and `createEvent`. `KeysIn` is the loop that gathers the slots that are not
  zero, in their order; the remote's parser has the same one. The remote's reports are bytes, as its parser tells them
  apart by length and id, and its 8-bit `keyCode` is a number modulo 256. One
  coordinate of a motion stands for both.
* `object` has one object per class, as `UsbHidHost` does, however many keyboards
  there are; `ClassOf` is the choice in `hidHostInterfaceCallback`.
* `triggerEvent` runs over a vector that `registerCallback`, in another task, may
  move: `loop` is the range-for's iterators, and using them after a move (`Moved`)
  is the fault `"dangling"`. The vector moves at each of its first three elements,
  hence `CallbackAssumption`.
* `told`, `sent`, `pressing` and the other history variables remember what devices
  sent and callbacks were told; no action reads them but those of the remote
  itself, which is modelled from the table in `UsbHidG20sProReport.h` (`Remote`). The
  remote sends what is held of each report id (`ReportId`, `pressing`) by itself.

### Assumptions about the environment

`UsbHostLib` is stated from the calls in `hid_host.c` and the behaviour of
ESP-IDF 5.x they were written against. Transfers in flight come back before the
message that their device is gone. A device has each endpoint address once
(`EndpointAssumption`). `Failing` names the calls that may fail even when used
rightly. A device that reappears in a port is the same element of `Device`
again. An enumerated device keeps its handle until the client closes it.
`hid_host_device_get_params` cannot fail in a callback of the driver task: the handle is
listed and the pointer is not null.

In `HidControl` the library refuses to submit or free a transfer in flight, and
may refuse to halt endpoint 0. A flushed transfer comes back through the driver
task, like any other.

In `UsbHidHostLife` the library uninstalls only without devices and clients, and
reports the last client's leaving once.

## Runs

| Run | Instance | Shows |
|---|---|---|
| `receiver` | one device, a boot keyboard and a generic interface; 3 plug-ins; queue of 4; no call fails; fair | `OpenOwnsClaim`, `IdleIsQueued`, `TypeOK`, `AttachedIsServed`, `SettledUnplug` |
| `two_devices` | a keyboard with an unusable second interface, a mouse with another endpoint, a device without HID; every call may fail; the processor task is stopped and started at any step; 3 plug-ins | `ParentInstalled`, `OnePerPipe`, `AssertsHold`, `OutstandingListed`, `OpenOwnsClaim`, `ImplementsLife` |
| `same_endpoint` | two devices with the same endpoint address | violated: `ContextMatches` |
| `unplug_race` | one device, one plug-in, fair | violated: `UnplugCompletes` |
| `control` | two tasks, two addresses, every kind of request, a descriptor that needs a larger buffer; submissions may fail | `ImplementsSync`, `Synchronous`, `OwnAnswer`, `InFlightUntouched`, `BusyByOther` |
| `control_failures` | two tasks, one of them the driver task itself; one address; submissions, allocations, halts and the question for the device's information may fail, requests time out or stall, a SET may have more data than the buffer; fair | `TypeOK`, `MutualExclusion`, `CountedOnce`, `EveryRequestReturns` |
| `control_late` | two tasks, SET requests, timeouts | violated: `Synchronous` |
| `driver_life` | two tasks install, one uninstalls; two addresses, one background task at a time; memory, registration, task creation and the handling of events may fail; fair | `TypeOK`, `DriverOutlivesTask`, `AbortIsTheDevice`, `UninstallReturns` |
| `host_life` | a careful application, three inits, two processor tasks; queue and library may fail, usbLibTask may be late; any device; fair | `QueueUsersGone`, `InstallAfterLibrary`, `LibraryServed`, `EndsClean`, `DeinitReturns`, `TypeOK` |
| `deinit` | the calls of the example application, nothing fails; fair | violated: `DeinitReturns` |
| `reports` | two keyboards with two mice, or a remote and a pad; two callbacks; two keys, two slots, one modifier, motions -1..1; all 31 buttons of the remote | `Follows`, `MotionTold`, `ButtonTold`, `TypeOK` |
| `device_api` | two tasks, a device with two interfaces; claims, allocations, submissions and transfers may fail; one plug-in; fair | `StateTellsClaim`, `OnlyReportsRace`, `CompletionFindsInterface`, `TakenDown`, `ImplementsLife`, `TypeOK` |

The properties that hold say how much of the design is sound. An IN transfer
in flight always finds its interface ACTIVE, listed, with callback and buffer,
whatever the processor task was doing when the device left. A device that comes
back never meets interfaces of its former life. No assertion of the driver
fails as long as endpoint addresses differ, and no attached interface is
forgotten as long as the queue has room. Seen from an interface, all interleavings
of the two tasks come to the life that `InterfaceLife` states.

The class requests are sound as long as the device answers in time: the mutex,
the shared transfer and the semaphore then amount to one answered request at a
time. Whatever happens, the mutex holds, and the setup packet is subtracted once from
each count (`CountedOnce`): the negative length that the code does copy comes of a
transfer that failed, that is not back, or that another request replaced.

The handshake between `hid_host_uninstall` and the background task is sound:
set the flag, wake the task, wait for its answer. However the wake-up meets the
loop, the task is out before the driver is freed, and the wait ends. It is so
under four conditions, which `driver_life` states and the code does not enforce:

* `Patient`: the task has begun to handle events before the driver is
  uninstalled. Otherwise uninstall does not wait, and a task between its test of
  `s_hid_driver` (1290) and `event_handling_started` (1295) goes on with nothing.
* one task uninstalls (`Uninstaller`): the pointer is tested before the lock and
  used in it, so that of two the slower may find it null or freed.
* no driver is `Lost`: a failing `hid_host_install` sets `s_hid_driver` to null
  (1176) even if the driver there is one that another task installed meanwhile.
* the task is still there: if `usb_host_client_handle_events` ever returns an error,
  `event_handler_task` ends (169), `event_handling_started` stays set, and uninstall
  waits for a semaphore nobody gives. `UninstallReturns` exempts it (`"failed"`).

Dropping either of the first two (`Patient = FALSE`, `Uninstaller = Caller`)
makes TLC find `DriverOutlivesTask` violated; the others are in the properties. A
device that arrives after the lists were found empty still ends in the
`ESP_ERROR_CHECK` of line 1210; `AbortIsTheDevice` says that nothing else does.

The object's life is sound if the application does what deinit does not: uninstall
the driver first. Then usbLibTask ends, deinit returns, no task waits for a deleted
queue, and nothing is left behind; but for a library whose uninstallation was
refused because a device was still plugged in, or whose task was killed by an init
that gave up. The notification such an init leaves makes a later one install the
driver before the library, which is the only way, next to a failed
`usb_host_install`, for that to happen (`InstallAfterLibrary`).

The device calls are sound in any order while an application makes one call at a
time in an interface and memory suffices: the state of an interface tells what a
close has to give back, although errors return from the middle of a close and
`in_xfer` is never cleared; a completion never misses its interface; and an unplug
takes the device down whatever was open. There is one exception, which
`StateTellsClaim` and `TakenDown` name and `device_api` reaches: an open that cannot
allocate its transfer (629) leaves the interface claimed and IDLE. It cannot be opened
again, no close releases it, and when the device leaves, its interfaces are taken
down but the client cannot close the device. With `Serial = FALSE`, `StateTellsClaim` and
`OnlyReportsRace` are violated, `CompletionFindsInterface` and `TypeOK` still hold
(9.8 million states). `ImplementsLife` is violated too: a close in one task releases
the interface between the test and the activation of a start in another, which then
makes it ACTIVE without a claim. One race no caller can avoid: a report callback running in the
driver task while the interface is stopped or closed. The transfer is submitted
again afterwards, so a stop has no effect, and after a close it is a freed one
(`OnlyReportsRace` says that there is no other).

The reports are sound in what the caches promise: a callback has always been told
the last whole report of its class, although equal ones are dropped, and every
button in the remote's table but Mute is decoded.

The violated ones are the four findings in `PROJECT.json`:

1. `get_interface_by_ep` ignores the device, so a second device with the same
   endpoint address ends in `assert(... == iface->parent)`.
2. `user_cb` is set at the end of an open, and the disconnect handler takes an
   interface without one for unopened: it removes it with its claim, and the
   device can then never be closed.
3. After a timeout, the flushed transfer's callback gives a semaphore nobody
   takes. The next request takes it at once and returns `ESP_OK` with its own
   transfer in flight; the one after finds the transfer busy.
4. `deinit` waits for usbLibTask, which ends when the last client is deregistered,
   which is what `deinit` does next. After an init that succeeded it never returns.

Met while modelling, in the models but without a run of their own:

* A handle verified against the list is used after the lock is released; an
  unplug frees it in between (`"dangling"` in `HidHost` and `HidDeviceApi`).
* The disconnect loop does not get past another device's interface: it takes the
  first of the list and ends when the list is empty. With one port this needs a hub,
  which ESP-IDF supports from version 5.4 on; the list, the loop's test for the
  device and the library's README are written for several devices. With two HID
  devices in `HidHost`, TLC finds `SettledUnplug` violated.
* `usb_class_request_get_descriptor` writes the setup packet of a long report
  descriptor through the pointer it freed a few lines before (`"freed_xfer"` in
  `HidControl`).
* The status of a control transfer is never looked at, so that after a stall
  `actual_num_bytes - 8` is negative, passes the signed test against `wLength` and
  is copied (`CopyAnswer`, `"bad_length"`). That it is copied is a fault of the code which
  `CountedOnce` does not deny; it says that there is no other way to it.
* The data of a SET request are copied into the transfer whatever its size
  (`SetOverflows`, `"overflow"`).
* A failed reallocation returns with the mutex taken (`ResizeFails`; `BusyByOther`
  holds in `control` because the heap suffices there), and an allocation that fails
  after the claim leaves the interface claimed (`PrepareTransferFails` in `HidHost`,
  `AllocTransferFails` in `HidDeviceApi`).
* `report_desc` counts as requested from its `malloc` on (`RecallDescriptor`).
* `HID_PROTO_NAMES[dev_params.proto]` is evaluated before the protocol is checked
  (`CopyParams`, `"bad_index"`).
* `stop` may delete the processor task with the device mutex taken or an event in
  hand; a comment in `start` announces the re-enumeration that would repair it.
* A close by the user leaves `user_cb`, though a comment speaks of flushing it. It is
  as well: otherwise the disconnect handler would not call the application back.
* A mouse that moves by the same amount in two reports moves once: `MotionTold` is
  stated for a mouse that does not (`steady`). A report too short clears the kept
  one in silence, so that keys stay held (`silenced`).
* The remote has one `pressed` for four kinds of reports: moving it tells that
  nothing is pressed while a key is held. `ButtonTold` is about the group reported
  last. Mute has another id in the code than in the header.
* `registerCallback` during an event leaves `triggerEvent` with freed memory
  (`"dangling"` in `Reports`).

### Bounds

`MaxPlug` bounds how often devices are plugged in between reboots. Three allow a
device to leave during an open, come back at the same heap address while a
stale event is queued, and leave again. `QueueCap` is `EVENT_QUEUE_SIZE` (10) in the code. In the runs it is
4, the smallest size at which these plug-ins lose no interface: a third plug-in may
find it full, but then of events with the very handles it would queue
(`RoomToNotify`, an invariant with 4 and not with 3). With a queue full of other
events, `IdleIsQueued` and `AttachedIsServed` fail: an event is dropped and never
repeated. In the program that takes ten interfaces or, with fewer, replugging
while the processor task is blocked for up to five seconds per class request.
There are two addresses, as many as interfaces listed at a time, so that an
address is reused as soon as it can be. `Failing` is empty in `receiver`, because a
refused call may rightly leave an interface unserved, and every call in
`two_devices`.

In `HidControl` nothing is counted: calls come again for ever. Two tasks give
every interleaving of a holder and a waiter, and two addresses let a replaced
transfer come back at another address or at the same one. Sizes matter only in
whether `DescLen` exceeds `BufSize`.

In `HidDriverLife` nothing is counted either. One background task at a time
suffices while no driver is lost, because the former one has then ended before
its successor is created; the properties hold with two as well (1.6 million
states, four minutes).

In `HidDeviceApi` calls come again for ever and one device (`OneDevice`) is plugged
in once (`MaxPlug = 1`): a new life of the device has new interfaces, which
`HidHost` follows over three plug-ins. Two interfaces let the takedown fail between
them, and two tasks meet each other and the driver task.

In `UsbHidHostLife` `LibTask` bounds the inits: three, so that one may fail, the next
take its notification, and another follow. A stop and start may be repeated for ever.

In `Reports` two keys in two slots give every order of keys and gaps, and a third
value of a motion lets one repeat after a rest. `Held` is every button of the remote;
`Chord` bounds which of them are held together: three keys of report 1, one of
report 4 and a mouse button, so that a third key and a second group occur. `Desk`
has keyboards and mice together, as a report of one class may come between those
of another, and keeps the remote apart, whose object, callbacks and parser are its
own. No report tells one callback from another: `CallbackSymmetry`.

No deadlock is checked: a system whose bus is silent waits, and a fault stops the
model.

### Fairness

`FairSpec` gives weak fairness to each task and to the panic handler: FreeRTOS
runs a ready task eventually, and neither task spins at a higher priority
except in the disconnect loop with another device's interface, where the driver
task has no step. It gives strong fairness
to the callbacks of the driver task's loop, because one turn of
`usb_host_client_handle_events` serves every pending transfer and message: a
callback is not passed over forever for the sake of another. A control transfer
completes, if the device is there, or is timed out. The bus owes nothing:
devices need not stay, and an IN transfer need not complete.

In `HidControl` each task in a call has weak fairness: it runs, or the tick ends
its wait for the mutex or the semaphore, both of which have a time limit. Neither
the device nor the driver task owes anything, so `EveryRequestReturns` holds also
for a request made from the driver task.

In `HidDriverLife` an uninstallation in progress and the background task have
weak fairness. Devices and callers owe nothing, and the library no error: a blocked
`usb_host_client_handle_events` may stay blocked (`LoopStep` is without `HandleFails`).

In `UsbHidHostLife` the calls under way and usbLibTask have weak fairness, in
`HidDeviceApi` each task in a call and the driver task; its callbacks have strong
fairness, as in `HidHost`. Applications, devices and reports owe nothing, and
`TakenDown` is stated for an unplug while no call is under way and none follows.

## Theorems

What the runs check on small instances is proved here for every value of the
constants: any number of devices, interfaces, addresses, tasks, inits, callbacks,
keys, any sizes, any set of failing calls. A theorem has the hypotheses that its
property needs to be true of the code, and no others; the instance of the
property's run satisfies it, and what happens without it is said below and under
"Runs". Every inductive invariant was checked by TLC on the instances of the runs
before it was proved.

| Module | Theorem | States | Hypothesis |
|---|---|---|---|
| `HidHostProofs` | `TypeCorrect`, `ParentNeverFreed` | `TypeOK`, `ParentInstalled` | |
| `HidHostTransferProofs` | `TransferHasInterface`, `OpenIsClaimed`, `NoDuplicateInterface` | `OutstandingListed`, `OpenOwnsClaim`, `OnePerPipe` | |
| | `DriverAssertsHold` | `AssertsHold` | `OwnEndpoints`; `EnoughMemory` if no call fails |
| `HidHostQueueProofs` | `IdleNotForgotten` | `IdleIsQueued` | `OpensWhenFree`, `[]RoomToNotify` |
| | `LifeIsKept` | `ImplementsLife` | |
| `HidControlProofs` | `TypeCorrect`, `MutexHolds`, `SubtractedOnce` | `TypeOK`, `MutualExclusion`, `CountedOnce` | |
| | `TransferSynchronous`, `AnswersAreOwn`, `BufferUntouched`, `BusyIsOther`, `Refines` | `Synchronous`, `OwnAnswer`, `InFlightUntouched`, `BusyByOther`, `ImplementsSync` | `Orderly` |
| `HidDriverLifeProofs` | `TypeCorrect` | `TypeOK` | |
| | `DriverIsThere`, `WaitSuffices` | `DriverOutlivesTask`, `AbortIsTheDevice` | `Orderly` (its own) |
| `HidDeviceApiProofs` | `TypeCorrect`, `CompletionIsExpected` | `TypeOK`, `CompletionFindsInterface` | |
| | `StateTells`, `FreedOnlyInReport`, `LifeIsKept` | `StateTellsClaim`, `OnlyReportsRace`, `ImplementsLife` | `Serial` |
| `UsbHidHostLifeProofs` | `TypeCorrect` | `TypeOK` | |
| | `QueueOutlivesUsers`, `LibraryFirst`, `ClientIsServed`, `LeavesNothing` | `QueueUsersGone`, `InstallAfterLibrary`, `LibraryServed`, `EndsClean` | `CarefulApp` |
| `ReportsProofs` | `TypeCorrect`, `CallbacksFollow`, `NoMotionLost`, `ButtonsTold` | `TypeOK`, `Follows`, `MotionTold`, `ButtonTold` | |

### HidHost

`ParentInstalled` is not inductive. `IInv` adds what carries it: no address is
listed twice (otherwise removing an interface would leave it listed), a listed
interface is one of the configuration of an installed device, and `HidShape` and
`ProcShape`, what each task holds at each step. The step that could break
`ParentInstalled` is `UninstallUnlist`, and it is safe because the loop before it
ends only when *no* interface at all is listed: the very condition that keeps it
from ending while another device has one. The mutant that lets the loop end earlier
violates the theorem's property.

The theorems about transfers rest on `KInv`, which adds four things to it:

* `LInv`, what the library knows against where the driver task is: a device stays
  open until it is taken down (`OpenShape`), nothing is in flight to a device that is
  gone once its message is handled (`PipesIdle`), and that message comes once
  (`GoneMsgs`);
* `ListShape`, that one interface is listed once. This is where `OnePerPipe` comes
  from: a device is attached again only after its loop emptied the list;
* `Owned`, who holds a claim and a buffer between two steps of an open or a close: a
  buffer without a claim exists only between release and free (`BufferClaimed`);
* `Started`, that what `hid_host_device_start` found when it checked is still so when
  it activates and submits, as long as the device stays (`StartsReady`). An unplug in
  between makes the submission fail, which is why an ACTIVE interface may lack a
  transfer and a transfer never an ACTIVE interface.

A stop at any step of the processor task is one of the proved steps, and so is
every failing call. `DriverAssertsHold` needs endpoint addresses that differ between
devices (`OwnEndpoints`; finding 1 is what happens otherwise). Its second half, that
nothing aborts if no call fails, needs an address for every interface
(`EnoughMemory`), since the model's heap is as small as `Addr`.

`IdleNotForgotten` is about a queue with room: `RoomToNotify` says that when an
interface is announced the queue is not full, because a full one drops the event, or
that it has an event of the same handle, whose loss then does no harm. A claim or
an allocation that fails spends the event as well, and so does a stop
(`OpensWhenFree`). Then `NoneForgotten` is kept: an event, also a stale one of an
earlier life of the address, either opens the interface or finds it open. That needs
`ClaimHasOwner`, that a claim on a device that is there belongs to an interface that
is open or just being opened, so that a claim is refused only to those.

`LifeIsKept` (`Spec => ImplementsLife`) needs no hypothesis: not `Serial`, because the
driver task closes only interfaces whose device has left, and these are `away`, so
that of one that is there the processor task is the only one to change the state.
`FInv` adds three things to `KInv`: a claim is on a device the client has open
(`ClaimedAreOpened`), so that a device found anew brings interfaces nobody holds; a
claim on a device that is there, leaked or not, is on a listed interface
(`ClaimedListed`); and an interface that was IDLE when an open checked it is so until
the open makes it READY, as long as the device stays (`FoundIdle`). `StepLives` goes
through the steps: those of the processor task and of transfers concern one
interface (`ProcLives`, `PipeLives`, from `LifeOfOne`), a new list entry appears
(`AddLives`), an unplug takes all interfaces of its device with it (`UnplugLives`), and
the others leave the phase, claim and transfer of every present interface as they
are (`LifeKept`).

Assumed are `ConfigAssumption`, `EndpointAssumption`, `LibAssumption` and
`AddrAssumption`.

### HidControl

Types, mutual exclusion and `CountedOnce` hold under every failure. `IInv` adds only
that a call past its first steps has a pointer; the argument is `StepShape`: a step
changes its own call only, enters the critical section with the mutex, and gives it
back only from inside. `Counted` carries `CountedOnce`: while a call waits or is about to copy, the device's transfer has a count of its own
unless it is in flight, since a submission counts anew and, with the mutex, no second
call is there to copy from it.

Everything else is under `Orderly`: no timeout, no stall, memory suffices. A timeout
makes finding 3, a stall the negative length, a failed allocation the leaked mutex;
the fault of a resized transfer needs none of them, and the theorems hold up to it.
`OrderInv` says what a call knows of the shared transfer at each step (`CallShape`),
that without a waiting call neither a transfer nor a completion is left over
(`Quiet`), and that the device's transfer is the only one (`OneTransfer`).
`BufferUntouched` follows: who rewrites or frees the transfer is in the critical
section, where nobody else waits. `BusyIsOther` adds `Holding`: the owner of the mutex is a task
between lock and unlock, which no early return leaves under `Orderly`.

`Refines` (`Spec => ImplementsSync`) maps every step of a task, and every completion
to the one call that waits, to a step of `SyncRequest` or to none (`Moved`).

Assumed are `TaskAssumption` and `SizeAssumption`.

### HidDriverLife

`Orderly` is here that uninstall comes after the first events (`Patient`) and from
one task. The invariant is a disjunction: a driver was lost to the failure path of
another installation, or all is `Kept`: a driver being installed is its installer's
alone (`OwnDriver`), a background task runs only for a complete driver and alone
(`Served`), an uninstallation past its wait finds no task running (`LetGo`), and the
semaphore tells that truly (`Handled`). So the number of background tasks, two of
which TLC could just about check, does not matter. Assumed is `AddressAssumption`.

### HidDeviceApi

For any application, a transfer that is not back belongs to a listed interface and
none is left when the device's loss is handled (`PipesListed`, `GoneIsLast`,
`ShutWhenDown`). For one that is `Serial`, `SInv` says of each step of a call what it
has claimed, allocated and set so far (`Midway`), and that between calls the state
tells it (`Resting`): every error return leads back to it, and of the one that leaks a claim
`leaked` is kept. From `SInv` follows
`LifeIsKept`: what a step changes is one interface (`LifeOfOne`), and it changes it as an
action of `InterfaceLife` does (`LivesOn`). A call in progress has the interface to
itself; only the resubmission after a report may fall into the call of another task,
and there `SInv` says that an interface with a claim and a transfer, which the
library and the driver task ask for, is READY or ACTIVE (`ResubmitLives`). Assumed are
`CallerAssumption`, `OneDevice` and `LibAssumption`.

### UsbHidHostLife

`CarefulApp` initialises and starts once at a time and uninstalls the driver before
deinit. `CallOrder` says what a call of init or deinit has put in order at each
step, `OneOfEach` that no task runs that the object has no handle of, `ClientServed`
that the driver's library has a task. `InStep` carries `InstallAfterLibrary` and
`EndsClean`: as long as no usbLibTask failed or was killed, each notification is taken
by the init it is meant for; once one did, both properties grant the rest. Assumed is
`TaskAssumption`.

### Reports

`Kept` says that the object is the last whole report, `Heard` that a callback the
loop has passed knows it, `Owed` that of a motion exactly those callbacks have not
heard that the loop will still call; with `OnceEach`, as a function registered twice
would hear it twice. The first attempt at the proof failed, and for a reason: the
history variable `late` was cleared by an event of any class, and with a keyboard
and a mouse on one desk, which the run did not have then, TLC found `Follows`
violated. The model and the run were corrected.

`ButtonsTold` rests on `OneCodeEach`: no two buttons of `btnCodeMap` have the same code.
So `buttonFromCode` finds every button but Mute by its documented bytes
(`ButtonFound`), although the second of them is lost in the 8-bit `keyCode`. `Knows`
says that the object shows the buttons of the report id reported last (`Shows`),
`Typed` carries `TypeOK`. No induction over the bytes of a report is needed: `KeysIn` is
defined by the rank of a slot among those in use, every rank has one (`Ranked`), and
the keys before a report's zeros are its keys (`KeysInPrefix`).

Assumed are `KeyAssumption`, `DeltaAssumption` and `HeldAssumption`.

### What stays with TLC

* Liveness: `AttachedIsServed`, `SettledUnplug`, `EveryRequestReturns`,
  `UninstallReturns`, `DeinitReturns` and `TakenDown` rest on fairness, which the
  provers do not handle.
* The four violated properties.

## Not modelled

* The raw reports kept for the application, the getters and name tables of the
  report classes, which only copy or format; and the generic report class, which no
  report reaches: `hidHostInterfaceCallback` logs reports of generic devices.
* A driver installed without its background task
  (`create_background_task = false`), whose application calls
  `hid_host_handle_events` from tasks of its own. UsbHidHost does not.
* VID and PID beyond the choice of the report class, logging, the filter that is
  commented out (`UsbHidHost.cpp` 217-253), the example, and the constants in `hid.h`
  and build files, which have no behaviour.

## Plan

1. `HidHost`: under which use of the object (no stop, every event taken before the
   next plug-in) `RoomToNotify` becomes a theorem.
2. `HidDriverLife`: what holds of two tasks that uninstall, before the first read of
   a freed driver.
3. `HidHost`: an abstract life of a device, from its port to the client's close, which
   the takedown implements as long as endpoint addresses differ.
