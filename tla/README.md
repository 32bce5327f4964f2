# A verification project for coralmicro

coralmicro is the firmware of the Coral Dev Board Micro: C++ libraries on FreeRTOS for an
RT1176 with two cores (Cortex-M7 and Cortex-M4), an Edge TPU on USB, a camera and a microphone.
This directory holds TLA+ models of the libraries' control logic, of the flash tool with the
loader it talks to, and of an application that uses both cores; TLC runs that check them on small
instances; and TLAPS proofs of most of the safety properties for every instance.

Paths below are relative to `src/`.

## 1. Inventory

| Component | State it keeps | Operations | Interacts by | Hard behaviour |
|---|---|---|---|---|
| `EdgeTpuManager`, `EdgeTpuContext` (`libs/tpu/edgetpu_manager.*`) | `usb_instance_`, `usb_error_`, `context_` (weak), mutex, parameter cache | `OpenDevice`, `GetTemperature`, `RegisterPackage`, `Invoke`, context destructor | calls `EdgeTpuTask::SetPower`, `TpuDriver`; notified by `EdgeTpuTask` without the mutex | sharing by reference count, destructor outside the lock, polling with shared flags |
| `EdgeTpuTask` (`libs/tpu/edgetpu_task.*`) | `enabled_count_`, device and class handles, GPIOs | `SetPower`, `GetPower`, USB events, next-state requests | a `QueueTask`: request queue of 4; sends to itself; events from the USB host task | self-send on a bounded queue, events against queued requests, use after free |
| `QueueTask` (`libs/base/queue_task.h`) | request queue | `SendRequest` (blocks for the reply), `SendRequestAsync` | base of the Edge TPU, DFU, camera, PMIC and random tasks | full queue, reply semaphores |
| USB class driver (`libs/tpu/usb_host_edgetpu.c`) | class instance, pipes, transfers | init, deinit, set interface, bulk and control transfers | called by task and driver | freed while in use |
| `TpuDriver`, `EdgeTpuExecutable` | `usb_instance_`, transfers under way; the device's cached parameters | register access, bulk transfers, inference | callbacks of the USB stack | a transfer fails half-way; time-outs against late answers |
| `EdgeTpuDfuTask` (`libs/tpu/edgetpu_dfu_task.*`) | state, block number, byte count, read-back buffer, handles | firmware download, read-back, compare, start | `QueueTask`, USB host events, `EdgeTpuManager::NotifyError` | detach and retry in the middle |
| `Ipc`, `IpcM7`, `IpcM4` (`libs/base/ipc*`) | two message buffers in shared memory, notification, binary semaphore | `SendMessage`, `StartM4`, tx and rx tasks, event handlers | inter-core events (MCMGR), the other core's console hand-over | boot order, several senders, lost wake-ups, full buffers |
| `ConsoleM7`, console of the M4 (`libs/base/console_m*`) | message queue, receive ring with two indices and a count | write, read, hand-over of the M4's stream buffer | IPC, CDC-ACM | ring arithmetic, blocking writers |
| `AudioService`, `AudioReader`, `AudioDriver` (`libs/audio`) | callbacks, ids, request queue, ring buffer, microphone rail | `AddCallback`, `RemoveCallback`, destructor, `FillBuffer`, `Drop` | request queue, private reply queues, DMA interrupt, PMIC | callbacks that end themselves, removal in flight, power-down |
| `CameraTask` (`libs/camera`) | mode, power, four frame buffers, motion detection | enable, disable, get and return frames, discard | `QueueTask`, CSI driver, PMIC | several clients, stale frame indices |
| `CdcAcm` (`libs/cdc_acm`) | transmit buffer, line state, binary semaphore | `Transmit`, USB events | called by the console, gives the semaphore in the USB task | time-out against late completion, detach, empty packets |
| USB host and device tasks, `CdcEem` | callbacks per device | dispatch, Ethernet frames over USB | USB stack callbacks | mostly the vendor's stack |
| gpio, timer (`libs/base/gpio.cc`, `timer.cc`) | callback, debounce interval and last time per pin; rollover counter | configure an interrupt, the interrupt handlers, the 64-bit clock | interrupts, callbacks | 64-bit clock read in two parts, configuring while interrupts come |
| `JsonRpcHttpServer` (`libs/rpc`) | a buffer per connection | POST begin, data, finish; response | callbacks of lwIP's HTTP server | several connections, addresses used again, POSTs cut off |
| elf_loader (`apps/elf_loader`), flash tool (`scripts/flashtool.py`), `libs/base/reset.cc` | open file, target, boot timer, retained flag; the tool's state | receive files, boot; detect, load, program, reset | USB HID, the ROM's loaders, littlefs | resets in between, interrupted tool, power loss, timer against tool |
| multicore_model_cascade (`apps`) | MainTask's queue, `started`, PosenetTask's queue and tensor, time of the last pose | detect on the M4, look for poses on the M7, hand over | IPC, suspend and resume, camera, Edge TPU | one camera for two cores, lost wake-ups, a task that sends to itself |
| `PmicTask` | none beyond its queue | rails, chip id | `QueueTask`, I2C | retry of transfers |
| i2c, spi, pwm, analog, watchdog | none | register access | interrupts | none |
| filesystem, HTTP server, WiFi, Ethernet, NTP, mass storage | open files, sockets | wrappers of littlefs and lwIP | callbacks of lwIP | mostly third-party |
| tensorflow, jpeg, a71ch, random | none | numerical post-processing, wrappers | calls | none |
| other `apps`, `examples`, `arduino` | | users of the libraries | | |

What makes each component correct, and what could go wrong at which line, is listed in
`PROJECT.json` under `hazards`, with the properties that would notice it.

FreeRTOS is configured with pre-emption and without time slicing
(`third_party/modified/FreeRTOS/FreeRTOSConfig.h:43,65`); the task priorities are in
`libs/base/tasks.h:35-59`. The kernel, the NXP USB stack and MCMGR are submodules that are not
part of the repository: they are modelled from how the code here uses them and marked external
in the map.

## 2. Modules

```
PowerLease <---refines--- EdgeTpu <--- MCEdgeTpu             (runs edgetpu_*)
EdgeTpuDfu <--- TpuSession <---------- MCTpuSession          (run tpu_session)
IpcChannel <---refines--- Ipc <------- MCIpc                 (runs ipc_*)
AudioService <------------------------ MCAudio               (runs audio_*)
Camera <------------------------------ MCCamera              (runs camera_*)
Flashing, Console, Gpio,
JsonRpc, Cascade <------- Board <----- MCBoard               (run board)
                 Console                                     (run console_timeout)

Theorems:  EdgeTpuProofs, TpuSessionProofs, IpcProofs, AudioServiceProofs, CameraProofs
           extend the module they are about;
           ConsoleProofs, CascadeProofs <--- BoardProofs     (which has JsonRpc's, too)
```

`TpuSession` composes the firmware download with inference. `Board` puts parts side by side that
share nothing (see there). `EdgeTpu` and `EdgeTpuDfu` are two views of one bring-up: the first
follows the power count and the second the download, and each abstracts the other's task to its
outcome.

### EdgeTpu

State. `pc[c]` says where application task `c` is in `OpenDevice` (`open...`), in the destructor of
a context (`drop...`), in `GetTemperature`, `Invoke` or `GetPower`. `holds` are the tasks with a
`shared_ptr` to the published context; `weak_ptr::lock` succeeds iff `Live`. `queue` is the
request queue: power requests name the client whose `SendRequest` semaphore the handler gives
(`given`), next-state requests name nobody. `powering`, `toSend` and `toNotify` are the rest of a
handler that is under way: waiting for power good, states it has still to send to its own queue,
and the call of `NotifyConnected` that follows `SetInterface`. `port`, `lost` and `allocated` are
the USB host's side: what has been announced, a device that has left the bus unnoticed so far, and which
class instances are allocated.

Actions. Every blocking call and every lock is a step boundary; between them a handler runs in one
step. `OpenLock`/`OpenSend`/`OpenPowered`/`OpenFound`/`OpenError`/`OpenInit`/`OpenRun` are
`OpenDevice`; `Close`/`DropSend`/`DropTaken`/`DropDone` drop a reference, with the destructor run
by whoever drops the last one (in `GetTemperature` that is done with the mutex held). `Handle...`
are the cases of `EdgeTpuTask::RequestHandler`; `Usb...` are `USBHostEvent`. A failed `CHECK`
suspends the scheduler; the task that failed then reaches `configASSERT` in its next blocking
call, so that the model lets nothing happen any more (`halted`).

Faults. A device may fail its enumeration (`UsbEnumerationFail`), fail it before the host has read its VID and
PID, so that `UsbHostTask::HostEvent` finds no callback for it (`libs/usb/usb_host_task.cc:69-71`, `UsbSilent`),
drop off the bus although it has power (`UsbLoss`, which `UsbDetach` announces), and come back after that or
not; an allocation, `SetInterface` or another event may fail. Two consequences are what the code does, and the
properties say so: a context whose device has gone goes on being shared until its last reference is dropped
(`ContextOnLiveDevice` is about the steps that take a device away), and the polling loop of `OpenDevice` has no
end if no error is reported (`OpenReturns` excepts a device that stays silent for ever).

Abstractions. Packages, tensors and register contents are left out: `Invoke` is the section it
holds the mutex for, and `TpuDriver::Initialize` succeeds if its device answers and otherwise fails
its first `CHECK`. `HandleSetInterface` covers the errors before, in, and after its callback.
Attachments carry names from `Devices`, reused when nothing points to them.

Bounds. `QueueLength` = 4 as in the code. `Devices`: five names (three without readers) suffice, as a new
attachment needs a name no pointer holds and there are four pointers. `MaxFaults` = 1. Three clients are needed for
one that holds, one that releases and one that opens at the same time.

Assumptions. `DelaySuffices` = TRUE says that the 30 ms of the destructor are enough for a device
without power to be detached and announced. Without it even a single client may open a dead device.

Fairness. `Task` weakly fair: the EdgeTpuTask is scheduled (its loops yield or block). Clients
strongly fair: the kernel wakes waiters of queues and mutexes in turn. `Usb` strongly fair: the
host acts as long as power is on or off often enough. Calls are never forced, nor are faults.

### EdgeTpuDfu, TpuSession

State of `EdgeTpuDfu`: `opener`, the application task in `OpenDevice`; the EdgeTpuDfuTask's queue
(`requests`), the transfer it has `pending`, `block`, `readBack` and its handles; `device`, from `off`
over DFU mode, `told` and `starting` to `tpu`, with the blocks in its `memory`; what the host has
`announced`; and the manager's `connected` and `dfuError`. Actions: the `Usb...` events, the `Handle...`
cases of the task, one `...Callback` per transfer, `CallbackFailed`, `DeviceReset`, `TpuLost`.
`UsbEnumerationFailed` is a failure with `kStatus_USB_TransferFailed`, the only one that
`libs/tpu/edgetpu_dfu_task.cc:74-75` reports; `UsbEnumerationUnheard` is any other, and one of a device that is
not identified yet: nobody is told. `OpenHalts` is `TpuDriver::Initialize` of a device that has just gone, whose
`CHECK`s stop everything (`Awake`). `kCheckStatus` is left out, as no code enters it.

`TpuSession` adds what `Invoke` keeps from session to session (`token`, `cached`), the loop of the
present call (`phase`, `slot`, `hints`) and what the device holds. `ResetToken` is
`NotifyConnected(nullptr)`, which takes no lock and may come in the middle of an `Invoke`.

`Invoke` does not look at the result of the parameter caching executable and sets the token and
`cached_packages_` anyway: `unloaded` are the packages recorded as cached although the device has taken nothing
for them, and `RightParameters` excepts an inference of such a package, and no other. How
that happens is told in section 3.

Findings of the modelling that no property states, as no comment contradicts them:
a third package with the same token finds both entries of `cached_packages_` taken and runs without
its parameters (the instance has two per token); a device that is lost stays off until its power is
switched; `usb_error_` is looked at before the device has had its chance, so that an old error fails a new call;
`OpenDevice` polls for ever after a failure of which it is not told (`RetriesSucceed` excepts a device that stays
`unheard` or `lost`). A transfer to a device whose class instance the detach has freed works on freed memory;
the model lets it fail with an error. After a transfer's time-out
`TpuDriver` deletes the semaphore while the transfer is pending; the repository does not say whether the
USB stack still calls back, and this is left out.

Assumptions. No `Close` during an `Invoke`, as `libs/tpu/edgetpu_manager.h:44-45` asks for; an `Invoke` may
begin on a device that is lost, and lose it in the middle. The host debounces a new attachment for longer than the
task needs to empty its queue, and the 30 ms of the destructor suffice.

Bounds. Two blocks, so that a read-back can stop in the middle; a queue of 4 as in the code; two faults,
so that the second meets what the first has left; four packages: two that share a token, one of another
token, one without caching. Fairness: the tasks are scheduled and the stack ends every transfer. Nobody
has to call `OpenDevice`: `RetriesSucceed` is about callers that try again.

### Ipc

State per core: `note` (the notification that carries a message pointer), `sem` (the one binary
semaphore), the states of tx and rx task, the message buffer it sends through, `event` (inter-core
events raised and not taken), and the message in the hands of the rx task. `call[t]` is where
task `t` is in `SendMessage`. Tasks are the applications, `M4ConsoleTaskFn` and the two rx tasks,
whose handlers may answer from within. `Deref` is what the tx task finds behind the pointer: the
message as long as its sender is inside the call, garbage afterwards.

Actions. `StartM4`, `InitM4`, `AppMainM4` are the boot; `SendMessage`, `Notify`, `Take` the call;
`TxAddress`, `TxSend` the tx tasks; `RxAddress`, `RxBlock`, `RxReceive`, `RxHandle` the rx tasks;
`Isr` and `PrintM4` the events. `TxSend` is one step because the tx task has the highest
priority and equal priorities are not time-sliced.

Events. `Raise` is `MCMGR_TriggerEventForce` (`libs/FreeRTOS/multicore.c:22,27`): it replaces an event the other
core has not taken yet. A message's event that replaces an earlier one wakes the rx task all the same; the event
of the M4's console output (`PrintM4`) does not. So the M7's rx task may sleep on a message of the M4
(`Overslept`) until the M4 sends another one. `WakeupsKept` says that this is the only way in which
a task oversleeps, and `MessagesReceived` excepts it. The M7 raises no console event, so the M4 hears of every message.
`InitM4` uses `MCMGR_TriggerEvent`, which replaces nothing.

Full buffers. A tx task that finds the buffer full stays blocked: the task that makes room is on
the other core, and `FreeRTOSConfig.h:126-132` redirects `sbSEND_COMPLETED` to an inter-core event
but leaves `sbRECEIVE_COMPLETED` to the local kernel. What that kernel does with the other
core's task handle is undefined; the model keeps the harmless outcome. `SendReturns` therefore
excepts a blocked tx task, and `ipc_serial` reaches such states on both cores.

Assumptions of `ipc_serial`. `Serialized`: on each core one task at a time is in `SendMessage`
(without it see `ipc_senders`). The M4 answers, the M7 does
not (`Replies` = {"M4"}): if both handlers answer, both rx tasks can wait for ever on full
buffers, and `SendReturns` shows only that this needs full buffers.

Bounds. `Capacity` = 2 instead of 7 so that the buffer fills, `MaxSends` = 3 so that it fills while
the address and the console message are still in it. With an application task on each core, two
messages and one slot everything holds but `MessagesReceived`: the M4's output leaves the M7's rx task asleep, the
M4's tx task stays blocked on the full buffer, and with it the M4's handler that wants to answer, so that messages
of the M7 wait too.

### AudioService

State: the clients' calls (`pc`, `argument`, the private `reply` queues), the ids they own, the ids
whose callback has returned false (`ended`), `Run`'s local variables, the reader with the number of
frames in its ring, and the stage of the destructor (`life`). `Run` is `HandleAdd`, `HandleRemove`,
`HandleStop`, `NoRequest`, `OpenReader`, `Drop`, `FillBuffer`, `Call`, `EndRound`; `Callback` is the
DMA interrupt. `NoRequest` needs a registered callback, because without one `xQueueReceive` waits for
ever: the branch `if (callbacks.empty())` behind it (`libs/audio/audio_service.cc:181-184`) is
unreachable, and so is the reset of the reader in it. Samples are abstracted to whole frames and
the order in which callbacks are called is left open.

Bounds. `QueueLength` = 1 so that senders block; `MaxIds` = 3 calls of `AddCallback`, so that a
callback is added before, during and after the removal of others; one frame in the ring, one to drop.
Fairness: the tasks are scheduled, the interrupt keeps coming. Nobody needs to call anything.

### Camera

State: where each application task is in its call (`pc`, `request`, `reply`), the request queue and
the request whose handler is blocked or busy (`handling`), the members `enabled`, `mode`, `detect`
(`md_config_.enable`), the sensor (rails, mode, motion detection, interrupt line, a picture taken
by a trigger), the trigger pin, and the CSI driver's buffers: `empty`, `filling`, `full`. Indices
count from one, and `NoFrame` is the -1 of the code.

Actions. `GetFrame`, `Call` and `Trigger` begin a call, `Send` is `SendRequest`'s queueing;
`AskAgain`, `TakeFrame`, `ReturnFrame` are the loop in `GetFrame` and its end, `Return` the end of
the other calls, where `Enable` sets `enabled_`. `Handle...` are the cases of `RequestHandler`. A
handler that blocks in the middle is two actions: `HandleEnable`/`SetMode`,
`HandleDisable`/`TransferStop`, `HandlePower`/`SwReset`, `HandleTestPattern`/`PatternSet`,
`HandleMotionDetectionConfig`/`Configured`: the first one writes the register that switches motion detection, the
second one the register that clears the interrupt. `HandleDiscardRequest` does not block but
spins at the highest priority: while it is in `DiscardFrame` only interrupts happen (`Runs`).
`FrameStart`, `FrameDone` are the DMA. `MotionInterrupt` is the GPIO interrupt, which may come in the middle of
any handler and whatever is queued; its `CHECK` stops everything (`halted`).

Assumptions. The sensor answers and reacts to the rising edge of the trigger pin. The code's methods
check almost nothing, so the callers must. `Rules` says what they keep to, and each rule is needed
(found by leaving it out of `camera_tasks`):

| Rule | Callers | Without it |
|---|---|---|
| `exclusive` | switch the camera only while nobody else is in a call | `OneOwner`, `EnabledIsCapturing`, `TriggerMeansPicture`, `InterruptFits`, `CallsReturn` fail |
| `order` | power before `Enable`; `Disable` before the next `Enable` or a change of power | `EnabledIsCapturing`, `TriggerMeansPicture`, `InterruptFits` fail |
| `streaming` | `DiscardFrames` only when streaming | `TriggerMeansPicture`, `CallsReturn` fail: the CameraTask spins for ever |
| `trigger` | `Trigger` only in trigger mode, one task takes pictures, the last one is fetched before `Disable` | `TriggerMeansPicture`, `CallsReturn` fail |
| `motion` | `SetMotionDetectionConfig` and `SetTestPattern` only while the camera does not stream | `InterruptFits`, `CallsReturn` fail: the interrupt is cleared, and comes again, while its request is still queued |

The rules do not make the motion interrupt safe by themselves: it shares the queue with the callers, who wait for a
slot when there is none, while the interrupt fails its `CHECK`. Within the rules at most one motion request is
queued, so it fits if the tasks are fewer than the slots (`camera_tasks`, proved for every number), and may not if
they are as many (as four tasks are for the four slots of `libs/camera/camera.h:223`; section 3).

Bounds. Three buffers instead of four (two in trigger mode, as in the code), so that the clients, the
DMA and the full queue can each have one; `QueueLength` = 3, one for each client and one for the motion
request, as few as `InterruptFits` allows; one frame to discard.

Fairness. The CameraTask is scheduled and the DMA goes on (weak); the kernel lets each application
task run and gives queue slots in turn (strong, since `Send` waits for a slot). Two tasks that poll
for frames may starve each other, so that `CallsReturn` asks of `GetFrame` only that frames are
delivered or discarded while somebody asks.

### Flashing

State. The board: what runs (`mode`), the files of littlefs with what is in them (none, empty,
partial, old, new), the elf_loader's open file, `target`, boot `timer` and the `flag` in retained
memory that disables it, and the one HID report in its `pipe`. The host: the state of the tool, its
options, the reports of the `current` file it has still `todo`, its HID device. `promised` are the files the tool has
reported as flashed.

Actions. `List` to `CheckForElfloader` are the tool's states; `OpenHid`, `HidWrite`, `EndSession` the
states that talk to the elf_loader; `Recv`, `TimerFires`, `ElfloaderMain` the elf_loader;
`PowerCycle` and `Interrupt` the user. `read_byte` waits at most a second for an answer and goes on
without it, so it orders nothing and is left out. `OpenFile`, `WriteFile`, `CloseFile` and `FormatFs` are the calls
of littlefs for a report, each of which may fail (`LfsFails`); the elf_loader ignores the results and acknowledges
the report all the same, so that the tool reports success with a file missing, incomplete or old;
`failed` excepts such runs from `BootsWhatWasFlashed`. After a failure a report may write to or close
a file that is not open, or open one without a mounted littlefs (`Strays`); with littlefs's assertions compiled out
(`cmake/toolchain-arm-none-eabi-gcc.cmake:133`) the call comes to nothing, or the board stands still
(`StandStill`). The results of `h.write` are not looked at either,
and a run that the user has disturbed may report success without reason: `disturbed` excepts it.

Two weaknesses are excepted. With `--noreset` success is reported before the last file is closed (only a run that
resets the board adds to `promised`). If the power fails while `/default.elf` is open for the first time, a file of
no bytes remains; `elfloader_main` takes it for an application (`apps/elf_loader/elf_loader.cc:210`) and leaves the
bus (`mode` = `dead`); so it does with a file that a failure of littlefs has left incomplete.

Bounds. One data file and images of two packets, so that a file can be cut off between; one power cycle,
interruption or failure of littlefs (the state it leaves is then worked off by complete runs). Booting from
internal flash is assumed, and so is that littlefs works when the elf_loader starts and reads the application; the
debugger, the USB drive, Arduino boards and the preparation of files are left out. A board appears on the bus well
within the tool's ten seconds. Fairness: board and tool go on, and the user runs the tool again until it has
reported success.

### Console

Input: the receive task puts characters into the ring (`RxChar`), `Read` takes them out. Output: `Write`
queues, the transmit task (`ReceiveMessage`, `Transmit`, `Send`, `Take`, `TakeTimeout`) sends through
`CdcAcm`, and the USB task's events (`SendResponse`, `Detach`, ...) come in anywhere. `unread`, `received`
and `mixed` are history. A message is short, full (an empty packet must follow) or too long.

When the ring is wrapped, a `Read` of few bytes copies all up to the end of the ring
(`libs/base/console_m7.cc:104`), and the length of the second copy becomes negative, which `memcpy` takes for some
4 GB: the board is gone (`crashed`), with `rx_mutex_` held, and nothing goes on. It cannot
happen if every caller asks for as much as the ring can hold (`LongReadsAreSafe`).
`EmergencyWrite`, `BLOCKING_PRINTF` and what a cancelled transfer reports are left out.

Bounds. A ring of four with reads of one, two and four; a queue of two messages; one time-out, because
already one leads to the failing `CHECK` (`console_timeout`), and `OneByOne` is about none. `RingHoldsLatest`
speaks of a ring no `Read` has crashed on; the reads of one and two are also those that crash.

### Gpio

State: the hardware counter, its roll-over flag and `g_micros_rollover`; handlers, debounce intervals
and last times per pin; the interrupt flags and masks; and where the interrupt handler and a task in
`GpioConfigureInterrupt` are between their loads of the clock. The interrupt may come in at any point of
the task. `since`, `lastTorn` and `decision` are history.

What the model does not judge: configuring one pin clears the pending flags of all pins of its port,
`kIntModeNone` disables the interrupt of the whole port, one of the combined interrupts has no handler,
and the assignment of a `std::function` is not atomic to an interrupt.

Bounds. A counter of four values that wraps twice, so that times lie a whole counter width apart; an
interval of two; one tick between two loads; one pin. Times are unsigned and their differences are taken
modulo `TimeModulus`.

### JsonRpc

The callbacks of the HTTP server on the buffers per connection address. `PostBegin` reserves memory but does
not clear the buffer, so that a POST that is cut off leaves an error behind, and the next request at
that address is answered with an error as well. `cutOff` records it, and `RepliesBelong` excepts that one
request and none after it. Bounds: two connections, two different requests, two packets each.

### Cascade

State: where the two `Main` tasks are (`m4`, `main`), messages not handled yet (`wakeUps`), which core's
CameraTask is enabled (`cameraOf`), the MainTask's queue, completion semaphore, position, local
variables and frame, and the PosenetTask's queue (`offered`), tensor and position.

Actions. One for each blocking call. `DetectPerson`, `DisableM4`, `SendToM7`, `SuspendM4`, `ResumeM4` are the
M4's loop; `StartMainTask` to `SendToM4` the M7's; `Receive`, `CmdStart`, `CmdStop`, `CmdProcess`, `Put`,
`Offer`, `QueueProcess` the MainTask; `Peek`, `InvokePosenet`, `TakeOffer` the PosenetTask. `vTaskResume` of
a task that is not suspended does nothing, so a wake-up that comes too early is lost. A failed
assertion leaves the MainTask in `asserted`, where nothing goes on.

Assumption. `SuspendsInTime`: a core that has handed over suspends itself before the other core hands back,
which takes an image and an inference on the M4 and five seconds on the M7. The code relies on it; without
it `CoresTakeTurns` fails (the M4's message can even come before the M7's first `vTaskSuspend`) and both
cores sleep for ever. With a queue of one instead of two `CoresTakeTurns` fails too.

What is sent to the network is left out (`NetworkTask` holds its mutex for every message), and so are the
errors before the first frame and the demonstration. `CHECK(interpreter_->Invoke() == kTfLiteOk)`
(`multicore_model_cascade_cm7.cc:228-229`) is taken to pass: when it fails the M7 stops for good, and nothing is
claimed of it. From `Ipc` and `Camera` it takes that calls return and
that messages are handled once. Fairness: tasks are scheduled and messages handled; the
application need not get as far as starting the M4, and there need not be a person.

### Board

The parts above share no variable and no lock, and none calls another. A behaviour of `Board` therefore moves
one part, chosen at the start, and leaves the others in their initial states: TLC explores the union of
the parts' states and not their product. The two directions of the console are two parts. Parts that do not
move owe no step by fairness (the flash part starts after a finished run), so the fairness of the flash and
cascade parts need no condition. Deadlock is not checked, as user and host may stop.

## 3. Runs

| Run | Instance | Result |
|---|---|---|
| `edgetpu_shared` | 3 clients, no faults, symmetry | 82,000 states; `TypeOK`, `CountBalances`, `PowerWhileInUse`, `NoSelfBlock`, `RefinesLease` hold |
| `edgetpu_faults` | 1 client, all calls, each kind of fault | 265,000 states; `NoUseAfterFree`, `OpensLiveDevice`, `ContextOnLiveDevice`, `OpenReturns`, `PowersDown` hold |
| `edgetpu_reopen` | 2 clients | `OpensLiveDevice` **violated** |
| `tpu_session` | 4 packages, 2 faults | 857,000 states; `BootsWholeImage`, `FewFailures`, `RightParameters`, `RetriesSucceed` hold |
| `ipc_serial` | 1 application task, console, answers of the M4 | 7,400 states; all six properties hold |
| `ipc_senders` | 2 application tasks and the console task on the M7 | `GiveSucceeds` **violated** |
| `audio_service` | 2 clients, destruction | 104,000 states; all five properties hold |
| `audio_mic` | 1 client | `MicPowersOff` **violated** |
| `camera_tasks` | 2 clients that keep to all rules, 3 slots | 122,000 states; all five properties hold |
| `camera_race` | 2 clients, without `exclusive` | `EnabledIsCapturing` **violated** |
| `board` | flashing, console, pins, RPC server, cascade | 513,000 states; all ten properties hold |
| `console_timeout` | a host that is late once | `GiveAccepted` **violated** |

What the passing runs show beyond the names of the properties:

- `tpu_session`: the firmware that is started is the whole image, whatever failed before, although
  block number and read-back buffer of an aborted download are not reset (`BootsWholeImage`); each fault
  costs at most three failed calls of `OpenDevice` (`FewFailures`) and none that was reported makes it fail for
  ever (`RetriesSucceed`); an inference runs with its own model's parameters in the device, whatever was run,
  closed, lost or opened before, unless Invoke had taken its failed load for a good one (`RightParameters`).
- `board`: the tool never sends files to an elf_loader whose timer may take it off the bus (`FlashingUndisturbed`);
  what it has reported as flashed is on the flash in full and is what boots, if littlefs did not fail
  (`BootsWhatWasFlashed`); after any interruption or failure running it again succeeds (`FlashingSucceeds`). The
  receive ring holds the latest characters in order (`RingHoldsLatest`); as long as the host is not late, messages
  leave one by one (`OneByOne`). A pin's callback is called for exactly the edges that its interval allows, up to
  accidents with a torn clock, which cost one edge (`Debounced`). Replies belong to their requests
  (`RepliesBelong`). At most one core has the camera (`OneCoreHasCamera`), the tensor is not overwritten during an
  inference (`PictureStays`), and a hand-over ends with the other core at the camera (`CoresTakeTurns`).

`edgetpu_reopen`: client A drops the last reference. The weak pointer is expired, the destructor has
sent its power-off request or not yet, and holds no lock. Client B locks the mutex, finds no
context, makes a new one, and finds `usb_instance_` still set. Depending on the order of the two
power requests the device disappears before or after `Initialize`, whose register accesses are
`CHECK`ed: the firmware stops although `OpenDevice` documents a null pointer for errors.
`NoUseAfterFree` fails with two clients for the same reason, which is why it is checked with one.

`NoSelfBlock` holds for clients that use the manager: at most two requests are queued when the handler
sends to itself, which `NeverBlocksItself` proves for any number of clients. With `GetPower` (which
`libs/testlib/test_lib.cc` calls) among the calls of three clients, with the delay too short, or with two
USB faults, it fails; the last when two unexpected events of the USB host fall on the detach of a device
whose interface is being set.

`ipc_senders`: sender A's message has been sent and the semaphore given; before A runs, B notifies
the tx task, which sends B's message and gives a semaphore that is already given. It needs a sender
of higher priority or a third ready task; `M4ConsoleTaskFn` is one of the senders on every M7.

`audio_mic`: see `HandleRemove`; the reader is only reset in the round of calls.

`camera_race`: the CameraTask has answered `Enable`, and the `Disable` of another task is next in its
queue. It runs at a higher priority, so it handles the `Disable` and clears `enabled_` before the
caller of `Enable` gets to store its answer there. From then on `enabled_` is set for a camera that
is stopped, and `GetFrame`, which is meant to refuse the call, polls for ever.

`console_timeout`: `Transmit` gives up after 200 ms; the late response gives the semaphore that nobody has
taken. The next message is sent at once, and if its response comes before the transmit task, which has
the lower priority, has taken the semaphore, the second give fails and `CHECK` stops the board.

Several properties of the passing runs name an exception. Each stands for a behaviour of the code that violates the
property without it, of which TLC gives a trace when the exception is left out:

- `OpenReturns`, `silent`: the EdgeTpuTask has called `NotifyConnected`, and `OpenDevice` is still in its 100 ms delay
  when the device drops off the bus. The detach leads to `NotifyConnected(nullptr)`, which sets no error. If the
  device does not come back the loop goes on for ever, with the manager's mutex held, although
  `libs/tpu/edgetpu_manager.h:115-116` promises a null pointer in case of error.
- `RetriesSucceed`, `unheard` and `lost`: the same for a failed enumeration that nobody is told of.
- `RightParameters`, `unloaded`: the Edge TPU falls off the bus, and the detach clears the token. An `Invoke` that was
  under way, or is made now, has its load fail, which nobody looks at, and sets the token. When the application then
  drops its context and opens the device again, nothing clears the token any more, and the next `Invoke` of this model
  finds it cached in a device that has lost its memory.
- `MessagesReceived` and `WakeupsKept`, the M4's output: the M4's handler answers, and the M4 prints before the M7 has
  taken the event of the answer. The message waits in the buffer until the M4 sends another one.
- `InterruptFits`, more slots than tasks: each of four tasks has put a request into the queue of four, and the sensor
  sees motion before the CameraTask has taken the first one. On the M4 the callers have the CameraTask's priority
  (`libs/base/tasks.h:51-57`), so that it runs after all of them; on the M7 it has the higher one, but waits for I2C
  in its handlers and runs the user's callback.
- `RingHoldsLatest`, `crashed`: three characters lie at the end of the ring, which wraps behind them; a `Read` of one
  copies all three, and goes on with a length of minus two.
- `BootsWhatWasFlashed`, `failed`: a call of littlefs fails for one of the files; the tool sends the remaining reports,
  resets the board and reports that flashing is complete.

Each property of a passing run has a mutant of the code in its module (definitions marked "Mutant")
that violates it.

## 4. Proofs

Everything below is proved for every value of the constants that satisfies the modules' assumptions:
any number of tasks, clients and connections, queues, buffers, images and rings of any size, any
number of calls and faults. Further assumptions are hypotheses of the theorem (`ASSUME ... PROVE`) and
are those under which the runs check the property as well; each is named with its theorem. A proof
module states the invariant of each component as a conjunction of named parts, and proves one lemma
per kind of step and, where a step disturbs several parts, one step per part.

| Module | Theorem | States | Needs |
|---|---|---|---|
| `EdgeTpuProofs` | `TypeCorrect` | `TypeOK` | |
| | `CountCorrect` | `CountBalances` | |
| | `PowerCorrect` | `PowerWhileInUse` | |
| | `ContextsAreLive` | `ContextOnLiveDevice` | |
| | `OpensAreLive` | `OpensLiveDevice` | `SoloClient` |
| | `InstancesAreLive` | `NoUseAfterFree` | `SoloClient` |
| | `NeverBlocksItself` | `NoSelfBlock` | `Sharing`, `NULL` is no device, three slots in the queue |
| | `Refinement` | `EdgeTpu` implements `PowerLease` (safety) | |
| `TpuSessionProofs` | `WholeImage` | `BootsWholeImage` | |
| | `FaultsArePaid` | `FewFailures` | |
| | `ParametersAreRight` | `RightParameters` | `TwoPerToken` |
| `IpcProofs` | `TypeCorrect` | `TypeOK` | |
| | `GiveCorrect` | `GiveSucceeds` | `Serialized` |
| | `PointersCorrect` | `NoDanglingMessage` | `Serialized` |
| | `WakeupCorrect` | `WakeupsKept` | |
| | `Refinement` | `Ipc` implements `IpcChannel` (safety) | `Serialized` |
| `AudioServiceProofs` | `CallbacksOwned` | `NoCallAfterRemove` | |
| | `RemovalsAreTrue` | `RemovesOwnCallback` | |
| | `Silence` | `DestroyedIsSilent` | |
| `CameraProofs` | `OwnerIsOne` | `OneOwner` | `KeepToRules` |
| | `FlagIsTrue` | `EnabledIsCapturing` | `KeepToRules` |
| | `PinIsPicture` | `TriggerMeansPicture` | `KeepToRules` |
| | `InterruptHasRoom` | `InterruptFits` | `KeepToRules`, `RoomForAll` |
| `ConsoleProofs` | `RingIsRight` | `RingHoldsLatest` | |
| | `LongReadsAreSafe` | no `Read` copies beyond the ring (`crashed` stays false) | reads of `RingSize - 1` or more |
| | `MessagesOneByOne` | `OneByOne` | |
| `CascadeProofs` | `CameraShared` | `OneCoreHasCamera` | |
| | `TensorKept` | `PictureStays` | |
| | `AssertionsPass` | the `assert`s of `CmdStart` and `CmdStop` | |
| `BoardProofs` | `RepliesAreOwn` | `RepliesBelong` | |
| | `FlashingIsUndisturbed` | `FlashingUndisturbed` | |
| | `FlashedBoots` | `BootsWhatWasFlashed` | |
| | `EdgesDebounced` | `Debounced` | |
| | `PartsAsSpecified` | the board implements its parts, fairness included | |
| | `BoardIsSafe` | what is proved of the parts, for the board | |

**EdgeTpu.** `PowerWhileInUse` is not inductive: that the device is on follows from `enabledCount > 0`, that from
the number of contexts, and this number is only kept if a request in the queue is known to stand for a client that
waits for exactly that request. `IInv` says so: `MutexInv` (who is in a critical section), `SharingInv` (nobody
holds a context while one is being made), `QueueInv` (each queued or answered request has its own waiting sender),
`CountBalances` and `PowerInv` (the GPIOs follow the count, except while power good is awaited for the only
context). `SwapCardinality` covers steps in which a context passes from its maker to its users. `StepsOfLease` maps
each step to one of the lease: power good to `SwitchOn`, the last power-off to `SwitchOff`, the rest to `Join`,
`Leave` or a stutter. `ContextsAreLive` is an action property: the driver's instance is stored only while no
context is published, and when it is usable; afterwards it is lost only when the power goes off, which
`PowerWhileInUse` excludes for as long as the context is shared, or when the device drops off the bus by itself
(`DropsOff`). `OpensAreLive` and `InstancesAreLive` are about one client and a delay that suffices (`SoloClient`;
with two clients `edgetpu_reopen` refutes the first); like the properties, they speak of a USB side that has not
failed. `CourseInv` walks the stages (`Stage`) from power-on over enumeration to an open device and back; with one
client a state request is queued at most once and ahead of a power-off (`QueuedOnce`), so that a request never
outlives the device it is about.

`NeverBlocksItself` is about any number of clients that do not call `GetPower`, a USB side that does not fail and a
delay that suffices (`Sharing`). The number of queued requests has no bound of its own: while the device is up,
every task that destroys a context which has expired may have its power-off request queued. But then the handler
has nothing to send to itself. So `SharingLine` has two cases. Once the device is up (`Settled`), nothing but power
requests and one `GetStatus` is queued, and the handler sends no state. Otherwise no context is published, so only
the holder of the mutex has a power request on its way (`DropsHeld`, `SentByHolder`), and the queue followed by
what the handler still sends is one of the few words of at most three letters that `Lines` lists: by the phase of
power and port, by whether `class_handle_` is the attached device's, and by whether the holder waits for power,
gives its context up (`Dropping`) or sits out the delay (`Departing`). What a new letter does to such a word is
stated once (`LineEnqueue`, `LineReceive`, `LineSelfSend`), and that every legal word stays legal once per kind of
request (the `Lines...` lemmas). A USB side that does not fail also loses no device (`faults` = 0 throughout).
`SharingLine` was checked with TLC before it was proved.

**TpuSession.** `BootsWholeImage` needs that the read-back buffer tells of the device's memory what has been read
since block 0, and only that (`ComparedInv`: what an aborted download has left in the buffer lies behind `block`);
this in turn that the task is in one stage at a time (`OneStage`), that the handles are those of a device that is
announced (`HandleInv`) and that an open context has the Edge TPU (`OpenerInv`). `FewFailures` is proved by an
account: `Owed` is the number of calls that may still fail without another fault: one for an error that has been
reported or is on its way, one for a download whose device has gone, one for counters that no longer fit what the
device holds (`OnCourse`), and three while another download is still to come (`Again`). No step adds to what has
failed and is owed, except a fault, which pays for three. `RightParameters` needs what the cache says of the token
(`CacheInv`), of the device (`HeldInv`), of the search that goes on (`InvokeInv`) and of a device that has gone
(`DeviceInv`), each up to the packages whose load came to nothing (`unloaded`): what `Invoke` remembers wrongly is
exactly those, so that no model suffers from the failed load of another. `TwoPerToken` is the condition that the
module's text names: the manager remembers two packages.

**Ipc.** `SerialInv`: one task of a core is in the call (`OneCaller`), notification and tx task hold
its message (`Pointers`) and the semaphore is given for it alone (`Given`). `WakeupCorrect` needs
neither `Serialized` nor an invariant besides the types: a step that puts a message into a buffer raises the event
that wakes its reader, a reader goes to sleep only on an empty buffer, and of the steps that take or replace an
event only `PrintM4` leaves a sleeping reader without one.
For the refinement `LinkInv` adds that the address of the buffers is sent first and
that a core handles one message at a time.

**AudioService.** `ServiceInv`: an id belongs to one client from the service's reply on, and is
registered until its callback has ended or its removal has been answered. `SilentInv` is separate.

**Camera.** `KeepToRules` says that the tasks keep to all rules of the table above; the run checks the same
instance. `CallsInv`: each request is queued, handled or answered for the one task that waits for it, and while a
task switches the camera nobody else is in a call (`Alone`). `BuffersInv`: a frame is empty, full, being filled, or
with one task. `SwitchInv`: outside of a switch the camera is on or off as `enabled` says (`Settled`); inside of
one, what holds depends on how far the request has come (`Enabling`, `Disabling`, `Powering`, `Discarding`), and
`Triggered` and `Pictures` tie the pin to the frame it exposes. `InterruptHasRoom` is about any number of tasks
that are fewer than the slots (`RoomForAll`). `MotionInv`: while a motion request is queued the interrupt line is
high, so that no second interrupt comes, and each request that would clear the line is behind it; it cannot be
otherwise, as such requests are made while the sensor does not stream (`NotStreaming`). So the queue holds one
request of each task at most and one motion request.

**Console.** `RingInv` states indices and contents through `Wrap`, the remainder as code would write it, since the
provers do not reason about `%` by a constant of unknown value; `AroundTheRing` relates the two. `LongReadsAreSafe`
uses it: who asks for all characters gets past the end of the ring. `SendInv`: a transfer is in flight only while
the transmit task waits, and the semaphore is given only for it.

**Cascade.** `CascadeInv` follows one baton: in the wake-up under way, or with the core that is awake
(`OneBaton`); a camera is on only with it (`CameraWithBaton`), Main's command to the
MainTask is in one place (`OneCommand`), and `started` agrees with what Main has asked for (`StartedAsTold`). An
attempt at this proof failed on `Receive`, whose CASE had two arms for a `process` that comes
before a start; the arms are disjoint now, as the code's `switch` is.

**Board.** `PartsMove`: a step of the board is a step of one part and a stutter of the others. With it the
theorems about `Console` and `Cascade` carry over to the board that is checked. `RpcInv` says what a buffer holds: the
packets received so far, or the reply.

**Flashing** (in `BoardProofs`). The tool gets no answer, so what it believes follows from counting: the number of
reports of the `current` file that it has written (`Written`) determines, as long as the user has not interfered
and littlefs has not failed in this run (`Smooth`), which file the elf_loader has open, how much of it has come,
and which files are complete (`Progress`, `BoardAt`), up to the one report that is still in the `pipe`.
`TransferFileIs` says which report comes at which place, and `NoneStrays` that such a run never uses a file that is
not open. `FlashingUndisturbed` does not ask littlefs to work (`SendingInv`). Once all has been sent (`AllSent`),
`Complete` holds until the next run of the tool: through the reset, and through power cycles, which may come at any
time after success.

**Gpio** (in `BoardProofs`). The time a handler has loaded is right, or off by at least the counter's range when it was
read across a rollover (`Off`). The code's unsigned difference is the age of the last edge as long as that is younger
than the counter's range (`ElapsedIs`); the remainder by a width of unknown value is put into the lemma
`Remainder`.

Model-checked only:

- all liveness properties (`OpenReturns`, `PowersDown`, `RetriesSucceed`, `SendReturns`, `CallsReturn`,
  `FlashingSucceeds`, `CoresTakeTurns` and the others), which the prover does not reach.

## 5. Plan

Modelled and, for safety, proved: `EdgeTpu` with `PowerLease`, `EdgeTpuDfu` with `TpuSession`, `Ipc` with
`IpcChannel`, `AudioService`, `Camera`, `Console`, `JsonRpc`, `Cascade`, `Flashing`, `Gpio`, `Board`. Left:
`NoSelfBlock` for a single USB fault among several clients (with two faults it fails). The properties that the violation
runs refute state what the code's comments promise; they are kept so that a repaired code can be checked against them.

## 6. Not modelled

Of the repository's 49,000 lines of implementation the models stand for about 4,100. Most of the rest keeps no
state that a model could be about:

- tables and data: `libs/tpu/executable_generated.h` (generated accessors), models as C arrays
  (`examples/tflm_micro_speech/model.cc`, `model.h`), the firmware image `apex_latest_single_ep_bin.c`, register
  offsets (`libs/tpu/darwinn`), clock and pin tables (`libs/nxp`);
- register access: i2c, spi, pwm, analog, the watchdog, the audio and camera drivers' set-up;
- numerical code: tensor post-processing, image conversion and compression;
- thin wrappers of vendored code: filesystem, WiFi, Ethernet, sockets, NTP, mass storage, the secure element;
- `CdcEem`, which passes packets between USB and lwIP, `PmicTask`, which carries one request at a time to I2C,
  and `Random`, a QueueTask of one request;
- applications, examples and the Arduino core, which call the libraries in one task each. `catdog_blinker` has the
  two tasks of `Cascade`; the clients of the models may call what these programs call.
