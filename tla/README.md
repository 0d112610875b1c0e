# Verification of the universal7580 hardware abstraction layers

This directory holds TLA+ models of the concurrent parts of the device tree for
Samsung's Exynos 7580 phones (`src/hardware/`), TLC configurations that check
them on small instances, and TLAPS proofs of the results that matter most. Line
numbers refer to the files under `src/`; `PROJECT.json` maps every definition to
the lines it models.

## 1. Inventory

| Part | State it keeps | Operations | What is hard |
|---|---|---|---|
| Callback registry (`ril/libril/ril_service.cpp`) | response and indication objects per service, a counter per service, one rwlock | `setResponseFunctions`, the response and indication functions, `checkReturnStatus`, `sendErrorResponse` | vendor threads, the binder thread and a client that dies meet on one lock, which is given up in the middle of a critical section |
| Wake lock (`ril/libril/ril.cpp`) | kernel wake lock, `s_wakelock_count`, `s_last_wake_timeout_info`, a mutex | `grabPartialWakeLock`, `releaseWakeLock`, `wakeTimeoutCallback`, `userTimerCallback` | the event thread follows pointers without the mutex; timers are freed and their addresses used again |
| Event loop (`ril/libril/ril_event.cpp`) | sorted timer list, pending list, wakeup pipe | `ril_timer_add`, `triggerEvLoop`, `ril_event_loop` and its phases | lost wakeups, start-up before the pipe exists, timers added by callbacks, the exact tick |
| Pending requests (`ril.cpp`, `ril_service.cpp`) | list of `RequestInfo`, whose addresses are the vendor's tokens | `addRequestToList`, `RIL_onRequestAck`, `RIL_onRequestComplete`, refusal | repeated and late completions, use after free, addresses used again |
| NITZ (`ril.cpp`) | a copy of the last network time, its receive time | receive, keep, resend on connect | keeping and resending share no lock |
| Message conversion (`ril_service.cpp`, `ril_commands.h`, `ril_unsol_commands.h`, `ril.h`) | the arguments under construction | about 140 methods, 140 response and 60 indication functions | allocation failures half way, lengths and NULLs of vendor data, versions guessed from lengths |
| SAP (`sap_service.cpp`, `RilSapSocket.cpp`, `rilSocketQueue.h`) | the message of each request, the pending queue, the callback | the methods of `ISap`, `dispatchRequest`, `onRequestComplete`, indications | memory shared with the answering thread, failures on every path, a callback that goes away |
| Samsung RIL client (`libsecril-client`) | token pool, request history, handler tables, socket, reader thread | connect, send, reader, disconnect | the reader and callers share everything without a lock |
| Camera wrapper (`camera/`) | worker queue, `BlockCbs`, deferred preview, focus guard | `camera_device_ops`, wrapped callbacks, worker loop | HAL, client and worker wait for each other |
| Audio HAL (`audio/audio_hw.c`, `voice.c`, `compress_offload.c`) | streams, usecases, reference counts of sound devices, mixer paths, the voice session, the echo reference, the offload thread and its commands | stream and device operations, calls, offload commands | counts kept by hand over long sequences, locks given up half way, waiting for the offload thread |
| Bluetooth HCI (`bluetooth/`) | the vendor interface, one internal command, wake state | initialize, send, events, timeout, close | the death of the client, commands that overwrite each other |
| Lights, vibrator | LED priorities, `mEnabled` | `set_light`, `on`/`off` | unlocked read-modify-write |
| Power, health, loaders, shims, tools, configuration | none or files only | | not modelled, see section 8 |

Interactions. The vendor RIL (a closed library) calls `RIL_onRequestComplete`,
`RIL_onUnsolicitedResponse` and `RIL_requestTimedCallback` from its own threads.
Responses and indications go through the callback registry to the telephony
client over binder, holding the wake lock, whose timeouts run in the event loop.
The client calls the dispatch functions on the one binder thread. The audio HAL
talks to the same daemon through libsecril-client. The camera wrapper sits
between the camera service and Samsung's camera HAL. The other HALs are separate
processes.

What makes each part correct is stated as the properties of section 4; what can
go wrong and is hard to test is the `hazards` list of `PROJECT.json`.

## 2. Plan

Done, in this order: RilService (core, proved), RilWakeLock (proved), RilEvent,
RilRequests, RilNitz, CameraCallbacks; then RilDispatch with its tables and
conversions, AudioRouting and AudioHw, AudioStreams, AudioOffload, SecRilClient,
RilSap, and RilRequestService, the abstract specification RilRequests implements.

Then the proofs of section 5: the RIL and camera components and AudioStreams
first, AudioHw, AudioOffload and RilDispatch after them.

Next:
1. **BluetoothHci**: initialization, the internal command, low power mode, death.
2. **Lights** and **Vibrator** in one small module.
3. libsecril-client-sap, which repeats the design of libsecril-client, and the
   AIDL audio service on top of the audio HAL.

## 3. Modules

| Module | Models | State and actions |
|---|---|---|
| `RilService` | `setResponseFunctions`, upcalls, `sendErrorResponse`, `resendLastNITZTimeData`, `checkReturnStatus` | `callback`, `mCounter` per service; the rwlock as `writer`, `readers` with the semantics of bionic (readers preferred, an unlock by a thread without the lock takes away somebody else's); per thread a program counter with one action between two lock operations. The binder thread may be in a response function without the lock (`bare`); `breach` records how the code has broken its own locking rule so far. The client process starts, registers, dies; its calls wait in `inbox` and outlive it. |
| `RilWakeLock` | the wake lock and its timers | timers are heap addresses; `armed`, `freed`, `userParam`; each read or write of `s_last_wake_timeout_info` that is not under a lock the others take is an action of its own |
| `RilEvent` | `ril_event.cpp` and the start-up in `eventLoop` | `timer_list` and `pending_list` as sequences, the pipe as a number of bytes, a clock `now`; the phases of the loop are actions |
| `RilRequestService` | what the client is promised about a request | a state per request, answers and acknowledgements |
| `RilRequests` | the life of a request | list of addresses, `token` and `wasAckSent` per address; the vendor's view is `owed` and `completed`. `StateOf` maps it to RilRequestService. |
| `RilNitz` | the network time | the saved copy with the steps free, allocate, copy; resending with its lock |
| `RilRequestTable` | every method of `RadioImpl` and `OemHookImpl` | a row per path: the request code, the C type and number of the data, the steps that may refuse the call, and the free list that the method has for each of them and for its end |
| `RilResponseTable`, `RilIndicationTable` | every response and indication function, `s_commands`, `s_unsolResponses` | a reader per function: what it does with NULL, the lengths it accepts, how much it reads |
| `RilContract` | `ril.h` | data and answer of each request, data of each indication, as documented |
| `RilConversions` | signal strength, data call list, registration state | the conversions field by field, where the result depends on more than the length |
| `RilDispatch` | `dispatch...`, `copyHidlStringToRil`, `sendErrorResponse`, `RIL_onRequestComplete`, `RIL_onUnsolicitedResponse` | follows one request from the method to its answer with the blocks it has allocated, by step, and one indication at a time; restarts of rild change the version |
| `RilSap` | `sap_service.cpp`, `RilSapSocket.cpp`, `rilSocketQueue.h` | per request the binder thread's position, its memory blocks (the decoded message of the answer too) and answers; the pending queue; the callback, NULL, dead or alive, and the failed calls whose `checkReturnStatus` has yet to clear it |
| `SecRilClient` | `secril-client.cpp` under the calls of `ril_interface.c`, `voice_session_wb_amr_callback` | the fields of `RilClientPrv` without a lock, descriptors and pipes of the kernel, the calling thread, the thread that closes and one reader per connection, rild. Who has `adev->lock` is `holder`: a reader that handles a report calls the library under it, `adev_close` disconnects without it. |
| `AudioRouting` | `get_output_snd_device` ... `select_devices`, the voice session | operators from one state of the HAL to the next: usecases, `snd_dev_ref_cnt`, applied mixer paths |
| `AudioHw` | operations of the PCM streams, the device and calls | one action per operation under `adev->lock`; `forced` is the input a call has yet to put into standby |
| `AudioStreams` | the locks of `out_write` (PCM), `in_read`, standby, `set_parameters`, open and close | a position per thread, holders of `lock_inputs`, stream locks and `adev->lock`; the echo reference and its generation |
| `AudioOffload` | `compress_offload.c`, the offload branches of `out_write`, `out_standby` and `adev_close_output_stream` | the caller of the stream and its three locks, the offload thread, its command list, `offload_state`, the DSP; whether the effects library is there (`fx_lib`); `faults` records the ways in which the code has lost a path, a state or a lock so far |
| `CameraCallbacks` | `Camera2Wrapper.cpp`, `CallbackWorkerThread.cpp` | the queue, the worker, HAL threads in a callback, one client call at a time with its steps (clear, vendor, unblock, exit, join) |
| `RilServiceProofs` (RilService and RilDispatch), `RilUnsolProofs` (RilWakeLock and RilNitz), `RilRequestsProofs`, `RilEventProofs`, `RilSapProofs` (RilSap and SecRilClient), `CameraCallbacksProofs`, `AudioStreamsProofs`, `AudioHwProofs` (AudioRouting, AudioHw and AudioOffload) | | theorems |
| `MC*` | | the constants of an instance. `MCRilWakeLock` also chooses between a vendor library from version 13 on and an older one; `MCRilDispatch` has the signal strengths the run measures. |

How they fit together. RilDispatch follows one request alone and looks into its
data; RilRequests follows several, without data, and looks at their tokens;
RilService follows the answers' calls to the client and looks at the lock. The
timers of RilWakeLock are those RilEvent fires. AudioHw takes what is done under
`adev->lock` as one step, and AudioStreams shows that the locks around these
steps neither deadlock nor let one change what another has chosen; AudioHw's
calls to the modem are the calls of SecRilClient.

Abstractions. A response is an upcall, a request is a serial number, a payload is
a number of elements of a type and whether bytes are left over. Time is a number
of ticks in RilEvent and left out elsewhere: a timer that is armed may fire, a
camera message may be stale. The two callback objects of a service are assigned
together and are one value. The operators whose comment begins with "Fault:" or
"(mutant)" are not part of any specification: each is a variant of the definition
it stands before with a plausible mistake, and the project checks that the
properties notice it.

## 4. Runs

| Run | Instance | Shows |
|---|---|---|
| `service` | 2 vendor threads, binder, 1 service, 2 client incarnations, 3 upcalls and error answers | `NoNullCall`, `LockReleased`, `LiveClientKept` (a registration that arrives while `checkReturnStatus` has no lock survives), `RegistrationSticks` |
| `wakelock` | 3 addresses, 3 grabs, 1 failed allocation; 2 callers and reused addresses from version 13 on, 1 caller before | `CountedMeansHeld`, `HeldHasTimer`, `EventuallyReleased` |
| `event` | 2 threads, 3 timers of 0 or 2 ticks, 4 ticks | `NoOversleep`, `EachTimerOnce`, `TimersFire` |
| `requests` | 3 requests, 2 addresses, 2 vendor threads | `AnswerIsForItsRequest`; `RequestService`, the refinement, with the fairness of the abstract specification |
| `nitz` | 4 messages, 3 client incarnations | `DeliveredOnce` |
| `dispatch` | versions 14 and 15, every method, function and code, payloads of up to 16 elements, lists of up to 12 data calls | `OneAnswer`, `NothingLeaked`, `OwnCallback`, `DocumentedArguments`, `DocumentedAnswerAccepted`, `DocumentedIndicationDelivered`, `OnlyEmptyOverRead`, `SignalAsMeasured`, `CallListAsSent` |
| `sap` | 2 requests, 2 methods, 1 indication | `MemoryReturned`, `AnsweredOnce` |
| `secril` | 2 descriptor numbers, 1 token, a call with and a call without an answer, 2 connections, 2 calls, 1 report, 1 death of rild | `TokensReturned`, `DisconnectReturns`, `LossNoticed` |
| `audio` | 2 outputs, 1 input, call and no call, speaker with headphones and Bluetooth | `RefCountsMatchUsers`, `OneBackend`, `PathsMatchRefs`, `CallFollowsPrimary` |
| `audio_streams` | 1 output, 1 input, a control thread, 3 echo references | `NeverAborts`, `EchoReferenceOwned`, `EveryCallReturns` |
| `audio_offload` | 1 caller, the offload thread, 3 commands, with and without the effects library | `PathFollowsState`, `EveryCallReturns` |
| `camera` | 2 HAL threads, 2 callbacks, 5 client calls | `NoCallbackAfterClose`, `DeliveredInOrder`, `DeferredPreviewStarts`, `CallsReturn` |

Bounds. Two threads of each kind are enough for every pairwise race; two client
incarnations give a dead client, its late transactions and its successor; three
timers give a head, a middle and an insertion before either; two addresses for
three requests force an address to be used again; three grabs let one timer be
cancelled, one be freed and a third take the freed address. Sixteen elements are
one more than the longest minimum any function asks for, and twelve data calls
pass the first lengths that two versions share. Two descriptor numbers
let the second connection take the number of the first or another one, while the
first is still open; one token makes every call take the token of the one before. The two sets of output devices are the combined
device, which counts for two, and the one that needs a session of its own; three
echo references are one in use, one that an output has yet to give up and a new
one. Every bounded counter is named `Max...` and appears in a guard. Deadlock
checking is off where the bounded environment stops; that the programs themselves
do not get stuck is `RegistrationSticks`, `TimersFire`, `RequestService`,
`DisconnectReturns`, `EveryCallReturns` and `CallsReturn`. AudioHw, AudioStreams and
the dispatch run for ever and are checked for deadlock too; AudioOffload is not, as
the code has the hangs that `EveryCallReturns` names there.

Fairness. Weak fairness of a thread's own steps: the kernel schedules every
thread that can run, and a mutex or rwlock that is free is eventually granted.
No fairness for the environment: clients need not start, vendors need not call.
RilEvent assumes that the clock advances and, as strong fairness of `Select`,
that signals do not interrupt every single `select()`. RilWakeLock assumes that
an armed timer fires, which is `TimersFire` of RilEvent. AudioStreams and
AudioOffload assume strong fairness of a thread that continues a call: two
threads that take a mutex in turn would otherwise starve a third, which the
`pre_lock` of the streams and the scheduler are there to prevent, and the driver
is assumed to come back to the offload thread once the DSP runs or was stopped
(`DriverReturns`; `compress_stop` may refuse only what was never started).
RilService bounds the upcalls: bionic prefers readers, and vendor threads that call
without end could starve a registration. SecRilClient assumes nothing of
rild: it may die, and it may never answer.

Refinement. `RequestService` is the specification of RilRequestService with the
state of a request read off the list, the vendor's debts and the answers
(`StateOf`). It says at once that no request is answered twice, that none is
answered after it was dropped, that an acknowledgement comes only before the
decision, that the answer asks for an acknowledgement exactly when the request
was acknowledged, and, by the abstract fairness, that a decided request is
answered.

## 5. Proofs

`RilServiceProofs` has the registry and what passes through it.
*The registry* (no assumption beyond `ServiceAssumption`): for any number of
threads, services, client incarnations, upcalls and unlocked error answers, `Spec`
implies `[]TypeOK`, `[]NoNullCall`, `[]LockReleased` and `LiveClientKept`.
`NoNullCall` is not inductive: that a callback tested under the read lock is still
there at the call depends on nobody writing meanwhile, and bionic only counts the
readers. The invariant `IInv` therefore counts the threads that are inside
(`LockCounted`: no fewer read locks than that, but for the one that an error answer
has given back for somebody else, and no more unless there was a breach), says what
each program counter knows of the writer (`LockMatchesPc`), and that the counter a
thread noted equals the service's counter only if the callback is still the dead
client's or none (`FailureNoted`), so that the reset can only hit that one.
`LiveClientKept` has no exception: it survives the error answers too.
*The requests, answers and indications* (RilDispatch): for any set of versions,
any bound on the lists and any set of measurements that `MeasurementsAssumption`
allows (the ranges `ril.h` gives), `DispatchSpec` implies `[]OneAnswer`,
`[]CallListAsSent` and `[]SignalAsMeasured`. The first rests on `AnswerInv`: who
owes the answer at each stage of a call, and whether a string was cut. The run compares a few strengths and lists of up to twelve calls; the
proofs are about arithmetic: for lists of one to nine calls the length of one
version is never a multiple of the size of a newer one (`ListGuessed`), and the
fixup of the LTE fields, which is applied again to the same structure with every
report, is the identity on what it has produced (`FixupIdempotent`), so that the
structure the library keeps is either what was measured or its fixup, however often
it was reported (`SignalInv`).

`RilUnsolProofs` has the two things an unsolicited response does besides its call.
*The wake lock* (under `Version13`): for any number of callers, addresses, grabs
and failed allocations and an allocator that uses addresses again, `Spec` implies
`[]TypeOK`, `[]HeldHasTimer` and `[]CountedMeansHeld`. The invariant needs,
besides the mutex discipline, that `s_last_wake_timeout_info` never points to
freed memory (`LastIsLive`) and that the timer of a grab under way is its own
(`NewIsOwn`): otherwise the cancellation through the old pointer could hit the
timer just created at the same address.
*The network time*: for any number of messages and client incarnations,
`NitzSpec` implies `[]NitzTypeOK` and `[]DeliveredOnce`. Two threads touch the
kept copy without a lock, so the invariant says where it is safe all the same: the
copy was not delivered except
between its delivery and the free that follows (`KeptIsNew`), the message being
copied was not delivered and is not visible yet (`CopyIsNew`), and from the resend
to the free the read lock keeps the next message out (`ResendLocked`).

`RilRequestsProofs` (under `~StaleRepeats`: the vendor library does not repeat a
completion after its request is gone, without which the property is false): for
any number of requests, addresses and threads, `[]TypeOK`,
`[]AnswerIsForItsRequest`, and `ImplementsRequestService`, the step simulation of
the refinement: `Init` implies the abstract `Init`, and every step of the list,
the addresses and the answers is an abstract step or a stutter. The invariant
says that a listed address is listed once and allocated (`ListSound`), that what
the vendor owes is listed under its own serial and not answered (`OwedSound`),
what was completed is not (`CompletedSound`), that two threads are never inside a
call for the same request, whose memory lives until the last of its steps
(`ThreadSound`), and that `wasAckSent` agrees with what the client was or is about
to be told (`AckSound`). The fairness part of the refinement stays with TLC.

`RilEventProofs`: for any number of threads, timers and ticks, `[]TypeOK`,
`[]NoOversleep` and `[]EachTimerOnce`. That the loop never sleeps past a timer is
not inductive: the loop looks at the head of the list only, so the list must be
sorted (`Sorted`, kept because the scan of `ril_timer_add` stops at the first later
timer), and a thread that adds a timer must find the pipe there (`PipeThere`).
`EachTimerOnce` follows from `Placed`: list, pending list and fired timers are
disjoint, and no timer is in one of them twice.

`RilSapProofs` has both ends of a socket of rild.
*The SIM access profile service*: for any set of requests and methods and any
number of indications, `[]MemoryReturned` and `[]AnsweredOnce`. The invariant keeps an
account per request (`Account`): where it is (`Placed`), which blocks are live
there (`Holds`), and what the client has been told (`Answered`); with `QueueSound`,
that no request is queued twice. All of it holds as long as the process has not
crashed. The two blocks that no code frees, the command of `apduReq` and the
decoded message of an answer, are `NeverFreed`.

*The client library*: for any descriptors and tokens and any number of
connections, requests and deaths of rild, `ClientSpec` implies
`[]TokensReturned`. Caller and reader
load and store the pool without a lock, so the invariant is that one token at most
is ever out (`OneToken`), whatever either thread has loaded, until the first call
that waits for its answer; a stale store can lose nothing then.

`CameraCallbacksProofs`: for any HAL threads and any number of callbacks and
calls, `[]TypeOK`, `[]NoCallbackAfterClose`, `[]DeliveredInOrder` and the action
property `DeferredPreviewStarts`. The order needs an invariant over what was
delivered and what waits together (`InOrder`), and that what a thread is about to
report is newer than both (`Reported`). The close needs that the HAL is in no
callback once its device is closed (`HalQuiet`), and that the worker lives until it
has taken the message of the close and leaves an empty queue (`WorkerLives`).

`AudioStreamsProofs`: for any number of outputs and inputs, `[]NeverAborts`. A
thread that may change the inputs has `lock_inputs` (`InputsLocked`), so the input
it chose to reset stays the active one until it is reset (`ChosenIsActive`); the
active input is open and runs (`ActiveRuns`), and calls are made on open streams
(`CallsOnOpen`). For one output and one input (`OneOfEach`) and any set of echo
references, `[]EchoReferenceOwned`: what is live is what is held (`Owned`), and the
output fills the reference of the device exactly if it has noted its generation,
else an older one that nobody else holds (`Sound`). There is nothing to prove for
two outputs: `start_output_stream` gives the reference to every output while
`put_echo_reference` asks the primary one only whether it is still used, and TLC
shows a second output that holds a released reference.

`AudioHwProofs` has what is done under `adev->lock`, and the offload stream.
*The audio device*: for any set of outputs, of modes, of sources and of device
sets, and any sequence of operations, `Spec` implies `[]RefCountsMatchUsers`,
`[]PathsMatchRefs`, `[]OneBackend` and the action property `CallFollowsPrimary`.
A call of the HAL is a long composition (`start_output_stream` lists a usecase,
`select_devices` chooses devices, `Route` releases two and takes two and
`check_and_route_usecases` moves the others, one by one), and in the middle of it
neither the counters nor the paths agree with the list. The argument therefore
separates the devices that are *counted* from those that are *listed*: a slot is a
direction of a usecase, an assignment says which device each slot holds
(`UsersOf`, `RefsAre`, `Sound`), and taking or releasing a device moves the
assignment by one slot, whatever the list says at that moment (`OutMoved`,
`InMoved`). At the end of `Route` the assignment is the list again (`Matches`,
`RouteOk`). The loop over the usecases is a recursive function of the position,
and its invariant is proved by a least counterexample. Around it, `Good` has what
holds between two calls: ids are distinct and fix the type of a usecase, a call
has its usecase, at most one input device is in use (two input devices can share a
mixer path), playback usecases share their device (`Shared`); and `Linked`, that a
stream has a usecase exactly when it is not in standby, without which
`enable_output_path_l` could list a usecase twice.

Its hypotheses, all true of the instance of the run:
* `OneInput`, at most one input stream. The capture usecase has one id for all
  inputs and `in_read` does not look whether it is listed, so that two inputs would
  break the count; `configs/audio/audio_policy_configuration.xml` declares one input port
  (`primary-in`, :27), of which the policy opens one stream.
* `Covered`, for the paths: every set of output devices meets a playback profile.
  Otherwise no mixer is found for the usecase, and its devices are counted without
  a path.
* `Routable`, for the backends and the call: every set of output devices is one
  device or the speaker together with headphones or a headset. These are the
  devices of the policy's routes (:89-:101) and the combination it makes for
  ringtones. For any other `get_output_snd_device` logs an error and returns
  `SND_DEVICE_NONE`, and nothing is rerouted.

*The offload stream*: for any bound on the command queue and one thread that calls,
`OffloadSpec` implies `[]PathFollowsState`, with the effects library and without it.
The invariant (`OffloadInv`) says at each step of a call how often the path is
enabled, whether the stream is in standby and what the DSP does, the wait for the
offload thread included, until the first standby that keeps its state; from then on,
that a playing stream has its path, and that the library was not there. With two
callers TLC refutes it: a resume that comes during a flush leaves the path of a
flushed stream enabled.

Each invariant was checked with TLC before it was proved.

Only model-checked:
* every liveness property (`RegistrationSticks`, `EventuallyReleased`,
  `TimersFire`, `CallsReturn`, `EveryCallReturns`, `DisconnectReturns`,
  `LossNoticed`, and the fairness conjunct of `RequestService`): the prover has no
  fairness;
* RilDispatch: `NothingLeaked`, `OwnCallback`, `DocumentedArguments`, `DocumentedAnswerAccepted`,
  `DocumentedIndicationDelivered` and `OnlyEmptyOverRead` compare constant tables
  of methods with their free lists, of functions and of codes, row by row. They have no parameter a proof could
  generalize over (the payloads are cut off one element past the longest length any
  function asks for), and the run enumerates them completely;
* what `AnswerIsForItsRequest` and `PathFollowsState` do without their hypotheses
  is known from TLC's counterexamples.

## 6. Where code and documentation disagree

The models contain the behaviour; where a property would be false because of it,
the property names the exception, so that a second one would be noticed.

* `sendErrorResponse` (ril_service.cpp:487) runs a response function without the
  lock that `checkReturnStatus` says its caller holds (:746: "Caller should already
  hold rdlock, release that first"). It takes a client that
  registers, dies and leaves a request behind that a method refuses; the call fails,
  and the unlock comes with no lock held, or takes away a vendor thread's. The read
  lock taken afterwards is given back by nobody, and no later registration gets the
  write lock. `NoNullCall`, `LockReleased` and `RegistrationSticks` except what comes
  after this breach, and the error answer's own call, which nothing protects.
* `resendLastNITZTimeData` (ril.cpp:317) takes the read lock and keeps it when the
  saved time has gone since its caller's test: the other breach of `LockReleased` and
  `RegistrationSticks`.
* `copyHidlStringToRil` (ril_service.cpp:513) returns without an answer when a string
  is longer than its size() says, and its block is lost (`OneAnswer`,
  `NothingLeaked`).
* `resendLastNITZTimeData` (ril.cpp:319) can deliver a network time with the
  receive time of the next one, against the comment at :894.
* `camera2_cancel_auto_focus` (Camera2Wrapper.cpp:386) leaves callbacks blocked.
* `ril.h` and `ril_service.cpp`: three requests with other arguments
  (`ArgumentsDiffer`), two answers that need two integers where one is documented
  (`AnswersDiffer`), `SIM_REFRESH`, the callback of
  `hangupForegroundResumeBackground`, the inverted length test of
  `getLastCallFailCauseResponse`, data call lists of ten and more.
* The command of `apduReq` and the message that `sapDecodeMessage` allocates for an
  answer are not freed (`MemoryReturned`), nor that of an indication, which is not
  counted.
* `ril_close` does not come to its end (`DisconnectReturns`) when a reader of
  libsecril-client outlives its connection and takes the "close" meant for another
  (`overlap`; also when the report handler connects on the reader itself); when the
  reader ends on `b_connect` before it has cleared the socket, so that the second
  `Disconnect_RILD` joins a thread that was joined, or that never was
  (`NoReaderToJoin`: bionic aborts); and when a reader meets a socket that a failed
  write has cleared (`SocketCleared`: FD_SET aborts).
* The offload stream (`PathFollowsState`, `EveryCallReturns`): without the effects
  library, which nothing in this repository installs, a standby leaves
  `offload_state` at PLAYING and the next write never starts the DSP
  (compress_offload.c:229); `out_write_offload` keeps `out->lock` when the path is not
  enabled (:273); `out_write` keeps `lock_inputs` when an input was to be reset
  (audio_hw.c:2911); `out_resume_offload` ignores that the path was not enabled
  (:361); after a full drain the state stays PLAYING.
* The mixer path of the combined output device stays applied (`PathsMatchRefs`).

The hazards list names further behaviour that the models contain and no property
excludes: a cancelled wake lock timer that already waits for the mutex still
releases it; two senders before version 13 lose a timer; a completion repeated
after its address was used again answers another request (`StaleRepeats = TRUE`);
`camera2_device_close` can wait for ever for a worker inside a client callback
(`StuckInClose`); `ClearCallbacks` drops an update of the callback functions; two
callers of an offload stream can deadlock; a second output may hold an echo
reference that was released.

## 7. Running

`tlc -config RilService.cfg MCRilService`, and likewise for the other rows of
section 4 (`PROJECT.json` names module and configuration); `tlapm
RilServiceProofs.tla`, and likewise for the other `...Proofs` modules, checks the
proofs.

## 8. Not modelled

The power HAL is a stub without state and the health HAL only configures the AOSP
service; the loaders and shims are one-shot file operations and copies of AOSP
functions; the image tools run at build time; overlays, policies and make files
are data. Bluetooth, lights, vibrator, libsecril-client-sap and the AIDL audio
service are in the plan.

Left out of the modules that exist:
* RIL: watched descriptors other than the wakeup pipe (the library adds none); a
  second slot; `RIL_register`; the values inside the arguments and structures
  other than those of RilConversions, with the cell info list and the fields of a
  data call; the xmm6260 modem (`NextGenModem` is TRUE in the run, as for the other
  modems `ril/Android.mk` lists); the OEM hook is assumed to be enabled.
* SAP: requests of one client with equal tokens, a vendor library without
  `onRequest`, the contents of the messages.
* libsecril-client: a full socket (EAGAIN), what a thread does with a structure that
  was freed, a record stream that is freed twice. That rild reports a change of the
  speech codec at all takes a platform header that defines
  `RIL_UNSOL_SNDMGR_WB_AMR_REPORT`; the model has the reports.
* Audio: failing allocations other than those of the offload path, two inputs at
  once, outputs other than PCM and offload, effects, offload parameters
  (`out_set_offload_parameters`), the Audience chip and the amplifier. AudioHw and
  AudioStreams have PCM outputs only. The echo reference is checked with one output,
  the offload stream with one caller, the framework's offload thread: with two a pause
  that comes while a standby waits for the offload thread deadlocks with it.
