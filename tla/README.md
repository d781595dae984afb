# A verification project for xraudio

xraudio is a C library through which the voice applications of a set-top box
share a microphone and a loudspeaker. Clients call a thread-safe API; a *main
thread* owns the audio; the HAL adds a thread of its own that announces voice
sessions (a remote's push-to-talk, a far-field microphone). What is hard in this
code is not the audio but the hand-over: who waits for whom, who holds which
pointer of whom, and what a message means when it arrives a step late. These
TLA+ modules model that hand-over; TLC checks them on small instances and TLAPS
proves the central theorems for every instance.

Paths below are relative to `src/src/`.

## 1. The system

| Component | State | Operations | Talks to |
|---|---|---|---|
| Client API (`xraudio.c`) | `xraudio_obj_t`: opened flag, devices, API mutex, queues, thread handles | open/close, record, stream, stop, detect, capture, play, volume, power and privacy mode, HFP, resource request/release | calls the input and output objects under the API mutex; launches and terminates the main thread |
| Input object (`xraudio_input.c`) | one session per group (default, microphone tap): state, destinations, until; the record mutex | `record_to_file/memory`, `stream_to_fifo/pipe/user`, `keyword_detect`, `detect_stop`, `stop`, `close`, capture | queues messages to the main thread and, when synchronous, waits on a semaphore on its own stack |
| Main thread (`xraudio_thread.c`) | one recording instance per group, the detector session, microphone fd/timer, external fd, playback and capture state | one handler per message type, one step per microphone, external or speaker frame | reads the HAL, writes to files, memory, pipes and callbacks, posts semaphores |
| Voice session (`g_voice_session`, `xraudio_hal_msg_async_handler`) | per group the source that owns it; supported sources; the queue of the open object. Static: survives a close | HAL request, begin, end, input error; lock and unlock | the HAL thread writes it with atomics, the main thread unlocks it |
| Keyword detector session | callback (armed or not), pre-detection ring buffers, active channel | arm, disarm, trigger, event | takes the voice session for the microphone |
| Playback (`xraudio_output.c`) | output state, destinations, volume | play from file/memory/pipe/user, pause, resume, stop, volume, HFP | main thread |
| Resource manager (`xraudio_resource.c`) | a priority list of requests in shared memory, allocations per process | request, release, grant, revoke, update, scrub | other processes through shared memory and fifos |
| Capture | file rotation, active flag | start, stop | main thread |
| HAL, DSP, codecs, utilities, logging | external, or stateless | | |

Hard behaviours: two mutexes held across waits; semaphores on callers' stacks;
several events that end one recording; a handler that wakes its caller before it
is done; a static voice session shared with a foreign thread; half-done work
after an error. `PROJECT.json` lists every hazard at its line with the properties
that watch it.

What makes each component correct, in one line each:

- API and input object: every call returns; nothing is left with the main thread
  after a stop or a close; nobody talks to a thread that is gone.
- Main thread: each waiting caller is woken exactly once; the detector never runs
  into a stream; every pipe reaches end of file; an error reaches whoever waits.
- Voice session: at most one source owns a group, and an armed detector can
  take a free group.
- Keyword detector: the ring holds the newest audio, the event tells where the
  keyword was, and a stream from the past joins the live audio without a gap.
- Playback: every call returns; no frame goes to a closed output; the end is
  reported once.
- Resource manager: the list stays a list, no device is given twice or lost, the
  head is served, and a dead process holds nothing for good.
- Life cycle: what is opened is closed once, a closed object can be opened again,
  and the HAL is in the mode it was asked for.
- Capture: the directory keeps the newest files and every ended capture is whole.

## 2. The modules

| Module | Contents |
|---|---|
| `XraudioSession` | clients x main thread x HAL thread, record side |
| `XraudioRecording` | what recording promises a client, without queue or threads |
| `XraudioSessionImplements` | composes the two: the refinement mapping |
| `XraudioPlayback` | output object, play handlers, frames, HFP bypass |
| `XraudioResource` | processes, shared list, file lock, resource threads, deaths |
| `XraudioLifecycle` | objects, HAL, queues and threads from create to destroy |
| `XraudioCapture` | the internal capture over restarts, the capture session, raw mode |
| `XraudioKeywordStream` | ring buffer, detector channels, streams from the past |
| `MC...` | one per component: the small sets its runs use |
| `...Proofs` | the theorems: types, exclusion and close of the session (`XraudioSessionProofs`), wake-ups, backlog and refinement (`XraudioServiceProofs`), the recording service itself (`XraudioRecordingProofs`), the resource manager, the keyword stream, the playback, the capture, the life cycle |

The components meet at the main thread's queue and at the API mutex. The session,
playback and life-cycle modules each have the queue and the mutex and leave out
the messages of the others, which go to handlers with no common state but the
frame timer (`MicRuns` in the playback stands for the microphone's use of it) and
the end of the thread. Modules with proofs use no RECURSIVE operator; each has its
parameters as CONSTANTS with named assumptions and one action per operation.

## 3. XraudioSession

### State

| Variable | In the code |
|---|---|
| `call` | per client the API call it is in and where: `out`, waiting for the API mutex (`api`), for the record mutex (`rec`), inside `close_locked` (`closing`), or in `sem_wait` (`wait...`) |
| `api`, `rec` | the holders of `mutex_api` and `mutex_record` |
| `posted` | the stack semaphores that have been posted |
| `opened`, `session` | `obj->opened`; per group the session's state and the destinations it has stored |
| `q` | the main message queue, which loses messages when full |
| `thread`, `tail` | the main thread runs; the group whose `record_stop` handler has posted but not finished |
| `inst` | per group the recording instance: source, destinations, writer (`record_callback`), callback set, synchronous, semaphore, until |
| `armed` | `keyword_detector.callback` is set |
| `mic`, `ext` | microphone fd, frame timer, `record.recording`; the open external HAL object and its fd |
| `leaked` | groups whose pipe the main thread has forgotten with the write side open |
| `lock`, `ready` | `g_voice_session`: owner per group; whether the sources and the queue are current |
| `hal` | what the HAL believes of each source |

### Steps

A client step is everything a client does between two points at which it can
block. `Invoke`, `ApiEnter`/`ApiRefuse` and `Open` are `xraudio.c`;
`RecordEnter`, `RecordRefuse`, `StreamSetFails`, `Detect`, `DetectStop`, `Stop`,
`Close` and `CloseStep` are the functions of `xraudio_input.c` up to the wait;
`DispatchReturn`, `StopReturn`, `IdleReturn` and `TermReturn` are what follows
the wait. A synchronous recording gives the API mutex back in `ApiEnter`, as
`xraudio_record_to_file` does; every other call keeps it.

Each message handler is one action, except `record_stop`: the client it wakes can
run before the handler is finished, so `RecordStop` ends with the post and
`RecordStopTail` does the rest; no other main-thread step can come between.
`MicFrame` is one pass of `xraudio_process_mic_data` over all groups, with every
outcome the data can have (a target that is full or past its keyword, a failed
write, the end of speech); `MicKeyword` a pass in which the local detector
triggers; `MicReadFails` a failed read. `ExternalFrame` and `ExternalEnd` are
`xraudio_process_input_external_data`. `HalRequest`, `HalBegin`, `HalEnd` and
`HalError` are the four messages of the HAL thread.

### What is abstracted

- Audio data, formats, latency and statistics. A recording is its source, its
  destination, its end condition and whether its caller waits.
- A fifo and a pipe are one destination: both are `fifo_audio_data`.
- Parameter errors (wrong container, bad offset) return before any state changes
  and behave as `RecordRefuse`.
- The object is opened with a local microphone (`Mic` stands for SINGLE, TRI or
  QUAD). Failures inside `xraudio_open` and the 5 s limit of the termination are
  in the life-cycle module; `MASK_FIRST_READ_DELAY` is left out.
- `XRAUDIO_INPUT_STATE_DETECTING` is replaced by PENDING in the same critical
  section that sets it. So the success path of `detect_stop`, the dispatch of
  `keyword_params` and their two handlers cannot be reached through the API and
  are not actions.
- Callbacks are observed (`cb`), but do not call back into the API.
- `obj_input` is destroyed by a close while a synchronous call that gave the API
  mutex back may still enter it. The model lets that call find the closed session
  and be refused, which is what it does as long as the memory is not reused.

### The service it implements

`XraudioRecording` has per group the phase of its session and what xraudio may
still use of the client (`held`), and per client the call it waits in. A start
lends things to a group that holds none; `Progress` lets xraudio give back what it
no longer needs and tell callers that their wait is over, and whoever waited for
a stop, a detect or the end must then have everything back. In the mapping of
`XraudioSessionImplements` a group holds what its recording instance has and what
a `recordStart` that is still queued will bring, so the refinement fails when a
stop overtakes a start, when an instance keeps a callback, or when a waiter is
posted twice. `Progress` is one step of the service and any handler of the code.

## 4. The other modules

### XraudioPlayback

`call`, `api` and `play` are the clients' places and the holders of `mutex_api` and
`mutex_play`; `obj` is `xraudio_output_obj_t`, `thr` the main thread's
`xraudio_session_playback_t`, `q` the queue, `timer` the frame timer. Playbacks are
numbered, and the HAL output, file, pipe and fifo of playback n are handles
`<<kind, n>>`; `open` has those that are open and `stray` those that were used or
closed when they were not. A client step ends where its thread can block or where
another can come between a check and its use: `pausing` and `volume` are such
places. `Frame` is one pass of `xraudio_process_spkr_data`: the HAL's write returns
less than 0 or more, a read returns data, the end or an error. A memory buffer ends
when nothing is left, a file with its first short frame.

A wait in `pausing` for a synchronous pause (`waitPause`) has no step that ends it:
the handlers of pause and resume only log. `AUDIO_OUT_CALLBACK_EVENT_OK` is never
sent by the code; the events of the first frame and of an underflow are left out.
`xraudio_hfp_mute` only passes its argument on.

### XraudioResource

The shared memory is `head`, `next`, `slot`, `busyIn`, `busyOut` and `ids`; offsets
are slot numbers and 0 is the end. Each user is an xraudio object with a client
thread and a resource thread `thr`, whose `todo` lists the critical sections a
handler has still to go through. A loop over the list takes the lock and then one
step per entry (`scan` has its local variables), so a cycle in the list keeps the
lock, as in the code; every other section, and the work of a loop on one entry, is
one step, because nobody else reads the memory before the lock is given back. A
process that dies inside a section is the exception: it leaves the first of its
stores (`StoresLeft`), a part of the request (`Filled`), of a link of the list
(`Linking`, `Unlinking`), of `resource_entry_free` (`Freed(s, n)` is its first n
stores and `FreeSlot` all of them), of a grant (`Granted(s, n)`, `Allocate`) or of a
revoke. The fifo a grant or revoke is written to is opened and written by the
granting thread, and blocks it when nobody reads; by then all of the grant is
stored. A process dies at a moment of `Deaths`: while a device is held, while a
request waits, inside a handler, or there between two stores of a section;
"unmarked" is between a mark and its id in a free, "marked" between a mark and its
id in a grant. `flock` releases its lock. A process that starts again is another
user. What `xraudio_shared_mem_open` and `xraudio_shared_mem_close` store for the
client is one step: who dies while it initialises the memory (`xraudio.c:1012`) is
not yet counted as a user, and the next one initialises it again; a death between
the count and the user id (1017, 1023), which leaves the count too high, is not
modelled. The 5 s wait of the release
(`ReleaseTimesOut`) passes only when the thread cannot answer: it runs the
callback, waits for `mutex_api`, is stuck with the lock, or reads another queue.

`Overlap`, `Patient`, `Repeat` and `InCallback` say what the clients do, `Deaths`
what goes wrong. `SINGLE_PROCESS_OWNER` is defined in no build and left out. (The
resource manager is compiled with `--enable-resourcemgmt`, for which
`xraudio.c:2439` has an `#error` at this commit; the module models the code behind
it.)

### XraudioLifecycle

Per object its mutex and `xraudio_obj_t`; for the process `proc`
(`g_xraudio_process`), the open HAL objects `hals`, what the HAL was told last
(`device`), the message queues, and the main threads ever launched. `open` and
`close` are cut where they touch the process or wait: the HAL, the count of its
users, the queue, the input object, the launch. Queue descriptors are given out
again, which is what makes an old descriptor dangerous. `stray` notes a post to a
stack that is gone and a use of a freed input object. `Failures` are: the HAL, the
queue, the preprocessor (PPR, without which the open goes on), the microphone, the thread, too many
channels, and a HAL that refuses a mode.

The 5 s of a close pass only while the thread is inside the function of a thread
poll (`SlowPolls`). A client uses an object between its creation and destruction,
and creates and destroys it only when nobody else uses it. A freed input object is
taken to fail its identifier check. Recording and playing are in the other two
modules; here the input object is its two idle messages. The microphone's own
privacy switch is not modelled.

### XraudioCapture

`dir` is the directory of the internal capture by the index in the name; `params`
its configuration, `thr` the copy of the main thread with the index it goes on
with, `inst` and `cs` the open files of recordings and of the capture session,
`rawRec` and `test` the raw mode. `NextIndex` is
`xraudio_capture_next_file_index`: scandir, stat and the first pair of neighbours
whose order turns. `Crash` ends the process at any point, also between the removal
of a file and the creation of the next of the same name; what is left then of an
open file counts as whole.

Every call of this module keeps `mutex_api` to its end, so one client stands for
all. Recordings are asynchronous. Setting `enable` to FALSE returns OK and keeps
the earlier parameters, as in the code. Times are seconds, as `stat` compares them;
several files of one second are in order all the same, for only a time that goes
back counts as a turn. `seen.orderly` limits the promise of the rotation to
histories in which one recording is captured at a time, the limit stays the same,
no `fopen` fails and no crash leaves a hole (a hole makes the restart go on at the
number of files, which may be the newest). The index has one more value than the rotation may use, so that an
off-by-one shows. The callback of the capture session is stored and never called
by the code. A HAL that refuses to leave the raw mode is left out. The file system
is taken not to fail where the code only logs it or goes on: `scandir`, `stat` and
`remove` succeed, and only `fopen` and the writes may fail.

### XraudioKeywordStream

A sample is its number since the microphone was opened. `ring`, `avail` and `write`
are the pre-detection buffer: the channels' rings are written in the same places,
so one stands for all. `det` has per channel whether it triggered, the frames since
and the endpoints, and the chosen channel; `idx` is the index in the frame group
that both groups share; `inst` has the pre-detection samples a stream will take.
`MicFrame` is one pass: streams first, then ring and detector, then the end of
speech. `strm` records what a stream was to deliver and what it delivered, so
`StreamExact` compares the code's arithmetic with the samples themselves. A chunk
is converted to 16 bits in place: `Converted` marks the samples lost.

`Care` names what clients must take care of for `StreamExact` to hold; without any
of the four TLC finds a counterexample (section 6). The local source only. The
HAL may ask to ignore a keyword, and the group may be locked: both are choices. Left
out: the extended end of the wake word, DGA, forced end of speech, the
signal-to-noise criterion, a channel reserved for recognition, the endpoint `pre`,
`session_term` at the idle stop, and a result that the detector does not give after
it has detected (2589: the detector has then triggered with no channel chosen
for it); the detector is external and taken to give it. The range check at
`xraudio_thread.c:2625` compares an unsigned value with zero and never fires. Pipes have room. Memory and
file writers treat frames as "user" does.

## 5. Runs

`CHECK_DEADLOCK FALSE` is in every configuration because the systems really stop:
clients may make no more calls, the bounds on calls, playbacks, deaths or frames
are used up, or (in the session) everybody is inside a synchronous stream.

| Run | Question and properties | States |
|---|---|---|
| `two_clients` | two clients with all operations, a synchronous file recording until the end of speech and an asynchronous PTT pipe, HAL sessions of that source: `TypeOK`, `OneWakeup`, `NoWaiterOnDeadThread`, `DetectorStreamExclusive`, `ClientBacklog`, and the refinement `ImplementsRecording` | 1.07 M |
| `tap_two` | the build with a microphone tap, two groups: `ImplementsRecording`, and under fairness `CallsReturn` | 172 k |
| `rsrc_any` | two processes that request, repeat, release at any time and die between any two stores of a handler but those of a mark and its id: `TypeOK`, `DeviceExclusive` | 254 k |
| `rsrc_orderly` | three users in two processes whose calls do not overlap and who wait for a grant or revoke before they release, one dying with a device: `ListSound`, `HandlerHasEntry`, `DevicesAsTold`, `DevicesRecoverable`, `HeadServed`, `LockReleased` | 70 k |
| `play_mixed` | two clients, synchronous and asynchronous playbacks, stop, volume, bypass, close and open again, errors: `TypeOK`, `SemaphoresLive`, `HandlesLive`, `IdleIsQuiet`, `EofOnce`, `CallsReturn` | 112 k |
| `play_async` | asynchronous calls only, with pause, resume, fifo and bypass, the microphone on: `ObjectLive`, `StateTellsHal` | 557 k |
| `life_one` | one client, one object, every call, device and failure, slow polls: `TypeOK`, `Served`, `PrivacyTold`, `VoiceFollows` | 356 k |
| `life_shared` | two threads share an object: `SemaphoresLive`, `Reopens`, `CallsReturn` | 178 k |
| `life_two` | one client, two objects, one HAL: `NothingLeaks` | 192 k |
| `capture` | all kinds of recordings, capture sessions, failed files, crashes and restarts: `TypeOK`, `CapturesFinished`, `NothingLeft`, `RotationSound` | 753 k |
| `keyword` | a ring of three frames that wraps, two channels, streams from the keyword and live, groups of one and two frames, a tap beside: `TypeOK`, `RingHoldsNewest`, `StreamExact`, `ReportTrue` | 384 k |
| `sync_stop` | refutes `StopReturns`: a stop of a synchronous stream waits for the mutex which that stream holds | |

Each configuration that does not let everything happen (clients that do not
overlap, `Care`, callers that wait) does so because the property is false
otherwise; section 6 says how.

Bounds and why they are enough:

- Two clients or callers: a mutex is contended, a close meets a recording, a stop
  meets a start. Clients are interchangeable, so two runs use symmetry (and
  `life_two` that of its objects); none of them checks liveness, and the refinement
  of `two_clients` is a condition on single steps.
- `QMax` 3 to 6 instead of 10: `ClientBacklog` shows that the clients of the
  session never have more than groups + 2 messages queued; in the life cycle a
  queue of three makes it full, by thread polls, which nobody waits for.
- `HalBacklog` 1 or 2: the HAL stops sending while so many of its messages are
  queued. Two are enough for a begin behind an end and for an error between the
  messages of the clients. This bound hides a queue filled by the HAL alone.
- One pipe per session as in the code (`XRAUDIO_FIFO_QTY_MAX` is 1).
- Resource: three entries make a list with a middle; one device of each kind makes
  everybody wait; one death of two processes.
- Playback: two playbacks and two openings, for what one leaves to the next; two
  frames, for what happens after the first.
- Life cycle: two queue descriptors and two or three openings of the HAL, for the
  reuse of each; calls are bounded per caller.
- Capture: a limit of two files and three seconds, so that the rotation turns and
  the restart finds both a turn and none.
- Keyword: a ring of three frames and five frames in all, so that it wraps and
  each place is overwritten; two channels, so that one is chosen.

Fairness, in the runs with a liveness property:

- Main thread (`tap_two`, `play_mixed`, `life_shared`): it takes one message in each
  turn of its loop, because `select` reports the readable queue in every turn, also
  when the microphone or the timer is due; hence weak fairness of the handlers, and
  of the frame while the timer is armed.
- A client thread runs when it can, and a client blocked on a mutex that is
  released again and again gets it in the end: strong fairness of its steps.
- Resource manager: the kernel serves those who wait for the file lock in turn and
  every thread runs (weak fairness of the system's steps), the timer expires, and
  a client releases what is revoked, as `XRAUDIO_RESOURCE_EVENT_REVOKED` asks.
- Nothing is assumed of the audio, the HAL or the clients' wish to call.

## 6. Disagreements between the code and what it says

`sync_stop` is kept as a run. The others were met while modelling: the property is
in the module, and the configuration of the neighbouring run with the change named
here refutes it.

### Session (from `tap_two` or `two_clients`, one client, only the requests named)

| Property | Change | What happens |
|---|---|---|
| `DetectStopDisarms` | open, detect, detectStop | `detect_stop` acts in state DETECTING, which `dispatch_detect` has replaced; it is refused and the detector goes on (`xraudio_input.c:1290`; `xraudio.h:398` "Stop the keyword detection session") |
| `OneDestination` | `PipeAndFile` | a `stream_to_pipe` that fails leaves its pipe to the next recording (`xraudio_input.c:824`; 96 "Only one of these can be set at a time") |
| `ErrorEndsSyncStream` | `SyncPttStream`, `FairSpec` | an input error of an external source never ends its synchronous stream (`xraudio_thread.c:1962`; `xraudio.h:442`) |
| `KeywordNotBlocked` | `Kwd` FALSE, a HAL source | a session begin that overtakes the detect message leaves the group locked and the armed detector mute (`xraudio_thread.c:1872`; `xraudio.h:395`) |
| `FileWriterHasFile` | `FileUntilSpeech` | after the end of speech the file writer is called without a file (`xraudio_thread.c:2365`; 2364 "so no further incoming data is processed") |
| `PipesClosed` | `PipeStream` | a stop of all streams closes no pipe (`xraudio_thread.c:1308`; `xraudio_input.c:1341` "xraudio main thread is responsible for closing write side of the pipe") |
| `NoWaitOnDeadMic` | `SyncMicStream` | after a failed first read nothing restarts the frame timer, and a later synchronous recording waits for ever (`xraudio_thread.c:2073`; `xraudio.h:407`) |

### Resource manager (from `rsrc_orderly`)

| Property | Change | What happens |
|---|---|---|
| `ListSound` | `Overlap` TRUE | two processes take the same free entry, which is marked only after the lock is given back (`xraudio_resource.c:690`) |
| `GrantsByPriority` | three processes, `Records` | a request of middle priority is inserted behind the first entry it exceeds (`:740`; `xraudio.h:348` "Higher priority requests will be granted before lower") |
| `OwnersWithinCapability` | two input ids, `Ranked` | owners behind a request are counted after it is granted (`:479`; 468 "Wait for resource owners to release") |
| `GrantedHasDevices` | `Overlap` TRUE | a release takes the lock twice; a grant in between finds no owner and allocates nothing (`:379`; `xraudio.h:188`) |
| `HandlerHasEntry` | `Overlap` TRUE, `Patient` FALSE | a grant read after the release follows a NULL entry (`:337`) |
| `DevicesRecoverable` | `Deaths` anywhere | a process that dies between the two halves of a release takes its devices with it (`:379`; 668 "Remove stale entries") |
| `NoDeviceShared` | three processes, `ButMarked` | a process dies in `resource_entry_free` after the mark and before the id; its unlisted entry is used again with the id it has, and another is granted the device: two entries of the list hold it (`:773`, 291; 668 "Remove stale entries") |
| `NoDeviceLost` | three processes, `ButUnmarked` | a process dies in a grant after the mark and before the id; no scrub gives the device back (`:540`, 501; 668 "Remove stale entries") |
| `LockReleased` | three processes, two deaths, also while waiting | the scrub ends at the first stale entry, the next dead client is granted, and opening its fifo blocks with the lock held (`:607`) |
| `ReleasedHoldsNothing` | `Patient` FALSE; or `InCallback` TRUE | the release waits for a thread that waits for `mutex_api`, or for the thread it runs on; it gives up after 5 s and the device stays (`xraudio.c:514`, `:1308`; `xraudio.h:189`, 354) |
| `RequestHeard` | `Repeat` TRUE | a second request is pushed to a queue nobody reads (`xraudio.c:1257`; `xraudio_resource.c:283`) |

### Playback (from `play_mixed`, one client unless two are named)

| Property | Change | What happens |
|---|---|---|
| `CallsReturn` | `pauseSync` | the handlers of pause and resume post nothing (`xraudio_output.c:665`; `xraudio.h:476` "performed synchronously") |
| `PausedIsSilent` | `pause` | nor do they pause anything (`xraudio_thread.c:1718`) |
| `StopReturns` | two clients, `PipeSync`, `Endless`; or `CallbackStops` TRUE | a stop needs the mutex the synchronous play holds; in the callback it waits for the thread it is on (`xraudio_output.c:566`, 717; `xraudio.h:483`) |
| `IdleIsQuiet` | `hfpStop` | the bypass's stop makes the object idle while the main thread goes on with, or is about to get, the playback whose output it closed (`xraudio_output.c:1238`) |
| `HandlesLive` | `hfpStop`; or `intensity` | so frames go to the closed output; or to the fifo that was closed (`xraudio_output.c:1238`, 952) |
| `StateTellsHal` | two clients, `FileSync`, `pause` | pause sets the state without the mutex, after the playback has ended (`xraudio_output.c:541`) |
| `PipeClosedOnce` | `PipeAsync` | main thread and `stop` both close the pipe (`xraudio_output.c:589`; `xraudio_thread.c:1741`) |
| `HalGetsOpenOutputs` | `hfpStop`; or `FileSync` with `volume`, two clients | the bypass's stop closes the output of an ordinary playback; the volume call uses one that is being closed (`xraudio_output.c:1238`, 766; `xraudio.h:521`, 486) |
| `EofOnce` | `UserAsync`; or a 0 in `HalWrites`; or `hfpStop` | the user's handler is called again after its end; a write of 0 is told as an end without being one; a new playback inherits the source of the one the bypass's stop left behind, and so its end (`xraudio_thread.c:3777`; `xraudio.h:148`) |
| `FifoIsOpen` | `intensity` during a playback | the main thread writes to the fifo that was closed (`xraudio_output.c:952`) |
| `ObjectLive` | two clients, `FileSync`, `close` | a close frees the object that a synchronous play is about to enter (`xraudio.c:1932`; `xraudio.h:371`) |

### Life cycle (from `life_one`; two objects or callers where named)

| Property | Change | What happens |
|---|---|---|
| `PowerTold` | `SpeakerOnly` | an open stores a power mode it does not tell the HAL (`xraudio.c:2458`) |
| `PrivacyTold` | two objects | an open stores its privacy mode though the HAL is open and is not told (`xraudio.c:623`; `xraudio.h:383`) |
| `Reopens` | slow polls | a close that gave up leaves `running` set for good (`xraudio.c:1247`; `xraudio.h:371`) |
| `CallsReturn` | slow polls with `QMax` 4; `GetsWhenOpen` FALSE; `Failures` channels; slow polls that fill the queue; `Detector` FALSE | an undone open waits for a thread that is not there (665); the getters wait for a closed queue (1437); the launch waits for a thread that ended (1207); a message finds the queue full (2477); the limits handler is empty (`xraudio_thread.c:1824`) |
| `InputLive`, `NothingLeaks` | `Failures` mic | an open without its microphone keeps the freed input object and its queue (`xraudio.c:645`, 643) |
| `NothingLeaks` | two callers, an object each | a close that found no user closes the HAL the other is opening (`xraudio.c:1172`) |
| `VoiceFollows` | two objects | the HAL's messages go to the queue of a closed object (`xraudio_thread.c:4990`) |

### Capture (from `capture`)

`RawServed` fails: a stop of a raw recording or raw capture session puts the HAL
back although the other still needs it (`xraudio_thread.c:1320`, 1609). Not modelled:
`xraudio_thread.c:4089` has an assignment, `container = XRAUDIO_CONTAINER_WAV`, for
a condition.

### Keyword stream (from `keyword`; `StreamExact` unless another is named)

| Change | What happens |
|---|---|
| a stream from the keyword's end | the disarm has cleared `triggered`, so the request clears the frames since the event and ignores the end (`xraudio_thread.c:1081`; 1091, `xraudio.h:131`) |
| from the beginning, with an offset | the frames since the event are counted twice (1062; `xraudio.h:128`) |
| from the keyword, to the user's handler | the past is only written to pipes (`xraudio.h:130`) |
| until the end of speech, to the user's handler | the handler goes on being called (2364) |
| `Care` without "heard" | an offset beyond now wraps around (1074, 1097) |
| without "answers" | old endpoints, a counter set to zero |
| without "once", or streams of both groups from the past | samples converted in place are read again (2970) |
| without "oneFrame" | the groups share one index, and the flush leaves out the tap (2294, 1118, 2467) |
| `ReportTrue`: `ByteQty` 2 | the 8-bit count of frames since the keyword wraps (123) |

## 7. Proofs

`tlapm` checks every leaf of the eight `...Proofs` modules. They assume the named
assumptions on the constants, none on their size: any number of clients, sources,
users, processes, devices, channels, playbacks, files and frames. Where a theorem
needs more, it says so in its own ASSUME, and below why: without it the code does
not have the property.

1. `TypeCorrect`: `Spec => []TypeOK` for the session. `TypeOK` alone is not
   inductive: a message's destinations are typed only if the recording in progress
   names one. The strengthening is `TypeInv == TypeOK /\ RecordNamesDest`.
2. `DetectorExclusive`: `Spec => []DetectorStreamExclusive`. Inductive on top of
   `TypeOK`: a detect request empties the default instance before it arms, a
   record start disarms unless it is for the tap, which is another group, and every
   other step only takes destinations away (`InstanceShrinks`, `DetectorFrame`).
3. `CloseStrandsNobody`: `Spec => []NoWaiterOnDeadThread`. The property says
   nothing of how the thread dies, so it needs `CloseInv`: whoever waits for
   anything but the end of the thread holds the record mutex (`RecOwned`); a
   closing client holds the API mutex from start to end (`CloseOwnsApi`); while a
   client waits for the end of the thread, or the object is closed, the record
   mutex is free and all sessions are CREATED (`TermQuiet`, `ClosedQuiet`), a state
   in which no call queues a message; a queued terminate belongs to a client that
   waits for it (`TerminateWaited`); a stopped thread has posted it (`ThreadDown`).
   `ThreadServes` is the consequence each client step uses, `PassingStep` and
   `HoldingStep` the two shapes of a step.
4. `RecordingOnlyWhileBusy`, `RecordingToldReleased`, `RecordingOneInside`: what the
   recording service promises. `RecordingInv` adds to the two state predicates which
   calls can be in progress with which phases (`CallInv`). Together
   with `ServiceImplemented` they say that no buffer of a client is held outside its
   session.
5. `ResourceTypes`, `ResourceUnshared`, `ResourceUnlost` and `ResourceExclusive`: `TypeOK`
   of the resource manager; `NoDeviceShared` without deaths at "unmarked";
   `NoDeviceLost` without deaths at "marked", also when entries share a device; and
   both, `DeviceExclusive`, without either. Section 6 shows that each half fails
   where its condition does, and TLC finds no violation of a half when only the
   other's deaths are added to `rsrc_any`. The types are `TypesInv`, in a form that
   says which section a thread is in and that it has an entry there (`MemoryOK`,
   `ThreadsOK`, `LoopOK`, `InputsOK`, `ClientsOK`, `WorldOK`); `ResourceInv` adds `MarksOK`, the two properties under
   their conditions. A grant is for an entry without devices and takes what is not
   marked. The lemmas `FreedKeeps` and `GrantedKeeps` are about the first n stores of a
   free and of a grant: a free clears the mark first, so that it can only share, a
   grant sets the mark first, so that it can only lose. `FreeKeeps` and `AllocateKeeps`
   are their last stores, `FilledKeeps` and `UnlinkingKeeps` the other sections,
   `StoresLeftKeeps` what the dead leave, `DevicesKept` all the rest.
6. `KeywordTypes`, `RingIsNewest`, `ReadsAreNewest`: the indexes stay in the ring, the
   ring holds the newest samples, and what `xraudio_in_pre_detection_chunks` finds
   around its end are the samples just before now. `KeywordInv` adds that the
   counters move in whole frames (`RingShape`, `Whole`), that a triggered detector
   has a chosen channel and an inactive one an empty ring (`DetShape`), and that no
   stream is to take more than there is (`InstShape`). That some triggered channel
   is at least as good as all others (`SomeBest`) is a least-counterexample argument
   over the well-founded naturals.
7. `ReportNearlyTrue` and `ReportIsTrue`: where the event says that the keyword began.
   Each channel that triggers notes where, and counts the frames since (`Counts`);
   the event counts back from now for the channel it chose, which is as sure as any
   (`ChoiceOK`). The count is a `uint8_t`: in general the begin is right but for whole
   turns of 256 frames, and right when there are not more (`MaxFrames <= ByteQty`).
   `EventInv` is the invariant of both.
8. `BacklogOfClients`, `NoStaleWakeup`, `NothingKept`, and with room in the queue
   `OneWakeupAlways` and `ServiceImplemented`. `SemInv` follows the one semaphore in
   use: at most one client waits (`OneBlocked`); its semaphore is in the last message
   that is not of the HAL (`QueueShape`, `QueueOwned`), in one instance
   (`InstanceOwned`), or posted; as long as it waits nobody queues another message,
   and a session that is not busy has no start queued and lends nothing
   (`StartsBusy`, `HeldWhileBusy`). That a stop is answered with everything given
   back, the point of the refinement, is a consequence: the refinement is then
   shown action by action. A push that fails would lose a semaphore, so the last two
   need `Room == QMax > HalBacklog + Cardinality(Groups) + 2`: `QMax` is 10 in the code,
   and `HalBacklog` bounds what the HAL leaves queued, which the code does not. Both
   runs satisfy it, `tap_two` with nothing to spare. `NothingKept` is what a client can
   rely on whatever the queue does.
9. `CaptureTypes`, `CapturesFinishedAlways`, `NothingLeftAlways`, `RotationSoundAlways`.
   `UseInv` follows the stop of a group from the client's session to the messages its
   call still has to send and to the queue: what is in use has a stop to come
   (`GroupsOwned`, `SessionOwned`, `TestOwned`). `FileInv`: an open file is held by the
   instance of one group, and an instance that is not active has no live handle.
   `RotationInv`: there is a place from which the directory, around its end, is
   sorted by time and without holes, and it is where the main thread goes on;
   `xraudio_capture_next_file_index` finds such a place from the times alone, by a
   least-counterexample argument for the first turn.
10. `PlaybackTypes`, `SemaphoresAreLive`, `AsyncObjectsLive` without hypotheses, and
    `ObjectsLive`, `IdleQuiet`, `HandlesAreLive`, `StateTells`, `EndsToldOnce` with some.
    `SemInv`: a caller's semaphore is in the queue, with the main thread or posted, in
    one of them, and only where its owner waits for that message. `LockInv`: who
    holds `mutex_play` and `mutex_api` at which place of a call, and what a call has
    checked is still so. `IdleInv`: while nothing plays there is nothing to play
    anywhere, because whoever stops holds `mutex_play` from queueing the stop to
    closing the handles, so no start is behind a stop (`StopLast`) and none comes
    after a stop that is over (`StopOver`). `HandleInv`: the handles named by the queue
    and the main thread are open. `EofInv`: playbacks are numbered in the order of
    their starts, and an end is told as its source is forgotten. The hypotheses leave
    out what section 6 shows to break the property: synchronous plays for `ObjectLive`
    and `StateTellsHal` (they give `mutex_api` back, and a pause or a close comes
    between), `hfpStop` for `IdleIsQuiet`, `HandlesLive` and `EofOnce`, `intensity` for
    `HandlesLive`, asynchronous users' handlers and a HAL write of 0 for `EofOnce`. TLC
    refutes each property on `play_mixed` with what its theorem leaves out added
    (`StateTellsHal` with `pause`).

11. `LifeTypes`, `LifeServed`, `LifeSemaphores` without hypotheses, and `LifeReopens`,
    `LifeLeaksNothing`, `LifePrivacy`, `LifeVoice` with some. The phase of an object is
    where the call is that holds its mutex (`Phase`); who creates or destroys it is
    alone with it (`AloneInv`). `SemInv`: what a queue or a starting thread names
    waits, in the object whose queue it is, and is named once. `ShapeInv`: an object
    that is open or being opened has a queue that exists and is no other's, so an
    abandoned thread that reads a descriptor given out again reads its messages but
    none of another object's calls. `UserInv`: the count of the HAL's users is the
    number of objects between their counting and the end of their close, which bounds
    it (`TypeOK`). `ServedInv`: from the answer to the launch to the answer to the
    terminate, the object's thread is in its loop; only a terminate ends it, and only
    the closing call sends one. On top of these: with polls that return at once no close gives
    up on its thread (`RunInv`); when a microphone always opens, a queue is an
    object's that is open or being opened (`OwnedInv`), and when the clients work on
    one object at a time, the HAL that is open is the one the process counts users
    of, the one that is being undone included (`HalInv`); with one object, what the
    process believes of the privacy mode is what the HAL was told, but for an answer
    under way (`PrivInv`), and a live input object has an idle start in its queue or
    the voice session on it (`VoiceInv`). The hypotheses are the other side of
    section 6: each leaves out what breaks the property in the code, and the runs that
    check these properties satisfy them.

12. `OrderlyList`, `OrderlyHandlers`, `OrderlyDevices`, `OrderlyRecoverable`: `ListSound`,
    `HandlerHasEntry`, `DevicesAsTold` and `DevicesRecoverable` of the resource manager,
    under `Orderly` and `OneInput`, which `rsrc_orderly` satisfies. `Orderly` is the
    discipline of the clients (they wait until the others are quiet, release after an
    event, not inside the callback, and request once per release) and of the world (a
    process dies only while its users are idle and hold devices; as often as it likes).
    `OneInput`: the microphone is one, every request is for it, and an output that is
    asked for exists. `xraudio_open` asks for a grant only for the local microphone
    (`xraudio.c:587`).
    The list is a chain of different entries (`Chain`, `ListOK`); the recursive walk of
    the model, `Walk`, follows it (`ChainWalk`), an unlinked entry leaves a chain and an
    inserted one makes a chain (`UnlinkList`, `InsertFirst`, `InsertNext`), for any
    length: that a chain fits into the entries, and that the first position with a
    given successor exists, are counting arguments over finite sets and
    well-founded naturals. `OrderInv` has three layers. Per user (`UserOK`, `EventsOK`,
    `MineOK`): the phases from request to join, each with the messages and the sections
    it can have; an event under way keeps the entry marked and is the only one. Per
    entry (`EntryOK`): it is its owner's, and a dead owner's is in the list and holds
    devices. Between them: one user at a time works on the list (`OneLister`), one
    entry holds devices (`OneHolder`), a loop that has not revoked has no owner ahead
    but the head, and one that grants has none behind (`ScanOK`); a user id that a dead
    owner left and another user registered is the id of one who has still to scrub, and
    whose scrub has the stale entry ahead (`IdsOK`). That is why the scrub, which ends at
    the first stale entry, misses none, and why nobody is told of a grant that another
    process was sent. No release times out under these hypotheses (`AnswersCome`).
    `OneInput` is needed: without it TLC refutes `DevicesAsTold` with four users in
    four processes, one input, one output and requests for one or the other: an entry is
    inserted after the first it exceeds, an owner behind it is not counted
    (`xraudio_resource.c:479`, section 6), and it is granted without its device.

13. `StreamIsExact`: `StreamExact` under `AsIntended`, which `keyword` satisfies. It is
    the other side of section 6: all of `Care`, streams from a keyword or from now, the
    past to pipes only, the end of speech for pipes only; and no more samples are read
    than `pre_detection_sample_qty` counts, 2^32, three days of audio at 16 kHz. `StreamInv`, on
    top of `KeywordInv` and `EventInv`: from the event on, the endpoints kept and the
    frames counted lead back to the keyword (`FreshOK`), and what was heard since the
    detector was armed is undamaged until the event is used (`UnreadOK`); a stream
    takes its past before the next frame, with nothing damaged in it, and no other
    stream has one to take (`PendsOK`); the shared index counts the frames of the
    default group, and is zero beside the tap (`GroupsOK`); so a stream has delivered all
    but the frames counted (`StreamsOK`), and the flush gives it those. The writers are
    one lemma each (`ServeFlows`, `FlushFlows`), used for a frame, a stop and the end of
    speech. TLC has checked the parts of `StreamInv` on `keyword` and on an instance
    with every such request from both groups and groups of three frames.

Every safety property that a run checks is stated by a theorem. Only model-checked:
liveness (`CallsReturn`, `HeadServed`, `LockReleased`), which is outside the prover's
reach, as are induction over data and RECURSIVE operators.

## 8. Not modelled

- Volume, gain, wave header: arithmetic of one call on its arguments, in floating
  point or bytes, which nobody sees half done.
- Decoding of external audio, latency mode, statistics, sound focus, the calls that
  only store or pass on a parameter (stream time, keyword hits, sensitivity, beam
  direction): no state other parts read.
- The HAL, the DSP and the codecs: external, a choice of results. Utilities,
  logging, version: no state. The test program plays one file.
- Three hazards have no property: the HAL granted a group before the idle start
  (`xraudio_thread.c:4972`: the code states no exclusion it could be held to), a
  callback of the record side that calls the API (2361: callbacks of the session
  do not call back; the playback has that case, and the model refutes
  `StopReturns`), and the order and number of grants (`xraudio_resource.c:479`, see
  section 6).
