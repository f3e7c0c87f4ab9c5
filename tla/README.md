# A formal model of FaustLive

FaustLive is a Qt application that compiles Faust programs just in time and plays
each of them in a window: a file dropped on a window replaces its DSP with a
crossfade, an edited file recompiles its windows, a remote page can post a program,
and a session remembers what was open.  This directory models, in TLA+, the parts of
that program whose correctness depends on the order in which things happen.  TLC
checks the models on small instances; TLAPS proves the main results for every value
of the constants.

Lines are quoted as `File.cpp:line`, for files under `src/src/`.

## 1. Inventory

### Threads

| Thread | What runs there |
|---|---|
| GUI thread | every window, menu, dialog, timer, the file watcher, the compiler, all of `FLApp` and `FLSessionManager` |
| audio callback, one per client | `processAudio` / `compute` of the DSPs; owned by JACK, CoreAudio, PortAudio or NetJack |
| libmicrohttpd, one per server | `FLServerHttp::answerToConnection`, `handlePost` |
| threads of the interfaces | OSC, HTTP and MIDI interfaces of each DSP, in the Faust library |

The GUI thread shares the fields of an audio fader with one callback, and four fields
with the thread of the drop server.  Nothing in either place is under a lock; only
the fade flag is atomic.  Modal dialogs and audio errors (`FLWindow::audioError`)
run the event loop inside a handler, so handlers of the GUI thread can be nested.

### Components

| Component (files) | State | Operations | Talks to |
|---|---|---|---|
| JACK crossfade (`Audio/JA/`, `AudioFader_Implementation.cpp`) | two DSP pointers, a flag, a gain, ports, intermediate buffers | `set_dsp`, `init_FadeIn_Audio`, `launch_fadeOut`, `upDate_DSP`, `processAudio` | the window (calls), JACK (callback) |
| Stream crossfade (`CA/`, `PA/`, `NJ_Slave/`) | two clients, each with a fader | `init_FadeAudio`, `start_Fade`, `wait_EndFade` | the window, the driver |
| Windows (`FLWindow.cpp`) | source, current DSP, audio manager, interfaces, settings | create, update, reset, close, react to the watcher, save and recall | all the others |
| Session manager: factories (`FLSessionManager.cpp:170-480`) | `fDSPToFactory` | `createFactory`, `createDSP`, `deleteDSPandFactory` | the windows, libfaust |
| Session and snapshots on disk (`FLSessionManager.cpp:860-1183`) | the SHA folders, `settings.ini`, copies of sources | save, restore, snapshot, eviction | `FLApp`, the disk |
| File watcher (`FLFileWatcher.cpp`) | windows of each file, listings, one timer | `startWatcher`, `stopWatcher`, three slots | the windows, `QFileSystemWatcher` |
| HTTP drop server (`FLServerHttp.cpp`) | connections, the answer, `fPosted` | post, get, stop | `FLApp` (a queued signal), libmicrohttpd |
| Application (`FLApp.cpp`) | list of windows, menus, recent files | new, close, close all, session, drop port, quit | everything |
| Audio creator and settings (`AudioCreator.cpp`, `*_audioSettings.cpp`) | visual, temporary and saved settings | change, save, reset | `FLApp`, `FLPreferenceWindow` |
| General and window settings (`FLSettings.cpp`, `FLWinSettings.cpp`) | one `QSettings` with a stack of groups | read, write, begin and end a group | everything |
| Tool bar (`FLToolBar.cpp`) | the boxes and fields of the options of a window | edit, fold, apply (up to seven signals) | its window, the settings |
| Preferences (`FLPreferenceWindow.cpp`) | the general options and the audio tab | edit, save, cancel | the audio creator, `FLApp` |
| Export manager (`FLExportManager.cpp`) | chooser of targets, the three replies, the dialog, the data received | targets, upload, download, cancel, save the file | the web service |
| Component creator, options and files (`utilities.cpp`), registry, other dialogs, parser, remote processing | | | not modelled, see section 6 |

### What is hard, and what correctness means there

* **Crossfade.** The callback reads the flag once and then uses buffers, ports and
  DSPs that the GUI thread creates before and destroys after it.  Correct: memory in
  use is allocated and large enough; the fade is complete; nothing is left over; the
  window never blocks, even if the server stops.
* **Windows.** Each handler is a chain of steps any of which can fail.  Correct:
  every DSP and factory belongs to exactly one window or is deleted; a running driver
  never plays a deleted DSP; a failed update leaves the window playing.
* **Watcher.** Signals of the disk arrive late and out of order, handlers run
  meanwhile and windows close.  Correct: a window is watched under the files it uses
  and under no other, changes reach it, closed windows are not called.
* **Drop server.** Two threads hand over one request and one answer without a lock,
  while clients leave, windows close and the server stops.  Correct: an answer goes
  to its own client, every program is answered, stopping ends.
* **Sessions.** A crash or a failing copy between two writes, an eviction, a restore
  from copies.  Correct: what is restored is what was playing.
* **Application.** A restoration opens windows one by one and asks questions whose
  event loop serves the drop server.  Correct: numbers are distinct, the session on
  the disk is that of the windows, the menu shows the newest files.
* **Audio creator.** Four copies of one choice; servers die, sources stop compiling,
  windows open while the dialog previews a driver.  Correct: cancelling saves nothing, saving
  applies to every window, a dead server is replaced.
* **Options of a window.** The tool bar, the settings, their defaults and three interfaces;
  each signal changes the state that the next one reads.  Correct: what runs is what is
  saved and shown, and the parameters keep their values.
* **Export.** Answers come late, in any order or never, and a second export may start
  during the first; the dialog may be cancelled, or only hidden.  Correct: the file saved is
  the one named, nothing is heard of a cancelled export, an export that is answered ends.

The complete list of hazards, each at its line and with the properties that cover it,
is `hazards` in `PROJECT.json`.

## 2. Modules

| Module | Models | Kind |
|---|---|---|
| `Crossfade` | what an audio manager promises to a window | abstract specification |
| `JackFader` | the JACK fader, GUI thread and callback | refines `Crossfade` |
| `StreamFader` | the drivers with one stream per DSP: CoreAudio, PortAudio, NetJack | refines `Crossfade` |
| `WindowLifecycle` | windows, session manager's DSPs, audio manager, watcher's notices | composition: the steps of `FLWindow` with what they change in the others |
| `FileWatcher` | watcher, windows, disk and `QFileSystemWatcher` | composition of the watcher with an editor and with busy windows |
| `HttpDropServer` | drop server, its thread, `FLApp`'s answer | composition of two threads |
| `SessionCache` | SHA folder, settings, copies of the sources, snapshots | what several runs of the program leave to each other on the disk |
| `Application` | `FLApp`: windows, numbers, session entries, menus, start, restoration, recall, quitting | composition of the windows with the session and the drop server |
| `AudioDrivers` | audio creator, forms, settings, the reset of all windows | composition of the Preferences, the windows and the drivers' servers |
| `Interfaces` | tool bar, settings and interfaces of a window, the QR code | composition of `FLToolBar` and `FLWindow` with the defaults and the drop server |
| `ExportManager` | chooser and export dialog with the web service | one component and an unreliable service |
| `MC*` | constants and symmetry for TLC | |
| `JackFader_proofs`, `StreamFader_proofs`, `WindowLifecycle_proofs`, `FileWatcher_proofs`, `SessionCache_proofs`, `Application_proofs`, `AudioDrivers_proofs` | theorems about the module of that name | TLAPS |
| `Network_proofs` | theorems about `HttpDropServer`, `Interfaces` and `ExportManager` | TLAPS |

`HttpDropServer`, `Interfaces` and `ExportManager` are proved about in one module, so the names that
each has of its own (`DropInit`, `OptionsNext`, `ExportSpec`...) begin with what it is about.

Each module also has a section of *variants*: faulty versions of some of its
definitions, one plausible bug each.  They belong to no specification.  They are there
to show that each property depends on the code: with the variant in the place of the
definition, TLC finds the property violated (`mutants` in `PROJECT.json`).
`map` in `PROJECT.json` gives the source lines of each definition.

### JackFader and Crossfade

*State.* The fields of `JA_audioFader` (`fDSP`, `fDSPIn`, the flag, the gain, the number
of ports, the channels of the two intermediate buffers), the DSPs allocated, a program
counter per thread, and the locals of `processAudio` that size its arrays.  `overlapped`
is a history variable: an update changed the client while the current callback ran.

*Steps.* A step is the code of one thread between two accesses to what the other thread
can see.  The GUI thread: `OpenWindow`, `Start`, `Stop`, `CloseWindow`, then an update as
`InitFadeIn`, `AllocateBuffers`, `LaunchFade`, `SeeEndOfFade` or `GiveUp`, `ErasePorts`,
`FreeBuffers`, `SwapDSPs`, `DeleteOldDSP`.  The callback: `BeginPeriod`, `TestFlag`, then
either the fade branch (`BeginComputeOut` ... `Mix`) or the normal one (`GetOutputs`,
`BeginNormal`, `EndNormal`).  The gain is counted in steps, so a buffer larger than what
is left is a case of its own.

*Data race.* Between the end of a fade and the exchange of the pointers, a callback may
read a mixture of the old and the new client.  That is real (`processAudio` has no lock)
and the model has it: every combination of reads is a behaviour.  `CallbackSafe` says
what is guaranteed for the callbacks that no update overlaps, and the overlapping ones
are left unspecified, as the code leaves them.

*Crossfade* is the promise: the outgoing DSP is heard at a gain that starts full, goes down
by at most a period at a time, and is zero when the fade ends.  `gain` is the gain that the
outgoing DSP is really heard with.  The refinement mapping takes `incoming` to be `fDSPIn` from
the flag to the exchange, the gain to be `fInCoef` while the flag is up, and full otherwise:
`reset_Values` (`AudioFader_Implementation.cpp:70`) makes the callback play the old DSP at full volume again
until the exchange.  A fade is `fading`, then `silenced` when the callback has cleared the flag at
zero, or `cut` when the GUI thread gave up (`givenUp`, a history variable).  A flag cleared above zero
refines nothing unless `stop_Fade` did it.  `Shared` tells the two kinds of drivers apart: with one
fader for all DSPs the old one comes back after the silence, a sample more than a buffer may be
taken off, and a fade given up leaves its gain to the next one.

### StreamFader

*State.* The manager's two pointers, the faders and DSPs allocated, the streams that the driver
calls; for each fader its two flags, its two coefficients and `fFadedOut`; a program counter
for the GUI thread and one for the thread of each stream.  A DSP names its fader.
`netJack` chooses between the two versions of the code that differ (the order of the
launches, and what becomes of a fader that cannot be initialised).  `level` is the gain at
the end of the last buffer; `interrupted` and `givenUp` remember that a fade was cut short.

*Steps.* The GUI thread: `OpenWindow`, then an update as `InitFade`, `LaunchFadeIn`, `LaunchFadeOut`,
`StartFadeIn`, `SeeEndOfFade` or `ForceIn` and `ForceOut`, `StopOld`, `DeleteOldFader`, `DeleteOldDSP`;
`StopAudio` and `CloseWindow`.  Each stream: `Compute`, `TestFadeOut`, then `FadeOut`, or `TestFadeIn` and
`FadeIn`: the tests of the two flags and the loops that follow are separate steps.  The
3 seconds of the time out may elapse at any time; NetJack's `wait_EndFade` does not wait for
them.  Assumed of the drivers: `stop` begins no other buffer and returns at the end of the one
in progress.

*Crossfade* is refined with the level really heard: full before the first buffer of the fade,
`fOutCoef` while the flag is up, zero once the fade has ended by itself (`fFadedOut`), and full again after
`stop_Fade` (`AudioFader_Implementation.cpp:54`), which is a cut.  Streams are not `Shared`: what a fade
has silenced stays silent until the exchange.  In addition, a stream whose fade ended by itself is
silent when it stops (`SilentWhenStopped`), its level does not jump (`Smooth`), and what an update
leaves behind is exactly the current DSP and its fader (`NothingLeftOver`).

### WindowLifecycle

*State.* Per window: whether it exists, is on the screen, its source, its `Path` and
`SHA` settings, its current DSP, the DSP its interfaces are built on, whether its client
was started, what the audio manager plays and fades in; the heap of factories and
instances; for the GUI thread, the handler and its next step.  A factory and its single
instance are one member of `Units`.

*Steps.* A handler begins (`NewWindow`, `Drop`, `SelfUpdate`, `ResetAudio`,
`CloseWindow`) and goes on with named steps, cut wherever it creates, hands over or
deletes something, or may fail, because the driver and the interfaces go on running
between them.  Steps with two outcomes in the code have two here: a compilation, the
creation of a DSP, the initialisation of the client, `init_FadeAudio`, `setDSP`, the
start of a driver whose result the code ignores.  The handlers themselves do not nest.

*Playing.* `running` are the windows whose DSP the driver calls.  `UpdateKeepsPlaying` is about
them: no step of an update silences one, or changes its DSP but for the one that was fading in.
The end of the fade is excepted: the manager stops the old client although the new one may
not have started (`CA_audioManager.cpp:116` only prints that, `:140-144`).

*Late notices.* `SelfUpdate` and `SourceDeleted` are called by the watcher.  With
`LateNotices` a window can be called for a file it no longer uses.  A file that was
deleted and comes back makes that happen; the watcher's model shows when.

### FileWatcher

*State.* The disk, the watcher's fields (`fMap`, `fDirToChildren`, `fSourceToChanged`, the
timer), what `QFileSystemWatcher` watches and the signals it has on the way, the windows'
source, path and dependencies, the loop in progress, and a ghost: the pairs of a window
and a file it uses that changed since the window was last told.

*Steps.* The three slots; `CallNext` and `CallNextRenamed` for each turn of the loops of
`fileChanged` and `dirChanged`, since a window that updates can let another one close; the
handlers that start and stop watching, each in two steps around the compilation; and
what other programs do to the files.  `QFileSystemWatcher` is external: it stops
watching a file whose inode is gone, refuses a path that does not exist, and delivers
its signals when the GUI thread is free.

*Lists.* `fMap` holds lists (`FLFileWatcher.cpp:45`, `:71`), sets in the model.  A window can be twice in one only for a
sound file made its source, which `start_stop_watcher` adds once more each time (`FLWindow.cpp:169-173`); it is
then called twice at a change, and stopping removes it as often as starting added it, as long as
the dependencies in the SHA folder stay.

### HttpDropServer

*State.* Per client, where its connection is, the window of its page, its answer; the
number of connections in use; the round of libmicrohttpd; the four variables of the
handover (`fUrl`, `fError` and `fCompiled` as one answer, `fPosted`); the signals queued to
the GUI thread; the windows open.

*Steps.* The server's thread: `Accept`, `Upload`, `RequestCompleted`, `BeginRound`,
`HandlePost`, `Answer`, `EndDaemon`.  The GUI thread: `CompileHttpData`, `WriteAnswer`,
`PostAnswer`, `CloseWindow`, `ChangeDropPort`, `LaunchServer`, and quitting in
`Quit`, `ReleaseAndStop`, `Over`.  Writing the answer and raising `fPosted` are two steps, as
they are two statements that another thread can see in between.

### SessionCache

*State.* What is on the disk: the files of the user, the SHA folder (which folder is not
younger than which, as two may have the same date, and those that hold no program), the windows that the settings describe with their `Path` and
`SHA`, the copy of each window's program, the last snapshot.  What is in memory: the
windows open, and the loop in progress over them.  `wanted` remembers what each window should
be after a restoration, and whether its program was in the SHA folder when it was saved;
`touched` which files changed during a recall.

*Steps.* The events of the windows that change the disk (`NewWindow`, `UpdateWindow`, `SelfUpdate`,
`SourceDeleted`, `Edit`, `ShutWindow`), with the folder that each compilation evicts, makes or
makes younger.  Quitting (`Quit`, `CloseWindow`, `SaveSources`, then `RemoveCopy` and `CopySource`
for each window, `End`), `Crash` at any of these points, starting again (`Start`, `ReadNext` with
the answers of the user, `RestoreSession`, `CreateNext`, `TryAgain`), or starting with a file.
`TakeSnapshot`, `RecallSnapshot`, `ImportSnapshot`, with the new numbers of imported windows: `NewNumbers` says what the loop of `recall_Snapshot` finds, the
smallest numbers that are free.
`childGroups` gives the windows in alphabetical order, which is the order of their numbers
up to 9.

### Application

*State.* The windows with their numbers, the menus that name them, the folders `FLW-n` and the
entries of the session, the numbers left behind by windows that did not open (`strays`), a
snapshot, the recent files with what is saved and shown of them, the stage of the program
(starting, running, saving, quitting) and the job under way: a restoration, a recall or an
import has windows left to shut and to open.

*Steps.* Each menu action is one step, or a job of one step per window: `RecallCurrentSession` or
`RecallSnapshot`, `ShutNext`, `EndShutting`, `Answer` (the user, for the windows whose source
changed), `OpenNext`, `OpenAgain`, `EndJob`.  Opening a window may fail, or be refused when all
are open.  `LatePost` is a request of the drop server served by the event loop that a
question or the last progress bar runs.  `Quit` stands for the end of a run and the start
of the next, which finds the settings of the first.

*Questions.* `Recalling` is `fRecalling`, which is set only when the questions of the restoration have been
answered (`FLApp.cpp:1193-1201`).  Until then a question that closes as the last window ends the program
through `closeAllWindows`: the model has that, and the job that goes on after it.  A program posted
during a question takes a number of the session that is being read.  `clashing` remembers the
windows made that way and those that then got such a number; the properties except them, and no other.

### AudioDrivers

*State.* One record for the copies of the choice in `AudioCreator` (saved driver and parameters,
form, the copy it is compared with); whether the dialog is open; the loop over the
windows; the drivers that can be used; each window's client with the driver and parameters
it was made from; the errors in the queue of the GUI thread; `stale`, the windows that may not follow.

*Steps.* The functions of `AudioCreator` are operators on the record, composed by the actions:
`Preferences`, `ChooseDriver`, `EditForm`, `Save`, `Cancel`, then the loop of
`update_AudioArchitecture` (`UpdateNext`, `EndUpdate`), and when it failed `FallBack`, `RestoreNext`,
`EndRestore`.  Meanwhile a server may `Die` and send one `AudioShutDown` per window, and `Revive`; a
window may open, close, or switch polyphony or MIDI.  The parameters of a driver are one
value; a text that a form compares as zero and stores as a default is another.

### Interfaces

*State.* The preferences, the settings of the window (an option never chosen has the
preference's value when it is read), the tool bar, what runs, the ports, the parameters and
their file, the signals still to emit, the QR code under way.  `set` remembers what the user last
set, `excused` which options a window may not follow: a default changed since, a reset failed.

*Steps.* Edits of the tool bar; `Apply` (`modifiedOptions`), which writes what changed and leaves a set of
signals, each then handled by one step in the order of the code (`Rank`): an update, OSC, its
port, HTTP, MIDI, polyphony.  The QR code is `ViewQRCode`, `HttpForQRCode`, `ShowQRCode` around those
signals.  `OscError`, `SourceChanged`, `AudioPrefChanged`, `SavePreferences` and `Restart` come from other
components.  An update or a reset may fail, and a reset may leave the window without DSP; an update that
fails then shows the window again, still silent (`FLWindow.cpp:479`).  `wasPolyphonySwitched` compares the group and
the voices too: an edit of these emits the signal without a change of the box.

### ExportManager

*State.* The replies under way, with the request of each and whether it is still connected; the chooser; the
step, the program and target of the dialog, its pointers to replies, its two marks and its
button; the data received; the name asked for in the file dialog.  Three histories: the field `own` of a
reply (it is that of the export of the dialog, not of an earlier one), `cancelled`, and `strayed`: an answer to an earlier
export has come since the present one began, and was taken for its own.

*Steps.* `SendTargetRequest`, `Choose`, `ExportFile` (POST), `ReadKey` (answer, then GET), `ShowSaveB`, `NetworkError`,
`CancelExport`, `EscapeExport`, `AskName`, `WriteFile`.  A reply may come in any order, as an answer or an error; a reply
that was disconnected comes too and changes nothing (`Unheard`).  The button and the box of the dialog disconnect
the reply; the escape key calls `QDialog::reject`, which hides the dialog without `closeEvent`, so
that the export goes on hidden.

## 3. Runs

| Run | States | Shows |
|---|---|---|
| `jack_responsive` | 2 383 | with a server that keeps calling, every update is a complete crossfade, by the gain really heard, whose memory the flag protects |
| `jack_stalled` | 26 970 | fades given up after 3 seconds, a server that stops: updates end and are crossfades that only the time out cuts, callbacks no update overlaps are safe, nothing is left over |
| `streams` | 162 077 | one stream per DSP: updates are crossfades by the gain really heard, levels do not jump, what stops is silent, nothing is left over, the new DSP comes to its full volume |
| `windows` | 634 999 | two windows, every step of every handler failing or not: DSPs have one owner, are alive while they are played, and go on being played during an update |
| `watcher` | 11 441 | every change reaches every window, only open windows are called |
| `watcher_deleted` | 4 410 | deletions, creations, renamings, replacements: a window stays registered under its files |
| `drop_server` | 104 752 | answers go to their own clients, programs are read while they exist, each is answered |
| `session` | 712 718 | sessions and snapshots bring each program back to its window, if the SHA folder had it when it was saved |
| `application` | 102 243 | apart from the clash with a program posted during a question, numbers are distinct and the session on the disk is that of the windows; the menu shows the newest files, each once |
| `drivers` | 329 457 | the windows follow the saved driver and parameters, cancelling saves nothing, a dead server is replaced |
| `interfaces` | 575 488 | what runs, what is saved and what is shown agree, the QR code has its interface, parameters survive |
| `export` | 822 738 | until an answer to an earlier export is taken for its own, the file saved is the one named and a cancelled export is silent; an export that is answered ends |

Every run passes.  The invariants the proofs rest on (`IInv` and its parts) were checked with
TLC before they were proved; a run lists the ones that say something by themselves.

### Bounds

* **JackFader.** Three DSPs with 1/2/0 inputs and 1/1/2 outputs, so that an update adds,
  keeps and removes ports in either direction, and a third DSP follows two others.  A fade
  of 4 steps with buffers of 1: a fade lasts two callbacks, the last one finds the gain
  both above and at the size of the buffer.  `MayTimeOut` separates a server that
  answers from one that does not.  The proofs need none of these bounds.
* **StreamFader.** Three DSPs: the third replaces the second while it may still be fading in.  A fade
  of 5 steps with buffers of 2: three buffers, the last one with less than a buffer left.
  The proofs need none of these bounds.
* **WindowLifecycle.** Two windows, one file, two programs, three units: an update holds
  one DSP more than the windows do, which three units allow while both are open.  Windows, programs and
  units are interchangeable and only safety is checked, so symmetry is sound.
  `LateNotices = FALSE`: see section 5.
* **FileWatcher.** Two windows, two files in one folder, f1 importing f2, two edits:
  enough for one edit during the reaction to another.  `Patient` means that the other
  programs wait until the watcher has come to rest before the next edit; without it a change
  is lost (section 5).  In `watcher_deleted` the files may also be deleted, renamed,
  replaced and created, with one window.
* **HttpDropServer.** Three clients against a limit of two: the third gets the busy page,
  and two requests can be ready in the same round.  One window, which can be open or
  closed.

* **SessionCache.** Two windows at most, with numbers up to 3, one file and three programs, one
  of them importing another file; `MaxFolders = 1`, so that the SHA folder holds two programs at
  most and the third evicts one.  Three programs brought in or snapshots taken, then any
  number of sessions, crashes, recalls and imports.

* **Application.** Two windows with numbers up to 3, so that one is always left over by a window
  that failed; three files and a menu of two recent files, so that order, duplicates, files that drop out
  and actions left over occur.  `LatePosts = {"asking", "saving"}`: a POST may come during a question of a
  restoration and while the program saves.  Files and windows are interchangeable and only safety is
  checked, so symmetry is sound.
* **AudioDrivers.** Two windows, so that a reset of all can succeed for one and fail for the
  other; three drivers, the first of the list, one whose server dies and does not depend on
  its parameters, one that writes what the device grants.
* **Interfaces.** Three switches (HTTP, OSC, polyphony with its voices), one default that changes, two OSC and two HTTP ports, two levels and
  two values of the parameters.  `PrefLevel` is the highest level, as the preferences write it
  when they are saved once.  The proofs need none of these bounds.
* **ExportManager.** Two programs and two targets; `MaxReplies = 2`, so that an answer of a
  cancelled, hidden or replaced request is under way with the next one.


`CHECK_DEADLOCK FALSE` is set for SessionCache, where what the user brings in is bounded and
a killed program need not be started again; for the watcher, where edits are bounded, and for the drop
server, where every client has left and the program has quit.

### Fairness

* `JackFader!Spec`: weak fairness of the steps of an update, which run in one handler
  of the GUI thread, and of the callback, as long as the client is active.
  `StalledSpec` drops the second: a server that stopped owes nothing, and `GiveUp` stands
  for the 3 seconds of `wait_EndFade` (`JA_audioManager.cpp:89-91`).
* `StreamFader!Spec`: weak fairness of the steps of an update, and of the thread of each stream that
  runs.  A stream that did not start owes nothing: `ForceIn` ends the update.
* `FileWatcher!Spec`: weak fairness of the steps of handlers in progress; strong fairness of each slot, because
  signals and the timer wait for the GUI thread to be free, which it is again and again.
* `HttpDropServer!Spec`: weak fairness of the GUI thread.  The server's thread has strong
  fairness, because a new connection accepted first does not put off the round for ever.
* `AudioDrivers!Spec`: weak fairness of the loops over the windows; strong fairness of the
  delivery of each audio error, which waits in the queue of the GUI thread behind other handlers.
* `ExportManager!ExportSpec`: none.  No time out is set for a request (`FLExportManager.cpp:466-491`, `:551-558`) and
  Qt's default is none, so a web service that stays silent leaves the export waiting.  `ExportEnds` has
  the answers as its hypothesis: *if* each request is answered or fails, the dialog says how the export ended.
* The other specifications have none: they are checked for safety only.


## 4. Proofs

All theorems are for any value of the constants that satisfies the named assumption of
the module (`JackFaderAssumption` and `StreamFaderAssumption`: naturals and positive lengths;
`WindowLifecycleAssumption`: `None` and the files are not confused with programs or units;
`HttpDropServerAssumption`: finitely many clients, a positive limit; `SessionCacheAssumption`: positive
limits, the empty program is a program, files, programs and "none" are not confused;
`FileWatcherAssumption`, `ApplicationAssumption`,
`AudioDriversAssumption`, `InterfacesAssumption` and `ExportManagerAssumption`: the marks for "none" are not
values, and the named drivers, ports and levels are among the others).

**JackFader_proofs.** `IInv` adds to `TypeOK`: `GuiInv`, what the client holds at each step of
the GUI thread (one DSP or two, ports for one or for both, buffers or none); `JackInv`, what a
callback that no update overlaps has read is still true; `FadeInv`, without time outs the
flag is up during the whole fade branch, and the gain is below full only then.
`CallbackSafe` is not inductive: that the arrays are large enough when `compute` begins
depends on what was read earlier, which `JackInv` records.  From `IInv` follow

* `TypeCorrect`, `CallbacksAreSafe`, `NothingIsLeftOver`, whether or not fades time out;
* `FadeMemoryIsSafe`: without time outs, the flag alone protects the memory of the fade;
* `JackImplementsCrossfade`: every step of the fader is a step of `Crossfade` or a stutter, whether or not
  fades time out; with time outs a fade may be cut, by `GiveUp` only.

**StreamFader_proofs.** `GuiInv` says what the window holds at each step of the GUI thread, `DeadInv`
that a fader that is not there is as new, `OutInv` that only the current stream can be fading
out and that its flag is cleared by itself only when it is silent, `LevelInv` that the level of
a stream follows from its flags and coefficients.  `Smooth` alone is not inductive: the next
level depends on a coefficient that another step of the thread has left, and on flags
that the GUI thread may have changed since they were read.

* `TypeCorrect`, `StreamsStayAlive`, `NothingIsLeftOver`, `StoppedStreamsAreSilent`, `StreamsAreSmooth`;
* `StreamsImplementCrossfade`: every step is a step of `Crossfade` or a stutter, for the three drivers; a cut
  is a step of `ForceOut` or what follows it.

**WindowLifecycle_proofs.** `HeapInv` says who owns each factory and each instance at every
step (a window, the update in progress, the handler that made it); it is inductive with
`TypeOK` and needs nothing about the watcher.  `WatchInv`, `OpenInv`, `DriverInv` and
`InterfaceInv` say what the watcher knows, which clients were started, what each manager
plays and what the interfaces are built on; they hold when no notice is late.  One lemma
for each part has one step per action.

* `WindowTypeCorrect`, `NothingIsLeaked`: without any assumption;
* `DriversPlayLiveDSPs`, `WindowsOnScreenWork`, `UpdatesKeepPlaying`: when no notice is late.

**FileWatcher_proofs.** `ControlInv` says that the handler under way has a window and a source, that the
timer and the loops have the file they are for, and that every other open window has a source.  With
`TypeOK` and `WatchedUnderAllItsFiles` (every window is registered under every file it uses, except
the one being updated) it is inductive, whatever happens to the files.  The converse, that
nothing else is registered, is false when a source is deleted: `source_Deleted` empties the path
before the window closes, and the watcher keeps a window that is closed (section 5).
`KnownInv`, which adds the converse, that no watched file is missing and that the window under way is
registered nowhere, is inductive under `NamesKept`: no file is deleted or renamed.  It is a hypothesis of two theorems, and of the run `watcher`.

* `WindowsStayWatched`: with deletions, renamings and replacements;
* `WatcherKnowsTheWindows`, `LoopsCallOpenWindows`: under `NamesKept`.

**SessionCache_proofs.** None of the three invariants is inductive: what a window is restored from was
written many steps before, perhaps by another run of the program.  `SnapshotInv` says that the
copies of a snapshot are the programs of its windows; `LoopInv`, what each loop still has to do
and that the windows left are not open; `SavedInv`, from the moment the user quits to the next
start, that the settings are those of the windows to come back, that their programs are still
in the SHA folder while they are being copied, and that each window the loop of
`saveCurrentSources` has passed has its own program as a copy, or none; `RestoredInv` and `RecalledInv`, that the
source read for a window is one of those its settings and copy, or its snapshot, allow.  One
lemma per action, and lemmas for what actions share: the dates of the SHA folder
(`YoungestNames`, `CleanNames`, `CompileCache`), the settings (`CreateWindowStep`, `RecompileStep`),
the extraction of a snapshot under any numbering (`ExtractStep`), and that the smallest free
numbers are distinct (`NewNumbersOK`).  That a set of numbers has a smallest one is proved
without induction, from strict inclusion being well-founded on finite sets (`SmallestIn`).

* `RestoredWindowsAreAsSaved`, `SavedWindowsComeBack`, `SnapshotsAreRecalledAsTaken`;
* `ImportLeavesTheWindows`: an action property, which needs that the windows left to create are not open.

**Application_proofs.** `JobInv` says what the job under way still holds and `DiskInv` to whom each folder and
entry belongs: a window, a window of the session still to be opened, or a number left behind.
That numbers are distinct depends on the first: the windows still to open take none of the
numbers in use.

They hold with programs posted during the questions and while the program saves, and when a question
that closes as the last window ends the program.  `clashing` windows are excepted: such a program takes a
number that the session also has (section 5).  `RecentInv` says that the list
of recent files is filled from its first place on, has each file once, is never shorter than
the menu, and that the menu shows its beginning.  Without the second the first of two
equal paths alone would be removed; without the third a recalled list could be shorter than what
the settings hold.  It needs no induction: `Named`, the list without its empty paths, is
defined by counting.

* `ApplicationInvariant`, `NumbersAreDistinct`, `SessionIsThatOfTheWindows`;
* `RecentMenuIsRight`: for a menu of any length.

**AudioDrivers_proofs.** `CopiesInv` relates the four copies at each step of the loops, `ClientsInv` each
window that the loop has passed, or that no loop concerns, with the saved choice.  Lemmas
state what each function of `AudioCreator` does to the record.

* `DriversInvariant`, `SettingsAlwaysAgree`, `WindowsAlwaysFollow`, `CancelIsHarmless`.

**Network_proofs.** *Drop server.* `HandoverInv` says, at every step of either thread, whose program
the handover is about: there is one request at a time between the signal and the answer,
and the signal, the compilation and the answer follow each other.  `UploadsCounted` needs
lemmas on the cardinality of the connections in use.  Together with `DropTypeOK` and
`AnswersMatch` they are inductive.

* `AnswersAreNotMixed`, `ProgramsAreAlive`, `ConnectionsAreCounted`.

*Options of a window.* `FollowInv` says that an option that runs is the saved one unless its
signal is still to come or it is excused; `JobInv`, that the boxes asked for are what is saved and
shown until the last signal is handled.  `JobInv` is what makes the QR code safe: the second
call of `modifiedOptions` that `viewQRCode` makes can emit nothing but an update, so no interface
is asked for when a reset has left the window without DSP.  One lemma for each way a
handler can end (a new program, a failure, a silent window, OSC and HTTP on and off).

* `InterfacesInvariant` (with the part `InterfacesHaveDSP`: no interface without a DSP), `InterfacesAlwaysFollow`,
  `QRCodeAlwaysHasInterface`, `AppliedIsAlwaysShown`.

*Export.* `OwnInv` says that, as long as no answer to an earlier export was taken for its own, one reply at
most of the export of the dialog can be answered, whatever else is under way, and that the step, the
pointers and the marks are its own; `CancelledInv`, that there is none once the export is cancelled;
`RepliesInv`, that each pointer is to a reply of its kind.  Whether the dialog is shown plays no part in them.

* `ExportInvariant`, `OfferedIsAlwaysNamed`, `WrittenIsAlwaysNamed`, `CancelledIsAlwaysSilent`.

Every invariant and action property that a run checks is proved.  Left to TLC: liveness
(`UpdateEnds`, `FullVolume`, `ChangesReachWindows`, `PostsAreAnswered`,
`DeadServerIsReplaced`, `ExportEnds`), which the prover cannot do under fairness.  Nothing is
proved by induction over data.

## 5. What the models showed beyond the runs

Behaviours of the code that were met while modelling, without a run of their own:

* With `LateNotices = TRUE`, `DrivenDSPsLive` and `ShownWindowsWork` fail: an update of a
  window that is not on the screen any more.  `NothingIsLeaked` still holds.
* With JACK, a fade given up leaves the gain where it was: the next one starts lower
  (`AudioFader_Implementation.cpp:54`).
* With streams of their own, the end of an update is the end of the fade out only.  If the next
  update comes while the new stream still fades in, its fade out starts from the full volume
  (`AudioFader_Implementation.cpp:84` is tested before line 102): its level jumps up once.
  `Smooth` leaves that buffer out.
* NetJack's `wait_EndFade` (`NJs_audioManager.cpp:115`) ends both fades at once unless they are already over:
  a NetJack update is nearly always a cut.
* The cache may evict the program of a window that is open (`FLSessionManager.cpp:864`).  When the user
  quits, `saveCurrentSources` removes the copy of that window (line 896) and has nothing to copy;
  the next session has no such window.  Hence the condition on `kept` in `WindowsComeBack`.
* A file replaced by another of the same name (as many editors save) is no longer watched
  until the next update of its window; a file edited between its compilation and
  `startWatcher` changes unnoticed (`FLFileWatcher.cpp:42`).
* The deletion of an imported file disconnects the window from its own source
  (`FLFileWatcher.cpp:119`, `source_Deleted` has no argument).
* `dirChanged` calls windows without the test that `fileChanged` does at line 158.
* After a fade that cannot begin, the settings of the window describe the program it refused
  (`FLWindow.cpp:450`: `createDSP` has already written `Path` and `SHA`), and the next session
  restores it.
* A file renamed just before a window of its folder is registered again is taken for deleted,
  because `startWatcher` refreshes the list of the folder (`FLFileWatcher.cpp:53`).
* A snapshot taken after the program of a window was evicted holds an empty folder for it.
  Recalling or importing it empties that folder in the session too (`copySHAFolder` deletes
  before it copies, `FLSessionManager.cpp:1037`), even if another open window has that program
  in the meantime; the window becomes the empty program, and so do the other windows of its
  path.  Hence the conditions on `kept` in `WindowsComeBack` and `RecalledAsTaken`.
* A crash between `FLSessionManager.cpp:896` and `:899` leaves a window without its copy; the next session
  skips it.  After any other crash a window may be restored from the copy of an earlier
  session: the properties of SessionCache are about sessions that ended.
* Starting FaustLive with a file leaves the windows of the last session in the settings;
  their numbers are taken over one by one, and those that are left come back at the next start.
* Quitting releases one request (`FLServerHttp.cpp:56`); a second one that was ready in the
  same round waits for ever, and so does the thread that joins it.
* **Late callback.** A fade given up after 3 seconds (`JA_audioManager.cpp:91`) frees the buffers and the old
  DSP while the callback that was late may still be in its fade branch: `CallbackSafe` is about the
  callbacks that no update overlaps, and fails without that condition.
* **Closed but watched.** After `source_Deleted` (`FLWindow.cpp:488`) the window's path is empty, so
  `closeWindow` does not stop watching the source: the watcher keeps a window that is closed.
* **Two files, one timer.** Two files that change within two seconds share
  `fSourceToChanged` (`FLFileWatcher.cpp:137`): the first change is lost, where `Implementation.tex:377` says that the
  window is informed of each.
* **Drop port.** `changeDropPort` (`FLApp.cpp:1801`) joins the server's thread from the GUI thread; if that thread waits
  for the GUI thread to compile a request, both wait for ever.  Quitting releases the request first, but in
  two statements, for one request only.
* **Old copies.** Windows of the same path are restored from the copy of the first of them
  (`FLSessionManager.cpp:987`), though each may have had a different version: `SessionInv` allows it.
* **Sessions.** A POST served during the question of a restoration (`FLSessionManager.cpp:944-955`) creates a second
  window 1 and writes its entry into the group that is open (`clashing`).  The question itself, when it closes as
  the last window, ends the program (`fRecalling` is set at `FLApp.cpp:1201`, after it), although the comment at `FLApp.cpp:1303` says that
  the application can not be closed then; the restoration goes on in a program that quits.  One served while the last progress bar grows
  (`FLApp.cpp:1301-1326` has cleared the list) overwrites folder 1 of the saved session.  An early window
  (`FLApp.cpp:572-580`) keeps the session from being restored and inherits folder 1.  A session none of whose
  windows can be opened loses its entries (`FLApp.cpp:1199-1235`).  A window that failed, or was refused
  (`FLApp.cpp:693`), leaves its folder behind.
* **Audio.** `UserManual.tex:246` says that the previous driver is restored when a new one fails; the code saves
  whatever failed (`FLApp.cpp:1573-1587`).  Escape in the Preferences applies the audio edits.  A window
  created by a POST while the dialog previews a driver keeps it after Cancel.  The error of a dead server that
  is handled after the user has switched to another driver moves all windows to the first one
  (`FLWindow.cpp:1307-1313`).  When the first driver itself dies nothing is changed and the windows are silent.  CoreAudio writes
  the buffer size it was granted, so a later Cancel resets all windows.  A window whose source does
  not compile any more keeps its old, possibly dead, driver (`FLWindow.cpp:784-793`).
* **Interfaces.** The DSP is deleted before the OSC, HTTP and MIDI interfaces built on it
  (`FLWindow.cpp:434`, `:811`, `:1127`).  `viewQRCode` uses the HTTP interface without a test
  (`FLWindow.cpp:1485-1503`): if the default changed after the window opened, or if a reset in the same click left it
  without DSP, there is none (the exclusions of `QRCodeHasInterface`).  `FLToolBar.cpp:400` compares the level with 3,
  where the default of the tool bar and of the compiler is -1: on a new installation the first click recompiles.
  The QR code and OSC errors apply all pending edits; an update discards them.  A window that fails after it
  allocated its HTTP interface removes the declaration of the window that has that port.
* **Export.** `exportFile` does not disconnect the previous export: two that overlap mix key and target, data and
  name as soon as the earlier answer comes (`strayed`).  The escape key hides the dialog and cancels
  nothing: the hidden export goes on and its answer may stray into the next one.  A service that never
  answers leaves the dialog waiting, as no time out is set.  Closing the chooser with its box does not abort its
  request.  Cancelling before the list has come forgets the last choice, and an unreadable list empties the menus.

## 6. Not modelled

* **The samples.** DSPs are opaque; only their numbers of channels matter.
* **The compiler** is a step that succeeds or fails.
* **Layouts, menus as widgets, window geometry, the pages of GET requests, the JSON parser, the error, help and
  presentation windows**: they show values, or produce text.
* **Component creator** (`FLComponentWindow.cpp`, `FLComponentItem.cpp`): a form that composes one text from a grid of items, in one
  thread, with no step that can be interrupted.
* **`FLInterfaceManager`**: a list that nothing reads.
* **`utilities.cpp`**: the functions for compilation options (lines 262-413) are not called; the others are
  helpers for files.
* **NetJack master**: `AudioCreator::createFactory` has no case for it.
* **Remote processing**: compiled only with `REMOTE`, unfinished.
* **The headers of libmicrohttpd, PortAudio and other libraries** under `src/lib`: about a third of the lines of the repository,
  external.
* **Hazards without a property** (`note` in `PROJECT.json`): the late callback (`JA_audioManager.cpp:90`), what the settings say after
  a fade that cannot begin (`FLWindow.cpp:450`), late notices (`FLWindow.cpp:488`), two files and one timer
  (`FLFileWatcher.cpp:137`), what the system does not watch and the listing refreshed by `startWatcher` (`FLFileWatcher.cpp:42`, `:53`), a crash
  between the removal of a copy and the next (`FLSessionManager.cpp:896`), mixed versions (`:987`), `changeDropPort`
  (`FLApp.cpp:1801`): the code does not have the property one would state, see section 5.
* **A change of JACK's buffer size** during a fade (`JA_audioFader.cpp:158`), and the growth of the list of dependencies of a
  sound file (`FLWindow.cpp:173`).

## 7. Plan

| # | Module | Content | Theorems |
|---|---|---|---|
| 1 | `JackFader`, `Crossfade` | done | done |
| 2 | `WindowLifecycle` | done | done |
| 3 | `FileWatcher` | done | done |
| 4 | `HttpDropServer` | done | done |
| 5 | `SessionCache` | done | done |
| 6 | `StreamFader` | done | done |
| 7 | `Application` | done | done |
| 8 | `AudioDrivers` | done | done |
| 9 | `Interfaces` | done | done |
| 10 | `ExportManager` | done | done |
| 11 | `SettingsGroups` | left: the stack of groups of the general settings when questions nest | |
| 12 | pure algorithms | left: the component matrix against a reference definition | |
