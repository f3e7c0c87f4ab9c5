-------------------------- MODULE WindowLifecycle --------------------------
(***************************************************************************)
(* The windows of FaustLive and what each of them owns: a DSP and its      *)
(* factory (FLSessionManager), an audio manager, the interfaces built on    *)
(* the DSP, its settings (Path and SHA) and its place in the file watcher.  *)
(*                                                                         *)
(* Every handler runs to its end in the GUI thread, but while it runs the  *)
(* audio driver, and the threads of the interfaces, go on with whatever     *)
(* they were given: so a handler is a sequence of steps, cut wherever it    *)
(* creates, hands over or deletes something or may fail, and the           *)
(* properties are those of every step.                                      *)
(*                                                                         *)
(* A factory and the only DSP instance that a window makes of it are one    *)
(* member of Units: `factories` and `instances` say which of the two are    *)
(* allocated.  fDSPToFactory maps every live DSP to its factory.             *)
(***************************************************************************)
EXTENDS FiniteSets

CONSTANTS
  Windows,      \* the windows
  Files,        \* the paths of Faust files
  Codes,        \* Faust programs (also the text one can drop on a window)
  Units,        \* factories, each with its DSP instance
  None,         \* NULL, or an empty string
  LateNotices   \* may a window be notified of a file it no longer uses

ASSUME WindowLifecycleAssumption ==
  /\ None \notin Files \cup Codes \cup Units
  /\ Files \cap Codes = {}
  /\ LateNotices \in BOOLEAN

Sources == Files \cup Codes

VARIABLES
  disk,          \* what each file contains
  open,          \* the windows that exist (an FLWindow is allocated)
  shown,         \* the windows on the screen
  fSource,       \* FLWindow::fSource
  path, sha,     \* the Path and SHA settings of the window
  fMap,          \* the files under which the watcher knows the window
  fCurrentDSP,   \* FLWindow::fCurrentDSP
  built,         \* the DSP that the interfaces of the window are built on
  fClientOpen,   \* the windows whose audio client was started
  plays,         \* the DSP that the audio manager of the window plays
  fadesIn,       \* the DSP it is fading in
  running,       \* the windows whose DSPs the audio driver calls
  factories,     \* factories on the heap
  instances,     \* DSP instances on the heap (the keys of fDSPToFactory)
  code,          \* the program a factory was compiled from
  job, gui,      \* the handler the GUI thread is in, and its next step
  win,           \* the window of that handler
  wanted,        \* the source it compiles
  made           \* the factory it has just created

settings == <<fSource, path, sha>>
driver == <<plays, fadesIn, running>>
heap == <<factories, instances, code>>
control == <<job, gui, win, wanted, made>>
vars == <<disk, open, shown, settings, fMap, fCurrentDSP, built, fClientOpen,
          driver, heap, control>>

CodeOf(s) == IF s \in Files THEN disk[s] ELSE s
PathOf(s) == IF s \in Files THEN s ELSE None

Init ==
  /\ disk \in [Files -> Codes]
  /\ open = {} /\ shown = {} /\ fClientOpen = {}
  /\ fSource = [w \in Windows |-> None]
  /\ path = [w \in Windows |-> None] /\ sha = [w \in Windows |-> None]
  /\ fMap = [w \in Windows |-> {}]
  /\ fCurrentDSP = [w \in Windows |-> None]
  /\ built = [w \in Windows |-> None]
  /\ plays = [w \in Windows |-> None] /\ fadesIn = [w \in Windows |-> None] /\ running = {}
  /\ factories = {} /\ instances = {}
  /\ code = [u \in Units |-> None]
  /\ job = "none" /\ gui = "idle" /\ win = None /\ wanted = None /\ made = None

-----------------------------------------------------------------------------
(* Helpers: what several handlers do. *)

\* The GUI thread goes on with another step of the same handler.
Goto(step) == gui' = step /\ UNCHANGED <<job, win, wanted>>

\* The handler returns.
Return == job' = "none" /\ gui' = "idle" /\ win' = None /\ wanted' = None /\ made' = None

Begin(j, w, s, step) ==
  /\ gui = "idle"
  /\ job' = j /\ gui' = step /\ win' = w /\ wanted' = s /\ made' = None

\* start_stop_watcher(true) and start_stop_watcher(false), for the Path of the window.
StartWatching(w) ==
  fMap' = [fMap EXCEPT ![w] = IF path[w] = None THEN @ ELSE @ \cup {path[w]}]
StopWatching(w) == fMap' = [fMap EXCEPT ![w] = @ \ {path[w]}]

\* deleteDSPandFactory: nothing happens for NULL or an unknown DSP.
DeleteDSPandFactory(u) ==
  /\ instances' = instances \ {u}
  /\ factories' = IF u \in instances THEN factories \ {u} ELSE factories
  /\ UNCHANGED code

DeleteFactory(u) ==
  factories' = factories \ {u} /\ UNCHANGED <<instances, code>>

\* The window is deleted, with its settings.
Discard(w) ==
  /\ open' = open \ {w}
  /\ fSource' = [fSource EXCEPT ![w] = None]
  /\ path' = [path EXCEPT ![w] = None]
  /\ sha' = [sha EXCEPT ![w] = None]
  /\ fCurrentDSP' = [fCurrentDSP EXCEPT ![w] = None]
  /\ built' = [built EXCEPT ![w] = None]
  /\ plays' = [plays EXCEPT ![w] = None]
  /\ fadesIn' = [fadesIn EXCEPT ![w] = None]
  /\ running' = running \ {w}
  /\ fClientOpen' = fClientOpen \ {w}

window == <<open, settings, fCurrentDSP, built, driver, fClientOpen>>

-----------------------------------------------------------------------------
(* Variants of the definitions below, each with a bug. *)

CloseWithoutStop(w) ==
  /\ w \in open
  /\ Begin("close", w, None, "deleteDSP")
  /\ shown' = shown \ {w}
  /\ StopWatching(w)
  /\ UNCHANGED <<disk, window, heap>>

InitFadeWithoutDelete ==
  /\ gui = "initFade"
  /\ \/ Goto("startFade")
     \/ Goto("watch")
  /\ UNCHANGED <<disk, open, shown, settings, fMap, fCurrentDSP, built, fClientOpen,
                 driver, heap, made>>

DeleteInterfacesOnly ==
  /\ gui = "deleteInterfaces"
  /\ Goto("watch")
  /\ built' = [built EXCEPT ![win] = None]
  /\ UNCHANGED <<disk, open, shown, settings, fMap, fCurrentDSP, fClientOpen, driver, heap, made>>

CreateDSPFailsSilently ==
  /\ gui = "createDSP"
  /\ IF job = "update" THEN Goto("watch") /\ UNCHANGED made ELSE Return
  /\ CASE job = "init" -> Discard(win)
       [] job = "update" -> UNCHANGED window
       [] job = "reset" -> /\ fCurrentDSP' = [fCurrentDSP EXCEPT ![win] = None]
                           /\ UNCHANGED <<open, settings, built, driver, fClientOpen>>
  /\ UNCHANGED <<disk, shown, fMap, heap>>

\* A fade that cannot be initialised has already stopped the audio of the window.
InitFadeStopped ==
  /\ gui = "initFade"
  /\ \/ Goto("startFade") /\ UNCHANGED <<heap, running>>
     \/ Goto("watch") /\ DeleteDSPandFactory(made) /\ running' = running \ {win}
  /\ UNCHANGED <<disk, open, shown, settings, fMap, fCurrentDSP, built, fClientOpen, plays,
                 fadesIn, made>>

-----------------------------------------------------------------------------
(* The handlers: how they begin. *)

\* FLApp::createWindow and the constructor of FLWindow.  A window that the watcher
\* still knows under some file is gone for good: another object takes its number.
NewWindow(w, s) ==
  /\ w \notin open /\ fMap[w] = {}
  /\ Begin("init", w, s, "createFactory")
  /\ open' = open \cup {w}
  /\ fSource' = [fSource EXCEPT ![w] = s]
  /\ UNCHANGED <<disk, shown, path, sha, fMap, fCurrentDSP, built, fClientOpen, driver, heap>>

\* update_Window, up to the compilation.
UpdateWindow(w, s) ==
  /\ w \in open
  /\ Begin("update", w, s, "createFactory")
  /\ StopWatching(w)
  /\ shown' = shown \ {w}
  /\ UNCHANGED <<disk, window, heap>>

\* A drop, a paste, an example or an edition: the window is on the screen.
Drop(w, s) == w \in shown /\ UpdateWindow(w, s)

\* FLWindow::selfUpdate: the watcher saw a file of the window change.
SelfUpdate(w) ==
  /\ fMap[w] # {}
  /\ path[w] \in fMap[w] \/ LateNotices
  /\ UpdateWindow(w, fSource[w])

\* Another program rewrites a file.
EditFile(f, c) ==
  /\ gui = "idle"
  /\ disk' = [disk EXCEPT ![f] = c]
  /\ UNCHANGED <<open, shown, settings, fMap, fCurrentDSP, built, fClientOpen, driver, heap,
                 control>>

\* source_Deleted: the window goes on with the copy that the SHA folder holds.
SourceDeleted(w) ==
  /\ gui = "idle" /\ w \in open /\ fMap[w] # {}
  /\ path[w] \in fMap[w] \/ LateNotices
  /\ fSource' = [fSource EXCEPT ![w] = sha[w]]
  /\ path' = [path EXCEPT ![w] = None]
  /\ UNCHANGED <<disk, open, shown, sha, fMap, fCurrentDSP, built, fClientOpen, driver, heap,
                 control>>

\* resetAudioDSPInterfaces: the audio architecture (or polyphony) changed.
ResetAudio(w) ==
  /\ w \in open
  /\ Begin("reset", w, fSource[w], "createFactory")
  /\ UNCHANGED <<disk, shown, window, fMap, heap>>

\* closeWindow, up to the deletion of the DSP.
CloseWindow(w) ==
  /\ w \in open
  /\ Begin("close", w, None, "deleteDSP")
  /\ shown' = shown \ {w}
  /\ StopWatching(w)
  /\ running' = IF w \in fClientOpen THEN running \ {w} ELSE running
  /\ UNCHANGED <<plays, fadesIn>>
  /\ UNCHANGED <<disk, open, settings, fCurrentDSP, built, fClientOpen, heap>>

-----------------------------------------------------------------------------
(* The steps of the handlers. *)

\* FLSessionManager::createFactory, which compiles the source.
CreateFactory ==
  /\ gui = "createFactory"
  /\ \E u \in Units \ factories :
       /\ factories' = factories \cup {u}
       /\ code' = [code EXCEPT ![u] = CodeOf(wanted)]
       /\ made' = u
  /\ Goto(CASE job = "init" -> "initAudio"
            [] job = "update" -> "createDSP"
            [] job = "reset" -> "stopAudio")
  /\ UNCHANGED <<disk, shown, window, fMap, instances>>

\* The compilation fails: a window that was opening is discarded, an update goes to
\* its end, a reset leaves everything as it is.
CreateFactoryFails ==
  /\ gui = "createFactory"
  /\ IF job = "update" THEN Goto("watch") /\ UNCHANGED made ELSE Return
  /\ IF job = "init" THEN Discard(win) ELSE UNCHANGED window
  /\ UNCHANGED <<disk, shown, fMap, heap>>

\* init_audioClient of a new window.
InitAudio ==
  /\ gui = "initAudio"
  /\ \/ /\ Goto("createDSP")
        /\ UNCHANGED <<window, heap, made>>
     \/ /\ DeleteFactory(made)
        /\ Discard(win)
        /\ Return
  /\ UNCHANGED <<disk, shown, fMap>>

\* FLSessionManager::createDSP: the settings describe the new DSP from here on.
CreateDSP ==
  /\ gui = "createDSP"
  /\ instances' = instances \cup {made}
  /\ path' = [path EXCEPT ![win] = PathOf(wanted)]
  /\ sha' = [sha EXCEPT ![win] = code[made]]
  /\ fCurrentDSP' = IF job = "update" THEN fCurrentDSP ELSE [fCurrentDSP EXCEPT ![win] = made]
  /\ Goto(CASE job = "init" -> "build"
            [] job = "update" -> "initFade"
            [] job = "reset" -> "newManager")
  /\ UNCHANGED <<disk, open, shown, fSource, fMap, built, fClientOpen, driver, factories, code, made>>

CreateDSPFails ==
  /\ gui = "createDSP"
  /\ DeleteFactory(made)
  /\ IF job = "update" THEN Goto("watch") /\ UNCHANGED made ELSE Return
  /\ CASE job = "init" -> Discard(win)
       [] job = "update" -> UNCHANGED window
       [] job = "reset" -> /\ fCurrentDSP' = [fCurrentDSP EXCEPT ![win] = None]
                           /\ UNCHANGED <<open, settings, built, driver, fClientOpen>>
  /\ UNCHANGED <<disk, shown, fMap>>

\* AudioManager::init_FadeAudio.
InitFade ==
  /\ gui = "initFade"
  /\ \/ Goto("startFade") /\ UNCHANGED heap
     \/ Goto("watch") /\ DeleteDSPandFactory(made)
  /\ UNCHANGED <<disk, open, shown, settings, fMap, fCurrentDSP, built, fClientOpen, driver, made>>

\* AudioManager::start_Fade: both DSPs are played.
StartFade ==
  /\ gui = "startFade"
  /\ Goto("endFade")
  /\ fadesIn' = [fadesIn EXCEPT ![win] = made]
  /\ UNCHANGED <<plays, running>>
  /\ UNCHANGED <<disk, open, shown, settings, fMap, fCurrentDSP, built, fClientOpen, heap, made>>

\* AudioManager::wait_EndFade.  A driver with one client per DSP is left with the new
\* client, which may have failed to start.
EndFade ==
  /\ gui = "endFade"
  /\ Goto("swap")
  /\ plays' = [plays EXCEPT ![win] = made]
  /\ fadesIn' = [fadesIn EXCEPT ![win] = None]
  /\ running' \in {running \cup {win}, running \ {win}}
  /\ UNCHANGED <<disk, open, shown, settings, fMap, fCurrentDSP, built, fClientOpen, heap, made>>

\* update_Window takes the new DSP and deletes the old one.
SwapDSP ==
  /\ gui = "swap"
  /\ Goto("deleteInterfaces")
  /\ DeleteDSPandFactory(fCurrentDSP[win])
  /\ fCurrentDSP' = [fCurrentDSP EXCEPT ![win] = made]
  /\ UNCHANGED <<disk, open, shown, settings, fMap, built, fClientOpen, driver, made>>

DeleteInterfaces ==
  /\ gui = "deleteInterfaces"
  /\ Goto("build")
  /\ built' = [built EXCEPT ![win] = None]
  /\ UNCHANGED <<disk, open, shown, settings, fMap, fCurrentDSP, fClientOpen, driver, heap, made>>

\* allocateInterfaces and buildInterfaces, and fSource in update_Window.
BuildInterfaces ==
  /\ gui = "build"
  /\ built' = [built EXCEPT ![win] = fCurrentDSP[win]]
  /\ fSource' = IF job = "update" THEN [fSource EXCEPT ![win] = wanted] ELSE fSource
  /\ Goto(CASE job = "init" -> "setDSP"
            [] job = "update" -> "watch"
            [] job = "reset" -> "startAudio")
  /\ UNCHANGED <<disk, open, shown, path, sha, fMap, fCurrentDSP, fClientOpen, driver, heap, made>>

\* setDSP of a new window.
SetDSP ==
  /\ gui = "setDSP"
  /\ \/ /\ plays' = [plays EXCEPT ![win] = fCurrentDSP[win]]
        /\ Goto("startAudio")
        /\ UNCHANGED <<fadesIn, running, open, settings, fCurrentDSP, built, fClientOpen, heap, made>>
     \/ /\ DeleteDSPandFactory(fCurrentDSP[win])
        /\ Discard(win)
        /\ Return
  /\ UNCHANGED <<disk, shown, fMap>>

\* start_Audio (the result of AudioManager::start is not tested), then the window is
\* shown and watched.
StartAudio ==
  /\ gui = "startAudio"
  /\ running' \in {running, running \cup ({win} \ fClientOpen)}
  /\ UNCHANGED <<plays, fadesIn>>
  /\ fClientOpen' = fClientOpen \cup {win}
  /\ shown' = shown \cup {win}
  /\ StartWatching(win)
  /\ Return
  /\ UNCHANGED <<disk, open, settings, fCurrentDSP, built, heap>>

\* The end of update_Window, whatever happened.
EndUpdate ==
  /\ gui = "watch"
  /\ StartWatching(win)
  /\ shown' = shown \cup {win}
  /\ Return
  /\ UNCHANGED <<disk, window, heap>>

\* resetAudioDSPInterfaces after the compilation: the window is hidden and silent.
StopAudio ==
  /\ gui = "stopAudio"
  /\ Goto("deleteDSP")
  /\ shown' = shown \ {win}
  /\ StopWatching(win)
  /\ running' = IF win \in fClientOpen THEN running \ {win} ELSE running
  /\ UNCHANGED <<plays, fadesIn>>
  /\ fClientOpen' = fClientOpen \ {win}
  /\ UNCHANGED <<disk, open, settings, fCurrentDSP, built, heap, made>>

\* deleteDSPandFactory(fCurrentDSP) in a reset and in closeWindow.
DeleteDSP ==
  /\ gui = "deleteDSP"
  /\ DeleteDSPandFactory(fCurrentDSP[win])
  /\ fCurrentDSP' = IF job = "close" THEN [fCurrentDSP EXCEPT ![win] = None] ELSE fCurrentDSP
  /\ Goto("deleteInterfacesOf")
  /\ UNCHANGED <<disk, open, shown, settings, fMap, built, fClientOpen, driver, made>>

DeleteInterfacesOf ==
  /\ gui = "deleteInterfacesOf"
  /\ built' = [built EXCEPT ![win] = None]
  /\ Goto(IF job = "close" THEN "deleteWindow" ELSE "createDSP")
  /\ UNCHANGED <<disk, open, shown, settings, fMap, fCurrentDSP, fClientOpen, driver, heap, made>>

\* update_AudioArchitecture: a new manager gets the new DSP; if one of the two fails the
\* window stays as it is, without interfaces, silent and hidden.
NewManager ==
  /\ gui = "newManager"
  /\ \/ /\ plays' = [plays EXCEPT ![win] = fCurrentDSP[win]]
        /\ Goto("build") /\ UNCHANGED made
     \/ /\ plays' = [plays EXCEPT ![win] = None]
        /\ Return
  /\ fadesIn' = [fadesIn EXCEPT ![win] = None]
  /\ running' = running \ {win}
  /\ UNCHANGED <<disk, open, shown, settings, fMap, fCurrentDSP, built, fClientOpen, heap>>

\* The end of closeWindow, and the deletion of the window and of its settings.
DeleteWindow ==
  /\ gui = "deleteWindow"
  /\ Discard(win)
  /\ Return
  /\ UNCHANGED <<disk, shown, fMap, heap>>

Handler ==
  \/ \E w \in Windows, s \in Sources : NewWindow(w, s) \/ Drop(w, s)
  \/ \E w \in Windows : SelfUpdate(w) \/ SourceDeleted(w) \/ ResetAudio(w) \/ CloseWindow(w)

Step ==
  \/ CreateFactory \/ CreateFactoryFails \/ InitAudio \/ CreateDSP \/ CreateDSPFails
  \/ InitFade \/ StartFade \/ EndFade \/ SwapDSP \/ DeleteInterfaces \/ BuildInterfaces
  \/ SetDSP \/ StartAudio \/ EndUpdate \/ StopAudio \/ DeleteDSP \/ DeleteInterfacesOf
  \/ NewManager \/ DeleteWindow

Next == Handler \/ Step \/ \E f \in Files, c \in Codes : EditFile(f, c)

Spec == Init /\ [][Next]_vars

-----------------------------------------------------------------------------
(* Properties. *)

\* The steps of each handler.
StepsOf(j) ==
  CASE j = "none" -> {"idle"}
    [] j = "init" -> {"createFactory", "initAudio", "createDSP", "build", "setDSP", "startAudio"}
    [] j = "update" -> {"createFactory", "createDSP", "initFade", "startFade", "endFade", "swap",
                        "deleteInterfaces", "build", "watch"}
    [] j = "reset" -> {"createFactory", "stopAudio", "deleteDSP", "deleteInterfacesOf", "createDSP",
                       "newManager", "build", "startAudio"}
    [] j = "close" -> {"deleteDSP", "deleteInterfacesOf", "deleteWindow"}

\* The types, group by group.
WindowTypes ==
  /\ disk \in [Files -> Codes]
  /\ open \subseteq Windows /\ shown \subseteq open /\ fClientOpen \subseteq open
  /\ fSource \in [Windows -> Sources \cup {None}]
  /\ path \in [Windows -> Files \cup {None}]
  /\ sha \in [Windows -> Codes \cup {None}]
  /\ fMap \in [Windows -> SUBSET Files]

AudioTypes ==
  /\ fCurrentDSP \in [Windows -> Units \cup {None}]
  /\ built \in [Windows -> Units \cup {None}]
  /\ plays \in [Windows -> Units \cup {None}]
  /\ fadesIn \in [Windows -> Units \cup {None}]
  /\ running \subseteq Windows

HeapTypes ==
  /\ factories \subseteq Units /\ instances \subseteq Units
  /\ code \in [Units -> Codes \cup {None}]

ControlTypes ==
  /\ job \in {"none", "init", "update", "reset", "close"} /\ gui \in StepsOf(job)
  /\ win \in Windows \cup {None} /\ wanted \in Sources \cup {None}
  /\ made \in Units \cup {None}

\* Every variable holds a value of its type, and the GUI thread is at a step of its handler.
TypeOK == WindowTypes /\ AudioTypes /\ HeapTypes /\ ControlTypes

\* Steps at which the factory that was just made has no instance yet.
InFlight == job # "close" /\ gui \in {"initAudio", "createDSP", "stopAudio", "deleteDSP", "deleteInterfacesOf"}

\* Steps of an update at which the new DSP is not yet the one of the window.
FadingIn == gui \in {"initFade", "startFade", "endFade", "swap"}

\* Steps of a reset at which the window points to a DSP that was deleted.
Dangling == job = "reset" /\ gui \in {"deleteInterfacesOf", "createDSP"}

\* The inductive form of Ownership: who owns what at every step.
HeapInv ==
  /\ gui # "idle" => win \in open
  /\ job \in {"init", "update", "close"} => win \notin shown
  /\ \A w \in Windows \ open : fCurrentDSP[w] = None
  /\ \A v, w \in Windows : fCurrentDSP[v] = fCurrentDSP[w] /\ fCurrentDSP[v] # None => v = w
  /\ \A w \in Windows :
       fCurrentDSP[w] \in instances \/ fCurrentDSP[w] = None \/ (Dangling /\ w = win)
  /\ Dangling => fCurrentDSP[win] \notin instances
  /\ \A u \in instances : (\E w \in Windows : fCurrentDSP[w] = u) \/ (FadingIn /\ u = made)
  /\ \A u \in factories : u \in instances \/ (InFlight /\ u = made)
  /\ instances \subseteq factories
  /\ InFlight => made \in factories \ instances
  /\ FadingIn => made \in instances
  /\ InFlight \/ FadingIn => \A w \in Windows : fCurrentDSP[w] # made
  /\ job = "init" /\ gui \in {"createFactory", "initAudio", "createDSP"} => fCurrentDSP[win] = None
  /\ gui \in {"setDSP", "startAudio", "newManager", "deleteInterfaces", "build"} =>
       fCurrentDSP[win] \in instances
  /\ gui \in {"deleteInterfaces", "build"} /\ job = "update" => fCurrentDSP[win] = made
  /\ job = "close" /\ gui # "deleteDSP" => fCurrentDSP[win] = None

\* What the watcher knows of a window, when no notice is late.
WatchInv ==
  /\ \A w \in Windows : fSource[w] \in fMap[w] => fSource[w] = path[w]
  /\ \A w \in Windows : path[w] \in fMap[w] => w \in fClientOpen
  /\ \A w \in shown : path[w] \in fMap[w] \cup {None}
  /\ job = "init" => fMap[win] = {}
  /\ job = "update" /\ gui \in {"createFactory", "createDSP"} => path[win] \notin fMap[win]
  /\ FadingIn \/ (job = "update" /\ gui \in {"deleteInterfaces", "build"}) => path[win] = PathOf(wanted)
  /\ job = "reset" => wanted = fSource[win]
  /\ job = "reset" /\ gui \notin {"createFactory", "stopAudio"} =>
        path[win] \notin fMap[win] /\ fSource[win] \notin fMap[win]

\* Whose audio client is started, when no notice is late.
OpenInv ==
  /\ shown \subseteq fClientOpen
  /\ \A w \in fClientOpen : w \in shown \/ (w = win /\ job \in {"update", "close"})
  /\ job = "update" => win \in fClientOpen
  /\ job = "init" => win \notin fClientOpen
  /\ job = "reset" /\ gui \notin {"createFactory", "stopAudio"} => win \notin fClientOpen

\* What the audio manager of a window plays, when no notice is late.
DriverInv ==
  /\ job = "close" => win \notin running
  /\ running \subseteq fClientOpen
  /\ \A w \in Windows : fadesIn[w] # None => gui = "endFade" /\ w = win /\ fadesIn[w] = made
  /\ \A w \in fClientOpen :
       \/ plays[w] = fCurrentDSP[w] /\ plays[w] \in instances
       \/ w = win /\ job = "close"
       \/ w = win /\ gui = "swap"
  /\ gui = "endFade" => fadesIn[win] = made
  /\ gui = "swap" => plays[win] = made
  /\ gui \in {"startAudio", "deleteInterfaces"} \/ (gui = "build" /\ job # "init") =>
       plays[win] = fCurrentDSP[win]

\* What the interfaces of a window are built on.
InterfaceInv ==
  /\ \A w \in shown : built[w] = fCurrentDSP[w]
  /\ job = "update" /\ gui \notin {"deleteInterfaces", "build"} => built[win] = fCurrentDSP[win]
  /\ gui \in {"setDSP", "startAudio"} => built[win] = fCurrentDSP[win]

\* The inductive invariant.
IInv == TypeOK /\ HeapInv /\ WatchInv /\ OpenInv /\ DriverInv /\ InterfaceInv

\* Whatever succeeded or failed, once a handler has returned every factory and every DSP
\* on the heap is the one of exactly one window: none is leaked, none is shared, and no
\* window holds a deleted one.
Ownership ==
  gui = "idle" =>
    /\ factories = instances
    /\ instances = {fCurrentDSP[w] : w \in open} \ {None}
    /\ \A v, w \in open : fCurrentDSP[v] = fCurrentDSP[w] /\ v # w => fCurrentDSP[v] = None

\* A driver that runs never plays a DSP that was deleted, at any step of any handler.
DrivenDSPsLive ==
  \A w \in running :
    /\ plays[w] \in instances
    /\ fadesIn[w] \in instances \cup {None}

\* Once a handler has returned, a window on the screen is a window that works: its audio
\* client was started on its DSP, its interfaces are built on that DSP, and the watcher
\* knows it under its file.
ShownWindowsWork ==
  gui = "idle" => \A w \in shown :
    /\ w \in fClientOpen
    /\ fCurrentDSP[w] \in instances
    /\ plays[w] = fCurrentDSP[w] /\ built[w] = fCurrentDSP[w]
    /\ path[w] \in fMap[w] \cup {None}

\* "The current DSP keeps playing" (FLWindow.cpp:450): a window whose DSP the driver calls goes
\* on being heard at every step of an update, its own or another window's, whatever fails in it;
\* the driver goes to another DSP only when it was fading that one in.  One step is excepted, the
\* end of the fade: a driver with a client for each DSP stops the old client although the new one
\* may not have started (start_Fade only prints that), and the window is then left silent.
UpdateKeepsPlaying ==
  [][job = "update" => \A w \in running :
       /\ plays'[w] \in {plays[w], fadesIn[w]}
       /\ plays'[w] \in instances'
       /\ w \in running' \/ (fadesIn[w] # None /\ plays'[w] = fadesIn[w])]_vars
=============================================================================
