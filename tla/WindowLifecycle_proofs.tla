----------------------- MODULE WindowLifecycle_proofs ----------------------
(***************************************************************************)
(* Proofs about WindowLifecycle, for any number of windows, files, programs *)
(* and units.  Each part of the inductive invariant has a lemma with a step *)
(* per action; HeapInv needs no assumption on LateNotices, the other parts  *)
(* hold when no notice is late.                                            *)
(***************************************************************************)
EXTENDS WindowLifecycle, TLAPS

\* Which handlers a step belongs to.
StepFitsJob ==
  /\ job \in {"none", "init", "update", "reset", "close"}
  /\ job = "none" <=> gui = "idle"
  /\ gui \in {"initAudio", "setDSP"} => job = "init"
  /\ gui \in {"initFade", "startFade", "endFade", "swap", "deleteInterfaces", "watch"} => job = "update"
  /\ gui \in {"stopAudio", "newManager"} => job = "reset"
  /\ gui = "deleteWindow" => job = "close"
  /\ gui \in {"createFactory", "createDSP", "build"} => job \in {"init", "update", "reset"}
  /\ gui = "startAudio" => job \in {"init", "reset"}
  /\ gui \in {"deleteDSP", "deleteInterfacesOf"} => job \in {"reset", "close"}

\* Every step of the GUI thread is a step of a handler that has it.
LEMMA StepOfJob == TypeOK => StepFitsJob
BY DEF TypeOK, ControlTypes, StepsOf, StepFitsJob

\* No step of any handler loses the account of who owns which factory and which DSP.
LEMMA HeapPreserved == TypeOK /\ HeapInv /\ [Next]_vars => HeapInv'
<1> SUFFICES ASSUME TypeOK, HeapInv, [Next]_vars PROVE HeapInv'
  OBVIOUS
<1>t. /\ fCurrentDSP \in [Windows -> Units \cup {None}]
      /\ win \in Windows \cup {None} /\ made \in Units \cup {None} /\ None \notin Units
      /\ factories \subseteq Units /\ instances \subseteq Units
      /\ open \subseteq Windows /\ shown \subseteq open
  BY WindowLifecycleAssumption
  DEF TypeOK, WindowTypes, AudioTypes, HeapTypes, ControlTypes, WindowLifecycleAssumption
<1>s. StepFitsJob
  BY StepOfJob
<1> USE
  DEF HeapInv, InFlight, FadingIn, Dangling, StepFitsJob, Goto, Return, Begin,
      DeleteDSPandFactory, DeleteFactory
<1>1. ASSUME NEW w \in Windows, NEW s \in Sources, NewWindow(w, s) PROVE HeapInv'
  BY <1>1, <1>t, <1>s DEF NewWindow, heap
<1>2. ASSUME NEW w \in Windows, NEW s \in Sources, Drop(w, s) PROVE HeapInv'
  BY <1>2, <1>t, <1>s DEF Drop, UpdateWindow, heap, window, settings
<1>3. ASSUME NEW w \in Windows, SelfUpdate(w) PROVE HeapInv'
  BY <1>3, <1>t, <1>s DEF SelfUpdate, UpdateWindow, heap, window, settings
<1>4. ASSUME NEW w \in Windows, SourceDeleted(w) PROVE HeapInv'
  BY <1>4, <1>t, <1>s DEF SourceDeleted, heap, control
<1>5. ASSUME NEW w \in Windows, ResetAudio(w) PROVE HeapInv'
  BY <1>5, <1>t, <1>s DEF ResetAudio, heap, window, settings
<1>6. ASSUME NEW w \in Windows, CloseWindow(w) PROVE HeapInv'
  BY <1>6, <1>t, <1>s DEF CloseWindow, heap, settings
<1>7. ASSUME NEW f \in Files, NEW c \in Codes, EditFile(f, c) PROVE HeapInv'
  BY <1>7, <1>t, <1>s DEF EditFile, heap, settings, control
<1>8. CASE CreateFactory
  <2>1. CASE job = "init"
    BY <2>1, <1>8, <1>t, <1>s DEF CreateFactory, window, settings
  <2>2. CASE job = "update"
    BY <2>2, <1>8, <1>t, <1>s DEF CreateFactory, window, settings
  <2>3. CASE job = "reset"
    BY <2>3, <1>8, <1>t, <1>s DEF CreateFactory, window, settings
  <2> QED BY <2>1, <2>2, <2>3, <1>8, <1>t, <1>s DEF CreateFactory
<1>9. CASE CreateFactoryFails
  <2>1. CASE job = "init"
    BY <2>1, <1>9, <1>t, <1>s DEF CreateFactoryFails, Discard, window, settings, heap
  <2>2. CASE job = "update"
    BY <2>2, <1>9, <1>t, <1>s DEF CreateFactoryFails, Discard, window, settings, heap
  <2>3. CASE job = "reset"
    BY <2>3, <1>9, <1>t, <1>s DEF CreateFactoryFails, Discard, window, settings, heap
  <2> QED BY <2>1, <2>2, <2>3, <1>9, <1>t, <1>s DEF CreateFactoryFails
<1>10. CASE InitAudio
  BY <1>10, <1>t, <1>s DEF InitAudio, Discard, window, settings, heap
<1>11. CASE CreateDSP
  <2>1. CASE job = "init"
    BY <2>1, <1>11, <1>t, <1>s DEF CreateDSP
  <2>2. CASE job = "update"
    BY <2>2, <1>11, <1>t, <1>s DEF CreateDSP
  <2>3. CASE job = "reset"
    BY <2>3, <1>11, <1>t, <1>s DEF CreateDSP
  <2> QED BY <2>1, <2>2, <2>3, <1>11, <1>t, <1>s DEF CreateDSP
<1>12. CASE CreateDSPFails
  <2>1. CASE job = "init"
    BY <2>1, <1>12, <1>t, <1>s DEF CreateDSPFails, Discard, window, settings
  <2>2. CASE job = "update"
    BY <2>2, <1>12, <1>t, <1>s DEF CreateDSPFails, Discard, window, settings
  <2>3. CASE job = "reset"
    BY <2>3, <1>12, <1>t, <1>s DEF CreateDSPFails, Discard, window, settings
  <2> QED BY <2>1, <2>2, <2>3, <1>12, <1>t, <1>s DEF CreateDSPFails
<1>13. CASE InitFade
  BY <1>13, <1>t, <1>s DEF InitFade, heap, settings
<1>14. CASE StartFade
  BY <1>14, <1>t, <1>s DEF StartFade, heap, settings
<1>15. CASE EndFade
  BY <1>15, <1>t, <1>s DEF EndFade, heap, settings
<1>16. CASE SwapDSP
  <2>1. fCurrentDSP' = [fCurrentDSP EXCEPT ![win] = made] /\ instances' = instances \ {fCurrentDSP[win]}
        /\ UNCHANGED <<open, shown, win, job, made>> /\ gui = "swap" /\ gui' = "deleteInterfaces" /\ job = "update"
    BY <1>16, <1>s DEF SwapDSP
  <2>2. factories' = factories \ {fCurrentDSP[win]}
    BY <1>16, <1>t DEF SwapDSP
  <2>3. win \in Windows
    BY <2>1, <1>t
  <2>4. \A w \in Windows : fCurrentDSP'[w] = IF w = win THEN made ELSE fCurrentDSP[w]
    BY <2>1, <1>t
  <2> QED BY <2>1, <2>2, <2>3, <2>4, <1>t
<1>17. CASE DeleteInterfaces
  BY <1>17, <1>t, <1>s DEF DeleteInterfaces, heap, settings
<1>18. CASE BuildInterfaces
  <2>1. CASE job = "init"
    BY <2>1, <1>18, <1>t, <1>s DEF BuildInterfaces, heap
  <2>2. CASE job = "update"
    BY <2>2, <1>18, <1>t, <1>s DEF BuildInterfaces, heap
  <2>3. CASE job = "reset"
    BY <2>3, <1>18, <1>t, <1>s DEF BuildInterfaces, heap
  <2> QED BY <2>1, <2>2, <2>3, <1>18, <1>t, <1>s DEF BuildInterfaces
<1>19. CASE SetDSP
  BY <1>19, <1>t, <1>s DEF SetDSP, Discard, heap, settings
<1>20. CASE StartAudio
  BY <1>20, <1>t, <1>s DEF StartAudio, heap, settings
<1>21. CASE EndUpdate
  BY <1>21, <1>t, <1>s DEF EndUpdate, heap, window, settings
<1>22. CASE StopAudio
  BY <1>22, <1>t, <1>s DEF StopAudio, heap, settings
<1>23. CASE DeleteDSP
  <2>1. CASE job = "reset"
    BY <2>1, <1>23, <1>t, <1>s DEF DeleteDSP, settings
  <2>2. CASE job = "close"
    BY <2>2, <1>23, <1>t, <1>s DEF DeleteDSP, settings
  <2> QED BY <2>1, <2>2, <1>23, <1>t, <1>s DEF DeleteDSP
<1>24. CASE DeleteInterfacesOf
  <2>1. CASE job = "reset"
    BY <2>1, <1>24, <1>t, <1>s DEF DeleteInterfacesOf, heap, settings
  <2>2. CASE job = "close"
    BY <2>2, <1>24, <1>t, <1>s DEF DeleteInterfacesOf, heap, settings
  <2> QED BY <2>1, <2>2, <1>24, <1>t, <1>s DEF DeleteInterfacesOf
<1>25. CASE NewManager
  BY <1>25, <1>t, <1>s DEF NewManager, heap, settings
<1>26. CASE DeleteWindow
  BY <1>26, <1>t, <1>s DEF DeleteWindow, Discard, heap
<1>27. CASE UNCHANGED vars
  BY <1>27, <1>t, <1>s DEF vars, heap, settings, control, driver
<1> QED
  BY <1>1, <1>2, <1>3, <1>4, <1>5, <1>6, <1>7, <1>8, <1>9, <1>10, <1>11, <1>12, <1>13, <1>14,
     <1>15, <1>16, <1>17, <1>18, <1>19, <1>20, <1>21, <1>22, <1>23, <1>24, <1>25, <1>26, <1>27
  DEF Next, Handler, Step

\* HeapTypes is preserved.
LEMMA HeapTypesPreserved == TypeOK /\ HeapInv /\ [Next]_vars => HeapTypes'
<1> SUFFICES ASSUME TypeOK, HeapInv, [Next]_vars PROVE HeapTypes'
  OBVIOUS
<1>t. /\ None \notin Files \cup Codes \cup Units
      /\ gui # "idle" => win \in Windows
      /\ gui \in {"createDSP", "initFade", "startFade", "endFade", "swap"} => made \in Units
  BY WindowLifecycleAssumption, StepOfJob
  DEF WindowLifecycleAssumption, TypeOK, WindowTypes, HeapTypes, HeapInv, InFlight, FadingIn,
      StepFitsJob
<1>s. StepFitsJob
  BY StepOfJob
<1> USE
  DEF TypeOK, HeapTypes, ControlTypes, WindowTypes, DeleteDSPandFactory, DeleteFactory,
      CodeOf, Sources, StepFitsJob, StepsOf
<1>1. CASE CreateFactory
  <2>1. CASE job = "init"
    BY <2>1, <1>1, <1>t, <1>s DEF CreateFactory, window, settings
  <2>2. CASE job = "update"
    BY <2>2, <1>1, <1>t, <1>s DEF CreateFactory, window, settings
  <2>3. CASE job = "reset"
    BY <2>3, <1>1, <1>t, <1>s DEF CreateFactory, window, settings
  <2> QED BY <2>1, <2>2, <2>3, <1>1, <1>t, <1>s DEF CreateFactory
<1>2. CASE InitAudio
  BY <1>2, <1>t, <1>s DEF InitAudio, Discard, window, settings, heap
<1>3. CASE CreateDSP
  <2>1. CASE job = "init"
    BY <2>1, <1>3, <1>t, <1>s DEF CreateDSP
  <2>2. CASE job = "update"
    BY <2>2, <1>3, <1>t, <1>s DEF CreateDSP
  <2>3. CASE job = "reset"
    BY <2>3, <1>3, <1>t, <1>s DEF CreateDSP
  <2> QED BY <2>1, <2>2, <2>3, <1>3, <1>t, <1>s DEF CreateDSP
<1>4. CASE CreateDSPFails
  <2>1. CASE job = "init"
    BY <2>1, <1>4, <1>t, <1>s DEF CreateDSPFails, Discard, window, settings
  <2>2. CASE job = "update"
    BY <2>2, <1>4, <1>t, <1>s DEF CreateDSPFails, Discard, window, settings
  <2>3. CASE job = "reset"
    BY <2>3, <1>4, <1>t, <1>s DEF CreateDSPFails, Discard, window, settings
  <2> QED BY <2>1, <2>2, <2>3, <1>4, <1>t, <1>s DEF CreateDSPFails
<1>5. CASE InitFade
  BY <1>5, <1>t, <1>s DEF InitFade, heap, settings
<1>6. CASE SwapDSP
  BY <1>6, <1>t, <1>s DEF SwapDSP, settings
<1>7. CASE SetDSP
  BY <1>7, <1>t, <1>s DEF SetDSP, Discard, heap, settings
<1>8. CASE DeleteDSP
  <2>1. CASE job = "reset"
    BY <2>1, <1>8, <1>t, <1>s DEF DeleteDSP, settings
  <2>2. CASE job = "close"
    BY <2>2, <1>8, <1>t, <1>s DEF DeleteDSP, settings
  <2> QED BY <2>1, <2>2, <1>8, <1>t, <1>s DEF DeleteDSP
<1>9. CASE UNCHANGED vars
  BY <1>9, <1>t, <1>s DEF vars, heap, settings, control, driver
<1>10. CASE
    \/ \E w \in Windows, s \in Sources : NewWindow(w, s)
    \/ \E w \in Windows, s \in Sources : Drop(w, s)
    \/ \E w \in Windows : SelfUpdate(w)
    \/ \E w \in Windows : SourceDeleted(w)
    \/ \E w \in Windows : ResetAudio(w)
    \/ \E w \in Windows : CloseWindow(w)
    \/ \E f \in Files, c \in Codes : EditFile(f, c)
    \/ CreateFactoryFails
    \/ StartFade
    \/ EndFade
    \/ DeleteInterfaces
    \/ BuildInterfaces
    \/ StartAudio
    \/ EndUpdate
    \/ StopAudio
    \/ DeleteInterfacesOf
    \/ NewManager
    \/ DeleteWindow
  BY <1>10, <1>t, <1>s
    DEF BuildInterfaces, CloseWindow, CreateFactoryFails, DeleteInterfaces, DeleteInterfacesOf,
        DeleteWindow, Discard, Drop, EditFile, EndFade, EndUpdate, NewManager, NewWindow,
        ResetAudio, SelfUpdate, SourceDeleted, StartAudio, StartFade, StopAudio, UpdateWindow,
        control, heap, settings, window
<1> QED BY <1>1, <1>2, <1>3, <1>4, <1>5, <1>6, <1>7, <1>8, <1>9, <1>10 DEF Next, Handler, Step

\* ControlTypes is preserved.
LEMMA ControlTypesPreserved == TypeOK /\ HeapInv /\ [Next]_vars => ControlTypes'
<1> SUFFICES ASSUME TypeOK, HeapInv, [Next]_vars PROVE ControlTypes'
  OBVIOUS
<1>t. /\ None \notin Files \cup Codes \cup Units
      /\ gui # "idle" => win \in Windows
      /\ gui \in {"createDSP", "initFade", "startFade", "endFade", "swap"} => made \in Units
  BY WindowLifecycleAssumption, StepOfJob
  DEF WindowLifecycleAssumption, TypeOK, WindowTypes, HeapTypes, HeapInv, InFlight, FadingIn,
      StepFitsJob
<1>s. StepFitsJob
  BY StepOfJob
<1> USE
  DEF TypeOK, ControlTypes, WindowTypes, HeapTypes, Begin, Goto, Return, StepFitsJob, StepsOf,
      Sources
<1>1. ASSUME NEW w \in Windows, NEW s \in Sources, NewWindow(w, s) PROVE ControlTypes'
  BY <1>1, <1>t, <1>s DEF NewWindow, heap
<1>2. ASSUME NEW w \in Windows, NEW s \in Sources, Drop(w, s) PROVE ControlTypes'
  BY <1>2, <1>t, <1>s DEF Drop, UpdateWindow, heap, window, settings
<1>3. ASSUME NEW w \in Windows, SelfUpdate(w) PROVE ControlTypes'
  BY <1>3, <1>t, <1>s DEF SelfUpdate, UpdateWindow, heap, window, settings
<1>4. ASSUME NEW w \in Windows, SourceDeleted(w) PROVE ControlTypes'
  BY <1>4, <1>t, <1>s DEF SourceDeleted, heap, control
<1>5. ASSUME NEW w \in Windows, ResetAudio(w) PROVE ControlTypes'
  BY <1>5, <1>t, <1>s DEF ResetAudio, heap, window, settings
<1>6. ASSUME NEW w \in Windows, CloseWindow(w) PROVE ControlTypes'
  BY <1>6, <1>t, <1>s DEF CloseWindow, heap, settings
<1>7. ASSUME NEW f \in Files, NEW c \in Codes, EditFile(f, c) PROVE ControlTypes'
  BY <1>7, <1>t, <1>s DEF EditFile, heap, settings, control
<1>8. CASE CreateFactory
  <2>1. CASE job = "init"
    BY <2>1, <1>8, <1>t, <1>s DEF CreateFactory, window, settings
  <2>2. CASE job = "update"
    BY <2>2, <1>8, <1>t, <1>s DEF CreateFactory, window, settings
  <2>3. CASE job = "reset"
    BY <2>3, <1>8, <1>t, <1>s DEF CreateFactory, window, settings
  <2> QED BY <2>1, <2>2, <2>3, <1>8, <1>t, <1>s DEF CreateFactory
<1>9. CASE CreateFactoryFails
  <2>1. CASE job = "init"
    BY <2>1, <1>9, <1>t, <1>s DEF CreateFactoryFails, Discard, window, settings, heap
  <2>2. CASE job = "update"
    BY <2>2, <1>9, <1>t, <1>s DEF CreateFactoryFails, Discard, window, settings, heap
  <2>3. CASE job = "reset"
    BY <2>3, <1>9, <1>t, <1>s DEF CreateFactoryFails, Discard, window, settings, heap
  <2> QED BY <2>1, <2>2, <2>3, <1>9, <1>t, <1>s DEF CreateFactoryFails
<1>10. CASE InitAudio
  BY <1>10, <1>t, <1>s DEF InitAudio, Discard, window, settings, heap
<1>11. CASE CreateDSP
  <2>1. CASE job = "init"
    BY <2>1, <1>11, <1>t, <1>s DEF CreateDSP
  <2>2. CASE job = "update"
    BY <2>2, <1>11, <1>t, <1>s DEF CreateDSP
  <2>3. CASE job = "reset"
    BY <2>3, <1>11, <1>t, <1>s DEF CreateDSP
  <2> QED BY <2>1, <2>2, <2>3, <1>11, <1>t, <1>s DEF CreateDSP
<1>12. CASE CreateDSPFails
  <2>1. CASE job = "init"
    BY <2>1, <1>12, <1>t, <1>s DEF CreateDSPFails, Discard, window, settings
  <2>2. CASE job = "update"
    BY <2>2, <1>12, <1>t, <1>s DEF CreateDSPFails, Discard, window, settings
  <2>3. CASE job = "reset"
    BY <2>3, <1>12, <1>t, <1>s DEF CreateDSPFails, Discard, window, settings
  <2> QED BY <2>1, <2>2, <2>3, <1>12, <1>t, <1>s DEF CreateDSPFails
<1>13. CASE InitFade
  BY <1>13, <1>t, <1>s DEF InitFade, heap, settings
<1>14. CASE StartFade
  BY <1>14, <1>t, <1>s DEF StartFade, heap, settings
<1>15. CASE EndFade
  BY <1>15, <1>t, <1>s DEF EndFade, heap, settings
<1>16. CASE SwapDSP
  BY <1>16, <1>t, <1>s DEF SwapDSP, settings
<1>17. CASE DeleteInterfaces
  BY <1>17, <1>t, <1>s DEF DeleteInterfaces, heap, settings
<1>18. CASE BuildInterfaces
  <2>1. CASE job = "init"
    BY <2>1, <1>18, <1>t, <1>s DEF BuildInterfaces, heap
  <2>2. CASE job = "update"
    BY <2>2, <1>18, <1>t, <1>s DEF BuildInterfaces, heap
  <2>3. CASE job = "reset"
    BY <2>3, <1>18, <1>t, <1>s DEF BuildInterfaces, heap
  <2> QED BY <2>1, <2>2, <2>3, <1>18, <1>t, <1>s DEF BuildInterfaces
<1>19. CASE SetDSP
  BY <1>19, <1>t, <1>s DEF SetDSP, Discard, heap, settings
<1>20. CASE StartAudio
  BY <1>20, <1>t, <1>s DEF StartAudio, heap, settings
<1>21. CASE EndUpdate
  BY <1>21, <1>t, <1>s DEF EndUpdate, heap, window, settings
<1>22. CASE StopAudio
  BY <1>22, <1>t, <1>s DEF StopAudio, heap, settings
<1>23. CASE DeleteDSP
  <2>1. CASE job = "reset"
    BY <2>1, <1>23, <1>t, <1>s DEF DeleteDSP, settings
  <2>2. CASE job = "close"
    BY <2>2, <1>23, <1>t, <1>s DEF DeleteDSP, settings
  <2> QED BY <2>1, <2>2, <1>23, <1>t, <1>s DEF DeleteDSP
<1>24. CASE DeleteInterfacesOf
  <2>1. CASE job = "reset"
    BY <2>1, <1>24, <1>t, <1>s DEF DeleteInterfacesOf, heap, settings
  <2>2. CASE job = "close"
    BY <2>2, <1>24, <1>t, <1>s DEF DeleteInterfacesOf, heap, settings
  <2> QED BY <2>1, <2>2, <1>24, <1>t, <1>s DEF DeleteInterfacesOf
<1>25. CASE NewManager
  BY <1>25, <1>t, <1>s DEF NewManager, heap, settings
<1>26. CASE DeleteWindow
  BY <1>26, <1>t, <1>s DEF DeleteWindow, Discard, heap
<1>27. CASE UNCHANGED vars
  BY <1>27, <1>t, <1>s DEF vars, heap, settings, control, driver
<1> QED
  BY <1>1, <1>2, <1>3, <1>4, <1>5, <1>6, <1>7, <1>8, <1>9, <1>10, <1>11, <1>12, <1>13, <1>14,
     <1>15, <1>16, <1>17, <1>18, <1>19, <1>20, <1>21, <1>22, <1>23, <1>24, <1>25, <1>26, <1>27
  DEF Next, Handler, Step

\* AudioTypes is preserved.
LEMMA AudioTypesPreserved == TypeOK /\ HeapInv /\ [Next]_vars => AudioTypes'
<1> SUFFICES ASSUME TypeOK, HeapInv, [Next]_vars PROVE AudioTypes'
  OBVIOUS
<1>t. /\ None \notin Files \cup Codes \cup Units
      /\ gui # "idle" => win \in Windows
      /\ gui \in {"createDSP", "initFade", "startFade", "endFade", "swap"} => made \in Units
  BY WindowLifecycleAssumption, StepOfJob
  DEF WindowLifecycleAssumption, TypeOK, WindowTypes, HeapTypes, HeapInv, InFlight, FadingIn,
      StepFitsJob
<1>s. StepFitsJob
  BY StepOfJob
<1> USE DEF TypeOK, AudioTypes, ControlTypes, WindowTypes, StepFitsJob, driver
<1>1. ASSUME NEW w \in Windows, NEW s \in Sources, NewWindow(w, s) PROVE AudioTypes'
  BY <1>1, <1>t, <1>s DEF NewWindow, heap
<1>2. ASSUME NEW w \in Windows, NEW s \in Sources, Drop(w, s) PROVE AudioTypes'
  BY <1>2, <1>t, <1>s DEF Drop, UpdateWindow, heap, window, settings
<1>3. ASSUME NEW w \in Windows, SelfUpdate(w) PROVE AudioTypes'
  BY <1>3, <1>t, <1>s DEF SelfUpdate, UpdateWindow, heap, window, settings
<1>4. ASSUME NEW w \in Windows, SourceDeleted(w) PROVE AudioTypes'
  BY <1>4, <1>t, <1>s DEF SourceDeleted, heap, control
<1>5. ASSUME NEW w \in Windows, ResetAudio(w) PROVE AudioTypes'
  BY <1>5, <1>t, <1>s DEF ResetAudio, heap, window, settings
<1>6. ASSUME NEW w \in Windows, CloseWindow(w) PROVE AudioTypes'
  BY <1>6, <1>t, <1>s DEF CloseWindow, heap, settings
<1>7. ASSUME NEW f \in Files, NEW c \in Codes, EditFile(f, c) PROVE AudioTypes'
  BY <1>7, <1>t, <1>s DEF EditFile, heap, settings, control
<1>8. CASE CreateFactory
  <2>1. CASE job = "init"
    BY <2>1, <1>8, <1>t, <1>s DEF CreateFactory, window, settings
  <2>2. CASE job = "update"
    BY <2>2, <1>8, <1>t, <1>s DEF CreateFactory, window, settings
  <2>3. CASE job = "reset"
    BY <2>3, <1>8, <1>t, <1>s DEF CreateFactory, window, settings
  <2> QED BY <2>1, <2>2, <2>3, <1>8, <1>t, <1>s DEF CreateFactory
<1>9. CASE CreateFactoryFails
  <2>1. CASE job = "init"
    BY <2>1, <1>9, <1>t, <1>s DEF CreateFactoryFails, Discard, window, settings, heap
  <2>2. CASE job = "update"
    BY <2>2, <1>9, <1>t, <1>s DEF CreateFactoryFails, Discard, window, settings, heap
  <2>3. CASE job = "reset"
    BY <2>3, <1>9, <1>t, <1>s DEF CreateFactoryFails, Discard, window, settings, heap
  <2> QED BY <2>1, <2>2, <2>3, <1>9, <1>t, <1>s DEF CreateFactoryFails
<1>10. CASE InitAudio
  BY <1>10, <1>t, <1>s DEF InitAudio, Discard, window, settings, heap
<1>11. CASE CreateDSP
  <2>1. CASE job = "init"
    BY <2>1, <1>11, <1>t, <1>s DEF CreateDSP
  <2>2. CASE job = "update"
    BY <2>2, <1>11, <1>t, <1>s DEF CreateDSP
  <2>3. CASE job = "reset"
    BY <2>3, <1>11, <1>t, <1>s DEF CreateDSP
  <2> QED BY <2>1, <2>2, <2>3, <1>11, <1>t, <1>s DEF CreateDSP
<1>12. CASE CreateDSPFails
  <2>1. CASE job = "init"
    BY <2>1, <1>12, <1>t, <1>s DEF CreateDSPFails, Discard, window, settings
  <2>2. CASE job = "update"
    BY <2>2, <1>12, <1>t, <1>s DEF CreateDSPFails, Discard, window, settings
  <2>3. CASE job = "reset"
    BY <2>3, <1>12, <1>t, <1>s DEF CreateDSPFails, Discard, window, settings
  <2> QED BY <2>1, <2>2, <2>3, <1>12, <1>t, <1>s DEF CreateDSPFails
<1>13. CASE InitFade
  BY <1>13, <1>t, <1>s DEF InitFade, heap, settings
<1>14. CASE StartFade
  BY <1>14, <1>t, <1>s DEF StartFade, heap, settings
<1>15. CASE EndFade
  BY <1>15, <1>t, <1>s DEF EndFade, heap, settings
<1>16. CASE SwapDSP
  BY <1>16, <1>t, <1>s DEF SwapDSP, settings
<1>17. CASE DeleteInterfaces
  BY <1>17, <1>t, <1>s DEF DeleteInterfaces, heap, settings
<1>18. CASE BuildInterfaces
  <2>1. CASE job = "init"
    BY <2>1, <1>18, <1>t, <1>s DEF BuildInterfaces, heap
  <2>2. CASE job = "update"
    BY <2>2, <1>18, <1>t, <1>s DEF BuildInterfaces, heap
  <2>3. CASE job = "reset"
    BY <2>3, <1>18, <1>t, <1>s DEF BuildInterfaces, heap
  <2> QED BY <2>1, <2>2, <2>3, <1>18, <1>t, <1>s DEF BuildInterfaces
<1>19. CASE SetDSP
  BY <1>19, <1>t, <1>s DEF SetDSP, Discard, heap, settings
<1>20. CASE StartAudio
  BY <1>20, <1>t, <1>s DEF StartAudio, heap, settings
<1>21. CASE EndUpdate
  BY <1>21, <1>t, <1>s DEF EndUpdate, heap, window, settings
<1>22. CASE StopAudio
  BY <1>22, <1>t, <1>s DEF StopAudio, heap, settings
<1>23. CASE DeleteDSP
  <2>1. CASE job = "reset"
    BY <2>1, <1>23, <1>t, <1>s DEF DeleteDSP, settings
  <2>2. CASE job = "close"
    BY <2>2, <1>23, <1>t, <1>s DEF DeleteDSP, settings
  <2> QED BY <2>1, <2>2, <1>23, <1>t, <1>s DEF DeleteDSP
<1>24. CASE DeleteInterfacesOf
  <2>1. CASE job = "reset"
    BY <2>1, <1>24, <1>t, <1>s DEF DeleteInterfacesOf, heap, settings
  <2>2. CASE job = "close"
    BY <2>2, <1>24, <1>t, <1>s DEF DeleteInterfacesOf, heap, settings
  <2> QED BY <2>1, <2>2, <1>24, <1>t, <1>s DEF DeleteInterfacesOf
<1>25. CASE NewManager
  BY <1>25, <1>t, <1>s DEF NewManager, heap, settings
<1>26. CASE DeleteWindow
  BY <1>26, <1>t, <1>s DEF DeleteWindow, Discard, heap
<1>27. CASE UNCHANGED vars
  BY <1>27, <1>t, <1>s DEF vars, heap, settings, control, driver
<1> QED
  BY <1>1, <1>2, <1>3, <1>4, <1>5, <1>6, <1>7, <1>8, <1>9, <1>10, <1>11, <1>12, <1>13, <1>14,
     <1>15, <1>16, <1>17, <1>18, <1>19, <1>20, <1>21, <1>22, <1>23, <1>24, <1>25, <1>26, <1>27
  DEF Next, Handler, Step

\* WindowTypes is preserved.
LEMMA WindowTypesPreserved == TypeOK /\ HeapInv /\ [Next]_vars => WindowTypes'
<1> SUFFICES ASSUME TypeOK, HeapInv, [Next]_vars PROVE WindowTypes'
  OBVIOUS
<1>t. /\ None \notin Files \cup Codes \cup Units
      /\ gui # "idle" => win \in Windows
      /\ gui \in {"createDSP", "initFade", "startFade", "endFade", "swap"} => made \in Units
  BY WindowLifecycleAssumption, StepOfJob
  DEF WindowLifecycleAssumption, TypeOK, WindowTypes, HeapTypes, HeapInv, InFlight, FadingIn,
      StepFitsJob
<1>s. StepFitsJob
  BY StepOfJob
<1> USE
  DEF TypeOK, WindowTypes, ControlTypes, HeapTypes, HeapInv, StartWatching, StopWatching,
      PathOf, Sources, StepFitsJob
<1>1. ASSUME NEW w \in Windows, NEW s \in Sources, NewWindow(w, s) PROVE WindowTypes'
  BY <1>1, <1>t, <1>s DEF NewWindow, heap
<1>2. ASSUME NEW w \in Windows, NEW s \in Sources, Drop(w, s) PROVE WindowTypes'
  BY <1>2, <1>t, <1>s DEF Drop, UpdateWindow, heap, window, settings
<1>3. ASSUME NEW w \in Windows, SelfUpdate(w) PROVE WindowTypes'
  BY <1>3, <1>t, <1>s DEF SelfUpdate, UpdateWindow, heap, window, settings
<1>4. ASSUME NEW w \in Windows, SourceDeleted(w) PROVE WindowTypes'
  BY <1>4, <1>t, <1>s DEF SourceDeleted, heap, control
<1>5. ASSUME NEW w \in Windows, ResetAudio(w) PROVE WindowTypes'
  BY <1>5, <1>t, <1>s DEF ResetAudio, heap, window, settings
<1>6. ASSUME NEW w \in Windows, CloseWindow(w) PROVE WindowTypes'
  BY <1>6, <1>t, <1>s DEF CloseWindow, heap, settings
<1>7. ASSUME NEW f \in Files, NEW c \in Codes, EditFile(f, c) PROVE WindowTypes'
  BY <1>7, <1>t, <1>s DEF EditFile, heap, settings, control
<1>8. CASE CreateFactory
  <2>1. CASE job = "init"
    BY <2>1, <1>8, <1>t, <1>s DEF CreateFactory, window, settings
  <2>2. CASE job = "update"
    BY <2>2, <1>8, <1>t, <1>s DEF CreateFactory, window, settings
  <2>3. CASE job = "reset"
    BY <2>3, <1>8, <1>t, <1>s DEF CreateFactory, window, settings
  <2> QED BY <2>1, <2>2, <2>3, <1>8, <1>t, <1>s DEF CreateFactory
<1>9. CASE CreateFactoryFails
  <2>1. CASE job = "init"
    BY <2>1, <1>9, <1>t, <1>s DEF CreateFactoryFails, Discard, window, settings, heap
  <2>2. CASE job = "update"
    BY <2>2, <1>9, <1>t, <1>s DEF CreateFactoryFails, Discard, window, settings, heap
  <2>3. CASE job = "reset"
    BY <2>3, <1>9, <1>t, <1>s DEF CreateFactoryFails, Discard, window, settings, heap
  <2> QED BY <2>1, <2>2, <2>3, <1>9, <1>t, <1>s DEF CreateFactoryFails
<1>10. CASE InitAudio
  BY <1>10, <1>t, <1>s DEF InitAudio, Discard, window, settings, heap
<1>11. CASE CreateDSP
  <2>1. CASE job = "init"
    BY <2>1, <1>11, <1>t, <1>s DEF CreateDSP
  <2>2. CASE job = "update"
    BY <2>2, <1>11, <1>t, <1>s DEF CreateDSP
  <2>3. CASE job = "reset"
    BY <2>3, <1>11, <1>t, <1>s DEF CreateDSP
  <2> QED BY <2>1, <2>2, <2>3, <1>11, <1>t, <1>s DEF CreateDSP
<1>12. CASE CreateDSPFails
  <2>1. CASE job = "init"
    BY <2>1, <1>12, <1>t, <1>s DEF CreateDSPFails, Discard, window, settings
  <2>2. CASE job = "update"
    BY <2>2, <1>12, <1>t, <1>s DEF CreateDSPFails, Discard, window, settings
  <2>3. CASE job = "reset"
    BY <2>3, <1>12, <1>t, <1>s DEF CreateDSPFails, Discard, window, settings
  <2> QED BY <2>1, <2>2, <2>3, <1>12, <1>t, <1>s DEF CreateDSPFails
<1>13. CASE InitFade
  BY <1>13, <1>t, <1>s DEF InitFade, heap, settings
<1>14. CASE StartFade
  BY <1>14, <1>t, <1>s DEF StartFade, heap, settings
<1>15. CASE EndFade
  BY <1>15, <1>t, <1>s DEF EndFade, heap, settings
<1>16. CASE SwapDSP
  BY <1>16, <1>t, <1>s DEF SwapDSP, settings
<1>17. CASE DeleteInterfaces
  BY <1>17, <1>t, <1>s DEF DeleteInterfaces, heap, settings
<1>18. CASE BuildInterfaces
  <2>1. CASE job = "init"
    BY <2>1, <1>18, <1>t, <1>s DEF BuildInterfaces, heap
  <2>2. CASE job = "update"
    BY <2>2, <1>18, <1>t, <1>s DEF BuildInterfaces, heap
  <2>3. CASE job = "reset"
    BY <2>3, <1>18, <1>t, <1>s DEF BuildInterfaces, heap
  <2> QED BY <2>1, <2>2, <2>3, <1>18, <1>t, <1>s DEF BuildInterfaces
<1>19. CASE SetDSP
  BY <1>19, <1>t, <1>s DEF SetDSP, Discard, heap, settings
<1>20. CASE StartAudio
  BY <1>20, <1>t, <1>s DEF StartAudio, heap, settings
<1>21. CASE EndUpdate
  BY <1>21, <1>t, <1>s DEF EndUpdate, heap, window, settings
<1>22. CASE StopAudio
  BY <1>22, <1>t, <1>s DEF StopAudio, heap, settings
<1>23. CASE DeleteDSP
  <2>1. CASE job = "reset"
    BY <2>1, <1>23, <1>t, <1>s DEF DeleteDSP, settings
  <2>2. CASE job = "close"
    BY <2>2, <1>23, <1>t, <1>s DEF DeleteDSP, settings
  <2> QED BY <2>1, <2>2, <1>23, <1>t, <1>s DEF DeleteDSP
<1>24. CASE DeleteInterfacesOf
  <2>1. CASE job = "reset"
    BY <2>1, <1>24, <1>t, <1>s DEF DeleteInterfacesOf, heap, settings
  <2>2. CASE job = "close"
    BY <2>2, <1>24, <1>t, <1>s DEF DeleteInterfacesOf, heap, settings
  <2> QED BY <2>1, <2>2, <1>24, <1>t, <1>s DEF DeleteInterfacesOf
<1>25. CASE NewManager
  BY <1>25, <1>t, <1>s DEF NewManager, heap, settings
<1>26. CASE DeleteWindow
  BY <1>26, <1>t, <1>s DEF DeleteWindow, Discard, heap
<1>27. CASE UNCHANGED vars
  BY <1>27, <1>t, <1>s DEF vars, heap, settings, control, driver
<1> QED
  BY <1>1, <1>2, <1>3, <1>4, <1>5, <1>6, <1>7, <1>8, <1>9, <1>10, <1>11, <1>12, <1>13, <1>14,
     <1>15, <1>16, <1>17, <1>18, <1>19, <1>20, <1>21, <1>22, <1>23, <1>24, <1>25, <1>26, <1>27
  DEF Next, Handler, Step

\* The initial state: no window, nothing on the heap, the GUI thread idle.
LEMMA InitInv == Init => IInv
BY WindowLifecycleAssumption
DEF WindowLifecycleAssumption, Init, IInv, TypeOK, WindowTypes, AudioTypes, HeapTypes, ControlTypes, HeapInv,
    WatchInv, OpenInv, DriverInv, InterfaceInv, StepsOf, Sources, InFlight, FadingIn, Dangling

\* What the watcher knows of the windows.
LEMMA WatchPreserved ==
  TypeOK /\ HeapInv /\ WatchInv /\ OpenInv /\ ~LateNotices /\ [Next]_vars => WatchInv'
<1> SUFFICES ASSUME TypeOK, HeapInv, WatchInv, OpenInv, ~LateNotices, [Next]_vars PROVE WatchInv'
  OBVIOUS
<1>t. /\ None \notin Files
      /\ fMap \in [Windows -> SUBSET Files] /\ path \in [Windows -> Files \cup {None}]
      /\ fSource \in [Windows -> Sources \cup {None}]
      /\ sha \in [Windows -> Codes \cup {None}] /\ Files \cap Codes = {}
      /\ open \subseteq Windows /\ shown \subseteq open /\ fClientOpen \subseteq open
      /\ win \in Windows \cup {None} /\ (gui # "idle" => win \in Windows)
      /\ (job \in {"init", "update", "close"} => win \notin shown)
      /\ job = "update" => win \in fClientOpen
      /\ job = "reset" /\ gui \notin {"createFactory", "stopAudio"} => win \notin fClientOpen
      /\ shown \subseteq fClientOpen
  BY WindowLifecycleAssumption
  DEF TypeOK, WindowTypes, ControlTypes, HeapInv, OpenInv, WindowLifecycleAssumption
<1>s. StepFitsJob
  BY StepOfJob
<1> USE
  DEF WatchInv, FadingIn, StartWatching, StopWatching, PathOf, StepFitsJob, Goto, Return,
      Begin
<1>1. ASSUME NEW w \in Windows, NEW s \in Sources, NewWindow(w, s) PROVE WatchInv'
  BY <1>1, <1>t, <1>s DEF NewWindow, heap
<1>2. ASSUME NEW w \in Windows, NEW s \in Sources, Drop(w, s) PROVE WatchInv'
  BY <1>2, <1>t, <1>s DEF Drop, UpdateWindow, heap, window, settings
<1>3. ASSUME NEW w \in Windows, SelfUpdate(w) PROVE WatchInv'
  BY <1>3, <1>t, <1>s DEF SelfUpdate, UpdateWindow, heap, window, settings
<1>4. ASSUME NEW w \in Windows, SourceDeleted(w) PROVE WatchInv'
  BY <1>4, <1>t, <1>s DEF SourceDeleted, heap, control
<1>5. ASSUME NEW w \in Windows, ResetAudio(w) PROVE WatchInv'
  BY <1>5, <1>t, <1>s DEF ResetAudio, heap, window, settings
<1>6. ASSUME NEW w \in Windows, CloseWindow(w) PROVE WatchInv'
  BY <1>6, <1>t, <1>s DEF CloseWindow, heap, settings
<1>7. ASSUME NEW f \in Files, NEW c \in Codes, EditFile(f, c) PROVE WatchInv'
  BY <1>7, <1>t, <1>s DEF EditFile, heap, settings, control
<1>8. CASE CreateFactory
  <2>1. CASE job = "init"
    BY <2>1, <1>8, <1>t, <1>s DEF CreateFactory, window, settings
  <2>2. CASE job = "update"
    BY <2>2, <1>8, <1>t, <1>s DEF CreateFactory, window, settings
  <2>3. CASE job = "reset"
    BY <2>3, <1>8, <1>t, <1>s DEF CreateFactory, window, settings
  <2> QED BY <2>1, <2>2, <2>3, <1>8, <1>t, <1>s DEF CreateFactory
<1>9. CASE CreateFactoryFails
  <2>1. CASE job = "init"
    BY <2>1, <1>9, <1>t, <1>s DEF CreateFactoryFails, Discard, window, settings, heap
  <2>2. CASE job = "update"
    BY <2>2, <1>9, <1>t, <1>s DEF CreateFactoryFails, Discard, window, settings, heap
  <2>3. CASE job = "reset"
    BY <2>3, <1>9, <1>t, <1>s DEF CreateFactoryFails, Discard, window, settings, heap
  <2> QED BY <2>1, <2>2, <2>3, <1>9, <1>t, <1>s DEF CreateFactoryFails
<1>10. CASE InitAudio
  BY <1>10, <1>t, <1>s DEF InitAudio, Discard, window, settings, heap
<1>11. CASE CreateDSP
  <2>1. path' = [path EXCEPT ![win] = PathOf(wanted)] /\ UNCHANGED <<fMap, fSource, fClientOpen, shown, win, job, wanted>>
    BY <1>11 DEF CreateDSP
  <2>2. fSource[win] \notin fMap[win] \/ job = "init"
    BY <1>11, <1>t, <1>s DEF CreateDSP
  <2>3. job = "reset" => PathOf(wanted) \notin fMap[win]
    BY <2>2, <1>11, <1>t DEF CreateDSP
  <2>4. gui = "createDSP" /\ win \in Windows /\ gui' = (CASE job = "init" -> "build" [] job = "update" -> "initFade" [] job = "reset" -> "newManager")
    BY <1>11, <1>t DEF CreateDSP
  <2>5. CASE job = "init"
    BY <2>1, <2>4, <2>5, <1>t, <1>s
  <2>6. CASE job = "update"
    BY <2>1, <2>2, <2>4, <2>6, <1>t, <1>s
  <2>7. CASE job = "reset"
    BY <2>1, <2>2, <2>3, <2>4, <2>7, <1>t, <1>s
  <2> QED BY <2>4, <2>5, <2>6, <2>7, <1>s
<1>12. CASE CreateDSPFails
  <2>1. CASE job = "init"
    BY <2>1, <1>12, <1>t, <1>s DEF CreateDSPFails, Discard, window, settings
  <2>2. CASE job = "update"
    BY <2>2, <1>12, <1>t, <1>s DEF CreateDSPFails, Discard, window, settings
  <2>3. CASE job = "reset"
    BY <2>3, <1>12, <1>t, <1>s DEF CreateDSPFails, Discard, window, settings
  <2> QED BY <2>1, <2>2, <2>3, <1>12, <1>t, <1>s DEF CreateDSPFails
<1>13. CASE InitFade
  BY <1>13, <1>t, <1>s DEF InitFade, heap, settings
<1>14. CASE StartFade
  BY <1>14, <1>t, <1>s DEF StartFade, heap, settings
<1>15. CASE EndFade
  BY <1>15, <1>t, <1>s DEF EndFade, heap, settings
<1>16. CASE SwapDSP
  BY <1>16, <1>t, <1>s DEF SwapDSP, settings
<1>17. CASE DeleteInterfaces
  BY <1>17, <1>t, <1>s DEF DeleteInterfaces, heap, settings
<1>18. CASE BuildInterfaces
  <2>1. CASE job = "init"
    BY <2>1, <1>18, <1>t, <1>s DEF BuildInterfaces, heap
  <2>2. CASE job = "update"
    BY <2>2, <1>18, <1>t, <1>s DEF BuildInterfaces, heap
  <2>3. CASE job = "reset"
    BY <2>3, <1>18, <1>t, <1>s DEF BuildInterfaces, heap
  <2> QED BY <2>1, <2>2, <2>3, <1>18, <1>t, <1>s DEF BuildInterfaces
<1>19. CASE SetDSP
  BY <1>19, <1>t, <1>s DEF SetDSP, Discard, heap, settings
<1>20. CASE StartAudio
  BY <1>20, <1>t, <1>s DEF StartAudio, heap, settings
<1>21. CASE EndUpdate
  BY <1>21, <1>t, <1>s DEF EndUpdate, heap, window, settings
<1>22. CASE StopAudio
  BY <1>22, <1>t, <1>s DEF StopAudio, heap, settings
<1>23. CASE DeleteDSP
  <2>1. CASE job = "reset"
    BY <2>1, <1>23, <1>t, <1>s DEF DeleteDSP, settings
  <2>2. CASE job = "close"
    BY <2>2, <1>23, <1>t, <1>s DEF DeleteDSP, settings
  <2> QED BY <2>1, <2>2, <1>23, <1>t, <1>s DEF DeleteDSP
<1>24. CASE DeleteInterfacesOf
  <2>1. CASE job = "reset"
    BY <2>1, <1>24, <1>t, <1>s DEF DeleteInterfacesOf, heap, settings
  <2>2. CASE job = "close"
    BY <2>2, <1>24, <1>t, <1>s DEF DeleteInterfacesOf, heap, settings
  <2> QED BY <2>1, <2>2, <1>24, <1>t, <1>s DEF DeleteInterfacesOf
<1>25. CASE NewManager
  BY <1>25, <1>t, <1>s DEF NewManager, heap, settings
<1>26. CASE DeleteWindow
  BY <1>26, <1>t, <1>s DEF DeleteWindow, Discard, heap
<1>27. CASE UNCHANGED vars
  BY <1>27, <1>t, <1>s DEF vars, heap, settings, control, driver
<1> QED
  BY <1>1, <1>2, <1>3, <1>4, <1>5, <1>6, <1>7, <1>8, <1>9, <1>10, <1>11, <1>12, <1>13, <1>14,
     <1>15, <1>16, <1>17, <1>18, <1>19, <1>20, <1>21, <1>22, <1>23, <1>24, <1>25, <1>26, <1>27
  DEF Next, Handler, Step

\* What the interfaces are built on.
LEMMA InterfacePreserved ==
  TypeOK /\ HeapInv /\ WatchInv /\ OpenInv /\ InterfaceInv /\ ~LateNotices /\ [Next]_vars => InterfaceInv'
<1> SUFFICES ASSUME TypeOK, HeapInv, WatchInv, OpenInv, InterfaceInv, ~LateNotices, [Next]_vars
             PROVE InterfaceInv'
  OBVIOUS
<1>t. /\ None \notin Files /\ None \notin Units
      /\ open \subseteq Windows /\ shown \subseteq open /\ fClientOpen \subseteq open
      /\ win \in Windows \cup {None} /\ (gui # "idle" => win \in Windows /\ win \in open)
      /\ job \in {"init", "update", "close"} => win \notin shown
      /\ built \in [Windows -> Units \cup {None}] /\ fCurrentDSP \in [Windows -> Units \cup {None}]
      /\ job = "reset" /\ gui \notin {"createFactory", "stopAudio"} => win \notin shown
  BY WindowLifecycleAssumption
  DEF TypeOK, WindowTypes, AudioTypes, ControlTypes, HeapInv, OpenInv, WindowLifecycleAssumption
<1>s. StepFitsJob
  BY StepOfJob
<1> USE DEF InterfaceInv, StepFitsJob, Goto, Return, Begin
<1>1. ASSUME NEW w \in Windows, NEW s \in Sources, NewWindow(w, s) PROVE InterfaceInv'
  BY <1>1, <1>t, <1>s DEF NewWindow, heap
<1>2. ASSUME NEW w \in Windows, NEW s \in Sources, Drop(w, s) PROVE InterfaceInv'
  BY <1>2, <1>t, <1>s DEF Drop, UpdateWindow, heap, window, settings
<1>3. ASSUME NEW w \in Windows, SelfUpdate(w) PROVE InterfaceInv'
  <2>1. w \in shown /\ w \in open
    BY <1>3, <1>s DEF SelfUpdate, UpdateWindow, WatchInv, OpenInv
  <2> QED BY <2>1, <1>3, <1>t, <1>s DEF SelfUpdate, UpdateWindow, window, settings
<1>4. ASSUME NEW w \in Windows, SourceDeleted(w) PROVE InterfaceInv'
  BY <1>4, <1>t, <1>s DEF SourceDeleted, heap, control
<1>5. ASSUME NEW w \in Windows, ResetAudio(w) PROVE InterfaceInv'
  BY <1>5, <1>t, <1>s DEF ResetAudio, heap, window, settings
<1>6. ASSUME NEW w \in Windows, CloseWindow(w) PROVE InterfaceInv'
  BY <1>6, <1>t, <1>s DEF CloseWindow, heap, settings
<1>7. ASSUME NEW f \in Files, NEW c \in Codes, EditFile(f, c) PROVE InterfaceInv'
  BY <1>7, <1>t, <1>s DEF EditFile, heap, settings, control
<1>8. CASE CreateFactory
  <2>1. CASE job = "init"
    BY <2>1, <1>8, <1>t, <1>s DEF CreateFactory, window, settings
  <2>2. CASE job = "update"
    BY <2>2, <1>8, <1>t, <1>s DEF CreateFactory, window, settings
  <2>3. CASE job = "reset"
    BY <2>3, <1>8, <1>t, <1>s DEF CreateFactory, window, settings
  <2> QED BY <2>1, <2>2, <2>3, <1>8, <1>t, <1>s DEF CreateFactory
<1>9. CASE CreateFactoryFails
  <2>1. CASE job = "init"
    BY <2>1, <1>9, <1>t, <1>s DEF CreateFactoryFails, Discard, window, settings, heap
  <2>2. CASE job = "update"
    BY <2>2, <1>9, <1>t, <1>s DEF CreateFactoryFails, Discard, window, settings, heap
  <2>3. CASE job = "reset"
    BY <2>3, <1>9, <1>t, <1>s DEF CreateFactoryFails, Discard, window, settings, heap
  <2> QED BY <2>1, <2>2, <2>3, <1>9, <1>t, <1>s DEF CreateFactoryFails
<1>10. CASE InitAudio
  BY <1>10, <1>t, <1>s DEF InitAudio, Discard, window, settings, heap
<1>11. CASE CreateDSP
  <2>1. CASE job = "init"
    BY <2>1, <1>11, <1>t, <1>s DEF CreateDSP
  <2>2. CASE job = "update"
    BY <2>2, <1>11, <1>t, <1>s DEF CreateDSP
  <2>3. CASE job = "reset"
    BY <2>3, <1>11, <1>t, <1>s DEF CreateDSP
  <2> QED BY <2>1, <2>2, <2>3, <1>11, <1>t, <1>s DEF CreateDSP
<1>12. CASE CreateDSPFails
  <2>1. CASE job = "init"
    BY <2>1, <1>12, <1>t, <1>s DEF CreateDSPFails, Discard, window, settings
  <2>2. CASE job = "update"
    BY <2>2, <1>12, <1>t, <1>s DEF CreateDSPFails, Discard, window, settings
  <2>3. CASE job = "reset"
    BY <2>3, <1>12, <1>t, <1>s DEF CreateDSPFails, Discard, window, settings
  <2> QED BY <2>1, <2>2, <2>3, <1>12, <1>t, <1>s DEF CreateDSPFails
<1>13. CASE InitFade
  BY <1>13, <1>t, <1>s DEF InitFade, heap, settings
<1>14. CASE StartFade
  BY <1>14, <1>t, <1>s DEF StartFade, heap, settings
<1>15. CASE EndFade
  BY <1>15, <1>t, <1>s DEF EndFade, heap, settings
<1>16. CASE SwapDSP
  BY <1>16, <1>t, <1>s DEF SwapDSP, settings
<1>17. CASE DeleteInterfaces
  BY <1>17, <1>t, <1>s DEF DeleteInterfaces, heap, settings
<1>18. CASE BuildInterfaces
  <2>1. CASE job = "init"
    BY <2>1, <1>18, <1>t, <1>s DEF BuildInterfaces, heap
  <2>2. CASE job = "update"
    BY <2>2, <1>18, <1>t, <1>s DEF BuildInterfaces, heap
  <2>3. CASE job = "reset"
    BY <2>3, <1>18, <1>t, <1>s DEF BuildInterfaces, heap
  <2> QED BY <2>1, <2>2, <2>3, <1>18, <1>t, <1>s DEF BuildInterfaces
<1>19. CASE SetDSP
  BY <1>19, <1>t, <1>s DEF SetDSP, Discard, heap, settings
<1>20. CASE StartAudio
  BY <1>20, <1>t, <1>s DEF StartAudio, heap, settings
<1>21. CASE EndUpdate
  BY <1>21, <1>t, <1>s DEF EndUpdate, heap, window, settings
<1>22. CASE StopAudio
  BY <1>22, <1>t, <1>s DEF StopAudio, heap, settings
<1>23. CASE DeleteDSP
  <2>1. CASE job = "reset"
    BY <2>1, <1>23, <1>t, <1>s DEF DeleteDSP, settings
  <2>2. CASE job = "close"
    BY <2>2, <1>23, <1>t, <1>s DEF DeleteDSP, settings
  <2> QED BY <2>1, <2>2, <1>23, <1>t, <1>s DEF DeleteDSP
<1>24. CASE DeleteInterfacesOf
  <2>1. CASE job = "reset"
    BY <2>1, <1>24, <1>t, <1>s DEF DeleteInterfacesOf, heap, settings
  <2>2. CASE job = "close"
    BY <2>2, <1>24, <1>t, <1>s DEF DeleteInterfacesOf, heap, settings
  <2> QED BY <2>1, <2>2, <1>24, <1>t, <1>s DEF DeleteInterfacesOf
<1>25. CASE NewManager
  BY <1>25, <1>t, <1>s DEF NewManager, heap, settings
<1>26. CASE DeleteWindow
  BY <1>26, <1>t, <1>s DEF DeleteWindow, Discard, heap
<1>27. CASE UNCHANGED vars
  BY <1>27, <1>t, <1>s DEF vars, heap, settings, control, driver
<1> QED
  BY <1>1, <1>2, <1>3, <1>4, <1>5, <1>6, <1>7, <1>8, <1>9, <1>10, <1>11, <1>12, <1>13, <1>14,
     <1>15, <1>16, <1>17, <1>18, <1>19, <1>20, <1>21, <1>22, <1>23, <1>24, <1>25, <1>26, <1>27
  DEF Next, Handler, Step

\* Whose audio client is started.
LEMMA OpenPreserved ==
  TypeOK /\ HeapInv /\ WatchInv /\ OpenInv /\ ~LateNotices /\ [Next]_vars => OpenInv'
<1> SUFFICES ASSUME TypeOK, HeapInv, WatchInv, OpenInv, ~LateNotices, [Next]_vars PROVE OpenInv'
  OBVIOUS
<1>t. /\ None \notin Files /\ None \notin Units
      /\ open \subseteq Windows /\ shown \subseteq open /\ fClientOpen \subseteq open
      /\ win \in Windows \cup {None} /\ (gui # "idle" => win \in Windows /\ win \in open)
      /\ job \in {"init", "update", "close"} => win \notin shown
  BY WindowLifecycleAssumption
  DEF TypeOK, WindowTypes, ControlTypes, HeapInv, WindowLifecycleAssumption
<1>s. StepFitsJob
  BY StepOfJob
<1> USE DEF OpenInv, StepFitsJob, Goto, Return, Begin
<1>1. ASSUME NEW w \in Windows, NEW s \in Sources, NewWindow(w, s) PROVE OpenInv'
  BY <1>1, <1>t, <1>s DEF NewWindow, heap
<1>2. ASSUME NEW w \in Windows, NEW s \in Sources, Drop(w, s) PROVE OpenInv'
  BY <1>2, <1>t, <1>s DEF Drop, UpdateWindow, heap, window, settings
<1>3. ASSUME NEW w \in Windows, SelfUpdate(w) PROVE OpenInv'
  BY <1>3, <1>t, <1>s DEF SelfUpdate, UpdateWindow, heap, window, settings, WatchInv
<1>4. ASSUME NEW w \in Windows, SourceDeleted(w) PROVE OpenInv'
  BY <1>4, <1>t, <1>s DEF SourceDeleted, heap, control
<1>5. ASSUME NEW w \in Windows, ResetAudio(w) PROVE OpenInv'
  BY <1>5, <1>t, <1>s DEF ResetAudio, heap, window, settings
<1>6. ASSUME NEW w \in Windows, CloseWindow(w) PROVE OpenInv'
  BY <1>6, <1>t, <1>s DEF CloseWindow, heap, settings
<1>7. ASSUME NEW f \in Files, NEW c \in Codes, EditFile(f, c) PROVE OpenInv'
  BY <1>7, <1>t, <1>s DEF EditFile, heap, settings, control
<1>8. CASE CreateFactory
  <2>1. CASE job = "init"
    BY <2>1, <1>8, <1>t, <1>s DEF CreateFactory, window, settings
  <2>2. CASE job = "update"
    BY <2>2, <1>8, <1>t, <1>s DEF CreateFactory, window, settings
  <2>3. CASE job = "reset"
    BY <2>3, <1>8, <1>t, <1>s DEF CreateFactory, window, settings
  <2> QED BY <2>1, <2>2, <2>3, <1>8, <1>t, <1>s DEF CreateFactory
<1>9. CASE CreateFactoryFails
  <2>1. CASE job = "init"
    BY <2>1, <1>9, <1>t, <1>s DEF CreateFactoryFails, Discard, window, settings, heap
  <2>2. CASE job = "update"
    BY <2>2, <1>9, <1>t, <1>s DEF CreateFactoryFails, Discard, window, settings, heap
  <2>3. CASE job = "reset"
    BY <2>3, <1>9, <1>t, <1>s DEF CreateFactoryFails, Discard, window, settings, heap
  <2> QED BY <2>1, <2>2, <2>3, <1>9, <1>t, <1>s DEF CreateFactoryFails
<1>10. CASE InitAudio
  BY <1>10, <1>t, <1>s DEF InitAudio, Discard, window, settings, heap
<1>11. CASE CreateDSP
  <2>1. CASE job = "init"
    BY <2>1, <1>11, <1>t, <1>s DEF CreateDSP
  <2>2. CASE job = "update"
    BY <2>2, <1>11, <1>t, <1>s DEF CreateDSP
  <2>3. CASE job = "reset"
    BY <2>3, <1>11, <1>t, <1>s DEF CreateDSP
  <2> QED BY <2>1, <2>2, <2>3, <1>11, <1>t, <1>s DEF CreateDSP
<1>12. CASE CreateDSPFails
  <2>1. CASE job = "init"
    BY <2>1, <1>12, <1>t, <1>s DEF CreateDSPFails, Discard, window, settings
  <2>2. CASE job = "update"
    BY <2>2, <1>12, <1>t, <1>s DEF CreateDSPFails, Discard, window, settings
  <2>3. CASE job = "reset"
    BY <2>3, <1>12, <1>t, <1>s DEF CreateDSPFails, Discard, window, settings
  <2> QED BY <2>1, <2>2, <2>3, <1>12, <1>t, <1>s DEF CreateDSPFails
<1>13. CASE InitFade
  BY <1>13, <1>t, <1>s DEF InitFade, heap, settings
<1>14. CASE StartFade
  BY <1>14, <1>t, <1>s DEF StartFade, heap, settings
<1>15. CASE EndFade
  BY <1>15, <1>t, <1>s DEF EndFade, heap, settings
<1>16. CASE SwapDSP
  BY <1>16, <1>t, <1>s DEF SwapDSP, settings
<1>17. CASE DeleteInterfaces
  BY <1>17, <1>t, <1>s DEF DeleteInterfaces, heap, settings
<1>18. CASE BuildInterfaces
  <2>1. CASE job = "init"
    BY <2>1, <1>18, <1>t, <1>s DEF BuildInterfaces, heap
  <2>2. CASE job = "update"
    BY <2>2, <1>18, <1>t, <1>s DEF BuildInterfaces, heap
  <2>3. CASE job = "reset"
    BY <2>3, <1>18, <1>t, <1>s DEF BuildInterfaces, heap
  <2> QED BY <2>1, <2>2, <2>3, <1>18, <1>t, <1>s DEF BuildInterfaces
<1>19. CASE SetDSP
  BY <1>19, <1>t, <1>s DEF SetDSP, Discard, heap, settings
<1>20. CASE StartAudio
  BY <1>20, <1>t, <1>s DEF StartAudio, heap, settings
<1>21. CASE EndUpdate
  BY <1>21, <1>t, <1>s DEF EndUpdate, heap, window, settings
<1>22. CASE StopAudio
  BY <1>22, <1>t, <1>s DEF StopAudio, heap, settings
<1>23. CASE DeleteDSP
  <2>1. CASE job = "reset"
    BY <2>1, <1>23, <1>t, <1>s DEF DeleteDSP, settings
  <2>2. CASE job = "close"
    BY <2>2, <1>23, <1>t, <1>s DEF DeleteDSP, settings
  <2> QED BY <2>1, <2>2, <1>23, <1>t, <1>s DEF DeleteDSP
<1>24. CASE DeleteInterfacesOf
  <2>1. CASE job = "reset"
    BY <2>1, <1>24, <1>t, <1>s DEF DeleteInterfacesOf, heap, settings
  <2>2. CASE job = "close"
    BY <2>2, <1>24, <1>t, <1>s DEF DeleteInterfacesOf, heap, settings
  <2> QED BY <2>1, <2>2, <1>24, <1>t, <1>s DEF DeleteInterfacesOf
<1>25. CASE NewManager
  BY <1>25, <1>t, <1>s DEF NewManager, heap, settings
<1>26. CASE DeleteWindow
  BY <1>26, <1>t, <1>s DEF DeleteWindow, Discard, heap
<1>27. CASE UNCHANGED vars
  BY <1>27, <1>t, <1>s DEF vars, heap, settings, control, driver
<1> QED
  BY <1>1, <1>2, <1>3, <1>4, <1>5, <1>6, <1>7, <1>8, <1>9, <1>10, <1>11, <1>12, <1>13, <1>14,
     <1>15, <1>16, <1>17, <1>18, <1>19, <1>20, <1>21, <1>22, <1>23, <1>24, <1>25, <1>26, <1>27
  DEF Next, Handler, Step

\* What the audio managers play.
LEMMA DriverPreserved ==
  TypeOK /\ HeapInv /\ WatchInv /\ OpenInv /\ DriverInv /\ ~LateNotices /\ [Next]_vars => DriverInv'
<1> SUFFICES ASSUME TypeOK, HeapInv, WatchInv, OpenInv, DriverInv, ~LateNotices, [Next]_vars
             PROVE DriverInv'
  OBVIOUS
<1>t. /\ None \notin Units /\ open \subseteq Windows /\ fClientOpen \subseteq open
      /\ win \in Windows \cup {None} /\ (gui # "idle" => win \in open)
      /\ plays \in [Windows -> Units \cup {None}] /\ fadesIn \in [Windows -> Units \cup {None}]
      /\ fCurrentDSP \in [Windows -> Units \cup {None}] /\ made \in Units \cup {None}
      /\ instances \subseteq Units
      /\ \A w \in Windows \ open : fCurrentDSP[w] = None
      /\ \A v, w \in Windows : fCurrentDSP[v] = fCurrentDSP[w] /\ fCurrentDSP[v] # None => v = w
      /\ FadingIn => made \in instances /\ \A w \in Windows : fCurrentDSP[w] # made
      /\ job = "update" => win \in fClientOpen
      /\ job = "init" => win \notin fClientOpen
      /\ job = "reset" /\ gui \notin {"createFactory", "stopAudio"} => win \notin fClientOpen
      /\ gui \in {"setDSP", "startAudio"} => fCurrentDSP[win] \in instances
  BY WindowLifecycleAssumption
  DEF TypeOK, WindowTypes, AudioTypes, ControlTypes, HeapTypes, HeapInv, OpenInv, WindowLifecycleAssumption
<1>s. StepFitsJob
  BY StepOfJob
<1> USE DEF DriverInv, StepFitsJob, Goto, Return, Begin, driver
<1>1. ASSUME NEW w \in Windows, NEW s \in Sources, NewWindow(w, s) PROVE DriverInv'
  BY <1>1, <1>t, <1>s DEF NewWindow, heap
<1>2. ASSUME NEW w \in Windows, NEW s \in Sources, Drop(w, s) PROVE DriverInv'
  BY <1>2, <1>t, <1>s DEF Drop, UpdateWindow, heap, window, settings
<1>3. ASSUME NEW w \in Windows, SelfUpdate(w) PROVE DriverInv'
  BY <1>3, <1>t, <1>s DEF SelfUpdate, UpdateWindow, heap, window, settings
<1>4. ASSUME NEW w \in Windows, SourceDeleted(w) PROVE DriverInv'
  BY <1>4, <1>t, <1>s DEF SourceDeleted, heap, control
<1>5. ASSUME NEW w \in Windows, ResetAudio(w) PROVE DriverInv'
  BY <1>5, <1>t, <1>s DEF ResetAudio, heap, window, settings
<1>6. ASSUME NEW w \in Windows, CloseWindow(w) PROVE DriverInv'
  BY <1>6, <1>t, <1>s DEF CloseWindow, heap, settings
<1>7. ASSUME NEW f \in Files, NEW c \in Codes, EditFile(f, c) PROVE DriverInv'
  BY <1>7, <1>t, <1>s DEF EditFile, heap, settings, control
<1>8. CASE CreateFactory
  <2>1. CASE job = "init"
    BY <2>1, <1>8, <1>t, <1>s DEF CreateFactory, window, settings
  <2>2. CASE job = "update"
    BY <2>2, <1>8, <1>t, <1>s DEF CreateFactory, window, settings
  <2>3. CASE job = "reset"
    BY <2>3, <1>8, <1>t, <1>s DEF CreateFactory, window, settings
  <2> QED BY <2>1, <2>2, <2>3, <1>8, <1>t, <1>s DEF CreateFactory
<1>9. CASE CreateFactoryFails
  <2>1. CASE job = "init"
    BY <2>1, <1>9, <1>t, <1>s DEF CreateFactoryFails, Discard, window, settings, heap
  <2>2. CASE job = "update"
    BY <2>2, <1>9, <1>t, <1>s DEF CreateFactoryFails, Discard, window, settings, heap
  <2>3. CASE job = "reset"
    BY <2>3, <1>9, <1>t, <1>s DEF CreateFactoryFails, Discard, window, settings, heap
  <2> QED BY <2>1, <2>2, <2>3, <1>9, <1>t, <1>s DEF CreateFactoryFails
<1>10. CASE InitAudio
  BY <1>10, <1>t, <1>s DEF InitAudio, Discard, window, settings, heap, DeleteFactory
<1>11. CASE CreateDSP
  <2>1. CASE job = "init"
    BY <2>1, <1>11, <1>t, <1>s DEF CreateDSP
  <2>2. CASE job = "update"
    BY <2>2, <1>11, <1>t, <1>s DEF CreateDSP
  <2>3. CASE job = "reset"
    BY <2>3, <1>11, <1>t, <1>s DEF CreateDSP
  <2> QED BY <2>1, <2>2, <2>3, <1>11, <1>t, <1>s DEF CreateDSP
<1>12. CASE CreateDSPFails
  <2>1. CASE job = "init"
    BY <2>1, <1>12, <1>t, <1>s DEF CreateDSPFails, Discard, window, settings, DeleteFactory
  <2>2. CASE job = "update"
    BY <2>2, <1>12, <1>t, <1>s DEF CreateDSPFails, Discard, window, settings, DeleteFactory
  <2>3. CASE job = "reset"
    BY <2>3, <1>12, <1>t, <1>s DEF CreateDSPFails, Discard, window, settings, DeleteFactory
  <2> QED BY <2>1, <2>2, <2>3, <1>12, <1>t, <1>s DEF CreateDSPFails
<1>13. CASE InitFade
  BY <1>13, <1>t, <1>s DEF InitFade, heap, settings, FadingIn, DeleteDSPandFactory
<1>14. CASE StartFade
  BY <1>14, <1>t, <1>s DEF StartFade, heap, settings, FadingIn
<1>15. CASE EndFade
  BY <1>15, <1>t, <1>s DEF EndFade, heap, settings, FadingIn
<1>16. CASE SwapDSP
  <2>1. \A w \in Windows \ {win} : fCurrentDSP[w] \in instances => fCurrentDSP[w] \in instances \ {fCurrentDSP[win]}
    BY <1>16, <1>t, <1>s DEF SwapDSP
  <2>2. made \in instances \ {fCurrentDSP[win]} /\ plays[win] = made /\ job = "update"
    BY <1>16, <1>t, <1>s DEF SwapDSP, FadingIn
  <2>3. instances' = instances \ {fCurrentDSP[win]} /\ gui' = "deleteInterfaces"
        /\ fCurrentDSP' = [fCurrentDSP EXCEPT ![win] = made]
        /\ UNCHANGED <<fClientOpen, running, plays, fadesIn, win, job, made>>
    BY <1>16 DEF SwapDSP, DeleteDSPandFactory
  <2> QED BY <2>1, <2>2, <2>3, <1>16, <1>t, <1>s DEF SwapDSP
<1>17. CASE DeleteInterfaces
  BY <1>17, <1>t, <1>s DEF DeleteInterfaces, heap, settings
<1>18. CASE BuildInterfaces
  <2>1. CASE job = "init"
    BY <2>1, <1>18, <1>t, <1>s DEF BuildInterfaces, heap
  <2>2. CASE job = "update"
    BY <2>2, <1>18, <1>t, <1>s DEF BuildInterfaces, heap
  <2>3. CASE job = "reset"
    BY <2>3, <1>18, <1>t, <1>s DEF BuildInterfaces, heap
  <2> QED BY <2>1, <2>2, <2>3, <1>18, <1>t, <1>s DEF BuildInterfaces
<1>19. CASE SetDSP
  <2>1. \A w \in Windows \ {win} : fCurrentDSP[w] \in instances => fCurrentDSP[w] \in instances \ {fCurrentDSP[win]}
    BY <1>19, <1>t, <1>s DEF SetDSP
  <2>2. CASE Discard(win)
    BY <2>1, <2>2, <1>19, <1>t, <1>s DEF SetDSP, Discard, heap, settings, DeleteDSPandFactory
  <2>3. CASE ~Discard(win)
    BY <2>3, <1>19, <1>t, <1>s DEF SetDSP, heap, settings
  <2> QED BY <2>2, <2>3
<1>20. CASE StartAudio
  BY <1>20, <1>t, <1>s DEF StartAudio, heap, settings
<1>21. CASE EndUpdate
  BY <1>21, <1>t, <1>s DEF EndUpdate, heap, window, settings
<1>22. CASE StopAudio
  BY <1>22, <1>t, <1>s DEF StopAudio, heap, settings
<1>23. CASE DeleteDSP
  <2>1. \A w \in Windows \ {win} : fCurrentDSP[w] \in instances => fCurrentDSP[w] \in instances \ {fCurrentDSP[win]}
    BY <1>23, <1>t, <1>s DEF DeleteDSP
  <2>2. instances' = instances \ {fCurrentDSP[win]} /\ gui' = "deleteInterfacesOf"
        /\ (\A w \in Windows \ {win} : fCurrentDSP'[w] = fCurrentDSP[w])
        /\ UNCHANGED <<fClientOpen, running, plays, fadesIn, win, job, made>> /\ gui = "deleteDSP" /\ win \in Windows
    BY <1>23, <1>t DEF DeleteDSP, DeleteDSPandFactory
  <2> QED BY <2>1, <2>2, <1>t, <1>s
<1>24. CASE DeleteInterfacesOf
  <2>1. CASE job = "reset"
    BY <2>1, <1>24, <1>t, <1>s DEF DeleteInterfacesOf, heap, settings
  <2>2. CASE job = "close"
    BY <2>2, <1>24, <1>t, <1>s DEF DeleteInterfacesOf, heap, settings
  <2> QED BY <2>1, <2>2, <1>24, <1>t, <1>s DEF DeleteInterfacesOf
<1>25. CASE NewManager
  BY <1>25, <1>t, <1>s DEF NewManager, heap, settings
<1>26. CASE DeleteWindow
  BY <1>26, <1>t, <1>s DEF DeleteWindow, Discard, heap
<1>27. CASE UNCHANGED vars
  BY <1>27, <1>t, <1>s DEF vars, heap, settings, control, driver
<1> QED
  BY <1>1, <1>2, <1>3, <1>4, <1>5, <1>6, <1>7, <1>8, <1>9, <1>10, <1>11, <1>12, <1>13, <1>14,
     <1>15, <1>16, <1>17, <1>18, <1>19, <1>20, <1>21, <1>22, <1>23, <1>24, <1>25, <1>26, <1>27
  DEF Next, Handler, Step

-----------------------------------------------------------------------------
\* The accounts of the heap are kept by every step, whether or not notices are late.
LEMMA HeapInvariance == Spec => [](TypeOK /\ HeapInv)
<1>1. Init => TypeOK /\ HeapInv
  BY InitInv DEF IInv
<1>2. TypeOK /\ HeapInv /\ [Next]_vars => (TypeOK /\ HeapInv)'
  BY HeapPreserved, HeapTypesPreserved, ControlTypesPreserved, AudioTypesPreserved,
     WindowTypesPreserved DEF TypeOK
<1> QED
  BY <1>1, <1>2, PTL DEF Spec

\* The whole invariant is inductive when no notice is late.
LEMMA Invariance == ASSUME ~LateNotices PROVE Spec => []IInv
<1>1. Init => IInv
  BY InitInv
<1>2. IInv /\ [Next]_vars => IInv'
  BY HeapPreserved, HeapTypesPreserved, ControlTypesPreserved, AudioTypesPreserved,
     WindowTypesPreserved, WatchPreserved, OpenPreserved, DriverPreserved, InterfacePreserved
  DEF IInv, TypeOK
<1> QED
  BY <1>1, <1>2, PTL DEF Spec

\* Every variable holds a value of its type, for any number of windows, files and DSPs.
THEOREM WindowTypeCorrect == Spec => []TypeOK
BY HeapInvariance, PTL

\* Whatever fails in an update, a reset or a creation, and however late the watcher is: once
\* the handler has returned, no factory and no DSP is leaked, shared or used after its deletion.
THEOREM NothingIsLeaked == Spec => []Ownership
<1>1. TypeOK /\ HeapInv => Ownership
  <2> SUFFICES ASSUME TypeOK, HeapInv, gui = "idle"
               PROVE  /\ factories = instances
                      /\ instances = {fCurrentDSP[w] : w \in open} \ {None}
                      /\ \A v, w \in open : fCurrentDSP[v] = fCurrentDSP[w] /\ v # w => fCurrentDSP[v] = None
    BY DEF Ownership
  <2>1. /\ job = "none" /\ open \subseteq Windows /\ None \notin instances
        /\ ~InFlight /\ ~FadingIn /\ ~Dangling
    BY StepOfJob, WindowLifecycleAssumption
    DEF WindowLifecycleAssumption, StepFitsJob, InFlight, FadingIn, Dangling, TypeOK, WindowTypes, HeapTypes
  <2>2. factories = instances
    BY <2>1 DEF HeapInv
  <2>3. \A u \in instances : \E w \in open : fCurrentDSP[w] = u
    BY <2>1 DEF HeapInv
  <2>4. \A w \in open : fCurrentDSP[w] \in instances \cup {None}
    BY <2>1 DEF HeapInv
  <2>5. instances = {fCurrentDSP[w] : w \in open} \ {None}
    BY <2>1, <2>3, <2>4
  <2>6. \A v, w \in open : fCurrentDSP[v] = fCurrentDSP[w] /\ v # w => fCurrentDSP[v] = None
    BY <2>1 DEF HeapInv
  <2> QED BY <2>2, <2>5, <2>6
<1> QED
  BY <1>1, HeapInvariance, PTL

\* A driver that runs never calls a DSP that was deleted, at any step of any handler.
THEOREM DriversPlayLiveDSPs == ASSUME ~LateNotices PROVE Spec => []DrivenDSPsLive
<1>1. IInv => DrivenDSPsLive
  <2> SUFFICES ASSUME IInv, NEW w \in running
               PROVE  plays[w] \in instances /\ fadesIn[w] \in instances \cup {None}
    BY DEF DrivenDSPsLive
  <2>1. w \in fClientOpen /\ w \in Windows
    BY DEF IInv, DriverInv, TypeOK, AudioTypes
  <2>2. ~(w = win /\ job = "close")
    BY DEF IInv, DriverInv
  <2>3. gui \in {"swap", "endFade"} => made \in instances
    BY DEF IInv, HeapInv, FadingIn
  <2>4. plays[w] \in instances
    BY <2>1, <2>2, <2>3 DEF IInv, DriverInv
  <2>5. fadesIn[w] \in instances \cup {None}
    BY <2>1, <2>3 DEF IInv, DriverInv
  <2> QED BY <2>4, <2>5
<1> QED
  BY <1>1, Invariance, PTL

\* Once a handler has returned, every window on the screen plays its DSP, shows the
\* interfaces of that DSP, and is watched.
THEOREM WindowsOnScreenWork == ASSUME ~LateNotices PROVE Spec => []ShownWindowsWork
<1>1. IInv => ShownWindowsWork
  <2> SUFFICES ASSUME IInv, gui = "idle", NEW w \in shown
               PROVE  /\ w \in fClientOpen
                      /\ fCurrentDSP[w] \in instances
                      /\ plays[w] = fCurrentDSP[w] /\ built[w] = fCurrentDSP[w]
                      /\ path[w] \in fMap[w] \cup {None}
    BY DEF ShownWindowsWork
  <2>1. job = "none"
    BY StepOfJob DEF IInv, StepFitsJob
  <2>2. w \in fClientOpen
    BY DEF IInv, OpenInv
  <2>3. plays[w] = fCurrentDSP[w] /\ plays[w] \in instances
    BY <2>1, <2>2 DEF IInv, DriverInv
  <2>4. built[w] = fCurrentDSP[w] /\ path[w] \in fMap[w] \cup {None}
    BY DEF IInv, InterfaceInv, WatchInv
  <2> QED BY <2>2, <2>3, <2>4
<1> QED
  BY <1>1, Invariance, PTL

\* A window that is heard stays heard at every step of an update, its own or another's, with its
\* DSP or the one that was being faded in, whatever fails; the end of a fade is the one exception,
\* when the client of the new DSP has not started.
THEOREM UpdatesKeepPlaying == ASSUME ~LateNotices PROVE Spec => UpdateKeepsPlaying
<1>1. ASSUME IInv, IInv', Next, job = "update", NEW w \in running
      PROVE  /\ plays'[w] \in {plays[w], fadesIn[w]}
             /\ plays'[w] \in instances'
             /\ w \in running' \/ (fadesIn[w] # None /\ plays'[w] = fadesIn[w])
  <2>t. /\ StepFitsJob /\ gui # "idle" /\ w \in Windows
        /\ plays \in [Windows -> Units \cup {None}]
        /\ win \in Windows /\ (gui = "endFade" => fadesIn[win] = made)
    BY <1>1, StepOfJob
    DEF IInv, TypeOK, WindowTypes, AudioTypes, ControlTypes, HeapInv, DriverInv, StepFitsJob
  <2>1. ~Handler /\ ~\E f \in Files, c \in Codes : EditFile(f, c)
    BY <2>t DEF Handler, NewWindow, Drop, SelfUpdate, SourceDeleted, ResetAudio, CloseWindow,
                UpdateWindow, EditFile, Begin
  <2>2. EndFade => /\ fClientOpen' = fClientOpen
                   /\ plays' = [plays EXCEPT ![win] = fadesIn[win]]
                   /\ running' \in {running \cup {win}, running \ {win}}
    BY <2>t DEF EndFade
  <2>3. ~EndFade => /\ UNCHANGED <<fClientOpen, plays>>
                    /\ running \subseteq running'
    BY <1>1, <2>1, <2>t
    DEF Next, Step, CreateFactory, CreateFactoryFails, InitAudio, CreateDSP, CreateDSPFails,
        InitFade, StartFade, SwapDSP, DeleteInterfaces, BuildInterfaces, SetDSP, StartAudio,
        EndUpdate, StopAudio, DeleteDSP, DeleteInterfacesOf, NewManager, DeleteWindow,
        StepFitsJob, window, driver
  <2>4. w \in fClientOpen' /\ plays'[w] \in {plays[w], fadesIn[w]}
    BY <2>2, <2>3, <2>t, <1>1 DEF IInv, DriverInv
  <2>5. job' # "close"
    BY <1>1, <2>1 DEF Next, Step, CreateFactory, CreateFactoryFails, InitAudio, CreateDSP,
          CreateDSPFails, InitFade, StartFade, EndFade, SwapDSP, DeleteInterfaces, BuildInterfaces,
          SetDSP, StartAudio, EndUpdate, StopAudio, DeleteDSP, DeleteInterfacesOf, NewManager,
          DeleteWindow, Goto, Return
  <2>6. plays'[w] \in instances'
    BY <1>1, <2>4, <2>5 DEF IInv, DriverInv, HeapInv, FadingIn
  <2>7. EndFade => fadesIn[win] # None
    <3>1. EndFade => fadesIn[win] = made /\ made \in instances
      BY <1>1, <2>t DEF EndFade, IInv, HeapInv, FadingIn
    <3>2. None \notin instances
      BY <1>1, WindowLifecycleAssumption
      DEF WindowLifecycleAssumption, IInv, TypeOK, HeapTypes
    <3> QED BY <3>1, <3>2
  <2>8. w \in running' \/ (fadesIn[w] # None /\ plays'[w] = fadesIn[w])
    <3>1. CASE w = win /\ EndFade
      BY <3>1, <2>2, <2>7, <2>t
    <3>2. CASE w # win /\ EndFade
      BY <3>2, <2>2, <1>1
    <3>3. CASE ~EndFade
      BY <3>3, <2>3, <1>1
    <3> QED BY <3>1, <3>2, <3>3
  <2> QED BY <2>4, <2>6, <2>8
<1>2. IInv /\ IInv' /\ [Next]_vars =>
        [job = "update" => \A w \in running :
           /\ plays'[w] \in {plays[w], fadesIn[w]}
           /\ plays'[w] \in instances'
           /\ w \in running' \/ (fadesIn[w] # None /\ plays'[w] = fadesIn[w])]_vars
  BY <1>1
<1> QED
  BY <1>2, Invariance, PTL DEF Spec, UpdateKeepsPlaying

=============================================================================
