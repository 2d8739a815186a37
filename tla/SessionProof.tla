---------------------------- MODULE SessionProof ----------------------------
(***************************************************************************)
(* Theorems about Session, for every number of starts and every length of  *)
(* the atexit wait, and then about DiskPersistence, for any number of      *)
(* images and writes.  The main queue is handled through two lemmas, so    *)
(* that the steps of the proofs speak of InQueue and not of sequences.     *)
(***************************************************************************)
EXTENDS DiskPersistence, TLAPS

NoDup == \A i, j \in DOMAIN mainQ : mainQ[i] = mainQ[j] => i = j

\* Dispatching a block that is not queued: it joins the queue, at its end.
LEMMA DispatchLemma ==
  ASSUME mainQ \in Seq(Block), NoDup,
         NEW k \in {"loaded", "frame", "teardown", "exit"}, NEW e \in Emus,
         ~InQueue(k, e), Dispatch(k, e)
  PROVE  /\ mainQ' \in Seq(Block) /\ NoDup'
         /\ InQueue(k, e)'
         /\ \A k2, e2 : InQueue(k2, e2)' <=> \/ InQueue(k2, e2)
                                             \/ k2 = k /\ e2 = e
<1> DEFINE b == [kind |-> k, emu |-> e]
<1>1. b \in Block
  BY DEF Block
<1>2. /\ mainQ' = Append(mainQ, b)
      /\ DOMAIN mainQ = 1 .. Len(mainQ) /\ DOMAIN mainQ' = 1 .. Len(mainQ) + 1
      /\ \A i \in DOMAIN mainQ : mainQ'[i] = mainQ[i]
      /\ mainQ'[Len(mainQ) + 1] = b
      /\ Len(mainQ) \in Nat
  BY <1>1 DEF Dispatch
<1>3. mainQ' \in Seq(Block)
  BY <1>1, <1>2
<1>4. \A i \in DOMAIN mainQ : mainQ[i] # b
  BY DEF InQueue
<1>5. NoDup'
  BY <1>2, <1>4 DEF NoDup
<1>6. ASSUME NEW k2, NEW e2
      PROVE  InQueue(k2, e2)' <=> InQueue(k2, e2) \/ [kind |-> k2, emu |-> e2] = b
  BY <1>2 DEF InQueue
<1>7. ASSUME NEW k2, NEW e2
      PROVE  [kind |-> k2, emu |-> e2] = b <=> k2 = k /\ e2 = e
  <2>1. [kind |-> k2, emu |-> e2].kind = k2 /\ [kind |-> k2, emu |-> e2].emu = e2
    OBVIOUS
  <2>2. b.kind = k /\ b.emu = e
    OBVIOUS
  <2> QED
    BY <2>1, <2>2
<1> QED
  BY <1>3, <1>5, <1>6, <1>7

\* Running the block at the head: it leaves the queue, and is in it no more.
LEMMA MainBlockLemma ==
  ASSUME mainQ \in Seq(Block), NoDup, NEW k, NEW e, MainBlock(k, e)
  PROVE  /\ mainQ' \in Seq(Block) /\ NoDup'
         /\ InQueue(k, e)
         /\ \A k2, e2 : InQueue(k2, e2)' <=> /\ InQueue(k2, e2)
                                             /\ ~(k2 = k /\ e2 = e)
<1> DEFINE b == [kind |-> k, emu |-> e]
<1>1. /\ mainQ # <<>> /\ mainQ' = Tail(mainQ) /\ mainQ[1] = b
      /\ Len(mainQ) \in Nat /\ Len(mainQ) > 0
      /\ DOMAIN mainQ = 1 .. Len(mainQ) /\ DOMAIN mainQ' = 1 .. Len(mainQ) - 1
      /\ \A i \in DOMAIN mainQ' : mainQ'[i] = mainQ[i + 1]
  BY DEF MainBlock
<1>2. mainQ' \in Seq(Block)
  BY <1>1
<1>3. NoDup'
  BY <1>1 DEF NoDup
<1>4. InQueue(k, e)
  BY <1>1 DEF InQueue
<1>5. ASSUME NEW k2, NEW e2
      PROVE  InQueue(k2, e2)' <=> InQueue(k2, e2) /\ [kind |-> k2, emu |-> e2] # b
  <2> DEFINE b2 == [kind |-> k2, emu |-> e2]
  <2>1. ASSUME NEW i \in DOMAIN mainQ', mainQ'[i] = b2
        PROVE  InQueue(k2, e2) /\ b2 # b
    BY <1>1, <2>1 DEF InQueue, NoDup
  <2>2. ASSUME NEW i \in DOMAIN mainQ, mainQ[i] = b2, b2 # b
        PROVE  i - 1 \in DOMAIN mainQ' /\ mainQ'[i - 1] = b2
    BY <1>1, <2>2
  <2> QED
    BY <2>1, <2>2 DEF InQueue
<1>6. ASSUME NEW k2, NEW e2
      PROVE  [kind |-> k2, emu |-> e2] = b <=> k2 = k /\ e2 = e
  <2>1. [kind |-> k2, emu |-> e2].kind = k2 /\ [kind |-> k2, emu |-> e2].emu = e2
    OBVIOUS
  <2>2. b.kind = k /\ b.emu = e
    OBVIOUS
  <2> QED
    BY <2>1, <2>2
<1> QED
  BY <1>2, <1>3, <1>4, <1>5, <1>6

-----------------------------------------------------------------------------
(* Type correctness.  A frame is addressed to s_frame_ctx, so its type rests *)
(* on there being a context whenever there is a shell.                       *)

ContextSet ==
  frameInHand # None \/ (\E e \in Emus : pc[e] \in {"queued", "shell"})
    => s_frame_ctx # None
\* the two halves of TypeOK: flags, and the rest
Flags ==
  /\ isRunning \in BOOLEAN /\ isStarting \in BOOLEAN /\ startCancelled \in BOOLEAN
  /\ shouldRun \in [Emus -> BOOLEAN]
  /\ s_running \in BOOLEAN /\ atexit \in BOOLEAN /\ shutdownRequest \in BOOLEAN
  /\ framePending \in BOOLEAN
  /\ overlapped \in BOOLEAN /\ lostInit \in BOOLEAN /\ threw \in BOOLEAN
Data ==
  /\ emulator \in Emus \cup {None} /\ gfxImage \in Emus \cup {None}
  /\ saveTimers \subseteq Emus /\ diskSaveTimer \in Emus \cup {None}
  /\ starts \in 0 .. MaxStarts
  /\ loader \in [Emus -> LoaderStates] /\ pc \in [Emus -> RunStates]
  /\ s_frame_ctx \in Emus \cup {None} /\ up \subseteq Subsystems
  /\ frameInHand \in Emus \cup {None}
  /\ mainQ \in Seq(Block)
  /\ proc \in {"alive", "exiting", "dead"} /\ spins \in 0 .. MaxSpins
TypeInv == Flags /\ Data /\ ContextSet

LEMMA Halves == TypeOK <=> Flags /\ Data
BY DEF TypeOK, Flags, Data

LEMMA TypeInit == Init => TypeInv
<1> SUFFICES ASSUME Init PROVE TypeInv
  OBVIOUS
<1>1. starts \in 0 .. MaxStarts /\ spins \in 0 .. MaxSpins
  BY BoundsAssumption DEF Init
<1>2. ContextSet
  BY DEF Init, ContextSet
<1>3. mainQ \in Seq(Block)
  BY DEF Init
<1>4. Flags /\ Data
  BY <1>1, <1>3 DEF Init, Flags, Data, LoaderStates, RunStates, Subsystems
<1> QED
  BY <1>2, <1>4 DEF TypeInv

LEMMA FlagsStep == TypeInv /\ [Next]_vars => Flags'
<1> SUFFICES ASSUME Flags, [Next]_vars PROVE Flags'
  BY DEF TypeInv
<1> USE DEF Flags, vmVars, bridgeVars, frameVars, histVars
<1>1. User => Flags'
  BY DEF User, Start, CancelStart, BackToSettings, Stop, Exit
<1>2. Atexit \/ UNCHANGED vars => Flags'
  BY DEF Atexit, AtexitSpin, AtexitForce, vars
<1>3. ASSUME NEW e \in Emus
      PROVE  LoadAbandoned(e) \/ InitRefused(e) \/ InitOk(e) \/ InitFails(e) => Flags'
  BY DEF LoadAbandoned, BackToSettings, InitRefused, InitOk, InitFails, Attach
<1>4. ASSUME NEW e \in Emus
      PROVE  TeardownOnMain(e) \/ ShowFrame(e) \/ EmulatorDidExit(e) => Flags'
  BY DEF TeardownOnMain, ShowFrame, ReopenFrames, EmulatorDidExit
<1>5. ASSUME NEW e \in Emus
      PROVE  LoadDisks(e) \/ Winding(e) => Flags'
  BY DEF LoadDisks, Winding, RunBegin, DestroyModules, DestroyThrows, RunReturns,
         PostExit, FrameDispatch
<1>6. ASSUME NEW e \in Emus
      PROVE  Guest(e) => Flags'
  BY DEF Guest, ShellReturns, Running, ShellThrows, FrameStore
<1> QED
  BY <1>1, <1>2, <1>3, <1>4, <1>5, <1>6 DEF Next, Dead, MainQueue

LEMMA DataStep == TypeInv /\ [Next]_vars => Data'
<1> SUFFICES ASSUME TypeInv, [Next]_vars PROVE Data'
  OBVIOUS
<1> USE DEF TypeInv, Data, vmVars, timerVars, bridgeVars, frameVars, procVars, histVars
<1>1. CASE Start
  <2>1. starts + 1 \in Emus /\ starts + 1 \in 0 .. MaxStarts
    BY <1>1, BoundsAssumption DEF Start, Emus
  <2> QED
    BY <1>1, <2>1 DEF Start, LoaderStates
<1>2. CASE CancelStart
  BY <1>2 DEF CancelStart, BackToSettings
<1>3. CASE Stop
  BY <1>3 DEF Stop, InvalidateTimers
<1>4. CASE Exit
  BY <1>4 DEF Exit
<1>5. CASE AtexitSpin
  BY <1>5, BoundsAssumption DEF AtexitSpin, CountSpin, MaySpin
<1>6. CASE AtexitForce
  BY <1>6 DEF AtexitForce
<1>7. ASSUME NEW e \in Emus, MainQueue(e)
      PROVE  Data'
  <2>0. ASSUME NEW k, MainBlock(k, e) PROVE mainQ' \in Seq(Block)
    BY <2>0 DEF MainBlock
  <2>1. CASE LoadAbandoned(e)
    BY <2>0, <2>1 DEF LoadAbandoned, BackToSettings
  <2>2. CASE InitRefused(e)
    BY <2>0, <2>2 DEF InitRefused, Attach
  <2>3. CASE InitOk(e)
    BY <2>0, <2>3 DEF InitOk, Attach, RunStates
  <2>4. CASE InitFails(e)
    BY <2>0, <2>4 DEF InitFails, Attach, Subsystems
  <2>5. CASE TeardownOnMain(e)
    BY <2>0, <2>5 DEF TeardownOnMain, RunStates
  <2>6. CASE ShowFrame(e)
    BY <2>0, <2>6 DEF ShowFrame, ReopenFrames
  <2>7. CASE EmulatorDidExit(e)
    BY <2>0, <2>7 DEF EmulatorDidExit, InvalidateTimers, ClearScreen, RunStates
  <2> QED
    BY <1>7, <2>1, <2>2, <2>3, <2>4, <2>5, <2>6, <2>7 DEF MainQueue
<1>8. ASSUME NEW e \in Emus, LoadDisks(e) \/ Winding(e) \/ Guest(e)
      PROVE  Data'
  <2>0. ASSUME NEW k \in {"loaded", "frame", "teardown", "exit"}, NEW f \in Emus, Dispatch(k, f)
        PROVE  mainQ' \in Seq(Block)
    BY <2>0 DEF Dispatch, Block
  <2>1. CASE LoadDisks(e)
    BY <2>0, <2>1 DEF LoadDisks, LoaderStates
  <2>2. CASE RunBegin(e)
    BY <2>2 DEF RunBegin, RunStep, RunStates
  <2>3. CASE DestroyModules(e)
    BY <2>0, <2>3 DEF DestroyModules, RunStep, RunStates, AfterDispatch
  <2>4. CASE DestroyThrows(e)
    BY <2>4 DEF DestroyThrows, RunStep, RunStates
  <2>5. CASE RunReturns(e)
    BY <2>5 DEF RunReturns, RunStep, RunStates
  <2>6. CASE PostExit(e)
    BY <2>0, <2>6 DEF PostExit, RunStep, RunStates, NotifyExit
  <2>7. CASE ShellReturns(e)
    BY <2>7 DEF ShellReturns, RunStep, RunStates, Running
  <2>8. CASE ShellThrows(e)
    BY <2>8 DEF ShellThrows, RunStep, RunStates
  <2>9. CASE FrameStore(e)
    BY <2>9 DEF FrameStore
  <2>10. CASE FrameDispatch(e)
    <3>1. s_frame_ctx \in Emus
      BY <2>10, BoundsAssumption DEF FrameDispatch, ContextSet, Emus, None
    <3> QED
      BY <2>0, <2>10, <3>1 DEF FrameDispatch
  <2> QED
    BY <1>8, <2>1, <2>2, <2>3, <2>4, <2>5, <2>6, <2>7, <2>8, <2>9, <2>10
       DEF Winding, Guest
<1>9. CASE UNCHANGED vars
  BY <1>9 DEF vars
<1> QED
  BY <1>1, <1>2, <1>3, <1>4, <1>5, <1>6, <1>7, <1>8, <1>9
     DEF Next, User, Atexit, Dead

LEMMA ContextStep == TypeInv /\ [Next]_vars => ContextSet'
<1> SUFFICES ASSUME TypeInv, [Next]_vars PROVE ContextSet'
  OBVIOUS
<1>0. /\ pc \in [Emus -> RunStates] /\ \A e \in Emus : e # None
      /\ ContextSet
  BY BoundsAssumption DEF TypeInv, Data, Emus, None
<1> USE <1>0 DEF ContextSet, bridgeVars, frameVars
<1>1. CASE User \/ Atexit \/ Dead
  BY <1>1 DEF User, Start, CancelStart, Stop, Exit, Atexit, AtexitSpin, AtexitForce,
              Dead, vars
<1>2. ASSUME NEW e \in Emus, MainQueue(e)
      PROVE  ContextSet'
  BY <1>2 DEF MainQueue, LoadAbandoned, InitRefused, InitOk, InitFails, Attach,
              TeardownOnMain, ShowFrame, EmulatorDidExit
<1>3. ASSUME NEW e \in Emus, LoadDisks(e) \/ Winding(e)
      PROVE  ContextSet'
  BY <1>3 DEF LoadDisks, Winding, RunStep, RunBegin, DestroyModules, AfterDispatch,
              DestroyThrows, RunReturns, PostExit, FrameDispatch
<1>4. ASSUME NEW e \in Emus, Guest(e)
      PROVE  ContextSet'
  BY <1>4 DEF Guest, RunStep, ShellReturns, ShellThrows, FrameStore
<1>5. CASE UNCHANGED vars
  BY <1>5 DEF vars
<1> QED
  BY <1>1, <1>2, <1>3, <1>4, <1>5 DEF Next

\* Every variable keeps its type, whatever the number of starts: in particular
\* the main queue only ever holds blocks of emulators that exist.
THEOREM TypeCorrect == Spec => []TypeOK
<1>1. TypeInv /\ [Next]_vars => TypeInv'
  BY FlagsStep, DataStep, ContextStep DEF TypeInv
<1> QED
  BY TypeInit, Halves, <1>1, PTL DEF Spec, TypeInv

-----------------------------------------------------------------------------
(* The engine has one owner.  The argument is about the main queue: a block  *)
(* that moves an emulator's thread (teardown, exit) or starts it (loaded) is *)
(* queued once, and only while the emulator is where the block expects it.   *)

QueueInv ==
  /\ NoDup
  /\ \A e \in Emus : /\ InQueue("loaded", e) => loader[e] \notin {"none", "loading"}
                     /\ InQueue("loaded", e) => pc[e] = "idle"
                     /\ loader[e] \in {"none", "loading"} => pc[e] = "idle"
                     /\ InQueue("teardown", e) <=> pc[e] = "gfx"
                     /\ InQueue("exit", e) <=> pc[e] = "posted"
                     /\ e > starts => loader[e] = "none"
\* one frame at a time, addressed to the emulator whose shell made it
FrameInv ==
  /\ \A e, f \in Emus : InQueue("frame", e) /\ InQueue("frame", f) => e = f
  /\ framePending <=> frameInHand # None \/ \E e \in Emus : InQueue("frame", e)
  /\ frameInHand # None =>
       (\A e \in Emus : ~InQueue("frame", e)) /\ pc[frameInHand] = "shell"
  /\ \A e \in Emus : pc[e] \in {"queued", "shell"} => s_frame_ctx = e
OwnerInv == TypeInv /\ QueueInv /\ EngineExclusive /\ FrameInv

LEMMA OwnerInit == Init => OwnerInv
BY TypeInit DEF Init, OwnerInv, QueueInv, EngineExclusive, FrameInv, NoDup, InQueue,
                Active

LEMMA OwnerStep == OwnerInv /\ [Next]_vars => QueueInv' /\ EngineExclusive'
<1> SUFFICES ASSUME OwnerInv, [Next]_vars PROVE QueueInv' /\ EngineExclusive'
  OBVIOUS
<1>0. /\ TypeInv /\ QueueInv /\ EngineExclusive /\ NoDup
      /\ pc \in [Emus -> RunStates] /\ loader \in [Emus -> LoaderStates]
      /\ mainQ \in Seq(Block)
      /\ starts \in Nat /\ Emus \subseteq Nat
  BY BoundsAssumption DEF OwnerInv, QueueInv, TypeInv, Data, Emus
\* what leaves the queue, the threads and the loaders alone
<1>1. ASSUME mainQ' = mainQ, pc' = pc, loader' = loader, s_running' = s_running,
             starts' = starts
      PROVE  QueueInv' /\ EngineExclusive'
  BY <1>0, <1>1 DEF QueueInv, EngineExclusive, NoDup, InQueue
<1>2. CASE Start
  <2>1. QueueInv'
    BY <1>0, <1>2 DEF Start, QueueInv, NoDup, InQueue
  <2>2. EngineExclusive'
    BY <1>0, <1>2 DEF Start, bridgeVars, EngineExclusive
  <2> QED
    BY <2>1, <2>2
<1>3. CASE \/ CancelStart \/ Stop \/ Exit \/ Atexit \/ UNCHANGED vars
           \/ \E e \in Emus : FrameStore(e)
  BY <1>1, <1>3 DEF CancelStart, Stop, Exit, Atexit, AtexitSpin, AtexitForce, vars,
                    FrameStore, bridgeVars
\* a block of the main queue
<1>4. ASSUME NEW e \in Emus, MainQueue(e)
      PROVE  QueueInv' /\ EngineExclusive'
  <2>0. ASSUME NEW k, MainBlock(k, e)
        PROVE  /\ NoDup' /\ InQueue(k, e)
               /\ \A k2, e2 : InQueue(k2, e2)' <=> /\ InQueue(k2, e2)
                                                   /\ ~(k2 = k /\ e2 = e)
    BY <1>0, <2>0, MainBlockLemma
  <2>1. CASE LoadAbandoned(e) \/ InitRefused(e) \/ InitFails(e)
    <3>1. /\ MainBlock("loaded", e)
          /\ pc' = pc /\ loader' = loader /\ s_running' = s_running /\ starts' = starts
      BY <2>1 DEF LoadAbandoned, InitRefused, InitFails, Attach, bridgeVars
    <3>2. QueueInv'
      BY <1>0, <2>0, <3>1 DEF QueueInv
    <3> QED
      BY <1>0, <3>1, <3>2 DEF EngineExclusive
  <2>2. CASE InitOk(e)
    <3>1. /\ MainBlock("loaded", e) /\ ~s_running /\ s_running' = TRUE
          /\ pc' = [pc EXCEPT ![e] = "queued"] /\ loader' = loader /\ starts' = starts
      BY <2>2 DEF InitOk, Attach, Refuses
    <3>2. pc[e] = "idle" /\ loader[e] \notin {"none", "loading"}
      BY <1>0, <2>0, <3>1 DEF QueueInv
    <3>3. QueueInv'
      BY <1>0, <2>0, <3>1, <3>2 DEF QueueInv
    <3>4. EngineExclusive'
      BY <1>0, <3>1 DEF EngineExclusive, Active
    <3> QED
      BY <3>3, <3>4
  <2>3. CASE TeardownOnMain(e)
    <3>1. /\ MainBlock("teardown", e) /\ s_running' = s_running
          /\ pc' = [pc EXCEPT ![e] = "clear"] /\ loader' = loader /\ starts' = starts
      BY <2>3 DEF TeardownOnMain
    <3>2. pc[e] = "gfx"
      BY <1>0, <2>0, <3>1 DEF QueueInv
    <3>3. QueueInv'
      BY <1>0, <2>0, <3>1, <3>2 DEF QueueInv
    <3>4. EngineExclusive'
      BY <1>0, <3>1, <3>2 DEF EngineExclusive, Active
    <3> QED
      BY <3>3, <3>4
  <2>4. CASE ShowFrame(e)
    <3>1. /\ MainBlock("frame", e) /\ s_running' = s_running
          /\ pc' = pc /\ loader' = loader /\ starts' = starts
      BY <2>4 DEF ShowFrame, bridgeVars
    <3>2. QueueInv'
      BY <1>0, <2>0, <3>1 DEF QueueInv
    <3> QED
      BY <1>0, <3>1, <3>2 DEF EngineExclusive
  <2>5. CASE EmulatorDidExit(e)
    <3>1. /\ MainBlock("exit", e) /\ s_running' = s_running
          /\ pc' = [pc EXCEPT ![e] = "exited"] /\ loader' = loader /\ starts' = starts
      BY <2>5 DEF EmulatorDidExit, bridgeVars
    <3>2. pc[e] = "posted"
      BY <1>0, <2>0, <3>1 DEF QueueInv
    <3>3. QueueInv'
      BY <1>0, <2>0, <3>1, <3>2 DEF QueueInv
    <3>4. EngineExclusive'
      BY <1>0, <3>1, <3>2 DEF EngineExclusive, Active
    <3> QED
      BY <3>3, <3>4
  <2> QED
    BY <1>4, <2>1, <2>2, <2>3, <2>4, <2>5 DEF MainQueue
\* the threads that send to it
<1>5. ASSUME NEW k \in {"loaded", "frame", "teardown", "exit"}, NEW e \in Emus,
             ~InQueue(k, e), Dispatch(k, e)
      PROVE  /\ NoDup'
             /\ \A k2, e2 : InQueue(k2, e2)' <=> \/ InQueue(k2, e2)
                                                 \/ k2 = k /\ e2 = e
  BY <1>0, <1>5, DispatchLemma
<1>6. ASSUME NEW e \in Emus, LoadDisks(e)
      PROVE  QueueInv' /\ EngineExclusive'
  <2>1. /\ loader[e] = "loading" /\ Dispatch("loaded", e)
        /\ pc' = pc /\ s_running' = s_running /\ starts' = starts
        /\ \E v \in {"skipped", "loaded", "failed"} : loader' = [loader EXCEPT ![e] = v]
    BY <1>6 DEF LoadDisks, bridgeVars
  <2>2. ~InQueue("loaded", e) /\ pc[e] = "idle" /\ ~(e > starts)
    BY <1>0, <2>1 DEF QueueInv
  <2>3. QueueInv'
    BY <1>0, <1>5, <2>1, <2>2 DEF QueueInv
  <2> QED
    BY <1>0, <2>1, <2>3 DEF EngineExclusive
\* a step of the emulator's thread that sends nothing
<1>7. ASSUME NEW e \in Emus, NEW from \in RunStates, NEW to \in RunStates,
             RunStep(e, from, to), mainQ' = mainQ, loader' = loader, starts' = starts,
             from \notin {"idle", "gfx", "posted"}, to \notin {"idle", "gfx", "posted"}
      PROVE  QueueInv'
  BY <1>0, <1>7 DEF QueueInv, RunStep, NoDup, InQueue
<1>8. ASSUME NEW e \in Emus, RunBegin(e) \/ ShellReturns(e) \/ ShellThrows(e) \/ DestroyThrows(e)
      PROVE  QueueInv' /\ EngineExclusive'
  <2>1. /\ \E from \in {"queued", "shell", "destroy"}, to \in {"shell", "destroy", "clear"} :
             RunStep(e, from, to)
        /\ mainQ' = mainQ /\ loader' = loader /\ starts' = starts /\ s_running' = s_running
    BY <1>0, <1>8 DEF RunBegin, ShellReturns, Running, ShellThrows, DestroyThrows, bridgeVars,
                      RunStep, EngineExclusive, Active
  <2>2. QueueInv'
    BY <1>7, <2>1 DEF RunStates
  <2>3. EngineExclusive'
    BY <1>0, <2>1 DEF EngineExclusive, Active, RunStep
  <2> QED
    BY <2>2, <2>3
<1>9. ASSUME NEW e \in Emus, DestroyModules(e)
      PROVE  QueueInv' /\ EngineExclusive'
  <2>1. /\ pc[e] = "destroy" /\ pc' = [pc EXCEPT ![e] = "gfx"] /\ Dispatch("teardown", e)
        /\ loader' = loader /\ starts' = starts /\ s_running' = s_running
    BY <1>9 DEF DestroyModules, RunStep, AfterDispatch
  <2>2. ~InQueue("teardown", e)
    BY <1>0, <2>1 DEF QueueInv
  <2>3. QueueInv'
    BY <1>0, <1>5, <2>1, <2>2 DEF QueueInv
  <2>4. EngineExclusive'
    BY <1>0, <2>1 DEF EngineExclusive, Active
  <2> QED
    BY <2>3, <2>4
<1>10. ASSUME NEW e \in Emus, RunReturns(e)
       PROVE  QueueInv' /\ EngineExclusive'
  <2>1. /\ RunStep(e, "clear", "tail") /\ s_running' = FALSE
        /\ mainQ' = mainQ /\ loader' = loader /\ starts' = starts
    BY <1>10 DEF RunReturns
  <2>2. QueueInv'
    BY <1>7, <2>1 DEF RunStates
  <2>3. EngineExclusive'
    BY <1>0, <2>1 DEF EngineExclusive, Active, RunStep
  <2> QED
    BY <2>2, <2>3
<1>11. ASSUME NEW e \in Emus, PostExit(e)
       PROVE  QueueInv' /\ EngineExclusive'
  <2>1. /\ pc[e] = "tail" /\ pc' = [pc EXCEPT ![e] = "posted"] /\ Dispatch("exit", e)
        /\ loader' = loader /\ starts' = starts /\ s_running' = s_running
    BY <1>11 DEF PostExit, RunStep, NotifyExit, bridgeVars
  <2>2. ~InQueue("exit", e)
    BY <1>0, <2>1 DEF QueueInv
  <2>3. QueueInv'
    BY <1>0, <1>5, <2>1, <2>2 DEF QueueInv
  <2>4. EngineExclusive'
    BY <1>0, <2>1 DEF EngineExclusive, Active
  <2> QED
    BY <2>3, <2>4
<1>12. ASSUME NEW e \in Emus, FrameDispatch(e)
       PROVE  QueueInv' /\ EngineExclusive'
  <2>1. /\ Dispatch("frame", s_frame_ctx) /\ frameInHand = e /\ e # None
        /\ pc' = pc /\ loader' = loader /\ starts' = starts /\ s_running' = s_running
    BY <1>12, BoundsAssumption DEF FrameDispatch, bridgeVars, Emus, None
  <2>2. s_frame_ctx = e /\ ~InQueue("frame", s_frame_ctx)
    BY <2>1 DEF OwnerInv, FrameInv
  <2>3. QueueInv'
    BY <1>0, <1>5, <2>1, <2>2 DEF QueueInv
  <2> QED
    BY <1>0, <2>1, <2>3 DEF EngineExclusive
<1> QED
  BY <1>2, <1>3, <1>4, <1>6, <1>8, <1>9, <1>10, <1>11, <1>12
     DEF Next, User, Dead, Winding, Guest
LEMMA FrameStep == OwnerInv /\ [Next]_vars => FrameInv'
<1> SUFFICES ASSUME OwnerInv, [Next]_vars PROVE FrameInv'
  OBVIOUS
<1>0. /\ TypeInv /\ QueueInv /\ EngineExclusive /\ FrameInv /\ NoDup
      /\ pc \in [Emus -> RunStates] /\ mainQ \in Seq(Block)
      /\ frameInHand \in Emus \cup {None} /\ \A e \in Emus : e # None
  BY BoundsAssumption DEF OwnerInv, QueueInv, TypeInv, Data, Emus, None
<1>1. ASSUME mainQ' = mainQ, pc' = pc, s_frame_ctx' = s_frame_ctx,
             framePending' = framePending, frameInHand' = frameInHand
      PROVE  FrameInv'
  BY <1>0, <1>1 DEF FrameInv, InQueue
<1>2. CASE User \/ Atexit \/ UNCHANGED vars
  BY <1>1, <1>2 DEF User, Start, CancelStart, Stop, Exit, Atexit, AtexitSpin,
                    AtexitForce, vars, bridgeVars, frameVars
\* a block other than a frame leaves: pc[e] may change, but not to or from "shell"
<1>3. ASSUME NEW e \in Emus, NEW k \in {"loaded", "teardown", "exit"}, MainBlock(k, e),
             framePending' = framePending, frameInHand' = frameInHand,
             \A f \in Emus : pc'[f] \in {"queued", "shell"} => s_frame_ctx' = f,
             \A f \in Emus : pc[f] = "shell" => pc'[f] = "shell"
      PROVE  FrameInv'
  <2>1. \A f \in Emus : InQueue("frame", f)' <=> InQueue("frame", f)
    BY <1>0, <1>3, MainBlockLemma
  <2> QED
    BY <1>0, <1>3, <2>1 DEF FrameInv
<1>4. ASSUME NEW e \in Emus, MainQueue(e)
      PROVE  FrameInv'
  <2>0. ASSUME NEW k, MainBlock(k, e) PROVE InQueue(k, e)
    BY <1>0, <2>0, MainBlockLemma
  <2>1. CASE LoadAbandoned(e) \/ InitRefused(e)
    BY <1>0, <1>3, <2>1 DEF LoadAbandoned, InitRefused, Attach, bridgeVars, frameVars,
                            FrameInv
  <2>2. CASE InitOk(e) \/ InitFails(e)
    <3>1. /\ MainBlock("loaded", e) /\ s_frame_ctx' = e
          /\ framePending' = framePending /\ frameInHand' = frameInHand
          /\ pc' = pc \/ pc' = [pc EXCEPT ![e] = "queued"]
      BY <2>2 DEF InitOk, InitFails, Attach, frameVars
    <3>2. \A f \in Emus : pc[f] \notin {"queued", "shell"}
      BY <1>0, <2>2 DEF InitOk, InitFails, Refuses, EngineExclusive, Active
    <3> QED
      BY <1>0, <1>3, <3>1, <3>2
  <2>3. CASE TeardownOnMain(e)
    <3>1. pc[e] = "gfx"
      BY <1>0, <2>0, <2>3 DEF TeardownOnMain, QueueInv
    <3> QED
      BY <1>0, <1>3, <2>3, <3>1 DEF TeardownOnMain, frameVars, FrameInv
  <2>4. CASE EmulatorDidExit(e)
    <3>1. pc[e] = "posted"
      BY <1>0, <2>0, <2>4 DEF EmulatorDidExit, QueueInv
    <3> QED
      BY <1>0, <1>3, <2>4, <3>1 DEF EmulatorDidExit, bridgeVars, frameVars, FrameInv
  <2>5. CASE ShowFrame(e)
    <3>1. /\ MainBlock("frame", e) /\ pc' = pc /\ s_frame_ctx' = s_frame_ctx
          /\ framePending' = FALSE /\ frameInHand' = frameInHand
      BY <2>5 DEF ShowFrame, ReopenFrames, bridgeVars
    <3>2. InQueue("frame", e) /\ frameInHand = None
      BY <1>0, <2>0, <3>1 DEF FrameInv
    <3>3. \A f \in Emus : ~InQueue("frame", f)'
      BY <1>0, <3>1, <3>2, MainBlockLemma DEF FrameInv
    <3> QED
      BY <1>0, <3>1, <3>2, <3>3 DEF FrameInv
  <2> QED
    BY <1>4, <2>1, <2>2, <2>3, <2>4, <2>5 DEF MainQueue
\* a thread sends a block other than a frame, or none
<1>5. ASSUME NEW e \in Emus, NEW k \in {"loaded", "teardown", "exit"},
             mainQ' = mainQ \/ (~InQueue(k, e) /\ Dispatch(k, e)),
             s_frame_ctx' = s_frame_ctx,
             framePending' = framePending, frameInHand' = frameInHand,
             \A f \in Emus : pc'[f] \in {"queued", "shell"} => pc[f] \in {"queued", "shell"},
             frameInHand # None => pc'[frameInHand] = pc[frameInHand]
      PROVE  FrameInv'
  <2>1. \A f \in Emus : InQueue("frame", f)' <=> InQueue("frame", f)
    <3>1. CASE mainQ' = mainQ
      BY <3>1 DEF InQueue
    <3>2. CASE ~InQueue(k, e) /\ Dispatch(k, e)
      BY <1>0, <3>2, DispatchLemma
    <3> QED
      BY <1>5, <3>1, <3>2
  <2> QED
    BY <1>0, <1>5, <2>1 DEF FrameInv
<1>6. ASSUME NEW e \in Emus, LoadDisks(e)
      PROVE  FrameInv'
  BY <1>0, <1>5, <1>6 DEF LoadDisks, QueueInv, bridgeVars, frameVars
<1>7. ASSUME NEW e \in Emus, RunBegin(e) \/ RunReturns(e) \/ DestroyThrows(e)
                             \/ ShellReturns(e) \/ ShellThrows(e)
      PROVE  FrameInv'
  BY <1>0, <1>5, <1>7 DEF RunBegin, RunReturns, DestroyThrows, ShellReturns, ShellThrows,
                          RunStep, bridgeVars, frameVars
<1>8. ASSUME NEW e \in Emus, DestroyModules(e) \/ PostExit(e)
      PROVE  FrameInv'
  BY <1>0, <1>5, <1>8 DEF DestroyModules, AfterDispatch, PostExit, NotifyExit, RunStep,
                          QueueInv, bridgeVars, frameVars
<1>9. ASSUME NEW e \in Emus, FrameStore(e)
      PROVE  FrameInv'
  BY <1>0, <1>9 DEF FrameStore, Drops, FrameInv, InQueue, bridgeVars
<1>10. ASSUME NEW e \in Emus, FrameDispatch(e)
       PROVE  FrameInv'
  <2>1. /\ Dispatch("frame", s_frame_ctx) /\ frameInHand = e /\ frameInHand' = None
        /\ pc' = pc /\ s_frame_ctx' = s_frame_ctx /\ framePending' = framePending
    BY <1>10 DEF FrameDispatch, bridgeVars
  <2>2. s_frame_ctx = e /\ framePending /\ \A f \in Emus : ~InQueue("frame", f)
    BY <1>0, <2>1 DEF FrameInv
  <2>3. \A f \in Emus : InQueue("frame", f)' <=> f = e
    BY <1>0, <2>1, <2>2, DispatchLemma
  <2> QED
    BY <1>0, <2>1, <2>2, <2>3 DEF FrameInv
<1> QED
  BY <1>2, <1>4, <1>6, <1>7, <1>8, <1>9, <1>10 DEF Next, Dead, Winding, Guest

LEMMA OwnerAlways == Spec => []OwnerInv
<1>1. OwnerInv /\ [Next]_vars => OwnerInv'
  BY FlagsStep, DataStep, ContextStep, OwnerStep, FrameStep DEF OwnerInv, TypeInv
<1> QED
  BY OwnerInit, <1>1, PTL DEF Spec

\* DOSBox's static state never has two owners, and s_running tells whether it has
\* one, however many sessions are started, cancelled, refused or end in whatever
\* order.
THEOREM EngineIsExclusive == Spec => []EngineExclusive
BY OwnerAlways, PTL DEF OwnerInv

\* The unretained pointer given to the frame callback is that of the emulator
\* whose own block runs the shell.
THEOREM FrameContextIsLive == Spec => []FrameContextLive
<1>1. OwnerInv => FrameContextLive
  BY DEF OwnerInv, FrameInv, FrameContextLive
<1> QED
  BY OwnerAlways, <1>1, PTL

\* The frame coalescing of DOSEmulator.mm: never two frames in the main queue, and
\* s_frame_pending is neither lost nor left set.
THEOREM FramesAreCoalesced == Spec => []FrameCoalesced
<1>1. ASSUME OwnerInv PROVE FrameCoalesced
  <2>1. /\ mainQ \in Seq(Block) /\ NoDup /\ FrameInv
    BY <1>1 DEF OwnerInv, TypeInv, Data, QueueInv
  <2>2. \A i \in DOMAIN mainQ : mainQ[i].kind = "frame" =>
          mainQ[i].emu \in Emus /\ mainQ[i] = [kind |-> "frame", emu |-> mainQ[i].emu]
    <3>1. \A b \in Block : b.emu \in Emus /\ b = [kind |-> b.kind, emu |-> b.emu]
      BY DEF Block
    <3>2. \A i \in DOMAIN mainQ : mainQ[i] \in Block
      BY <2>1
    <3> QED
      BY <3>1, <3>2
  <2>3. \A i \in DOMAIN mainQ : mainQ[i].kind = "frame" =>
          InQueue("frame", mainQ[i].emu)
    BY <2>2 DEF InQueue
  <2>4. \A e \in Emus : InQueue("frame", e) =>
          \E i \in DOMAIN mainQ : mainQ[i].kind = "frame"
    BY DEF InQueue
  <2> QED
    BY <2>1, <2>2, <2>3, <2>4 DEF FrameInv, NoDup, FrameCoalesced
<1> QED
  BY OwnerAlways, <1>1, PTL

\* A thread waits in dispatch_sync exactly while its teardown block is queued.
THEOREM TeardownIsAwaited == Spec => []TeardownAwaited
<1>1. OwnerInv => TeardownAwaited
  BY DEF OwnerInv, QueueInv, TeardownAwaited
<1> QED
  BY OwnerAlways, <1>1, PTL
-----------------------------------------------------------------------------
(* No frame after the end.  The argument is the order of the main queue:     *)
(* the exit of an emulator is queued behind all of its frames.               *)

FramesFirst ==
  \A i, j \in DOMAIN mainQ :
    mainQ[i].kind = "exit" /\ mainQ[j].kind = "frame" /\ mainQ[i].emu = mainQ[j].emu
      => j < i
StaleInv ==
  /\ NoStaleImage
  /\ \A e \in Emus : InQueue("frame", e) => pc[e] # "exited"
  /\ FramesFirst

\* The queue's head may leave.
LEMMA FramesFirstTail ==
  ASSUME mainQ \in Seq(Block), mainQ # <<>>, FramesFirst, mainQ' = Tail(mainQ)
  PROVE  FramesFirst'
<1>1. \A i \in DOMAIN mainQ' : i \in Nat /\ i + 1 \in DOMAIN mainQ /\ mainQ'[i] = mainQ[i + 1]
  OBVIOUS
<1> SUFFICES ASSUME NEW i \in DOMAIN mainQ', NEW j \in DOMAIN mainQ',
                    mainQ'[i].kind = "exit", mainQ'[j].kind = "frame",
                    mainQ'[i].emu = mainQ'[j].emu
             PROVE  j < i
  BY DEF FramesFirst
<1>2. j + 1 < i + 1
  BY <1>1 DEF FramesFirst
<1> QED
  BY <1>1, <1>2

\* A block may join it, unless it is a frame of one whose exit is queued.
LEMMA FramesFirstAppend ==
  ASSUME mainQ \in Seq(Block), FramesFirst,
         NEW k \in {"loaded", "frame", "teardown", "exit"}, NEW e \in Emus, Dispatch(k, e),
         k = "frame" => ~InQueue("exit", e)
  PROVE  FramesFirst'
<1>1. /\ DOMAIN mainQ = 1 .. Len(mainQ) /\ DOMAIN mainQ' = 1 .. Len(mainQ) + 1
      /\ Len(mainQ) \in Nat
      /\ \A i \in DOMAIN mainQ : mainQ'[i] = mainQ[i]
      /\ mainQ'[Len(mainQ) + 1] = [kind |-> k, emu |-> e]
  BY DEF Dispatch, Block
<1> SUFFICES ASSUME NEW i \in DOMAIN mainQ', NEW j \in DOMAIN mainQ',
                    mainQ'[i].kind = "exit", mainQ'[j].kind = "frame",
                    mainQ'[i].emu = mainQ'[j].emu
             PROVE  j < i
  BY DEF FramesFirst
<1>2. CASE i \in DOMAIN mainQ /\ j \in DOMAIN mainQ
  BY <1>1, <1>2 DEF FramesFirst
<1>3. CASE j \in DOMAIN mainQ /\ i = Len(mainQ) + 1
  BY <1>1, <1>3
<1>4. CASE j = Len(mainQ) + 1 /\ i \in DOMAIN mainQ
  <2>1. mainQ[i] \in Block /\ mainQ[i].kind = "exit" /\ mainQ[i].emu = e /\ k = "frame"
    BY <1>1, <1>4
  <2>2. mainQ[i] = [kind |-> "exit", emu |-> e]
    BY <2>1 DEF Block
  <2> QED
    BY <1>4, <2>1, <2>2 DEF InQueue
<1>5. CASE j = Len(mainQ) + 1 /\ i = Len(mainQ) + 1
  BY <1>1, <1>5
<1> QED
  BY <1>1, <1>2, <1>3, <1>4, <1>5

LEMMA StaleStep == OwnerInv /\ StaleInv /\ [Next]_vars => StaleInv'
<1> SUFFICES ASSUME OwnerInv, StaleInv, [Next]_vars PROVE StaleInv'
  OBVIOUS
<1>0. /\ QueueInv /\ FrameInv /\ NoDup /\ mainQ \in Seq(Block)
      /\ pc \in [Emus -> RunStates] /\ gfxImage \in Emus \cup {None}
      /\ frameInHand \in Emus \cup {None} /\ FramesFirst /\ NoStaleImage
  BY DEF OwnerInv, QueueInv, TypeInv, Data, StaleInv
\* what ends no emulator, shows nothing and queues nothing
<1>1. ASSUME mainQ' = mainQ, gfxImage' = gfxImage,
             \A e \in Emus : pc'[e] = "exited" => pc[e] = "exited"
      PROVE  StaleInv'
  BY <1>0, <1>1 DEF StaleInv, NoStaleImage, InQueue, FramesFirst
\* what takes a block other than an exit from the queue
<1>2. ASSUME NEW e \in Emus, NEW k \in {"loaded", "frame", "teardown"}, MainBlock(k, e),
             gfxImage' = gfxImage \/ (k = "frame" /\ gfxImage' = e),
             \A f \in Emus : pc'[f] = "exited" => pc[f] = "exited"
      PROVE  StaleInv'
  <2>1. FramesFirst'
    BY <1>0, <1>2, FramesFirstTail DEF MainBlock
  <2>2. /\ InQueue(k, e)
        /\ \A f \in Emus : InQueue("frame", f)' => InQueue("frame", f)
    BY <1>0, <1>2, MainBlockLemma
  <2>3. NoStaleImage'
    BY <1>0, <1>2, <2>2 DEF StaleInv, NoStaleImage
  <2> QED
    BY <1>2, <2>1, <2>2, <2>3 DEF StaleInv
\* what adds a block other than a frame
<1>3. ASSUME NEW e \in Emus, NEW k \in {"loaded", "teardown", "exit"}, Dispatch(k, e),
             ~InQueue(k, e), gfxImage' = gfxImage,
             \A f \in Emus : pc'[f] = "exited" => pc[f] = "exited"
      PROVE  StaleInv'
  <2>1. FramesFirst'
    BY <1>0, <1>3, FramesFirstAppend
  <2>2. \A f \in Emus : InQueue("frame", f)' => InQueue("frame", f)
    BY <1>0, <1>3, DispatchLemma
  <2> QED
    BY <1>0, <1>3, <2>1, <2>2 DEF StaleInv, NoStaleImage
<1>4. CASE User \/ Atexit \/ Dead \/ UNCHANGED vars
  BY <1>1, <1>4 DEF User, Start, CancelStart, Stop, Exit, Atexit, AtexitSpin, AtexitForce,
                    Dead, vars, vmVars
<1>5. ASSUME NEW e \in Emus, MainQueue(e) PROVE StaleInv'
  <2>1. CASE \/ LoadAbandoned(e) \/ InitRefused(e) \/ InitFails(e)
    BY <1>2, <2>1 DEF LoadAbandoned, InitRefused, InitFails, Attach
  <2>2. CASE InitOk(e)
    BY <1>0, <1>2, <2>2 DEF InitOk, Attach
  <2>3. CASE TeardownOnMain(e)
    BY <1>0, <1>2, <2>3 DEF TeardownOnMain, vmVars
  <2>4. CASE ShowFrame(e)
    BY <1>2, <2>4 DEF ShowFrame
  <2>5. CASE EmulatorDidExit(e)
    <3>1. /\ MainBlock("exit", e) /\ gfxImage' = None /\ pc' = [pc EXCEPT ![e] = "exited"]
          /\ mainQ # <<>> /\ mainQ' = Tail(mainQ) /\ mainQ[1] = [kind |-> "exit", emu |-> e]
      BY <2>5 DEF EmulatorDidExit, ClearScreen, MainBlock
    <3>2. ~InQueue("frame", e)
      <4> SUFFICES ASSUME NEW j \in DOMAIN mainQ, mainQ[j] = [kind |-> "frame", emu |-> e]
                   PROVE  FALSE
        BY DEF InQueue
      <4>1. 1 \in DOMAIN mainQ /\ j \in Nat /\ j >= 1
        BY <1>0, <3>1
      <4> QED
        BY <1>0, <3>1, <4>1 DEF FramesFirst
    <3>3. /\ FramesFirst'
          /\ \A f \in Emus : InQueue("frame", f)' => InQueue("frame", f)
      BY <1>0, <3>1, FramesFirstTail, MainBlockLemma
    <3> QED
      BY <1>0, <3>1, <3>2, <3>3 DEF StaleInv, NoStaleImage
  <2> QED
    BY <1>5, <2>1, <2>2, <2>3, <2>4, <2>5 DEF MainQueue
<1>6. ASSUME NEW e \in Emus, LoadDisks(e) PROVE StaleInv'
  BY <1>0, <1>3, <1>6 DEF LoadDisks, vmVars, QueueInv
<1>7. ASSUME NEW e \in Emus, Winding(e) PROVE StaleInv'
  <2>1. CASE RunBegin(e) \/ DestroyThrows(e) \/ RunReturns(e)
    BY <1>0, <1>1, <2>1 DEF RunBegin, DestroyThrows, RunReturns, RunStep, vmVars
  <2>2. CASE DestroyModules(e)
    BY <1>0, <1>3, <2>2 DEF DestroyModules, RunStep, AfterDispatch, vmVars, QueueInv
  <2>3. CASE PostExit(e)
    BY <1>0, <1>3, <2>3 DEF PostExit, NotifyExit, RunStep, vmVars, QueueInv
  <2>4. CASE FrameDispatch(e)
    <3>1. /\ Dispatch("frame", e) /\ pc' = pc /\ gfxImage' = gfxImage /\ pc[e] = "shell"
          /\ ~InQueue("frame", e)
      BY <1>0, <2>4 DEF FrameDispatch, FrameInv, vmVars, Emus, None
    <3>2. ~InQueue("exit", e)
      BY <1>0, <3>1 DEF QueueInv
    <3>3. FramesFirst'
      BY <1>0, <3>1, <3>2, FramesFirstAppend
    <3>4. \A f \in Emus : InQueue("frame", f)' => InQueue("frame", f) \/ f = e
      BY <1>0, <3>1, DispatchLemma
    <3> QED
      BY <1>0, <3>1, <3>3, <3>4 DEF StaleInv, NoStaleImage
  <2> QED
    BY <1>7, <2>1, <2>2, <2>3, <2>4 DEF Winding
<1>8. ASSUME NEW e \in Emus, Guest(e) PROVE StaleInv'
  BY <1>0, <1>1, <1>8 DEF Guest, ShellReturns, ShellThrows, FrameStore, RunStep, vmVars
<1> QED
  BY <1>4, <1>5, <1>6, <1>7, <1>8 DEF Next

LEMMA StaleAlways == Spec => [](OwnerInv /\ StaleInv)
<1>1. Init => StaleInv
  BY DEF Init, StaleInv, NoStaleImage, FramesFirst, InQueue
<1> QED
  BY OwnerAlways, <1>1, StaleStep, PTL DEF Spec

\* A frame reaches the screen through a live context, alone, and before the end of
\* the session that drew it is announced.
THEOREM FramesAreSafe == Spec => []FramesSafe
<1>1. StaleInv => NoStaleImage
  BY DEF StaleInv
<1> QED
  BY FrameContextIsLive, FramesAreCoalesced, StaleAlways, <1>1, PTL DEF FramesSafe

\* DOSBox has one owner, and a thread waits for the main thread exactly while its
\* teardown is queued there.
THEOREM EngineIsOwned == Spec => []EngineOwned
BY EngineIsExclusive, TeardownIsAwaited, PTL DEF EngineOwned
-----------------------------------------------------------------------------
(* dosbox_init builds on a clean slate.                                      *)

CleanInv ==
  ~threw => /\ up # {} => \E e \in Emus : pc[e] \in {"queued", "shell", "destroy", "gfx"}
            /\ \A e \in Emus : pc[e] = "gfx" => up \subseteq {"gfx"}

LEMMA CleanStep == OwnerInv /\ CleanInv /\ [Next]_vars => CleanInv'
<1> SUFFICES ASSUME OwnerInv, CleanInv, [Next]_vars, ~threw' PROVE CleanInv'
  BY DEF CleanInv
<1>0. /\ QueueInv /\ EngineExclusive /\ pc \in [Emus -> RunStates]
      /\ up \subseteq Subsystems /\ mainQ \in Seq(Block) /\ NoDup
  BY DEF OwnerInv, QueueInv, TypeInv, Data
<1>1. CASE pc' = pc /\ up' = up /\ threw' = threw
  BY <1>1 DEF CleanInv
<1>2. CASE User \/ Atexit \/ UNCHANGED vars
  BY <1>1, <1>2 DEF User, Start, CancelStart, Stop, Exit, Atexit, AtexitSpin,
                    AtexitForce, vars, bridgeVars, histVars
<1>3. ASSUME NEW e \in Emus, MainQueue(e)
      PROVE  CleanInv'
  <2>0. ASSUME NEW k, MainBlock(k, e) PROVE InQueue(k, e)
    BY <1>0, <2>0, MainBlockLemma
  <2>1. CASE LoadAbandoned(e) \/ InitRefused(e) \/ ShowFrame(e)
    BY <1>1, <2>1 DEF LoadAbandoned, InitRefused, ShowFrame, bridgeVars, histVars
  <2>2. CASE InitOk(e)
    <3>1. /\ pc' = [pc EXCEPT ![e] = "queued"]
          /\ \A f \in Emus : pc[f] \notin Active
      BY <1>0, <2>2 DEF InitOk, Refuses, EngineExclusive
    <3> QED
      BY <1>0, <3>1 DEF CleanInv, Active
  <2>3. CASE InitFails(e)
    <3>1. PICK started \in {{}, {"gfx"}, {"gfx", "modules"}} :
             /\ up' = (up \cup started) \ (IF started = {} THEN {} ELSE {"hostio"})
             /\ threw' = (threw \/ started # {})
      BY <2>3 DEF InitFails
    <3>2. started = {} /\ ~threw
      BY <3>1
    <3>3. up' = up /\ pc' = pc
      BY <2>3, <3>1, <3>2 DEF InitFails
    <3> QED
      BY <3>2, <3>3 DEF CleanInv
  <2>4. CASE TeardownOnMain(e)
    <3>1. /\ pc[e] = "gfx" /\ pc' = [pc EXCEPT ![e] = "clear"]
          /\ up' = up \ {"gfx"} /\ threw' = threw
      BY <1>0, <2>0, <2>4 DEF TeardownOnMain, QueueInv, histVars
    <3>2. up' = {} /\ \A f \in Emus : pc'[f] # "gfx"
      BY <1>0, <3>1 DEF CleanInv, EngineExclusive, Active
    <3> QED
      BY <3>2 DEF CleanInv
  <2>5. CASE EmulatorDidExit(e)
    <3>1. /\ pc[e] = "posted" /\ pc' = [pc EXCEPT ![e] = "exited"]
          /\ up' = up /\ threw' = threw
      BY <1>0, <2>0, <2>5 DEF EmulatorDidExit, QueueInv, bridgeVars, histVars
    <3> QED
      BY <1>0, <3>1 DEF CleanInv
  <2> QED
    BY <1>3, <2>1, <2>2, <2>3, <2>4, <2>5 DEF MainQueue
<1>4. ASSUME NEW e \in Emus, LoadDisks(e) \/ FrameStore(e) \/ FrameDispatch(e)
      PROVE  CleanInv'
  BY <1>1, <1>4 DEF LoadDisks, FrameStore, FrameDispatch, bridgeVars, histVars
<1>5. ASSUME NEW e \in Emus, DestroyModules(e)
      PROVE  CleanInv'
  <2>1. /\ pc[e] = "destroy" /\ pc' = [pc EXCEPT ![e] = "gfx"]
        /\ up' = up \ {"hostio", "modules"}
    BY <1>5 DEF DestroyModules, RunStep, AfterDispatch
  <2> QED
    BY <1>0, <2>1 DEF CleanInv, Subsystems
<1>6. ASSUME NEW e \in Emus, RunBegin(e) \/ ShellReturns(e)
      PROVE  CleanInv'
  <2>1. /\ up' = up /\ threw' = threw
        /\ \/ pc[e] = "queued" /\ pc' = [pc EXCEPT ![e] = "shell"]
           \/ pc[e] = "shell" /\ pc' = [pc EXCEPT ![e] = "destroy"]
    BY <1>0, <1>6 DEF RunBegin, ShellReturns, RunStep, bridgeVars, histVars,
                      EngineExclusive, Active
  <2> QED
    BY <1>0, <2>1 DEF CleanInv
<1>7. ASSUME NEW e \in Emus, RunReturns(e) \/ PostExit(e)
      PROVE  CleanInv'
  <2>1. /\ up' = up /\ threw' = threw
        /\ \/ pc[e] = "clear" /\ pc' = [pc EXCEPT ![e] = "tail"]
           \/ pc[e] = "tail" /\ pc' = [pc EXCEPT ![e] = "posted"]
    BY <1>7 DEF RunReturns, PostExit, RunStep, bridgeVars, histVars
  <2> QED
    BY <1>0, <2>1 DEF CleanInv
<1>8. ASSUME NEW e \in Emus, ShellThrows(e) \/ DestroyThrows(e)
      PROVE  CleanInv'
  BY <1>8 DEF ShellThrows, DestroyThrows
<1> QED
  BY <1>2, <1>3, <1>4, <1>5, <1>6, <1>7, <1>8 DEF Next, Dead, Winding, Guest

\* Unless DOSBox has thrown, a dosbox_init that goes ahead finds nothing of the
\* previous session initialised: s_running closes only after the teardown.
THEOREM InitIsClean == Spec => InitOnCleanState
<1>1. Init => CleanInv
  BY DEF Init, CleanInv
<1>2. OwnerInv /\ CleanInv =>
        (up' # {} /\ s_running' /\ ~s_running => up = {} \/ threw)
  BY DEF OwnerInv, CleanInv, EngineExclusive, Active
<1>3. Spec => [](OwnerInv /\ CleanInv)
  BY <1>1, CleanStep, OwnerAlways, PTL DEF Spec
<1> QED
  BY <1>2, <1>3, PTL DEF Spec, InitOnCleanState
-----------------------------------------------------------------------------
(* The safety part of the refinement: each step is a step of Machine.        *)

States == [e \in Emus |-> MachineState(e)]

\* Moving one thread within what Machine does not tell apart changes nothing.
LEMMA SameState ==
  ASSUME pc \in [Emus -> RunStates], NEW e \in Emus, NEW to \in RunStates,
         pc' = [pc EXCEPT ![e] = to],
         \/ pc[e] \in Active /\ to \in Active
         \/ pc[e] = "tail" /\ to = "posted"
  PROVE  States' = States
<1>1. MachineState(e)' = MachineState(e)
  BY DEF MachineState, Active, RunStates
<1>2. \A f \in Emus : f # e => MachineState(f)' = MachineState(f)
  BY DEF MachineState
<1> QED
  BY <1>1, <1>2 DEF States

LEMMA MovedState ==
  ASSUME pc \in [Emus -> RunStates], NEW e \in Emus, NEW to \in RunStates,
         pc' = [pc EXCEPT ![e] = to]
  PROVE  States' = [States EXCEPT ![e] = MachineState(e)']
<1>1. \A f \in Emus : f # e => MachineState(f)' = MachineState(f)
  BY DEF MachineState
<1> QED
  BY <1>1 DEF States

\* At any time the bridge is a machine with at most one owner, that is given to an
\* owner once and whose end is announced once.
THEOREM BridgeIsOneMachine == Spec => OneMachine!Safety
<1> USE DEF OneMachine!Move
<1>1. Init => OneMachine!Init
  <2> SUFFICES ASSUME Init PROVE OneMachine!Init
    OBVIOUS
  <2>1. \A e \in Emus : MachineState(e) = "new"
    BY DEF Init, MachineState, Active
  <2>2. [e \in Emus |-> MachineState(e)] = [e \in Emus |-> "new"]
    BY <2>1, Zenon
  <2>3. (proc # "dead") = TRUE
    BY DEF Init
  <2> QED
    BY <2>2, <2>3, Zenon DEF OneMachine!Init
<1>2. OwnerInv /\ [Next]_vars => [OneMachine!Next]_<<States, proc # "dead">>
  <2> SUFFICES ASSUME OwnerInv, [Next]_vars
               PROVE  \/ OneMachine!Next
                      \/ States' = States /\ (proc # "dead")' = (proc # "dead")
    OBVIOUS
  <2>0. /\ QueueInv /\ EngineExclusive /\ pc \in [Emus -> RunStates]
        /\ mainQ \in Seq(Block) /\ NoDup
        /\ \A e \in Emus : States[e] = MachineState(e)
    BY DEF OwnerInv, QueueInv, TypeInv, Data, States
  <2>1. CASE pc' = pc /\ (proc # "dead")' = (proc # "dead")
    BY <2>1 DEF States, MachineState
  <2>2. CASE pc' = pc /\ proc # "dead" /\ proc' = "dead"
    <3>1. States' = States
      BY <2>2 DEF States, MachineState
    <3> QED
      BY <2>2, <3>1 DEF OneMachine!Next, OneMachine!PowerOff, States
  <2>3. CASE User \/ Atexit \/ UNCHANGED vars
    BY <2>1, <2>2, <2>3 DEF User, Start, CancelStart, Stop, Exit, Atexit, AtexitSpin,
                            AtexitForce, vars, procVars
  <2>4. ASSUME NEW e \in Emus, InitOk(e)
        PROVE  OneMachine!Next
    <3>1. /\ pc[e] = "idle" /\ pc' = [pc EXCEPT ![e] = "queued"]
          /\ proc # "dead" /\ proc' = proc
          /\ \A f \in Emus : pc[f] \notin Active
      BY <2>0, <2>4, MainBlockLemma DEF InitOk, Attach, Refuses, MainBlock, QueueInv,
                                        EngineExclusive, procVars
    <3>2. States' = [States EXCEPT ![e] = "on"]
      BY <2>0, <3>1, MovedState DEF MachineState, Active, RunStates
    <3>3. MachineState(e) = "new" /\ \A f \in Emus : MachineState(f) # "on"
      BY <2>0, <3>1 DEF MachineState, Active, RunStates
    <3> QED
      BY <2>0, <3>1, <3>2, <3>3 DEF OneMachine!Next, OneMachine!Boot, States
  <2>5. ASSUME NEW e \in Emus, RunReturns(e)
        PROVE  OneMachine!Next
    <3>1. /\ pc[e] = "clear" /\ pc' = [pc EXCEPT ![e] = "tail"]
          /\ proc # "dead" /\ proc' = proc
      BY <2>5 DEF RunReturns, RunStep, procVars
    <3>2. States' = [States EXCEPT ![e] = "off"]
      BY <2>0, <3>1, MovedState DEF MachineState, Active, RunStates
    <3>3. MachineState(e) = "on"
      BY <3>1 DEF MachineState, Active
    <3> QED
      BY <2>0, <3>1, <3>2, <3>3 DEF OneMachine!Next, OneMachine!Halt, States
  <2>6. ASSUME NEW e \in Emus, EmulatorDidExit(e)
        PROVE  OneMachine!Next
    <3>1. /\ pc[e] = "posted" /\ pc' = [pc EXCEPT ![e] = "exited"]
          /\ proc # "dead" /\ proc' = proc
      BY <2>0, <2>6, MainBlockLemma DEF EmulatorDidExit, MainBlock, QueueInv, procVars
    <3>2. States' = [States EXCEPT ![e] = "announced"]
      BY <2>0, <3>1, MovedState DEF MachineState, Active, RunStates
    <3>3. MachineState(e) = "off"
      BY <3>1 DEF MachineState, Active
    <3> QED
      BY <2>0, <3>1, <3>2, <3>3 DEF OneMachine!Next, OneMachine!Announce, States
  <2>7. ASSUME NEW e \in Emus,
               \/ RunBegin(e) \/ ShellReturns(e) \/ ShellThrows(e) \/ DestroyModules(e)
               \/ DestroyThrows(e) \/ PostExit(e) \/ TeardownOnMain(e)
        PROVE  States' = States /\ (proc # "dead")' = (proc # "dead")
    <3>1. proc' = proc
      BY <2>7 DEF RunBegin, ShellReturns, ShellThrows, DestroyModules, DestroyThrows,
                  PostExit, TeardownOnMain, procVars
    <3>2. CASE TeardownOnMain(e)
      <4>1. pc[e] = "gfx" /\ pc' = [pc EXCEPT ![e] = "clear"]
        BY <2>0, <3>2, MainBlockLemma DEF TeardownOnMain, QueueInv
      <4> QED
        BY <2>0, <3>1, <4>1, SameState DEF Active, RunStates
    <3>3. CASE PostExit(e)
      BY <2>0, <3>1, <3>3, SameState DEF PostExit, RunStep, RunStates
    <3>4. CASE RunBegin(e)
      <4>1. s_running
        BY <2>0, <3>4 DEF RunBegin, RunStep, EngineExclusive, Active
      <4> QED
        BY <2>0, <3>1, <3>4, <4>1, SameState DEF RunBegin, RunStep, Active, RunStates
    <3>5. CASE ShellReturns(e) \/ ShellThrows(e)
      BY <2>0, <3>1, <3>5, SameState DEF ShellReturns, ShellThrows, RunStep, Active,
                                         RunStates
    <3>6. CASE DestroyModules(e) \/ DestroyThrows(e)
      BY <2>0, <3>1, <3>6, SameState DEF DestroyModules, DestroyThrows, RunStep,
                                         AfterDispatch, Active, RunStates
    <3> QED
      BY <2>7, <3>2, <3>3, <3>4, <3>5, <3>6
  <2>8. ASSUME NEW e \in Emus,
               \/ LoadAbandoned(e) \/ InitRefused(e) \/ InitFails(e) \/ ShowFrame(e)
               \/ LoadDisks(e) \/ FrameStore(e) \/ FrameDispatch(e)
        PROVE  pc' = pc /\ (proc # "dead")' = (proc # "dead")
    BY <2>8 DEF LoadAbandoned, InitRefused, InitFails, Attach, ShowFrame, LoadDisks,
                FrameStore, FrameDispatch, procVars
  <2> QED
    BY <2>1, <2>3, <2>4, <2>5, <2>6, <2>7, <2>8
       DEF Next, Dead, MainQueue, Winding, Guest
<1> QED
  BY <1>1, <1>2, OwnerAlways, PTL DEF Spec, OneMachine!Safety, States
-----------------------------------------------------------------------------
(* The view.  As long as no start overlaps an older session, only the last   *)
(* start has a load or an engine: the flags, the disks and the timer are     *)
(* about that one.                                                           *)

ViewInv ==
  ~overlapped =>
    /\ \A e \in Emus : LoadInFlight(e) \/ EngineLive(e) => e = starts
    /\ isStarting => \E e \in Emus : LoadInFlight(e)
    /\ \A e \in Emus : LoadInFlight(e) /\ ~startCancelled => isRunning
    /\ \A e \in Emus : InQueue("loaded", e) /\ loader[e] = "skipped" => startCancelled
    /\ \A e \in Emus : pc[e] # "idle" => loader[e] = "loaded"
    /\ saveTimers # {} => isRunning /\ \A e \in Emus : ~LoadInFlight(e)
    /\ saveTimers \subseteq {diskSaveTimer} \ {None}
    /\ ~lostInit =>
         (isRunning <=> \E e \in Emus : \/ EngineLive(e)
                                        \/ ~startCancelled /\ LoadInFlight(e))

LEMMA ViewInit == Init => ViewInv
BY DEF Init, ViewInv, LoadInFlight, EngineLive, InQueue, Active

\* A load in flight belongs to an emulator whose thread has not begun.
LEMMA FlightIsIdle ==
  ASSUME OwnerInv, NEW e \in Emus, LoadInFlight(e)
  PROVE  pc[e] = "idle" /\ ~EngineLive(e)
BY DEF OwnerInv, QueueInv, LoadInFlight, EngineLive, Active

\* The threads move the engine on, send and take other blocks, and leave the view alone.
LEMMA EngineMovesView ==
  ASSUME ViewInv,
         isRunning' = isRunning, isStarting' = isStarting, startCancelled' = startCancelled,
         saveTimers' = saveTimers, diskSaveTimer' = diskSaveTimer, starts' = starts,
         loader' = loader, overlapped' = overlapped, lostInit' = lostInit,
         \A e \in Emus : /\ InQueue("loaded", e)' <=> InQueue("loaded", e)
                         /\ pc'[e] = "idle" <=> pc[e] = "idle"
                         /\ pc'[e] = "exited" <=> pc[e] = "exited",
         pc \in [Emus -> RunStates], pc' \in [Emus -> RunStates]
  PROVE  ViewInv'
<1>1. \A e \in Emus : EngineLive(e) <=> pc[e] \notin {"idle", "exited"}
  BY DEF EngineLive, Active, RunStates
<1>2. \A e \in Emus : EngineLive(e)' <=> pc'[e] \notin {"idle", "exited"}
  BY DEF EngineLive, Active, RunStates
<1>3. \A e \in Emus : /\ EngineLive(e)' <=> EngineLive(e)
                      /\ LoadInFlight(e)' <=> LoadInFlight(e)
  BY <1>1, <1>2 DEF LoadInFlight
<1> QED
  BY <1>3 DEF ViewInv

LEMMA UserView ==
  ASSUME OwnerInv, ViewInv, User
  PROVE  ViewInv'
<1>0. /\ starts \in Nat /\ Emus \subseteq Nat /\ loader \in [Emus -> LoaderStates]
      /\ pc \in [Emus -> RunStates]
  BY BoundsAssumption DEF OwnerInv, TypeInv, Data, Emus
<1>1. CASE Start
  <2>1. /\ starts' = starts + 1 /\ loader' = [loader EXCEPT ![starts + 1] = "loading"]
        /\ isStarting' = TRUE /\ isRunning' = TRUE /\ startCancelled' = FALSE /\ ~isRunning
        /\ overlapped' = (overlapped \/ \E e \in Emus : LoadInFlight(e) \/ EngineLive(e))
        /\ saveTimers' = saveTimers /\ diskSaveTimer' = diskSaveTimer /\ pc' = pc /\ mainQ' = mainQ
        /\ starts < MaxStarts
    BY <1>1 DEF Start, timerVars
  <2>2. starts + 1 \in Emus /\ loader'[starts + 1] = "loading"
    BY <1>0, <2>1, BoundsAssumption DEF Emus
  <2> SUFFICES ASSUME ~overlapped' PROVE ViewInv'
    BY DEF ViewInv
  <2>3. ~overlapped /\ \A e \in Emus : ~LoadInFlight(e) /\ ~EngineLive(e)
    BY <2>1
  <2>4. \A e \in Emus : /\ ~EngineLive(e)' /\ ~InQueue("loaded", e)'
                        /\ LoadInFlight(e)' <=> e = starts'
    BY <1>0, <2>1, <2>2, <2>3 DEF EngineLive, LoadInFlight, InQueue
  <2>5. saveTimers = {}
    BY <2>1, <2>3 DEF ViewInv
  <2>6. \A e \in Emus : pc'[e] # "idle" => loader'[e] = "loaded"
    <3>1. pc[starts + 1] = "idle"
      BY <1>0, <2>2 DEF OwnerInv, QueueInv
    <3> QED
      BY <1>0, <2>1, <2>3, <3>1 DEF ViewInv
  <2> QED
    BY <2>1, <2>2, <2>4, <2>5, <2>6 DEF ViewInv
<1>2. CASE CancelStart
  <2>1. /\ isRunning /\ isStarting /\ startCancelled' = TRUE
        /\ isRunning' = FALSE /\ isStarting' = FALSE
        /\ starts' = starts /\ loader' = loader /\ mainQ' = mainQ /\ pc' = pc
        /\ saveTimers' = saveTimers /\ diskSaveTimer' = diskSaveTimer
        /\ overlapped' = overlapped /\ lostInit' = lostInit
    BY <1>2 DEF CancelStart, BackToSettings, timerVars, histVars
  <2>2. \A e \in Emus : /\ EngineLive(e)' <=> EngineLive(e)
                        /\ LoadInFlight(e)' <=> LoadInFlight(e)
                        /\ InQueue("loaded", e)' <=> InQueue("loaded", e)
    BY <2>1 DEF EngineLive, LoadInFlight, InQueue
  <2>3. ~overlapped => \A e \in Emus : ~EngineLive(e)
    BY <2>1, FlightIsIdle DEF ViewInv
  <2>4. ~overlapped => saveTimers = {}
    BY <2>1 DEF ViewInv
  <2> QED
    BY <2>1, <2>2, <2>3, <2>4 DEF ViewInv
<1>3. CASE Stop
  <2>1. /\ UNCHANGED <<isRunning, isStarting, startCancelled, starts, loader, mainQ, pc,
                       overlapped, lostInit>>
        /\ saveTimers' = saveTimers \ {diskSaveTimer}
    BY <1>3 DEF Stop, InvalidateTimers, vmVars, histVars
  <2>2. \A e \in Emus : /\ EngineLive(e)' <=> EngineLive(e)
                        /\ LoadInFlight(e)' <=> LoadInFlight(e)
                        /\ InQueue("loaded", e)' <=> InQueue("loaded", e)
    BY <2>1 DEF EngineLive, LoadInFlight, InQueue
  <2>3. ~overlapped => saveTimers' = {}
    BY <2>1 DEF ViewInv
  <2> QED
    BY <2>1, <2>2, <2>3 DEF ViewInv
<1>4. CASE Exit
  BY <1>0, <1>4, EngineMovesView DEF Exit, vmVars, timerVars, histVars, InQueue
<1> QED
  BY <1>1, <1>2, <1>3, <1>4 DEF User

LEMMA MainQueueView ==
  ASSUME OwnerInv, ViewInv, NEW e \in Emus, MainQueue(e)
  PROVE  ViewInv'
<1>0. /\ mainQ \in Seq(Block) /\ NoDup /\ starts \in Nat /\ e # None
      /\ loader \in [Emus -> LoaderStates] /\ pc \in [Emus -> RunStates]
  BY BoundsAssumption DEF OwnerInv, TypeInv, Data, QueueInv, Emus, None
<1>1. ASSUME NEW k, MainBlock(k, e)
      PROVE  /\ InQueue(k, e)
             /\ \A f \in Emus : InQueue("loaded", f)' <=> /\ InQueue("loaded", f)
                                                        /\ ~(k = "loaded" /\ f = e)
  BY <1>0, <1>1, MainBlockLemma
\* a loader's block: no load is in flight after it, and no engine was live before it
<1>2. ASSUME MainBlock("loaded", e), loader' = loader, starts' = starts, ~overlapped
      PROVE  /\ LoadInFlight(e) /\ e = starts /\ saveTimers = {}
             /\ loader[e] \notin {"none", "loading"}
             /\ \A f \in Emus : ~EngineLive(f) /\ ~LoadInFlight(f)' /\ ~InQueue("loaded", f)'
  <2>1. InQueue("loaded", e) /\ LoadInFlight(e) /\ loader[e] \notin {"none", "loading"}
    BY <1>1, <1>2 DEF LoadInFlight, OwnerInv, QueueInv
  <2>2. e = starts /\ saveTimers = {} /\ \A f \in Emus : LoadInFlight(f) => f = e
    BY <1>2, <2>1 DEF ViewInv
  <2>3. \A f \in Emus : ~EngineLive(f)
    BY <1>2, <2>1, FlightIsIdle DEF ViewInv
  <2>4. \A f \in Emus : ~InQueue("loaded", f)'
    BY <1>1, <1>2, <2>2 DEF LoadInFlight
  <2>5. \A f \in Emus : ~LoadInFlight(f)'
    BY <1>2, <2>1, <2>2, <2>4 DEF LoadInFlight
  <2> QED
    BY <2>1, <2>2, <2>3, <2>4, <2>5
<1>3. CASE LoadAbandoned(e)
  <2>1. /\ MainBlock("loaded", e) /\ isRunning' = FALSE /\ isStarting' = FALSE
        /\ UNCHANGED <<startCancelled, starts, loader, saveTimers, diskSaveTimer, pc, overlapped,
                       lostInit>>
    BY <1>3 DEF LoadAbandoned, BackToSettings, timerVars, histVars
  <2>2. \A f \in Emus : EngineLive(f)' <=> EngineLive(f)
    BY <2>1 DEF EngineLive
  <2> QED
    BY <1>2, <2>1, <2>2 DEF ViewInv
<1>4. CASE InitRefused(e) \/ InitFails(e)
  <2>1. /\ MainBlock("loaded", e) /\ ~startCancelled /\ isStarting' = FALSE
        /\ saveTimers' = saveTimers \cup {e} /\ diskSaveTimer' = e /\ lostInit' = TRUE
        /\ UNCHANGED <<isRunning, startCancelled, starts, loader, pc, overlapped>>
    BY <1>4 DEF InitRefused, InitFails, Attach, Abandoned
  <2>2. \A f \in Emus : EngineLive(f)' <=> EngineLive(f)
    BY <2>1 DEF EngineLive
  <2>3. ~overlapped => isRunning
    BY <1>2, <2>1 DEF ViewInv
  <2> QED
    BY <1>0, <1>2, <2>1, <2>2, <2>3 DEF ViewInv
<1>5. CASE InitOk(e)
  <2>1. /\ MainBlock("loaded", e) /\ ~startCancelled /\ loader[e] # "failed"
        /\ isStarting' = FALSE /\ saveTimers' = saveTimers \cup {e} /\ diskSaveTimer' = e
        /\ pc' = [pc EXCEPT ![e] = "queued"]
        /\ UNCHANGED <<isRunning, startCancelled, starts, loader, overlapped, lostInit>>
    BY <1>5 DEF InitOk, Attach, Abandoned
  <2>2. \A f \in Emus : EngineLive(f)' <=> EngineLive(f) \/ f = e
    BY <1>0, <2>1 DEF EngineLive, Active
  <2>3. ~overlapped => isRunning
    BY <1>2, <2>1 DEF ViewInv
  <2>4. ~overlapped => loader[e] = "loaded"
    BY <1>0, <1>1, <1>2, <2>1 DEF ViewInv, LoaderStates
  <2> QED
    BY <1>0, <1>2, <2>1, <2>2, <2>3, <2>4 DEF ViewInv
<1>6. CASE TeardownOnMain(e) \/ ShowFrame(e)
  <2>1. \/ MainBlock("teardown", e) /\ pc' = [pc EXCEPT ![e] = "clear"]
        \/ MainBlock("frame", e) /\ pc' = pc
    BY <1>6 DEF TeardownOnMain, ShowFrame
  <2>2. MainBlock("teardown", e) => pc[e] = "gfx"
    BY <1>1 DEF OwnerInv, QueueInv
  <2>3. \A f \in Emus : InQueue("loaded", f)' <=> InQueue("loaded", f)
    BY <1>1, <2>1
  <2>4. UNCHANGED <<isRunning, isStarting, startCancelled, saveTimers, diskSaveTimer, starts,
                    loader, overlapped, lostInit>>
    BY <1>6 DEF TeardownOnMain, ShowFrame, vmVars, timerVars, histVars
  <2>5. /\ pc' \in [Emus -> RunStates]
        /\ \A f \in Emus : /\ pc'[f] = "idle" <=> pc[f] = "idle"
                           /\ pc'[f] = "exited" <=> pc[f] = "exited"
    BY <1>0, <2>1, <2>2 DEF RunStates
  <2> QED
    BY <1>0, <2>3, <2>4, <2>5, EngineMovesView
<1>7. CASE EmulatorDidExit(e)
  <2>1. /\ MainBlock("exit", e) /\ saveTimers' = saveTimers \ {diskSaveTimer}
        /\ isRunning' = FALSE /\ pc' = [pc EXCEPT ![e] = "exited"]
        /\ UNCHANGED <<isStarting, startCancelled, starts, loader, overlapped, lostInit>>
    BY <1>7 DEF EmulatorDidExit, InvalidateTimers, histVars
  <2>2. pc[e] = "posted" /\ EngineLive(e)
    BY <1>1, <2>1 DEF OwnerInv, QueueInv, EngineLive
  <2>3. \A f \in Emus : /\ InQueue("loaded", f)' <=> InQueue("loaded", f)
                        /\ LoadInFlight(f)' <=> LoadInFlight(f)
                        /\ EngineLive(f)' <=> EngineLive(f) /\ f # e
    BY <1>0, <1>1, <2>1, <2>2 DEF LoadInFlight, EngineLive, Active
  <2>4. ~overlapped => \A f \in Emus : ~LoadInFlight(f) /\ (EngineLive(f) => f = e)
    BY <2>2, FlightIsIdle DEF ViewInv
  <2>5. ~overlapped => saveTimers' = {}
    BY <2>1 DEF ViewInv
  <2>6. ~overlapped => \A f \in Emus : pc'[f] # "idle" => loader[f] = "loaded"
    BY <1>0, <2>1, <2>2 DEF ViewInv
  <2> QED
    BY <2>1, <2>3, <2>4, <2>5, <2>6 DEF ViewInv
<1> QED
  BY <1>3, <1>4, <1>5, <1>6, <1>7 DEF MainQueue

LEMMA ThreadsView ==
  ASSUME OwnerInv, ViewInv, NEW e \in Emus, LoadDisks(e) \/ Winding(e) \/ Guest(e)
  PROVE  ViewInv'
<1>0. /\ mainQ \in Seq(Block) /\ NoDup /\ QueueInv /\ FrameInv
      /\ loader \in [Emus -> LoaderStates] /\ pc \in [Emus -> RunStates]
      /\ \A f \in Emus : f # None
  BY BoundsAssumption DEF OwnerInv, TypeInv, Data, QueueInv, Emus, None
\* what a thread sends, other than the loader's block
<1>1. ASSUME NEW k \in {"frame", "teardown", "exit"}, NEW f \in Emus, ~InQueue(k, f), Dispatch(k, f)
      PROVE  \A g \in Emus : InQueue("loaded", g)' <=> InQueue("loaded", g)
  BY <1>0, <1>1, DispatchLemma
<1>2. CASE LoadDisks(e)
  <2>1. /\ loader[e] = "loading" /\ Dispatch("loaded", e) /\ pc' = pc
        /\ UNCHANGED <<isRunning, isStarting, startCancelled, saveTimers, diskSaveTimer, starts,
                       overlapped, lostInit>>
    BY <1>2 DEF LoadDisks, vmVars, timerVars, histVars
  <2>2. PICK v \in {"skipped", "loaded", "failed"} : /\ loader' = [loader EXCEPT ![e] = v]
                                                     /\ v = "skipped" => startCancelled
    BY <1>2 DEF LoadDisks
  <2>3. ~InQueue("loaded", e) /\ pc[e] = "idle" /\ LoadInFlight(e)
    BY <1>0, <2>1 DEF QueueInv, LoadInFlight
  <2>4. \A f \in Emus : InQueue("loaded", f)' <=> InQueue("loaded", f) \/ f = e
    BY <1>0, <2>1, <2>3, DispatchLemma
  <2>5. \A f \in Emus : /\ LoadInFlight(f)' <=> LoadInFlight(f)
                        /\ EngineLive(f)' <=> EngineLive(f)
                        /\ pc[f] # "idle" => loader'[f] = loader[f]
    BY <1>0, <2>1, <2>2, <2>3, <2>4 DEF LoadInFlight, EngineLive
  <2>6. ~overlapped => \A f \in Emus : InQueue("loaded", f)' /\ loader'[f] = "skipped"
                                         => startCancelled
    BY <1>0, <2>2, <2>4 DEF ViewInv
  <2> QED
    BY <2>1, <2>5, <2>6 DEF ViewInv
<1>3. CASE Winding(e) \/ Guest(e)
  <2>1. UNCHANGED <<isRunning, isStarting, startCancelled, saveTimers, diskSaveTimer, starts,
                    loader, overlapped, lostInit>>
    BY <1>3 DEF Winding, Guest, RunBegin, DestroyModules, DestroyThrows, RunReturns, PostExit,
                FrameDispatch, ShellReturns, ShellThrows, FrameStore, vmVars, timerVars, histVars
  <2>2. \/ pc' = pc
        \/ \E to \in {"shell", "tail", "destroy", "clear", "gfx", "posted"} :
             pc' = [pc EXCEPT ![e] = to] /\ pc[e] \notin {"idle", "exited"}
    BY <1>3 DEF Winding, Guest, RunStep, RunBegin, DestroyModules, AfterDispatch, DestroyThrows,
                RunReturns, PostExit, FrameDispatch, ShellReturns, ShellThrows, FrameStore
  <2>3. /\ pc' \in [Emus -> RunStates]
        /\ \A f \in Emus : /\ pc'[f] = "idle" <=> pc[f] = "idle"
                           /\ pc'[f] = "exited" <=> pc[f] = "exited"
    BY <1>0, <2>2 DEF RunStates
  <2>4. \A f \in Emus : InQueue("loaded", f)' <=> InQueue("loaded", f)
    <3>1. CASE mainQ' = mainQ
      BY <3>1 DEF InQueue
    <3>2. CASE DestroyModules(e)
      BY <1>0, <1>1, <3>2 DEF DestroyModules, RunStep, QueueInv
    <3>3. CASE PostExit(e)
      BY <1>0, <1>1, <3>3 DEF PostExit, NotifyExit, RunStep, QueueInv
    <3>4. CASE FrameDispatch(e)
      <4>1. Dispatch("frame", s_frame_ctx) /\ frameInHand = e
        BY <3>4 DEF FrameDispatch
      <4>2. s_frame_ctx = e /\ ~InQueue("frame", s_frame_ctx)
        BY <1>0, <4>1 DEF FrameInv
      <4> QED
        BY <1>1, <4>1, <4>2
    <3> QED
      BY <1>3, <3>1, <3>2, <3>3, <3>4 DEF Winding, Guest, RunBegin, DestroyThrows, RunReturns,
                                          ShellReturns, ShellThrows, FrameStore
  <2> QED
    BY <1>0, <2>1, <2>3, <2>4, EngineMovesView
<1> QED
  BY <1>2, <1>3

LEMMA ViewStep == OwnerInv /\ ViewInv /\ [Next]_vars => ViewInv'
<1> SUFFICES ASSUME OwnerInv, ViewInv, [Next]_vars PROVE ViewInv'
  OBVIOUS
<1>0. pc \in [Emus -> RunStates]
  BY DEF OwnerInv, TypeInv, Data
<1>1. CASE Atexit \/ UNCHANGED vars
  <2>1. UNCHANGED <<isRunning, isStarting, startCancelled, saveTimers, diskSaveTimer, starts,
                    loader, overlapped, lostInit, pc, mainQ>>
    BY <1>1 DEF Atexit, AtexitSpin, AtexitForce, vars, vmVars, timerVars, histVars
  <2> QED
    BY <1>0, <2>1, EngineMovesView DEF InQueue
<1> QED
  BY <1>1, UserView, MainQueueView, ThreadsView DEF Next, Dead

\* What the view shows, which disks the machine was started with, and which timer is left
\* scheduled are true of the engine, for any number of starts and cancellations that do
\* not overlap: the running screen is up exactly while a load, an engine or its exit is
\* due (start, cancelStart, emulatorDidExit).
THEOREM ViewIsTrue == Spec => []ViewTrue
<1>1. OwnerInv /\ ViewInv => ViewTrue
  <2> SUFFICES ASSUME OwnerInv, ViewInv PROVE ViewTrue
    OBVIOUS
  <2>1. ViewMirrorsEngine
    BY DEF ViewInv, ViewMirrorsEngine
  <2>2. StartedWithDisks /\ NoLeakedTimer
    BY DEF ViewInv, StartedWithDisks, NoLeakedTimer
  <2> QED
    BY <2>1, <2>2 DEF ViewTrue
<1> QED
  BY OwnerAlways, ViewInit, ViewStep, <1>1, PTL DEF Spec

-----------------------------------------------------------------------------
(* The disks.                                                              *)

\* Each step of the disks is one of the session, or leaves it alone.
LEMMA NextLemma ==
  ASSUME [DiskNext]_allVars
  PROVE  [Next]_vars
<1>1. CASE StartWithDisk
  BY <1>1 DEF StartWithDisk, Next, User
<1>2. CASE SetPath \/ UNCHANGED allVars
  BY <1>2 DEF SetPath, allVars
<1>3. CASE SaveWrite
  BY <1>3 DEF SaveWrite, Next, MainQueue, User
<1>4. CASE NothingToSave
  BY <1>4 DEF NothingToSave, Next, User, MainQueue
<1>5. CASE MainNoDisk
  BY <1>5 DEF MainNoDisk, Next, User, MainQueue
<1>6. CASE EngineNoDisk
  BY <1>6 DEF EngineNoDisk, Next
<1>7. ASSUME NEW e \in Emus, LoadImage(e) \/ GuestWrite(e)
      PROVE  [Next]_vars
  BY <1>7 DEF LoadImage, GuestWrite, Next
<1>8. ASSUME NEW cause \in Causes, SaveRead(cause)
      PROVE  [Next]_vars
  BY <1>8 DEF SaveRead
<1> QED
  BY <1>1, <1>2, <1>3, <1>4, <1>5, <1>6, <1>7, <1>8 DEF DiskNext

\* Adding the disks takes nothing from Session and adds nothing to it: what its
\* safety theorems say holds of the sessions of DiskSpec.
THEOREM DisksRefineSession == DiskSpec => Init /\ [][Next]_vars
<1>1. DiskInit => Init
  BY DEF DiskInit
<1>2. [DiskNext]_allVars => [Next]_vars
  BY NextLemma
<1> QED
  BY <1>1, <1>2, PTL DEF DiskSpec
-----------------------------------------------------------------------------
\* While the main thread is between reading and writing an image it handles no
\* other event, so the drive it read the path of still has that path.
SaveInv ==
  /\ DOMAIN file = Files
  /\ save # NoSave => save.to = hddCPath

LEMMA SaveInvStep == SaveInv /\ [DiskNext]_allVars => SaveInv'
<1> SUFFICES ASSUME SaveInv, [DiskNext]_allVars PROVE SaveInv'
  OBVIOUS
<1> USE DEF SaveInv
<1>1. CASE StartWithDisk \/ NothingToSave \/ MainNoDisk \/ EngineNoDisk \/ UNCHANGED allVars
  BY <1>1 DEF StartWithDisk, NothingToSave, MainNoDisk, EngineNoDisk, allVars, diskVars
<1>2. CASE SetPath
  BY <1>2 DEF SetPath, MainFree
<1>3. CASE SaveWrite
  BY <1>3 DEF SaveWrite
<1>4. ASSUME NEW e \in Emus, LoadImage(e)
      PROVE  SaveInv'
  BY <1>4 DEF LoadImage
<1>5. ASSUME NEW e \in Emus, GuestWrite(e)
      PROVE  SaveInv'
  <2>1. save' = save /\ hddCPath' = hddCPath /\ DOMAIN file' = DOMAIN file
    BY <1>5 DEF GuestWrite
  <2> QED
    BY <2>1
<1>6. ASSUME NEW cause \in Causes, SaveRead(cause)
      PROVE  SaveInv'
  <2>1. file' = file /\ hddCPath' = hddCPath /\ save'.to = hddCPath
    BY <1>6 DEF SaveRead, SaveTarget
  <2> QED
    BY <2>1
<1> QED
  BY <1>1, <1>2, <1>3, <1>4, <1>5, <1>6 DEF DiskNext

\* No file of the user's changes behind his back: one that changes is in drive C:
\* at that moment, or is the one the running machine was started with.
THEOREM OnlyMounted == DiskSpec => OnlyMountedChanges
<1>1. DiskInit => SaveInv
  BY DEF DiskInit, SaveInv
<1>2. SaveInv /\ [DiskNext]_allVars =>
        \A f \in Files : file'[f] # file[f] =>
          \/ hddCPath = f
          \/ \E e \in Emus : pc[e] = "shell" /\ diskPath[e] = f
  <2> SUFFICES ASSUME SaveInv, [DiskNext]_allVars, NEW f \in Files, file'[f] # file[f]
               PROVE  \/ hddCPath = f
                      \/ \E e \in Emus : pc[e] = "shell" /\ diskPath[e] = f
    OBVIOUS
  <2>1. CASE SaveWrite
    BY <2>1 DEF SaveWrite, SaveInv, MainFree
  <2>2. CASE \E e \in Emus : GuestWrite(e)
    BY <2>2 DEF GuestWrite, SaveInv
  <2>3. CASE ~SaveWrite /\ ~\E e \in Emus : GuestWrite(e)
    BY <2>3 DEF DiskNext, StartWithDisk, NothingToSave, MainNoDisk, EngineNoDisk,
                      SetPath, LoadImage, SaveRead, allVars, diskVars
  <2> QED
    BY <2>1, <2>2, <2>3
<1> QED
  BY <1>1, <1>2, SaveInvStep, PTL DEF DiskSpec, OnlyMountedChanges
-----------------------------------------------------------------------------
(* Disks are well formed.  A loader has a file to read, as its start was      *)
(* refused without one.                                                      *)

SessionInv == OwnerInv /\ ViewInv

LEMMA SessionKept == SessionInv /\ [Next]_vars => SessionInv'
BY FlagsStep, DataStep, ContextStep, OwnerStep, FrameStep, ViewStep
   DEF SessionInv, OwnerInv, TypeInv

PathsKnown == \A e \in Emus : loader[e] # "none" => diskPath[e] \in Files
Formed == DiskTypeOK /\ PathsKnown

\* What starts no load and ends none.
LEMMA SameLoader ==
  ASSUME NothingToSave \/ MainNoDisk \/ EngineNoDisk \/ SetPath \/ SaveWrite
         \/ (\E e \in Emus : GuestWrite(e)) \/ (\E cause \in Causes : SaveRead(cause))
         \/ UNCHANGED allVars
  PROVE  loader' = loader
<1> USE DEF vars
<1>1. Stop \/ CancelStart \/ Exit \/ Atexit \/ Dead => loader' = loader
  BY DEF Stop, CancelStart, Exit, Atexit, AtexitSpin, AtexitForce, Dead
<1>2. \A e \in Emus : MainQueue(e) \/ Winding(e) \/ Guest(e) => loader' = loader
  BY DEF MainQueue, LoadAbandoned, InitRefused, InitOk, InitFails, Attach, TeardownOnMain,
         ShowFrame, EmulatorDidExit, Winding, RunBegin, DestroyModules, DestroyThrows, RunReturns,
         PostExit, FrameDispatch, Guest, ShellReturns, ShellThrows, FrameStore
<1>3. SetPath \/ (\E e \in Emus : GuestWrite(e)) \/ (\E cause \in Causes : SaveRead(cause))
      \/ UNCHANGED allVars => loader' = loader
  BY DEF SetPath, GuestWrite, SaveRead, allVars
<1>4. NothingToSave \/ MainNoDisk \/ EngineNoDisk \/ SaveWrite => loader' = loader
  BY <1>1, <1>2 DEF NothingToSave, MainNoDisk, EngineNoDisk, SaveWrite, MainQueue
<1> QED
  BY <1>3, <1>4

LEMMA FormedStep == SessionInv /\ Formed /\ [DiskNext]_allVars => Formed'
<1> SUFFICES ASSUME SessionInv, Formed, [DiskNext]_allVars PROVE Formed'
  OBVIOUS
<1>0. /\ DiskTypeOK /\ PathsKnown /\ loader \in [Emus -> LoaderStates]
      /\ starts \in Nat /\ MaxStarts \in Nat
  BY BoundsAssumption DEF Formed, SessionInv, OwnerInv, TypeInv, Data
<1> USE DEF Formed, DiskTypeOK, PathsKnown
<1>1. CASE NothingToSave \/ MainNoDisk \/ EngineNoDisk \/ UNCHANGED allVars
  <2>1. diskVars' = diskVars /\ loader' = loader
    BY <1>1, SameLoader DEF NothingToSave, MainNoDisk, EngineNoDisk, allVars
  <2> QED
    BY <1>0, <2>1 DEF diskVars
<1>2. CASE StartWithDisk
  <2>1. /\ loader' = [loader EXCEPT ![starts + 1] = "loading"]
        /\ diskPath' = [diskPath EXCEPT ![starts + 1] = hddCPath] /\ hddCPath \in Files
        /\ UNCHANGED <<hddCPath, file, diskData, save, written, duringSave, switched>>
        /\ starts + 1 \in Emus
    BY <1>0, <1>2 DEF StartWithDisk, Start, Emus
  <2> QED
    BY <1>0, <2>1
<1>3. CASE SetPath
  <2>1. /\ hddCPath' \in Files \cup {NoFile} /\ switched' \in BOOLEAN /\ loader' = loader
        /\ UNCHANGED <<file, diskPath, diskData, save, written, duringSave>>
    <3>1. switched' \in BOOLEAN
      BY <1>0, <1>3 DEF SetPath, SessionInv, OwnerInv, TypeInv, Flags
    <3> QED
      BY <1>3, <3>1, SameLoader DEF SetPath
  <2> QED
    BY <1>0, <2>1
<1>4. CASE SaveWrite
  <2>1. /\ file' = [file EXCEPT ![save.to] = save.data] /\ save' = NoSave /\ save # NoSave
        /\ UNCHANGED <<hddCPath, diskPath, diskData, written, duringSave, switched, loader>>
    BY <1>4, SameLoader DEF SaveWrite, MainFree
  <2>2. file' \in [Files -> Content]
    BY <1>0, <2>1
  <2> QED
    BY <1>0, <2>1, <2>2
<1>5. ASSUME NEW e \in Emus, LoadImage(e)
      PROVE  Formed'
  <2>1. /\ loader[e] = "loading" /\ \E v \in {"skipped", "loaded", "failed"} :
                                       loader' = [loader EXCEPT ![e] = v]
        /\ diskData' = IF loader'[e] = "loaded" THEN Keep(e) ELSE diskData
        /\ UNCHANGED <<hddCPath, file, diskPath, save, written, duringSave, switched>>
    BY <1>5 DEF LoadImage, LoadDisks
  <2>2. file[diskPath[e]] \in Content
    BY <1>0, <2>1
  <2>3. DOMAIN diskData' = Emus /\ \A f \in Emus : loader'[f] = "loaded" => diskData'[f] \in Content
    BY <1>0, <2>1, <2>2 DEF Keep
  <2>4. \A f \in Emus : loader'[f] # "none" => diskPath'[f] \in Files
    BY <1>0, <2>1
  <2> QED
    BY <1>0, <2>1, <2>3, <2>4
<1>6. ASSUME NEW e \in Emus, GuestWrite(e)
      PROVE  Formed'
  <2>1. PICK w \in Writes : /\ file' = [file EXCEPT ![diskPath[e]].writes = @ \cup {w}]
                            /\ written' = [written EXCEPT ![diskPath[e]] = @ \cup {w}]
                            /\ duringSave' = IF MainFree THEN duringSave ELSE duringSave \cup {w}
    BY <1>6 DEF GuestWrite
  <2>2. UNCHANGED <<hddCPath, diskPath, diskData, save, switched, loader>>
    BY <1>6, SameLoader DEF GuestWrite
  <2>3. file' \in [Files -> Content]
    <3> DEFINE f == diskPath[e]
               c == [file[f] EXCEPT !.writes = @ \cup {w}]
    <3>1. file' = [file EXCEPT ![f] = c]
      BY <2>1
    <3>2. f \in Files => c \in Content
      BY <1>0 DEF Content
    <3> HIDE DEF f, c
    <3> QED
      BY <1>0, <3>1, <3>2
  <2>4. written' \in [Files -> SUBSET Writes] /\ duringSave' \subseteq Writes
    BY <1>0, <2>1
  <2>5. \A f \in Emus : loader'[f] = "loaded" => diskData'[f] \in Content
    BY <1>0, <2>2
  <2>6. save' = NoSave \/ save' \in [cause : Causes, to : Files, data : Content, seen : SUBSET Writes]
    BY <1>0, <2>2
  <2>7. \A f \in Emus : loader'[f] # "none" => diskPath'[f] \in Files
    BY <1>0, <2>2
  <2>8. hddCPath' \in Files \cup {NoFile} /\ switched' \in BOOLEAN
    BY <1>0, <2>2
  <2>9. diskPath' \in [Emus -> Files \cup {NoFile}] /\ DOMAIN diskData' = Emus
    BY <1>0, <2>2
  <2> QED
    BY <2>3, <2>4, <2>5, <2>6, <2>7, <2>8, <2>9
<1>7. ASSUME NEW cause \in Causes, SaveRead(cause)
      PROVE  Formed'
  <2>1. /\ Savable
        /\ save' = [cause |-> cause, to |-> hddCPath, data |-> GetDiskData(emulator),
                    seen |-> written[diskPath[emulator]]]
        /\ UNCHANGED <<hddCPath, file, diskPath, diskData, written, duringSave, switched, loader>>
    BY <1>7, SameLoader DEF SaveRead, SaveTarget
  <2>2. /\ emulator \in Emus /\ loader[emulator] = "loaded" /\ hddCPath \in Files
    BY <1>0, <2>1 DEF Savable, SessionInv, OwnerInv, TypeInv, Data
  <2>3. diskPath[emulator] \in Files
    BY <1>0, <2>2
  <2>4. GetDiskData(emulator) \in Content /\ written[diskPath[emulator]] \in SUBSET Writes
    BY <1>0, <2>2, <2>3 DEF GetDiskData
  <2>5. save' \in [cause : Causes, to : Files, data : Content, seen : SUBSET Writes]
    BY <2>1, <2>2, <2>4
  <2> QED
    BY <1>0, <2>1, <2>5
<1> QED
  BY <1>1, <1>2, <1>3, <1>4, <1>5, <1>6, <1>7 DEF DiskNext

-----------------------------------------------------------------------------
(* What a disk can lose.  The data read for saving is the mounted file's own, *)
(* or nothing has been written yet; and it goes to that file.                *)

\* The machine that is saved from is the one that runs.
Attached ==
  /\ emulator # None => loader[emulator] \notin {"none", "loading"}
  /\ ~overlapped => \A e \in Emus : EngineLive(e) => emulator = e
  /\ \A e \in Emus : pc[e] \in Active \cup {"tail"} => shouldRun[e]
\* It was started with the disk in the drive.
Mounted ==
  ~overlapped /\ ~switched =>
    /\ emulator # None => diskPath[emulator] = hddCPath
    /\ \A e \in Emus : LoadInFlight(e) /\ ~startCancelled => diskPath[e] = hddCPath
\* Only a machine that was started writes; a save in progress holds what was written before it.
Writings ==
  /\ (\A e \in Emus : pc[e] = "idle") => \A f \in Files : written[f] = {}
  /\ LossesOnlyDuringSave
  /\ Undisturbed /\ save # NoSave => written[save.to] \subseteq save.data.writes \cup duringSave

LEMMA AttachedStep == SessionInv /\ Attached /\ [Next]_vars => Attached'
<1> SUFFICES ASSUME SessionInv, Attached, [Next]_vars PROVE Attached'
  OBVIOUS
<1>0. /\ OwnerInv /\ ViewInv /\ QueueInv /\ NoDup /\ mainQ \in Seq(Block)
      /\ starts \in Nat /\ Emus \subseteq Nat /\ emulator \in Emus \cup {None}
      /\ loader \in [Emus -> LoaderStates] /\ pc \in [Emus -> RunStates]
      /\ shouldRun \in [Emus -> BOOLEAN] /\ \A f \in Emus : f # None
  BY BoundsAssumption DEF SessionInv, OwnerInv, TypeInv, Data, Flags, QueueInv, Emus, None
\* a step of the threads, which attaches nothing
<1>1. ASSUME emulator' = emulator, loader' = loader, overlapped' = overlapped, shouldRun' = shouldRun,
             \A e \in Emus : /\ EngineLive(e)' => EngineLive(e)
                             /\ pc'[e] \in Active \cup {"tail"} => pc[e] \in Active \cup {"tail"}
      PROVE  Attached'
  BY <1>1 DEF Attached
<1>2. CASE Start
  <2>1. /\ loader' = [loader EXCEPT ![starts + 1] = "loading"]
        /\ overlapped' = (overlapped \/ \E e \in Emus : LoadInFlight(e) \/ EngineLive(e))
        /\ UNCHANGED <<emulator, shouldRun, pc>>
    BY <1>2 DEF Start
  <2>2. emulator # None => emulator # starts + 1
    BY <1>0 DEF Attached, QueueInv
  <2>3. \A e \in Emus : EngineLive(e)' <=> EngineLive(e)
    BY <2>1 DEF EngineLive
  <2> QED
    BY <1>0, <2>1, <2>2, <2>3 DEF Attached
<1>3. CASE CancelStart \/ Stop \/ Exit \/ Atexit \/ UNCHANGED vars
  <2>1. UNCHANGED <<emulator, loader, overlapped, shouldRun, pc>>
    BY <1>3 DEF CancelStart, Stop, Exit, Atexit, AtexitSpin, AtexitForce, vars, vmVars, histVars
  <2> QED
    BY <1>1, <2>1 DEF EngineLive
<1>4. ASSUME NEW e \in Emus, LoadDisks(e)
      PROVE  Attached'
  <2>1. /\ loader[e] = "loading" /\ UNCHANGED <<emulator, overlapped, shouldRun, pc>>
        /\ \E v \in {"skipped", "loaded", "failed"} : loader' = [loader EXCEPT ![e] = v]
    BY <1>4 DEF LoadDisks, vmVars, histVars
  <2> QED
    BY <1>0, <2>1 DEF Attached, EngineLive
<1>5. ASSUME NEW e \in Emus, NEW k, MainBlock(k, e)
      PROVE  InQueue(k, e)
  BY <1>0, <1>5, MainBlockLemma
<1>6. ASSUME NEW e \in Emus, InitRefused(e) \/ InitFails(e) \/ InitOk(e)
      PROVE  Attached'
  <2>1. /\ MainBlock("loaded", e) /\ emulator' = e /\ UNCHANGED <<loader, overlapped>>
        /\ \/ UNCHANGED <<pc, shouldRun>>
           \/ /\ pc' = [pc EXCEPT ![e] = "queued"]
              /\ shouldRun' = [shouldRun EXCEPT ![e] = TRUE]
    BY <1>6 DEF InitRefused, InitFails, InitOk, Attach
  <2>2. /\ InQueue("loaded", e) /\ LoadInFlight(e) /\ loader[e] \notin {"none", "loading"}
    BY <1>0, <1>5, <2>1 DEF LoadInFlight, QueueInv
  <2>3. ~overlapped => \A f \in Emus : ~EngineLive(f)
    BY <1>0, <2>2, FlightIsIdle DEF ViewInv
  <2>4. \A f \in Emus : EngineLive(f)' => EngineLive(f) \/ f = e
    BY <1>0, <2>1 DEF EngineLive
  <2>5. \A f \in Emus : pc'[f] \in Active \cup {"tail"} => shouldRun'[f]
    BY <1>0, <2>1 DEF Attached
  <2> QED
    BY <2>1, <2>2, <2>3, <2>4, <2>5 DEF Attached
<1>7. ASSUME NEW e \in Emus, LoadAbandoned(e) \/ TeardownOnMain(e) \/ ShowFrame(e) \/ EmulatorDidExit(e)
      PROVE  Attached'
  <2>1. /\ UNCHANGED <<emulator, loader, overlapped, shouldRun>>
        /\ \/ pc' = pc
           \/ pc' = [pc EXCEPT ![e] = "exited"]
           \/ pc' = [pc EXCEPT ![e] = "clear"] /\ pc[e] = "gfx"
    BY <1>0, <1>5, <1>7 DEF LoadAbandoned, TeardownOnMain, ShowFrame, EmulatorDidExit, vmVars,
                            histVars, QueueInv
  <2>2. \A f \in Emus : /\ EngineLive(f)' => EngineLive(f)
                        /\ pc'[f] \in Active \cup {"tail"} => pc[f] \in Active \cup {"tail"}
    BY <1>0, <2>1 DEF EngineLive, Active
  <2> QED
    BY <1>1, <2>1, <2>2
<1>8. ASSUME NEW e \in Emus, Winding(e) \/ Guest(e)
      PROVE  Attached'
  <2>1. UNCHANGED <<emulator, loader, overlapped>>
    BY <1>8 DEF Winding, Guest, RunBegin, DestroyModules, DestroyThrows, RunReturns, PostExit,
                FrameDispatch, ShellReturns, ShellThrows, FrameStore, vmVars, histVars
  <2>2. CASE PostExit(e)
    <3>1. pc' = [pc EXCEPT ![e] = "posted"] /\ shouldRun' = [shouldRun EXCEPT ![e] = FALSE]
          /\ pc[e] = "tail"
      BY <2>2 DEF PostExit, RunStep
    <3> QED
      BY <1>0, <2>1, <3>1 DEF Attached, EngineLive, Active
  <2>3. CASE ~PostExit(e)
    <3>1. /\ shouldRun' = shouldRun
          /\ \/ pc' = pc
             \/ \E to \in {"shell", "tail", "destroy", "clear", "gfx"} :
                  pc' = [pc EXCEPT ![e] = to] /\ pc[e] \in Active
      BY <1>8, <2>3 DEF Winding, Guest, RunStep, RunBegin, DestroyModules, AfterDispatch,
                  DestroyThrows, RunReturns, FrameDispatch, ShellReturns, ShellThrows, FrameStore, Active
    <3>2. \A f \in Emus : /\ EngineLive(f)' => EngineLive(f)
                          /\ pc'[f] \in Active \cup {"tail"} => pc[f] \in Active \cup {"tail"}
      BY <1>0, <3>1 DEF EngineLive, Active
    <3> QED
      BY <1>1, <2>1, <3>1, <3>2
  <2> QED
    BY <2>2, <2>3
<1> QED
  BY <1>2, <1>3, <1>4, <1>6, <1>7, <1>8 DEF Next, User, Dead, MainQueue

\* A step of the session that neither starts nor loads nor attaches.
CalmSession ==
  \/ CancelStart \/ Stop \/ Exit \/ Atexit \/ Dead \/ UNCHANGED vars
  \/ \E e \in Emus : \/ LoadAbandoned(e) \/ TeardownOnMain(e) \/ ShowFrame(e)
                     \/ EmulatorDidExit(e) \/ Winding(e) \/ Guest(e)

LEMMA CalmLemma ==
  ASSUME SessionInv, CalmSession
  PROVE  /\ UNCHANGED <<emulator, overlapped, loader>>
         /\ startCancelled' = TRUE \/ startCancelled' = startCancelled
         /\ \A e \in Emus : LoadInFlight(e)' => LoadInFlight(e)
<1>0. QueueInv /\ FrameInv /\ NoDup /\ mainQ \in Seq(Block) /\ \A f \in Emus : f # None
  BY BoundsAssumption DEF SessionInv, OwnerInv, TypeInv, Data, QueueInv, Emus, None
<1>1. UNCHANGED <<emulator, overlapped, loader>>
      /\ (startCancelled' = TRUE \/ startCancelled' = startCancelled)
  BY DEF CalmSession, CancelStart, Stop, Exit, Atexit, AtexitSpin, AtexitForce, Dead, vars,
         LoadAbandoned, TeardownOnMain, ShowFrame, EmulatorDidExit, Winding, Guest, RunBegin,
         DestroyModules, DestroyThrows, RunReturns, PostExit, FrameDispatch, ShellReturns,
         ShellThrows, FrameStore, vmVars, histVars
<1>2. \A e \in Emus : InQueue("loaded", e)' => InQueue("loaded", e)
  <2>1. CASE mainQ' = mainQ
    BY <2>1 DEF InQueue
  <2>2. ASSUME NEW k, NEW f, MainBlock(k, f)
        PROVE  \A e \in Emus : InQueue("loaded", e)' => InQueue("loaded", e)
    BY <1>0, <2>2, MainBlockLemma
  <2>3. ASSUME NEW k \in {"frame", "teardown", "exit"}, NEW f \in Emus, ~InQueue(k, f), Dispatch(k, f)
        PROVE  \A e \in Emus : InQueue("loaded", e)' => InQueue("loaded", e)
    BY <1>0, <2>3, DispatchLemma
  <2>4. ASSUME NEW f \in Emus, DestroyModules(f) \/ PostExit(f)
        PROVE  \A e \in Emus : InQueue("loaded", e)' => InQueue("loaded", e)
    BY <1>0, <2>3, <2>4 DEF DestroyModules, PostExit, NotifyExit, RunStep, QueueInv
  <2>5. ASSUME NEW f \in Emus, FrameDispatch(f)
        PROVE  \A e \in Emus : InQueue("loaded", e)' => InQueue("loaded", e)
    <3>1. Dispatch("frame", s_frame_ctx) /\ frameInHand = f
      BY <2>5 DEF FrameDispatch
    <3>2. s_frame_ctx = f /\ ~InQueue("frame", s_frame_ctx)
      BY <1>0, <3>1 DEF FrameInv
    <3> QED
      BY <2>3, <3>1, <3>2
  <2>6. CancelStart \/ Stop \/ Exit \/ Atexit \/ Dead \/ UNCHANGED vars => mainQ' = mainQ
    BY DEF CancelStart, Stop, Exit, Atexit, AtexitSpin, AtexitForce, Dead, vars
  <2>7. ASSUME NEW f \in Emus, RunBegin(f) \/ DestroyThrows(f) \/ RunReturns(f) \/ Guest(f)
        PROVE  mainQ' = mainQ
    BY <2>7 DEF RunBegin, DestroyThrows, RunReturns, Guest, ShellReturns, ShellThrows, FrameStore
  <2>8. ASSUME NEW f \in Emus,
               LoadAbandoned(f) \/ TeardownOnMain(f) \/ ShowFrame(f) \/ EmulatorDidExit(f)
        PROVE  \E k : MainBlock(k, f)
    BY <2>8 DEF LoadAbandoned, TeardownOnMain, ShowFrame, EmulatorDidExit
  <2> QED
    BY <2>1, <2>2, <2>4, <2>5, <2>6, <2>7, <2>8 DEF CalmSession, Winding
<1> QED
  BY <1>1, <1>2 DEF LoadInFlight

\* What a step that is not about the disks does to the session.
LEMMA QuietDisks ==
  ASSUME NothingToSave \/ SaveWrite \/ MainNoDisk \/ EngineNoDisk \/ UNCHANGED allVars
  PROVE  /\ UNCHANGED <<hddCPath, diskPath, diskData, written, duringSave, switched>>
         /\ \/ CalmSession
            \/ \E e \in Emus : InitRefused(e) \/ InitFails(e) \/ InitOk(e)
BY DEF NothingToSave, SaveWrite, MainNoDisk, EngineNoDisk, CalmSession, diskVars, allVars

LEMMA MountedStep == SessionInv /\ Attached /\ Mounted /\ DOMAIN diskPath = Emus /\ [DiskNext]_allVars => Mounted'
<1> SUFFICES ASSUME SessionInv, Attached, Mounted, DOMAIN diskPath = Emus, [DiskNext]_allVars
             PROVE  Mounted'
  OBVIOUS
<1>0. /\ OwnerInv /\ ViewInv /\ QueueInv /\ NoDup /\ mainQ \in Seq(Block)
      /\ starts \in Nat /\ Emus \subseteq Nat /\ emulator \in Emus \cup {None}
      /\ loader \in [Emus -> LoaderStates] /\ \A f \in Emus : f # None
  BY BoundsAssumption DEF SessionInv, OwnerInv, TypeInv, Data, QueueInv, Emus, None
\* a step that attaches nothing and mounts nothing
<1>1. ASSUME UNCHANGED <<emulator, overlapped, diskPath, hddCPath, switched>>,
             startCancelled' = TRUE \/ startCancelled' = startCancelled,
             \A e \in Emus : LoadInFlight(e)' => LoadInFlight(e)
      PROVE  Mounted'
  BY <1>1 DEF Mounted
<1>2. ASSUME UNCHANGED <<mainQ, loader>>, NEW e \in Emus
      PROVE  LoadInFlight(e)' <=> LoadInFlight(e)
  BY <1>2 DEF LoadInFlight, InQueue
<1>3. CASE StartWithDisk
  <2>1. /\ loader' = [loader EXCEPT ![starts + 1] = "loading"]
        /\ overlapped' = (overlapped \/ \E e \in Emus : LoadInFlight(e) \/ EngineLive(e))
        /\ UNCHANGED <<emulator, mainQ, hddCPath, switched>>
        /\ diskPath' = [diskPath EXCEPT ![starts + 1] = hddCPath]
    BY <1>3 DEF StartWithDisk, Start
  <2>2. emulator # None => emulator # starts + 1
    BY <1>0 DEF Attached, QueueInv
  <2>3. \A e \in Emus : e # starts + 1 => (LoadInFlight(e)' <=> LoadInFlight(e))
    BY <1>0, <2>1 DEF LoadInFlight, InQueue
  <2>4. ~overlapped' /\ ~switched' => ~overlapped /\ ~switched /\ \A e \in Emus : ~LoadInFlight(e)
    BY <2>1
  <2>5. /\ emulator # None => diskPath'[emulator] = diskPath[emulator]
        /\ \A e \in Emus : e = starts + 1 => diskPath'[e] = hddCPath
    BY <2>1, <2>2
  <2> QED
    BY <2>1, <2>3, <2>4, <2>5 DEF Mounted
<1>4. CASE SetPath
  <2>1. /\ UNCHANGED <<emulator, overlapped, startCancelled, mainQ, loader, diskPath>>
        /\ switched' = (switched \/ isRunning \/ emulator # None)
    BY <1>4 DEF SetPath, vars, vmVars, histVars
  <2> QED
    BY <1>0, <1>2, <2>1 DEF Mounted, ViewInv
<1>5. ASSUME NEW e \in Emus, LoadImage(e)
      PROVE  Mounted'
  <2>1. /\ UNCHANGED <<emulator, overlapped, startCancelled, diskPath, hddCPath, switched>>
        /\ loader[e] = "loading" /\ Dispatch("loaded", e)
        /\ \E v \in {"skipped", "loaded", "failed"} : loader' = [loader EXCEPT ![e] = v]
    BY <1>5 DEF LoadImage, LoadDisks, vmVars, histVars
  <2>2. ~InQueue("loaded", e)
    BY <1>0, <2>1 DEF QueueInv
  <2>3. \A f \in Emus : InQueue("loaded", f)' <=> InQueue("loaded", f) \/ f = e
    BY <1>0, <2>1, <2>2, DispatchLemma
  <2>4. \A f \in Emus : LoadInFlight(f)' => LoadInFlight(f)
    BY <1>0, <2>1, <2>3 DEF LoadInFlight
  <2> QED
    BY <1>1, <2>1, <2>4
<1>6. CASE (\E e \in Emus : GuestWrite(e)) \/ (\E cause \in Causes : SaveRead(cause))
  <2>1. UNCHANGED <<emulator, overlapped, startCancelled, mainQ, loader, diskPath, hddCPath, switched>>
    BY <1>6 DEF GuestWrite, SaveRead, vars, vmVars, histVars
  <2> QED
    BY <1>1, <1>2, <2>1
<1>7. CASE NothingToSave \/ SaveWrite \/ MainNoDisk \/ EngineNoDisk \/ UNCHANGED allVars
  <2>1. UNCHANGED <<diskPath, hddCPath, switched>>
    BY <1>7, QuietDisks
  <2>2. CASE CalmSession
    BY <1>1, <2>1, <2>2, CalmLemma
  <2>3. ASSUME NEW e \in Emus, InitRefused(e) \/ InitFails(e) \/ InitOk(e)
        PROVE  Mounted'
    <3>1. /\ MainBlock("loaded", e) /\ emulator' = e /\ ~startCancelled
          /\ UNCHANGED <<loader, overlapped, startCancelled>>
      BY <2>3 DEF InitRefused, InitFails, InitOk, Attach, Abandoned
    <3>2. LoadInFlight(e) /\ \A f \in Emus : LoadInFlight(f)' => LoadInFlight(f)
      BY <1>0, <3>1, MainBlockLemma DEF LoadInFlight
    <3> QED
      BY <2>1, <3>1, <3>2 DEF Mounted
  <2> QED
    BY <1>7, <2>2, <2>3, QuietDisks
<1> QED
  BY <1>3, <1>4, <1>5, <1>6, <1>7 DEF DiskNext

\* A thread that has begun does not begin again, one that has ended stays so, and the
\* histories only grow.
LEMMA Histories ==
  ASSUME SessionInv, Next
  PROVE  /\ \A e \in Emus : /\ pc'[e] = "idle" => pc[e] = "idle"
                            /\ pc[e] \in {"posted", "exited"} => pc'[e] \in {"posted", "exited"}
         /\ overlapped => overlapped'
<1>0. pc \in [Emus -> RunStates] /\ QueueInv /\ NoDup /\ mainQ \in Seq(Block)
  BY DEF SessionInv, OwnerInv, TypeInv, Data, QueueInv
<1>1. overlapped => overlapped'
  BY DEF Next, User, Start, CancelStart, Stop, Exit, Atexit, AtexitSpin, AtexitForce, Dead, vars,
         MainQueue, LoadAbandoned, InitRefused, InitOk, InitFails, Attach, TeardownOnMain,
         ShowFrame, EmulatorDidExit, LoadDisks, Winding, Guest, RunBegin, DestroyModules,
         DestroyThrows, RunReturns, PostExit, FrameDispatch, ShellReturns, ShellThrows, FrameStore,
         histVars
<1>2. \/ pc' = pc
      \/ \E e \in Emus : \/ \E to \in RunStates \ {"idle"} :
                              pc' = [pc EXCEPT ![e] = to] /\ pc[e] \notin {"posted", "exited"}
                         \/ pc' = [pc EXCEPT ![e] = "exited"]
  <2>1. User \/ Atexit \/ Dead => pc' = pc
    BY DEF User, Start, CancelStart, Stop, Exit, Atexit, AtexitSpin, AtexitForce, Dead, vars
  <2>2. ASSUME NEW e \in Emus, MainQueue(e)
        PROVE  \/ pc' = pc \/ pc' = [pc EXCEPT ![e] = "exited"]
               \/ \E to \in RunStates \ {"idle"} :
                    pc' = [pc EXCEPT ![e] = to] /\ pc[e] \notin {"posted", "exited"}
    <3>1. CASE LoadAbandoned(e) \/ InitRefused(e) \/ InitFails(e) \/ ShowFrame(e)
               \/ EmulatorDidExit(e)
      BY <3>1 DEF LoadAbandoned, InitRefused, InitFails, Attach, ShowFrame, EmulatorDidExit
    <3>2. CASE InitOk(e)
      <4>1. pc[e] = "idle"
        BY <1>0, <3>2, MainBlockLemma DEF InitOk, Attach, QueueInv
      <4> QED
        BY <3>2, <4>1 DEF InitOk, RunStates
    <3>3. CASE TeardownOnMain(e)
      <4>1. pc[e] = "gfx"
        BY <1>0, <3>3, MainBlockLemma DEF TeardownOnMain, QueueInv
      <4> QED
        BY <3>3, <4>1 DEF TeardownOnMain, RunStates
    <3> QED
      BY <2>2, <3>1, <3>2, <3>3 DEF MainQueue
  <2>3. ASSUME NEW e \in Emus, LoadDisks(e) \/ Winding(e) \/ Guest(e)
        PROVE  \/ pc' = pc
               \/ \E to \in RunStates \ {"idle"} :
                    pc' = [pc EXCEPT ![e] = to] /\ pc[e] \notin {"posted", "exited"}
    BY <2>3 DEF LoadDisks, Winding, Guest, RunStep, RunBegin, DestroyModules, AfterDispatch,
                DestroyThrows, RunReturns, PostExit, FrameDispatch, ShellReturns, ShellThrows,
                FrameStore, RunStates
  <2> QED
    BY <2>1, <2>2, <2>3 DEF Next
<1> QED
  BY <1>0, <1>1, <1>2

\* A disturbance stays one.
LEMMA StaysDisturbed == SessionInv /\ [DiskNext]_allVars /\ Undisturbed' => Undisturbed
<1> SUFFICES ASSUME SessionInv, [DiskNext]_allVars PROVE ~Undisturbed => ~Undisturbed'
  OBVIOUS
<1>1. switched => switched'
  BY DEF DiskNext, StartWithDisk, SetPath, SaveWrite, NothingToSave, MainNoDisk, EngineNoDisk,
         LoadImage, GuestWrite, SaveRead, diskVars, allVars
<1>2. [Next]_vars
  BY NextLemma
<1>3. /\ overlapped => overlapped'
      /\ \A e \in Emus : pc[e] \in {"posted", "exited"} => pc'[e] \in {"posted", "exited"}
  BY <1>2, Histories DEF vars, histVars
<1> QED
  BY <1>1, <1>3 DEF Undisturbed, Finished

LEMMA WritingsStep ==
  SessionInv /\ Formed /\ Attached /\ Mounted /\ SaveInv /\ Writings /\ [DiskNext]_allVars
    => Writings'
<1> SUFFICES ASSUME SessionInv, Formed, Attached, Mounted, SaveInv, Writings, [DiskNext]_allVars
             PROVE  Writings'
  OBVIOUS
<1>0. /\ Undisturbed' => Undisturbed
      /\ DiskTypeOK /\ PathsKnown
      /\ emulator \in Emus \cup {None} /\ pc \in [Emus -> RunStates]
  BY StaysDisturbed DEF Formed, SessionInv, OwnerInv, TypeInv, Data, Flags
<1>1. (\A e \in Emus : pc'[e] = "idle") => \A e \in Emus : pc[e] = "idle"
  BY NextLemma, Histories DEF vars
\* a step that writes nothing and saves nothing
<1>2. ASSUME UNCHANGED <<file, written, duringSave, save>>
      PROVE  Writings'
  BY <1>0, <1>1, <1>2 DEF Writings, LossesOnlyDuringSave
<1>3. CASE SaveWrite
  <2>1. /\ file' = [file EXCEPT ![save.to] = save.data] /\ save' = NoSave /\ save # NoSave
        /\ UNCHANGED <<written, duringSave>>
    BY <1>3 DEF SaveWrite, MainFree
  <2>2. Undisturbed' => \A f \in Files : written'[f] \subseteq file'[f].writes \cup duringSave'
    BY <1>0, <2>1 DEF DiskTypeOK, Writings, LossesOnlyDuringSave
  <2> QED
    BY <1>1, <2>1, <2>2 DEF Writings, LossesOnlyDuringSave
<1>4. ASSUME NEW e \in Emus, GuestWrite(e)
      PROVE  Writings'
  <2> DEFINE f == diskPath[e]
  <2>1. PICK w \in Writes : /\ file' = [file EXCEPT ![f].writes = @ \cup {w}]
                            /\ written' = [written EXCEPT ![f] = @ \cup {w}]
                            /\ duringSave' = IF MainFree THEN duringSave ELSE duringSave \cup {w}
    BY <1>4 DEF GuestWrite
  <2>2. save' = save /\ pc[e] = "shell" /\ pc' = pc
    BY <1>4 DEF GuestWrite, vars
  <2>3. ASSUME NEW g \in Files
        PROVE  /\ file'[g].writes = IF g = f THEN file[g].writes \cup {w} ELSE file[g].writes
               /\ written'[g] = IF g = f THEN written[g] \cup {w} ELSE written[g]
    <3>1. file[g] \in [origin : Files, writes : SUBSET Writes]
      BY <1>0 DEF DiskTypeOK, Content
    <3> DEFINE c == [file[f] EXCEPT !.writes = @ \cup {w}]
    <3>2. file' = [file EXCEPT ![f] = c]
      BY <2>1
    <3>3. f = g => c.writes = file[g].writes \cup {w}
      BY <3>1
    <3> HIDE DEF f, c
    <3> QED
      BY <1>0, <2>1, <3>2, <3>3 DEF DiskTypeOK
  <2>4. duringSave \subseteq duringSave'
    BY <2>1
  <2>5. LossesOnlyDuringSave'
    <3> SUFFICES ASSUME Undisturbed', NEW g \in Files
                 PROVE  written'[g] \subseteq file'[g].writes \cup duringSave'
      BY DEF LossesOnlyDuringSave
    <3>1. written[g] \subseteq file[g].writes \cup duringSave
      BY <1>0 DEF Writings, LossesOnlyDuringSave
    <3> HIDE DEF f
    <3> QED
      BY <2>3, <2>4, <3>1
  <2>6. Undisturbed' /\ save' # NoSave => written'[save'.to] \subseteq save'.data.writes \cup duringSave'
    <3> SUFFICES ASSUME Undisturbed', save # NoSave
                 PROVE  written'[save.to] \subseteq save.data.writes \cup duringSave'
      BY <2>2
    <3>1. save.to \in Files /\ written[save.to] \subseteq save.data.writes \cup duringSave
      BY <1>0 DEF Writings, DiskTypeOK
    <3>2. duringSave' = duringSave \cup {w}
      BY <2>1 DEF MainFree
    <3> HIDE DEF f
    <3> QED
      BY <2>3, <3>1, <3>2
  <2>7. (\A d \in Emus : pc'[d] = "idle") => \A g \in Files : written'[g] = {}
    BY <2>2
  <2> QED
    BY <2>5, <2>6, <2>7 DEF Writings
<1>5. ASSUME NEW cause \in Causes, SaveRead(cause)
      PROVE  Writings'
  <2>1. /\ Savable /\ UNCHANGED <<file, written, duringSave>>
        /\ save' = [cause |-> cause, to |-> hddCPath, data |-> GetDiskData(emulator),
                    seen |-> written[diskPath[emulator]]]
    BY <1>5 DEF SaveRead, SaveTarget
  <2>2. ASSUME Undisturbed
        PROVE  written[hddCPath] \subseteq GetDiskData(emulator).writes \cup duringSave
    <3>1. /\ emulator \in Emus /\ hddCPath \in Files /\ diskPath[emulator] = hddCPath
      BY <1>0, <2>1, <2>2 DEF Savable, Mounted, Undisturbed, DiskTypeOK
    <3>2. CASE shouldRun[emulator]
      BY <2>2, <3>1, <3>2 DEF GetDiskData, Writings, LossesOnlyDuringSave
    <3>3. CASE ~shouldRun[emulator]
      <4>1. \A e \in Emus : pc[e] \notin {"posted", "exited"}
        BY <2>2 DEF Undisturbed, Finished
      <4>2. pc[emulator] = "idle"
        BY <1>0, <3>1, <3>3, <4>1 DEF Attached, RunStates, Active
      <4>3. \A e \in Emus : e # emulator => ~EngineLive(e)
        BY <2>2 DEF Attached, Undisturbed
      <4>4. \A e \in Emus : pc[e] = "idle"
        BY <1>0, <4>1, <4>2, <4>3 DEF EngineLive, RunStates, Active
      <4> QED
        BY <3>1, <4>4 DEF Writings
    <3> QED
      BY <3>2, <3>3
  <2>3. LossesOnlyDuringSave'
    BY <1>0, <2>1 DEF Writings, LossesOnlyDuringSave
  <2>4. save'.to = hddCPath /\ save'.data = GetDiskData(emulator)
    BY <2>1
  <2> QED
    BY <1>0, <1>1, <2>1, <2>2, <2>3, <2>4 DEF Writings
<1>6. CASE ~SaveWrite /\ (\A e \in Emus : ~GuestWrite(e)) /\ \A cause \in Causes : ~SaveRead(cause)
  <2>1. UNCHANGED <<file, written, duringSave, save>>
    BY <1>6 DEF DiskNext, StartWithDisk, NothingToSave, MainNoDisk, EngineNoDisk, SetPath,
                LoadImage, allVars, diskVars
  <2> QED
    BY <1>2, <2>1
<1> QED
  BY <1>3, <1>4, <1>5, <1>6

\* All of it, at the beginning and after every step.
DisksInv == SessionInv /\ Formed /\ SaveInv /\ Attached /\ Mounted /\ Writings

LEMMA DisksInvInit == DiskInit => DisksInv
<1> SUFFICES ASSUME DiskInit PROVE DisksInv
  OBVIOUS
<1>0. Init
  BY DEF DiskInit
<1>1. SessionInv
  BY <1>0, OwnerInit, ViewInit DEF SessionInv
<1>2. Formed
  <2>1. \A f \in Files : [origin |-> f, writes |-> {}] \in Content
    BY DEF Content
  <2> QED
    BY <1>0, <2>1 DEF Formed, DiskTypeOK, PathsKnown, DiskInit, Init, NoSave
<1>3. SaveInv
  BY DEF DiskInit, SaveInv
<1>4. Attached /\ Mounted
  BY <1>0 DEF DiskInit, Init, Attached, Mounted, EngineLive, LoadInFlight, InQueue, Active
<1>5. Writings
  BY DEF DiskInit, Writings, LossesOnlyDuringSave
<1> QED
  BY <1>1, <1>2, <1>3, <1>4, <1>5 DEF DisksInv

\* As long as the drive keeps its disk, starts do not overlap and no session has ended by
\* itself, a disk loses nothing of what the guest wrote, except while it is being saved:
\* for any number of images, writes and sessions.
THEOREM DisksAreTrue == DiskSpec => []DisksTrue
<1>1. DisksInv /\ [DiskNext]_allVars => DisksInv'
  <2> SUFFICES ASSUME DisksInv, [DiskNext]_allVars PROVE DisksInv'
    OBVIOUS
  <2>1. [Next]_vars
    BY NextLemma
  <2>2. DOMAIN diskPath = Emus
    BY DEF DisksInv, Formed, DiskTypeOK
  <2> QED
    BY <2>1, <2>2, SessionKept, FormedStep, SaveInvStep, AttachedStep, MountedStep, WritingsStep
       DEF DisksInv
<1>2. DisksInv => DisksTrue
  BY DEF DisksInv, Formed, Writings, DisksTrue
<1> QED
  BY <1>1, <1>2, DisksInvInit, PTL DEF DiskSpec
=============================================================================
