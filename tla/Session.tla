------------------------------ MODULE Session ------------------------------
(***************************************************************************)
(* The life of an emulator session: EmulatorViewModel (main queue), one    *)
(* DOSEmulator per start() with its serial queue, and the process-wide     *)
(* bridge over DOSBox, whose state is static.  Blocks sent to the main     *)
(* queue run in FIFO order, interleaved with the user's taps.  Loaders     *)
(* (global queue) and the engine (emulator queue) run concurrently.        *)
(* DOSBox itself is external: its shell may run for ever, end, or throw.   *)
(***************************************************************************)
EXTENDS Naturals, Sequences

CONSTANTS MaxStarts,   \* bound: number of start() calls that pass the guard
          MaxSpins     \* bound of the wait in dosbox_atexit_cleanup (100 in the code)

ASSUME BoundsAssumption == MaxStarts \in Nat /\ MaxSpins \in Nat

Emus == 1 .. MaxStarts     \* the DOSEmulator made by the n-th start()
None == 0                  \* nil

VARIABLES
  isRunning, isStarting, startCancelled,  \* EmulatorViewModel flags
  emulator,        \* EmulatorViewModel.emulator
  gfxImage,        \* the emulator whose frame is on screen, or None
  saveTimers,      \* timers live on the run loop, named by the start that made them
  diskSaveTimer,   \* the one timer the view model still refers to
  starts,          \* start() calls so far
  loader,          \* per start: progress of the background disk loading
  shouldRun,       \* DOSEmulator._shouldRun
  pc,              \* per emulator: position of its block on _emulatorQueue
  s_running, s_frame_ctx, atexit,         \* bridge statics
  up,              \* subsystems of DOSBox that are initialised
  shutdownRequest, \* DOSBox's is_shutdown_requested
  framePending,    \* s_frame_pending
  frameInHand,     \* emulator whose frame_callback is between store and dispatch
  mainQ,           \* blocks on the main queue
  proc, spins,     \* life of the process; iterations of the atexit wait
  overlapped,      \* history: a start() came while an older load or engine was alive
  lostInit,        \* history: dosbox_init failed
  threw            \* history: DOSBox threw out of dosbox_init or dosbox_run

vmVars     == <<isRunning, isStarting, startCancelled, emulator, gfxImage>>
timerVars  == <<saveTimers, diskSaveTimer>>
bridgeVars == <<s_running, s_frame_ctx, atexit, up, shutdownRequest>>
frameVars  == <<framePending, frameInHand>>
procVars   == <<proc, spins>>
histVars   == <<overlapped, lostInit, threw>>
vars == <<vmVars, timerVars, starts, loader, shouldRun, pc, bridgeVars,
          frameVars, mainQ, procVars, histVars>>

LoaderStates == {"none", "loading", "skipped", "loaded", "failed"}
RunStates == {"idle", "queued", "shell", "destroy", "gfx", "clear", "tail",
              "posted", "exited"}
Active == {"queued", "shell", "destroy", "gfx", "clear"}
Subsystems == {"gfx", "modules", "hostio"}
Block == [kind : {"loaded", "frame", "teardown", "exit"}, emu : Emus]
\* dispatch_async (or _sync, seen from the queue) to the main queue
Dispatch(k, e) == mainQ' = Append(mainQ, [kind |-> k, emu |-> e])
InQueue(k, e) == \E i \in DOMAIN mainQ : mainQ[i] = [kind |-> k, emu |-> e]

TypeOK ==
  /\ isRunning \in BOOLEAN /\ isStarting \in BOOLEAN /\ startCancelled \in BOOLEAN
  /\ emulator \in Emus \cup {None} /\ gfxImage \in Emus \cup {None}
  /\ saveTimers \subseteq Emus /\ diskSaveTimer \in Emus \cup {None}
  /\ starts \in 0 .. MaxStarts
  /\ loader \in [Emus -> LoaderStates]
  /\ shouldRun \in [Emus -> BOOLEAN] /\ pc \in [Emus -> RunStates]
  /\ s_running \in BOOLEAN /\ s_frame_ctx \in Emus \cup {None} /\ atexit \in BOOLEAN
  /\ up \subseteq Subsystems /\ shutdownRequest \in BOOLEAN
  /\ framePending \in BOOLEAN /\ frameInHand \in Emus \cup {None}
  /\ mainQ \in Seq(Block)
  /\ proc \in {"alive", "exiting", "dead"} /\ spins \in 0 .. MaxSpins
  /\ overlapped \in BOOLEAN /\ lostInit \in BOOLEAN /\ threw \in BOOLEAN

Init ==
  /\ isRunning = FALSE /\ isStarting = FALSE /\ startCancelled = FALSE
  /\ emulator = None /\ gfxImage = None
  /\ saveTimers = {} /\ diskSaveTimer = None
  /\ starts = 0
  /\ loader = [e \in Emus |-> "none"]
  /\ shouldRun = [e \in Emus |-> FALSE] /\ pc = [e \in Emus |-> "idle"]
  /\ s_running = FALSE /\ s_frame_ctx = None /\ atexit = FALSE
  /\ up = {} /\ shutdownRequest = FALSE
  /\ framePending = FALSE /\ frameInHand = None
  /\ mainQ = <<>>
  /\ proc = "alive" /\ spins = 0
  /\ overlapped = FALSE /\ lostInit = FALSE /\ threw = FALSE

-----------------------------------------------------------------------------
(* The user's side of the view model: taps handled on the main thread.     *)

LoadInFlight(e) == loader[e] = "loading" \/ InQueue("loaded", e)
EngineLive(e) == pc[e] \in Active \cup {"tail", "posted"}

\* how cancelStart and the abandoned load leave the view
BackToSettings_KeepsRunning == isStarting' = FALSE /\ isRunning' = isRunning
BackToSettings == isStarting' = FALSE /\ isRunning' = FALSE

InvalidateTimers == saveTimers' = saveTimers \ {diskSaveTimer} /\ diskSaveTimer' = None

\* EmulatorViewModel.start(), up to the dispatch of the loader
Start ==
  /\ proc = "alive" /\ ~isRunning /\ starts < MaxStarts
  /\ starts' = starts + 1
  /\ isStarting' = TRUE /\ isRunning' = TRUE /\ startCancelled' = FALSE
  /\ loader' = [loader EXCEPT ![starts + 1] = "loading"]
  /\ overlapped' = (overlapped \/ \E e \in Emus : LoadInFlight(e) \/ EngineLive(e))
  /\ UNCHANGED <<emulator, gfxImage, timerVars, shouldRun, pc, bridgeVars,
                 frameVars, mainQ, procVars, lostInit, threw>>

\* cancelStart(); the button exists while isStarting
CancelStart ==
  /\ proc = "alive" /\ isRunning /\ isStarting
  /\ startCancelled' = TRUE /\ BackToSettings
  /\ UNCHANGED <<emulator, gfxImage, timerVars, starts, loader, shouldRun, pc,
                 bridgeVars, frameVars, mainQ, procVars, histVars>>

\* stop() of a running session: _exit(0), which skips the atexit handlers
Stop ==
  /\ proc = "alive" /\ isRunning /\ ~isStarting
  /\ InvalidateTimers
  /\ proc' = "dead"
  /\ UNCHANGED <<vmVars, starts, loader, shouldRun, pc, bridgeVars, frameVars,
                 mainQ, spins, histVars>>

\* exit(0): the Quit button of the settings, or the system ending an app
\* that shows them; dosbox_atexit_cleanup runs once dosbox_init registered it
Exit ==
  /\ proc = "alive" /\ ~isRunning
  /\ proc' = IF atexit THEN "exiting" ELSE "dead"
  /\ shutdownRequest' = (shutdownRequest \/ (atexit /\ s_running))
  /\ UNCHANGED <<vmVars, timerVars, starts, loader, shouldRun, pc, s_running,
                 s_frame_ctx, atexit, up, frameVars, mainQ, spins, histVars>>

\* one usleep of dosbox_atexit_cleanup; the main thread is in this loop
CountSpin == spins' = spins + 1
MaySpin == spins < MaxSpins
AtexitSpin ==
  /\ proc = "exiting" /\ s_running /\ MaySpin
  /\ CountSpin
  /\ UNCHANGED <<vmVars, timerVars, starts, loader, shouldRun, pc, bridgeVars,
                 frameVars, mainQ, proc, histVars>>

\* the wait is over, either way: _exit(0)
AtexitForce ==
  /\ proc = "exiting" /\ (~s_running \/ spins = MaxSpins)
  /\ proc' = "dead"
  /\ UNCHANGED <<vmVars, timerVars, starts, loader, shouldRun, pc, bridgeVars,
                 frameVars, mainQ, spins, histVars>>

-----------------------------------------------------------------------------
(* The loader on the global queue.  It reads startCancelled, unsynchronised, *)
(* when it reaches the disk, and sends its verdict to the main queue.        *)

LoadDisks(e) ==
  /\ proc # "dead" /\ loader[e] = "loading"
  /\ \E verdict \in IF startCancelled THEN {"skipped"} ELSE {"loaded", "failed"} :
       loader' = [loader EXCEPT ![e] = verdict]
  /\ Dispatch("loaded", e)
  /\ UNCHANGED <<vmVars, timerVars, starts, shouldRun, pc, bridgeVars, frameVars,
                 procVars, histVars>>

-----------------------------------------------------------------------------
(* Blocks of the main queue: the head runs, to its end, on the main thread. *)

MainBlock(kind, e) ==
  /\ proc = "alive" /\ mainQ # <<>>
  /\ Head(mainQ) = [kind |-> kind, emu |-> e]
  /\ mainQ' = Tail(mainQ)

\* the loader's block gives up: the start was cancelled, or a disk did not load
Abandoned(e) == startCancelled \/ loader[e] = "failed"
LoadAbandoned(e) ==
  /\ MainBlock("loaded", e)
  /\ Abandoned(e) /\ BackToSettings
  /\ UNCHANGED <<startCancelled, emulator, gfxImage, timerVars, starts, loader,
                 shouldRun, pc, bridgeVars, frameVars, procVars, histVars>>

\* what the loader's block does around -startWithBootDrive:
Attach(e) ==
  /\ MainBlock("loaded", e)
  /\ ~Abandoned(e)
  /\ emulator' = e /\ isStarting' = FALSE
  /\ saveTimers' = saveTimers \cup {e} /\ diskSaveTimer' = e
  /\ UNCHANGED <<isRunning, startCancelled, gfxImage, starts, loader, frameVars,
                 procVars, overlapped>>

\* the test at the top of dosbox_init
Refuses_Never == FALSE
Refuses == s_running

\* dosbox_init when DOSBox is already running: -1, nothing touched
InitRefused_SetsContext(e) ==
  /\ Attach(e) /\ Refuses
  /\ s_frame_ctx' = e /\ lostInit' = TRUE
  /\ UNCHANGED <<shouldRun, pc, s_running, atexit, up, shutdownRequest, threw>>
InitRefused(e) ==
  /\ Attach(e) /\ Refuses
  /\ lostInit' = TRUE
  /\ UNCHANGED <<shouldRun, pc, bridgeVars, threw>>

\* dosbox_init succeeds; the run block goes to the emulator queue
InitOk(e) ==
  /\ Attach(e) /\ ~Refuses
  /\ atexit' = TRUE /\ s_frame_ctx' = e /\ s_running' = TRUE /\ up' = Subsystems
  /\ shouldRun' = [shouldRun EXCEPT ![e] = TRUE]
  /\ pc' = [pc EXCEPT ![e] = "queued"]
  /\ UNCHANGED <<shutdownRequest, lostInit, threw>>

\* dosbox_init fails: no config file, or an exception after bringing up part
\* of GFX, modules and host I/O; the handler destroys only the host I/O
InitFails(e) ==
  /\ Attach(e) /\ ~Refuses
  /\ atexit' = TRUE /\ s_frame_ctx' = e
  /\ lostInit' = TRUE
  /\ \E started \in {{}, {"gfx"}, {"gfx", "modules"}} :
       /\ up' = (up \cup started) \ (IF started = {} THEN {} ELSE {"hostio"})
       /\ threw' = (threw \/ started # {})
  /\ UNCHANGED <<shouldRun, pc, s_running, shutdownRequest>>

\* dosbox_gfx_teardown_on_main, and with it the end of dispatch_sync_f
TeardownOnMain(e) ==
  /\ MainBlock("teardown", e)
  /\ up' = up \ {"gfx"}
  /\ pc' = [pc EXCEPT ![e] = "clear"]
  /\ UNCHANGED <<vmVars, timerVars, starts, loader, shouldRun, s_running,
                 s_frame_ctx, atexit, shutdownRequest, frameVars, procVars, histVars>>

ReopenFrames == framePending' = FALSE

\* emulatorFrameReady, then the store that reopens frame_callback
ShowFrame(e) ==
  /\ MainBlock("frame", e)
  /\ gfxImage' = e /\ ReopenFrames
  /\ UNCHANGED <<isRunning, isStarting, startCancelled, emulator, timerVars,
                 starts, loader, shouldRun, pc, bridgeVars, frameInHand, procVars,
                 histVars>>

ClearScreen == gfxImage' = None

\* emulatorDidExit (its save of the disks is the subject of DiskPersistence)
EmulatorDidExit(e) ==
  /\ MainBlock("exit", e)
  /\ InvalidateTimers
  /\ isRunning' = FALSE /\ ClearScreen
  /\ pc' = [pc EXCEPT ![e] = "exited"]
  /\ UNCHANGED <<isStarting, startCancelled, emulator, starts, loader, shouldRun,
                 bridgeVars, frameVars, procVars, histVars>>

-----------------------------------------------------------------------------
(* The block on _emulatorQueue: dosbox_run and what follows it.             *)

RunStep(e, from, to) ==
  /\ proc # "dead" /\ pc[e] = from /\ frameInHand # e
  /\ pc' = [pc EXCEPT ![e] = to]

\* dosbox_run's first test; a refusal returns straight to the block
RunBegin(e) ==
  /\ RunStep(e, "queued", IF s_running THEN "shell" ELSE "tail")
  /\ UNCHANGED <<vmVars, timerVars, starts, loader, shouldRun, bridgeVars,
                 frameVars, mainQ, procVars, histVars>>

\* s_running outlives the shell: only the end of dosbox_run clears it
Running_ClearedEarly == s_running' = FALSE
Running == UNCHANGED s_running

\* SHELL_InitAndRun returns: a request was pending, or the guest left, which
\* may itself have set the request (external)
ShellReturns(e) ==
  /\ RunStep(e, "shell", "destroy")
  /\ Running
  /\ shutdownRequest' \in {shutdownRequest, TRUE}
  /\ UNCHANGED <<vmVars, timerVars, starts, loader, shouldRun, s_frame_ctx,
                 atexit, up, frameVars, mainQ, procVars, histVars>>

\* SHELL_InitAndRun throws: every teardown step is skipped
ShellThrows(e) ==
  /\ RunStep(e, "shell", "clear")
  /\ threw' = TRUE
  /\ UNCHANGED <<vmVars, timerVars, starts, loader, shouldRun, bridgeVars,
                 frameVars, mainQ, procVars, overlapped, lostInit>>

\* where the thread is once it has sent the teardown: it waits (dispatch_sync)
AfterDispatch == "gfx"

\* HOSTIO_Destroy and DOSBOX_DestroyModules, then the dispatch_sync to main
DestroyModules(e) ==
  /\ RunStep(e, "destroy", AfterDispatch)
  /\ up' = up \ {"hostio", "modules"}
  /\ Dispatch("teardown", e)
  /\ UNCHANGED <<vmVars, timerVars, starts, loader, shouldRun, s_running,
                 s_frame_ctx, atexit, shutdownRequest, frameVars, procVars, histVars>>

\* DOSBOX_DestroyModules throws on the way
DestroyThrows(e) ==
  /\ RunStep(e, "destroy", "clear")
  /\ up' = up \ {"hostio"} /\ threw' = TRUE
  /\ UNCHANGED <<vmVars, timerVars, starts, loader, shouldRun, s_running,
                 s_frame_ctx, atexit, shutdownRequest, frameVars, mainQ, procVars,
                 overlapped, lostInit>>

\* the tail of dosbox_run: s_running is cleared last
RunReturns(e) ==
  /\ RunStep(e, "clear", "tail")
  /\ s_running' = FALSE
  /\ UNCHANGED <<vmVars, timerVars, starts, loader, shouldRun, s_frame_ctx, atexit,
                 up, shutdownRequest, frameVars, mainQ, procVars, histVars>>

NotifyExit_Forgets(e) == UNCHANGED mainQ
NotifyExit(e) == Dispatch("exit", e)

\* _shouldRun = NO and the dispatch of the exit notification
PostExit(e) ==
  /\ RunStep(e, "tail", "posted")
  /\ shouldRun' = [shouldRun EXCEPT ![e] = FALSE]
  /\ NotifyExit(e)
  /\ UNCHANGED <<vmVars, timerVars, starts, loader, bridgeVars, frameVars, procVars,
                 histVars>>

\* frame_callback drops the frame while the last one is not consumed
Drops == framePending

\* frame_callback passes the test of s_frame_pending and stores it
FrameStore(e) ==
  /\ proc # "dead" /\ pc[e] = "shell" /\ ~Drops /\ frameInHand = None
  /\ framePending' = TRUE /\ frameInHand' = e
  /\ UNCHANGED <<vmVars, timerVars, starts, loader, shouldRun, pc, bridgeVars, mainQ,
                 procVars, histVars>>

\* ... and dispatches the frame, for the delegate of s_frame_ctx
FrameDispatch(e) ==
  /\ proc # "dead" /\ frameInHand = e
  /\ frameInHand' = None
  /\ Dispatch("frame", s_frame_ctx)
  /\ UNCHANGED <<vmVars, timerVars, starts, loader, shouldRun, pc, bridgeVars,
                 framePending, procVars, histVars>>

-----------------------------------------------------------------------------
User == Start \/ CancelStart \/ Stop \/ Exit
Atexit == AtexitSpin \/ AtexitForce
MainQueue(e) ==
  \/ LoadAbandoned(e) \/ InitRefused(e) \/ InitOk(e) \/ InitFails(e)
  \/ TeardownOnMain(e) \/ ShowFrame(e) \/ EmulatorDidExit(e)
\* what the emulator queue does on its own, once the shell has returned
Winding(e) ==
  \/ RunBegin(e) \/ DestroyModules(e) \/ DestroyThrows(e) \/ RunReturns(e)
  \/ PostExit(e) \/ FrameDispatch(e)
\* what is up to DOSBox and its guest
Guest(e) == ShellReturns(e) \/ ShellThrows(e) \/ FrameStore(e)
\* a process that has exited takes no step
Dead == proc = "dead" /\ UNCHANGED vars

Next == \/ User \/ Atexit \/ Dead
        \/ \E e \in Emus : MainQueue(e) \/ LoadDisks(e) \/ Winding(e) \/ Guest(e)

\* The run loop serves its queue and the dispatch queues their threads; nothing
\* is assumed of the user, nor of the guest.
Fairness ==
  /\ WF_vars(Atexit)
  /\ \A e \in Emus : WF_vars(MainQueue(e)) /\ WF_vars(LoadDisks(e)) /\ WF_vars(Winding(e))

Spec == Init /\ [][Next]_vars /\ Fairness
-----------------------------------------------------------------------------
(* Safety.                                                                  *)

\* DOSBox's statics have one owner: at most one emulator is between a successful
\* dosbox_init and the end of dosbox_run, and s_running says whether there is one.
EngineExclusive ==
  /\ \A e, f \in Emus : pc[e] \in Active /\ pc[f] \in Active => e = f
  /\ s_running <=> \E e \in Emus : pc[e] \in Active

\* The frame callback's context is an unretained pointer: while the shell can
\* call it, it is the emulator whose own block runs the shell and retains it.
FrameContextLive == \A e \in Emus : pc[e] = "shell" => s_frame_ctx = e

\* Coalescing: the main queue never holds two frames, and s_frame_pending is set
\* exactly while one is in the queue or on its way there.
FrameCoalesced ==
  /\ \A i, j \in DOMAIN mainQ :
       mainQ[i].kind = "frame" /\ mainQ[j].kind = "frame" => i = j
  /\ framePending <=> \/ frameInHand # None
                      \/ \E i \in DOMAIN mainQ : mainQ[i].kind = "frame"

\* A picture left on screen belongs to an emulator whose exit notification is
\* still to come: the queue never delivers a frame after the exit that clears it.
NoStaleImage == gfxImage # None => pc[gfxImage] # "exited"

\* The dispatch_sync of the teardown is waited for by exactly the thread that
\* sent it: a block is queued iff that emulator is blocked on it.
TeardownAwaited == \A e \in Emus : pc[e] = "gfx" <=> InQueue("teardown", e)

\* As long as no start overlaps an older one and dosbox_init succeeds, the view
\* shows the running screen exactly while a load, an engine or its exit is due.
ViewMirrorsEngine ==
  ~overlapped /\ ~lostInit =>
    (isRunning <=> \E e \in Emus : \/ EngineLive(e)
                                   \/ e = starts /\ ~startCancelled /\ LoadInFlight(e))

\* Without overlap a machine that was started has its disks: a loader skips them
\* only for a start that its block then abandons.
StartedWithDisks ==
  ~overlapped => \A e \in Emus : pc[e] # "idle" => loader[e] = "loaded"

\* No timer outlives its session: what is scheduled is what can be invalidated.
NoLeakedTimer == ~overlapped => saveTimers \subseteq {diskSaveTimer} \ {None}

\* DOSBox has one owner, and its thread and the main thread wait for each other only in
\* the teardown that both know of (dosbox_run, dosbox_gfx_teardown_on_main).
EngineOwned == EngineExclusive /\ TeardownAwaited

\* From frame_callback to the screen: a live context, one frame at a time, none after the end.
FramesSafe == FrameContextLive /\ FrameCoalesced /\ NoStaleImage

\* What the view shows, loads and schedules is true of the engine (start, cancelStart, stop).
ViewTrue == ViewMirrorsEngine /\ StartedWithDisks /\ NoLeakedTimer

\* dosbox_init builds DOSBox only when nothing of the previous session is left,
\* unless an exception skipped a teardown: the engine's cleanup is over by the
\* time s_running lets the next init pass.
InitOnCleanState ==
  [][up' # {} /\ s_running' /\ ~s_running => up = {} \/ threw]_vars

-----------------------------------------------------------------------------
(* Liveness.                                                                *)

\* exit() terminates although the engine may be blocked on the main thread.
ExitTerminates == (proc = "exiting") ~> (proc = "dead")

\* Once the shell has returned, the user interface hears of it.
ExitReachesView ==
  \A e \in Emus : (pc[e] \in {"destroy", "gfx", "clear", "tail"})
                    ~> (pc[e] = "exited" \/ proc # "alive")

\* A frame is always consumed: frame_callback does not stay shut.
FrameConsumed == framePending ~> (~framePending \/ proc # "alive")

\* The loading screen goes away.
StartResolves == isStarting ~> (~isStarting \/ proc # "alive")

\* Each wait of the session ends: exit()'s for the engine, the view's for the engine's end and
\* for the start, and frame_callback's for its frame.
WaitsEnd == ExitTerminates /\ ExitReachesView /\ FrameConsumed /\ StartResolves

\* One DOSBox at a time, each session announced once: see Machine.
MachineState(e) ==
  CASE pc[e] = "idle" -> "new"
    [] pc[e] \in Active -> "on"
    [] pc[e] \in {"tail", "posted"} -> "off"
    [] pc[e] = "exited" -> "announced"
OneMachine == INSTANCE Machine WITH
  Owners <- Emus, state <- [e \in Emus |-> MachineState(e)], powered <- (proc # "dead")
ImplementsMachine == OneMachine!Spec

\* docs/restart-static-state.md: a session never begins with the shutdown request
\* of an older one, because dosbox_init clears it.
NoInheritedShutdown ==
  \A e \in Emus : pc[e] = "queued" /\ proc = "alive" => ~shutdownRequest
=============================================================================
