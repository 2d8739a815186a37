-------------------------- MODULE DiskPersistence --------------------------
(***************************************************************************)
(* What happens to the image in drive C: over the sessions of Session:     *)
(* the guest writes to the image file from the engine's thread, the view   *)
(* model copies images back (saveAllDisks) from the main thread, from the  *)
(* 30 s timer, on resigning active, on emulatorDidExit and in stop().      *)
(* Every step of Session is a step here, joined to its effect on the disk. *)
(* The images are files below Documents/, the ones saveAllDisks writes.    *)
(***************************************************************************)
EXTENDS Session

CONSTANTS Files, NoFile,   \* image files; a drive without a disk
          MaxWrites        \* bound: guest writes

ASSUME DiskAssumption == NoFile \notin Files /\ MaxWrites \in Nat

VARIABLES
  hddCPath,   \* the view model's path of drive C:
  file,       \* the content of each file: the image it began as, and the writes it holds
  diskPath,   \* DOSEmulator._diskPath
  diskData,   \* DOSEmulator._diskData: the copy read by loadDisk
  save,       \* what the main thread is writing in saveAllDisks, if anything
  written,    \* history: the guest's writes to each file
  duringSave, \* history: those made while the main thread was saving
  switched    \* history: the drive's path changed after a machine was attached

diskVars == <<hddCPath, file, diskPath, diskData, save, written, duringSave, switched>>
allVars == <<vars, diskVars>>

Writes == 1 .. MaxWrites
Content == [origin : Files, writes : SUBSET Writes]
NoSave == [cause |-> "none"]
Causes == {"tick", "exit", "stop"}

DiskTypeOK ==
  /\ hddCPath \in Files \cup {NoFile}
  /\ file \in [Files -> Content]
  /\ diskPath \in [Emus -> Files \cup {NoFile}]
  /\ DOMAIN diskData = Emus
  /\ \A e \in Emus : loader[e] = "loaded" => diskData[e] \in Content
  /\ \/ save = NoSave
     \/ save \in [cause : Causes, to : Files, data : Content, seen : SUBSET Writes]
  /\ written \in [Files -> SUBSET Writes] /\ duringSave \subseteq Writes
  /\ switched \in BOOLEAN

DiskInit ==
  /\ Init
  /\ hddCPath \in Files
  /\ file = [f \in Files |-> [origin |-> f, writes |-> {}]]
  /\ diskPath = [e \in Emus |-> NoFile]
  /\ diskData = [e \in Emus |-> NoFile]
  /\ save = NoSave
  /\ written = [f \in Files |-> {}] /\ duringSave = {} /\ switched = FALSE

MainFree == save = NoSave

-----------------------------------------------------------------------------
\* start(): refuses without a disk, and captures the path for the loader
StartWithDisk ==
  /\ MainFree /\ Start /\ hddCPath # NoFile
  /\ diskPath' = [diskPath EXCEPT ![starts + 1] = hddCPath]
  /\ UNCHANGED <<hddCPath, file, diskData, save, written, duringSave, switched>>

\* loadDisk:fromPath: keeps a copy of the file in memory
Keep(e) == [diskData EXCEPT ![e] = file[diskPath[e]]]
LoadImage(e) ==
  /\ LoadDisks(e)
  /\ diskData' = IF loader'[e] = "loaded" THEN Keep(e) ELSE diskData
  /\ UNCHANGED <<hddCPath, file, diskPath, save, written, duringSave, switched>>

\* the drive gets another disk, or none: the user's choice in the settings, or
\* a download that completes (attachDiskPath), which may be at any time
SetPath ==
  /\ proc = "alive" /\ MainFree
  /\ \E f \in (Files \cup {NoFile}) \ {hddCPath} : hddCPath' = f
  /\ switched' = (switched \/ isRunning \/ emulator # None)
  /\ UNCHANGED <<vars, file, diskPath, diskData, save, written, duringSave>>

\* DOSBox writes to the mounted image from the engine's thread
GuestWrite(e) ==
  /\ proc # "dead" /\ pc[e] = "shell"
  /\ LET done == UNION {written[f] : f \in Files}
         f == diskPath[e]
     IN \E w \in Writes :
          /\ w \notin done /\ (w = 1 \/ w - 1 \in done)
          /\ file' = [file EXCEPT ![f].writes = @ \cup {w}]
          /\ written' = [written EXCEPT ![f] = @ \cup {w}]
          /\ duringSave' = IF MainFree THEN duringSave ELSE duringSave \cup {w}
  /\ UNCHANGED <<vars, hddCPath, diskPath, diskData, save, switched>>

-----------------------------------------------------------------------------
\* -getDiskData: re-reads the file of a running emulator
GetDiskData_Cached(e) == diskData[e]
GetDiskData(e) == IF shouldRun[e] THEN file[diskPath[e]] ELSE diskData[e]

\* saveAllDisks has something to write
Savable == emulator # None /\ hddCPath # NoFile /\ loader[emulator] = "loaded"

\* the occasions for saveAllDisks: the timer or willResignActive, the exit
\* notification at the head of the queue, and stop()
Occasion(cause) ==
  \/ cause = "tick"
  \/ cause = "exit" /\ \E e \in Emus : mainQ # <<>> /\ Head(mainQ) = [kind |-> "exit", emu |-> e]
  \/ cause = "stop" /\ isRunning /\ ~isStarting

\* saveAllDisks reads: the data, and which file it will go to
SaveTarget_Own == diskPath[emulator]
SaveTarget == hddCPath
SaveRead(cause) ==
  /\ proc = "alive" /\ MainFree /\ Savable /\ Occasion(cause)
  /\ save' = [cause |-> cause, to |-> SaveTarget, data |-> GetDiskData(emulator),
              seen |-> written[diskPath[emulator]]]
  /\ UNCHANGED <<vars, hddCPath, file, diskPath, diskData, written, duringSave, switched>>

\* ... and writes, after which its caller goes on
SaveWrite ==
  /\ proc = "alive" /\ ~MainFree
  /\ file' = [file EXCEPT ![save.to] = save.data]
  /\ save' = NoSave
  /\ \/ save.cause = "tick" /\ UNCHANGED vars
     \/ save.cause = "exit" /\ \E e \in Emus : EmulatorDidExit(e)
     \/ save.cause = "stop" /\ Stop
  /\ UNCHANGED <<hddCPath, diskPath, diskData, written, duringSave, switched>>

\* the same callers when there is nothing to save
NothingToSave ==
  /\ MainFree /\ ~Savable
  /\ Stop \/ \E e \in Emus : EmulatorDidExit(e)
  /\ UNCHANGED diskVars

-----------------------------------------------------------------------------
MainNoDisk ==
  /\ MainFree
  /\ \/ CancelStart \/ Exit
     \/ \E e \in Emus : \/ LoadAbandoned(e) \/ InitRefused(e) \/ InitOk(e)
                        \/ InitFails(e) \/ TeardownOnMain(e) \/ ShowFrame(e)
  /\ UNCHANGED diskVars
EngineNoDisk ==
  /\ Atexit \/ Dead \/ \E e \in Emus : Winding(e) \/ Guest(e)
  /\ UNCHANGED diskVars

DiskNext ==
  \/ StartWithDisk \/ SetPath \/ SaveWrite \/ NothingToSave
  \/ MainNoDisk \/ EngineNoDisk
  \/ \E e \in Emus : LoadImage(e) \/ GuestWrite(e)
  \/ \E cause \in Causes : SaveRead(cause)

DiskSpec == DiskInit /\ [][DiskNext]_allVars

-----------------------------------------------------------------------------
Finished == \E e \in Emus : pc[e] \in {"posted", "exited"}
Undisturbed == ~overlapped /\ ~switched /\ ~Finished

\* As long as the drive keeps its disk, starts do not overlap and no session has
\* ended by itself, the only writes a disk can lose are those the guest made while
\* the main thread was between reading and writing the image.
LossesOnlyDuringSave ==
  Undisturbed => \A f \in Files : written[f] \subseteq file[f].writes \cup duringSave

\* Disks are well formed, and keep what the guest has written (saveAllDisks, getDiskData).
DisksTrue == DiskTypeOK /\ LossesOnlyDuringSave

\* A file changes only when it is in the drive or mounted by the running engine.
OnlyMountedChanges ==
  [][\A f \in Files : file'[f] # file[f] =>
       \/ hddCPath = f
       \/ \E e \in Emus : pc[e] = "shell" /\ diskPath[e] = f]_allVars

\* DOSEmulator.mm:179: what is read for saving holds all that the guest has
\* written to the file, also once the guest has left the machine.
SavedDataIsFresh ==
  save # NoSave /\ ~overlapped /\ ~switched
    => save.seen \subseteq save.data.writes \cup duringSave
=============================================================================
