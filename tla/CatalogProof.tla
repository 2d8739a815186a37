---------------------------- MODULE CatalogProof ----------------------------
(***************************************************************************)
(* Theorems about DiskCatalog, for any catalog, drives and attempts.  The  *)
(* methods of the view model only ever make it calmer: they end requests   *)
(* and progress, and start none but where a download starts with them.     *)
(***************************************************************************)
EXTENDS DiskCatalog, TLAPS

\* w shows no download and has no request or automatic mark that v has not.
Calmer(w, v) ==
  /\ \A d \in Disks : /\ w.pending[d] # Nil => v.pending[d] # Nil
                      /\ w.state[d] = "downloading" => v.state[d] = "downloading"
  /\ w.auto \subseteq v.auto

LEMMA SetPathLemma ==
  ASSUME NEW v \in ViewModel, NEW drive \in Drives,
         NEW image \in Disks \cup {Nil, Own, Blank, Web}
  PROVE  SetPath(v, drive, image) \in ViewModel /\ Calmer(SetPath(v, drive, image), v)
<1>1. BootAfter(v, drive) \in {"A", "C"}
  BY DEF BootAfter, ViewModel
<1>2. [v.path EXCEPT ![drive] = image] \in [Drives -> Disks \cup {Nil, Own, Blank, Web}]
  BY DEF ViewModel
<1>3. SetPath(v, drive, image) =
        [v EXCEPT !.path = [v.path EXCEPT ![drive] = image], !.boot = BootAfter(v, drive)]
  BY DEF SetPath
<1> QED
  BY <1>1, <1>2, <1>3 DEF ViewModel, Calmer

LEMMA AttachLemma ==
  ASSUME NEW v \in ViewModel, NEW drive \in Drives, NEW d \in Disks
  PROVE  AttachCatalogDisk(v, d, drive) \in ViewModel
         /\ Calmer(AttachCatalogDisk(v, d, drive), v)
<1>1. SetPath(v, drive, d) \in ViewModel /\ Calmer(SetPath(v, drive, d), v)
  BY SetPathLemma
<1> QED
  BY <1>1 DEF AttachCatalogDisk, ViewModel, Calmer

LEMMA RemoveLemma ==
  ASSUME NEW v \in ViewModel, NEW drives \in SUBSET Drives
  PROVE  RemoveDisks(v, drives) \in ViewModel /\ Calmer(RemoveDisks(v, drives), v)
BY DEF RemoveDisks, ViewModel, Calmer

LEMMA DeleteLemma ==
  ASSUME NEW v \in ViewModel
  PROVE  DeleteAllDownloadedDisks(v) \in ViewModel /\ Calmer(DeleteAllDownloadedDisks(v), v)
<1> DEFINE states == [d \in Disks |-> IF d \in v.files THEN "notDownloaded" ELSE v.state[d]]
           emptied == [v EXCEPT !.files = {}, !.state = states]
           gone == {dr \in Drives : v.path[dr] \in Images}
<1>1. states \in [Disks -> States]
  BY DEF ViewModel, States
<1>2. emptied \in ViewModel /\ Calmer(emptied, v)
  BY <1>1 DEF ViewModel, Calmer
<1>3. /\ RemoveDisks(emptied, gone) \in ViewModel
      /\ Calmer(RemoveDisks(emptied, gone), emptied)
  BY <1>2, RemoveLemma
<1>4. DeleteAllDownloadedDisks(v) = [RemoveDisks(emptied, gone) EXCEPT !.manifest = {}]
  BY DEF DeleteAllDownloadedDisks
<1> HIDE DEF emptied, gone
<1> QED
  BY <1>2, <1>3, <1>4 DEF ViewModel, Calmer

LEMMA ReadLemma ==
  ASSUME NEW v \in ViewModel, NEW version \in Versions \cup {Bad}
  PROVE  Read(v, version) \in ViewModel /\ Calmer(Read(v, version), v)
<1> DEFINE w == [v EXCEPT !.catalog = version]
           p == Parse(v, version)
<1>1. w \in ViewModel /\ Calmer(w, v)
  BY DEF ViewModel, Calmer
<1>2. DeleteAllDownloadedDisks(w) \in ViewModel /\ Calmer(DeleteAllDownloadedDisks(w), w)
  BY <1>1, DeleteLemma
<1>3. ASSUME NEW u \in ViewModel, version \in Versions
      PROVE  StoreVersion(u, version) \in ViewModel /\ Calmer(StoreVersion(u, version), u)
  BY <1>3 DEF StoreVersion, ViewModel, Calmer
<1>4. ASSUME NEW t, NEW u, Calmer(t, u), Calmer(u, v)
      PROVE  Calmer(t, v)
  BY <1>4 DEF Calmer
<1>5. p \in ViewModel /\ Calmer(p, v)
  <2> HIDE DEF w
  <2>1. Parse(v, version) = IF version = Bad THEN w
                            ELSE IF v.stored \in {None, version} THEN StoreVersion(w, version)
                            ELSE StoreVersion(DeleteAllDownloadedDisks(w), version)
    BY DEF Parse, w
  <2>2. version # Bad => version \in Versions
    OBVIOUS
  <2>3. CASE version = Bad
    BY <1>1, <2>1, <2>3
  <2>4. CASE version # Bad /\ v.stored \in {None, version}
    BY <1>1, <1>3, <1>4, <2>1, <2>2, <2>4
  <2>5. CASE version # Bad /\ v.stored \notin {None, version}
    <3>1. Calmer(DeleteAllDownloadedDisks(w), v)
      BY <1>1, <1>2, <1>4
    <3> QED
      BY <1>2, <1>3, <1>4, <2>1, <2>2, <2>5, <3>1
  <2> QED
    BY <2>3, <2>4, <2>5
<1> HIDE DEF p
<1>6. RefreshDownloadStates(p) \in ViewModel /\ Calmer(RefreshDownloadStates(p), p)
  <2>1. [d \in Disks |-> IF d \in p.files THEN "downloaded" ELSE p.state[d]]
          \in [Disks -> States]
    BY <1>5 DEF ViewModel, States
  <2> QED
    BY <1>5, <2>1 DEF RefreshDownloadStates, ViewModel, Calmer
<1> QED
  BY <1>4, <1>5, <1>6 DEF Read, p

-----------------------------------------------------------------------------
(* The inductive invariant.                                                 *)

\* a download waits for its retry only with an attempt left after it
RetriesLeft == \A d \in Disks, k \in Starters : In(d, k, "retry") => task[d][k].left > 1

Core == vm \in ViewModel /\ task \in TaskType /\ DownloadsAccounted /\ RetriesLeft

\* A step that starts and ends no download, and only calms the view model.
LEMMA CalmStep ==
  ASSUME Core, vm' \in ViewModel, Calmer(vm', vm), task' = task
  PROVE  Core'
BY DEF Core, DownloadsAccounted, RetriesLeft, Calmer, Live, In

\* A download begins: what was live stays live, and d is.
LEMMA StartLemma ==
  ASSUME Core, NEW d \in Disks, NEW k \in Starters, StartDownload(d, k)
  PROVE  /\ task' \in TaskType
         /\ \A e \in Disks : Live(e) => Live(e)'
         /\ \A e \in Disks : (\E j \in Starters : task[e][j].phase \in Transferring)
              => (\E j \in Starters : task'[e][j].phase \in Transferring)
         /\ task'[d][k].phase = "net" /\ Live(d)'
         /\ RetriesLeft'
<1>1. task[d][k] = Free /\ task' = [task EXCEPT ![d][k] = Fresh]
  BY DEF StartDownload
<1>2. Fresh \in [phase : Phases, left : 0 .. Attempts]
  BY CatalogAssumption DEF Fresh, Phases
<1>3. task' \in TaskType
  BY <1>1, <1>2 DEF Core, TaskType
<1>4. task'[d][k] = Fresh
  BY <1>1 DEF Core, TaskType
<1>5. \A e \in Disks, j \in Starters : task'[e][j] = task[e][j] \/ (e = d /\ j = k)
  BY <1>1 DEF Core, TaskType
<1>6. task[d][k].phase = "free" /\ task'[d][k].phase = "net"
  BY <1>1, <1>4 DEF Free, Fresh
<1>7. RetriesLeft'
  BY <1>5, <1>6 DEF Core, RetriesLeft, In
<1> QED
  BY <1>3, <1>5, <1>6, <1>7 DEF Live, Transferring

\* A calmer view model, with a request for d for which a download starts.
LEMMA RequestStep ==
  ASSUME Core, NEW d \in Disks, NEW k \in Starters, StartDownload(d, k),
         vm' \in ViewModel,
         \A e \in Disks \ {d} :
           /\ vm'.pending[e] # Nil => vm.pending[e] # Nil
           /\ vm'.state[e] = "downloading" => vm.state[e] = "downloading",
         vm'.auto \subseteq vm.auto \cup {d}
  PROVE  Core'
<1>1. /\ task' \in TaskType
      /\ \A e \in Disks : Live(e) => Live(e)'
      /\ \A e \in Disks : (\E j \in Starters : task[e][j].phase \in Transferring)
           => (\E j \in Starters : task'[e][j].phase \in Transferring)
      /\ task'[d][k].phase = "net" /\ Live(d)'
      /\ RetriesLeft'
  BY StartLemma
<1>2. \E j \in Starters : task'[d][j].phase \in Transferring
  BY <1>1 DEF Transferring
<1>3. ASSUME NEW e \in Disks
      PROVE  /\ vm'.pending[e] # Nil \/ vm'.state[e] = "downloading" => Live(e)'
             /\ e \in vm'.auto => \E j \in Starters : task'[e][j].phase \in Transferring
  BY <1>1, <1>2 DEF Core, DownloadsAccounted
<1> QED
  BY <1>1, <1>3 DEF Core, DownloadsAccounted

LEMMA AutoAttachStep ==
  ASSUME Core, NEW v \in ViewModel, Calmer(v, vm), NEW ready, NEW k \in Starters,
         ThenAutoAttach(v, ready, k)
  PROVE  Core'
<1> USE CatalogAssumption
<1>0. vm' = AutoAttach(v, ready)
  BY DEF ThenAutoAttach
<1>1. CASE AutoDownloads(v, ready)
  <2>1. vm' = [Request(v, DefaultDisk, "C") EXCEPT !.auto = @ \cup {DefaultDisk}]
    BY <1>0, <1>1 DEF AutoDownloads, AutoAttach
  <2>2. /\ vm' \in ViewModel
        /\ vm'.auto = v.auto \cup {DefaultDisk}
        /\ \A e \in Disks \ {DefaultDisk} : vm'.pending[e] = v.pending[e]
                                           /\ vm'.state[e] = v.state[e]
    BY <2>1 DEF Request, ViewModel, States, Slots
  <2>3. StartDownload(DefaultDisk, k)
    BY <1>1 DEF ThenAutoAttach
  <2> QED
    BY <2>2, <2>3, RequestStep DEF Calmer
<1>2. CASE ~AutoDownloads(v, ready)
  <2>1. task' = task
    BY <1>2 DEF ThenAutoAttach
  <2>2. vm' = v \/ vm' = AttachCatalogDisk(v, DefaultDisk, "C")
    BY <1>0, <1>2 DEF AutoDownloads, AutoAttach
  <2>3. vm' \in ViewModel /\ Calmer(vm', v)
    BY <2>2, AttachLemma DEF Calmer
  <2>4. Calmer(vm', vm)
    BY <2>3 DEF Calmer
  <2> QED
    BY <2>1, <2>3, <2>4, CalmStep
<1> QED
  BY <1>1, <1>2

\* A download moves on: it stays live, and the automatic mark has a transfer.
LEMMA MoveLemma ==
  ASSUME Core, NEW d \in Disks, NEW k \in Starters, NEW t,
         task' = [task EXCEPT ![d][k] = t],
         t \in [phase : Phases, left : 0 .. Attempts], t.phase # "free",
         t.phase = "retry" => t.left > 1,
         vm' \in ViewModel,
         \A e \in Disks \ {d} :
           /\ vm'.pending[e] # Nil => vm.pending[e] # Nil
           /\ vm'.state[e] = "downloading" => vm.state[e] = "downloading",
         vm'.auto \subseteq vm.auto,
         d \in vm'.auto /\ task[d][k].phase \in Transferring => t.phase \in Transferring
  PROVE  Core'
<1>1. task' \in TaskType /\ task'[d][k] = t
  BY DEF Core, TaskType
<1>2. \A e \in Disks, j \in Starters : task'[e][j] = task[e][j] \/ (e = d /\ j = k)
  BY DEF Core, TaskType
<1>3. RetriesLeft'
  BY <1>1, <1>2 DEF Core, RetriesLeft, In
<1>4. ASSUME NEW e \in Disks
      PROVE  /\ vm'.pending[e] # Nil \/ vm'.state[e] = "downloading" => Live(e)'
             /\ e \in vm'.auto => \E j \in Starters : task'[e][j].phase \in Transferring
  BY <1>1, <1>2 DEF Core, DownloadsAccounted, Live
<1> QED
  BY <1>1, <1>3, <1>4 DEF Core, DownloadsAccounted

\* A download ends: nothing waits for it any longer.
LEMMA EndLemma ==
  ASSUME Core, NEW d \in Disks, NEW k \in Starters, Ends(d, k),
         vm' \in ViewModel,
         \A e \in Disks \ {d} :
           /\ vm'.pending[e] # Nil => vm.pending[e] # Nil
           /\ vm'.state[e] = "downloading" => vm.state[e] = "downloading",
         vm'.pending[d] = Nil, vm'.state[d] # "downloading",
         vm'.auto \subseteq vm.auto,
         d \notin vm'.auto \/ task[d][k].phase \notin Transferring
  PROVE  Core'
<1>1. task' = [task EXCEPT ![d][k] = Free]
  BY DEF Ends
<1>2. Free \in [phase : Phases, left : 0 .. Attempts] /\ Free.phase = "free"
  BY CatalogAssumption DEF Free, Phases
<1>3. task' \in TaskType /\ task'[d][k] = Free
  BY <1>1, <1>2 DEF Core, TaskType
<1>4. \A e \in Disks, j \in Starters : task'[e][j] = task[e][j] \/ (e = d /\ j = k)
  BY <1>1 DEF Core, TaskType
<1>5. RetriesLeft'
  BY <1>2, <1>3, <1>4 DEF Core, RetriesLeft, In
<1>6. ASSUME NEW e \in Disks
      PROVE  /\ vm'.pending[e] # Nil \/ vm'.state[e] = "downloading" => Live(e)'
             /\ e \in vm'.auto => \E j \in Starters : task'[e][j].phase \in Transferring
  BY <1>3, <1>4 DEF Core, DownloadsAccounted, Live
<1> QED
  BY <1>3, <1>5, <1>6 DEF Core, DownloadsAccounted

-----------------------------------------------------------------------------
(* One step.                                                                *)

LEMMA LaunchStep ==
  ASSUME Core, cached \in Versions \cup {Bad, None}, Launch
  PROVE  Core'
<1> USE CatalogAssumption
<1>1. CASE ReadBookmarks \/ Fetch
  BY <1>1, CalmStep DEF ReadBookmarks, Fetch, Core, Calmer
<1>2. ASSUME NEW drives \in SUBSET Drives, ApplyBookmarks(drives)
      PROVE  Core'
  <2> DEFINE path == [dr \in Drives |-> IF dr \in drives THEN Own ELSE vm.path[dr]]
             v == [vm EXCEPT !.path = path]
  <2>1. v \in ViewModel /\ Calmer(v, vm)
    BY DEF Core, ViewModel, Calmer
  <2>2. ThenAutoAttach(v, TRUE, "bookmarks")
    BY <1>2 DEF ApplyBookmarks
  <2> HIDE DEF v
  <2> QED
    BY <2>1, <2>2, AutoAttachStep DEF Starters
<1>3. ASSUME NEW outcome \in Served, FetchDone(outcome)
      PROVE  Core'
  <2> DEFINE version == IF outcome = None THEN CachedVersion ELSE outcome
             v == Read(vm, version)
  <2>1. version \in Versions \cup {Bad}
    BY DEF CachedVersion, Versions, Bundled, Bad, None
  <2>2. v \in ViewModel /\ Calmer(v, vm)
    BY <2>1, ReadLemma DEF Core
  <2>3. ThenAutoAttach(v, resolved, "catalog")
    BY <1>3 DEF FetchDone
  <2> HIDE DEF v
  <2> QED
    BY <2>2, <2>3, AutoAttachStep DEF Starters
<1> QED
  BY <1>1, <1>2, <1>3 DEF Launch

LEMMA UserStep ==
  ASSUME Core, User
  PROVE  Core'
<1> USE CatalogAssumption
<1>1. ASSUME NEW d \in Disks, DownloadDisk(d)
      PROVE  Core'
  <2>1. StartDownload(d, "user") /\ vm' = [vm EXCEPT !.state[d] = "downloading"]
    BY <1>1 DEF DownloadDisk
  <2>2. vm' \in ViewModel
    BY <2>1 DEF Core, ViewModel, States
  <2> QED
    BY <2>1, <2>2, RequestStep DEF Starters, Core, ViewModel
<1>2. ASSUME NEW d \in Disks, DeleteCatalogDisk(d)
      PROVE  Core'
  <2> DEFINE v == [vm EXCEPT !.files = @ \ {d}, !.state[d] = "notDownloaded"]
             drives == {dr \in Drives : v.path[dr] = d}
  <2>1. v \in ViewModel /\ Calmer(v, vm)
    BY DEF Core, ViewModel, Calmer, States
  <2>2. vm' = RemoveDisks(v, drives) /\ task' = task
    BY <1>2 DEF DeleteCatalogDisk, Detach, quiet, background
  <2>3. RemoveDisks(v, drives) \in ViewModel /\ Calmer(RemoveDisks(v, drives), v)
    BY <2>1, RemoveLemma
  <2>4. Calmer(vm', vm)
    BY <2>1, <2>2, <2>3 DEF Calmer
  <2> QED
    BY <2>2, <2>3, <2>4, CalmStep
<1>3. ASSUME NEW d \in Disks, NEW drive \in Slots, UseCatalogDisk(d, drive)
      PROVE  Core'
  <2>1. CASE d \in vm.files
    <3>1. vm' = AttachCatalogDisk(vm, d, drive) /\ task' = task
      BY <1>3, <2>1 DEF UseCatalogDisk
    <3> QED
      BY <3>1, AttachLemma, CalmStep DEF Core, Slots
  <2>2. CASE d \notin vm.files
    <3>1. vm' = Request(vm, d, drive) /\ StartDownload(d, "user")
      BY <1>3, <2>2 DEF UseCatalogDisk
    <3>2. /\ vm' \in ViewModel /\ vm'.auto = vm.auto
          /\ \A e \in Disks \ {d} : vm'.pending[e] = vm.pending[e]
                                   /\ vm'.state[e] = vm.state[e]
      BY <3>1 DEF Request, Core, ViewModel, States
    <3> QED
      BY <3>1, <3>2, RequestStep DEF Starters
  <2> QED
    BY <2>1, <2>2
<1>4. ASSUME NEW drive \in Drives, ImportDisk(drive)
      PROVE  Core'
  <2>1. SetPath(vm, drive, Own) \in ViewModel /\ Calmer(SetPath(vm, drive, Own), vm)
    BY SetPathLemma DEF Core
  <2>2. /\ vm' = [SetPath(vm, drive, Own) EXCEPT !.bookmark = @ \cup {drive}]
        /\ task' = task
    BY <1>4 DEF ImportDisk
  <2>3. vm' \in ViewModel /\ Calmer(vm', vm)
    BY <2>1, <2>2 DEF ViewModel, Calmer
  <2> QED
    BY <2>2, <2>3, CalmStep
<1>5. ASSUME NEW drive \in Drives, RemoveDisk(drive)
      PROVE  Core'
  BY <1>5, RemoveLemma, CalmStep DEF RemoveDisk, Core
<1>6. CASE CreateBlankHDD
  <2>1. SetPath(vm, "C", Blank) \in ViewModel /\ Calmer(SetPath(vm, "C", Blank), vm)
    BY SetPathLemma DEF Core
  <2>2. vm' = [SetPath(vm, "C", Blank) EXCEPT !.files = @ \cup {Blank}, !.bookmark = @ \ {"C"}]
        /\ task' = task
    BY <1>6 DEF CreateBlankHDD
  <2>3. vm' \in ViewModel /\ Calmer(vm', vm)
    BY <2>1, <2>2 DEF ViewModel, Calmer, Images
  <2> QED
    BY <2>2, <2>3, CalmStep
<1>7. CASE URLStart
  BY <1>7, CalmStep DEF URLStart, quietURL, Core, Calmer
<1> QED
  BY <1>1, <1>2, <1>3, <1>4, <1>5, <1>6, <1>7 DEF User

LEMMA URLStep ==
  ASSUME Core, URL
  PROVE  Core'
<1>1. CASE URLFinished \/ URLHandlerReturns
  BY <1>1, CalmStep DEF URLFinished, URLHandlerReturns, quietURL, Core, Calmer
<1>2. ASSUME NEW drive \in UrlDrives, URLLanded(drive)
      PROVE  Core'
  <2> DEFINE kept == [vm EXCEPT !.files = @ \cup {Web}]
  <2>1. kept \in ViewModel /\ Calmer(kept, vm)
    BY DEF Core, ViewModel, Calmer, Images
  <2>2. SetPath(kept, drive, Web) \in ViewModel /\ Calmer(SetPath(kept, drive, Web), kept)
    BY <2>1, SetPathLemma, CatalogAssumption
  <2>3. /\ \/ vm' = vm \/ vm' = SetPath(kept, drive, Web)
           \/ vm' = [vm EXCEPT !.files = @ \ {Web}]
        /\ task' = task
    <3>1. task' = task /\ url \in {"failed", "done", "gone"}
      BY <1>2 DEF URLLanded, quietURL
    <3>2. vm' = CASE url = "failed" -> vm
                  [] url = "done" -> SetPath(kept, drive, Web)
                  [] url = "gone" -> [vm EXCEPT !.files = @ \ {Web}]
      BY <1>2 DEF URLLanded
    <3> QED
      BY <3>1, <3>2
  <2>4. [vm EXCEPT !.files = @ \ {Web}] \in ViewModel
        /\ Calmer([vm EXCEPT !.files = @ \ {Web}], vm)
    BY DEF Core, ViewModel, Calmer
  <2>5. Calmer(SetPath(kept, drive, Web), vm) /\ Calmer(vm, vm)
    BY <2>1, <2>2 DEF Calmer
  <2> QED
    BY <2>2, <2>3, <2>4, <2>5, CalmStep DEF Core
<1> QED
  BY <1>1, <1>2 DEF URL

\* What Moves does, from a phase to one in which the download is still live.
LEMMA MovesLemma ==
  ASSUME Core, NEW d \in Disks, NEW k \in Starters, NEW phase \in Phases \ {"free"},
         Moves(d, k, phase), phase = "retry" => MayRetry(d, k),
         vm' \in ViewModel,
         \A e \in Disks \ {d} :
           /\ vm'.pending[e] # Nil => vm.pending[e] # Nil
           /\ vm'.state[e] = "downloading" => vm.state[e] = "downloading",
         vm'.auto \subseteq vm.auto,
         d \in vm'.auto /\ task[d][k].phase \in Transferring => phase \in Transferring
  PROVE  Core'
<1> DEFINE t == [task[d][k] EXCEPT !.phase = phase]
<1>1. task[d][k] \in [phase : Phases, left : 0 .. Attempts]
  BY DEF Core, TaskType
<1>2. /\ t \in [phase : Phases, left : 0 .. Attempts]
      /\ t.phase = phase /\ t.left = task[d][k].left
  BY <1>1
<1>3. task' = [task EXCEPT ![d][k] = t]
  BY DEF Moves
<1> HIDE DEF t
<1> QED
  BY <1>2, <1>3, MoveLemma DEF MayRetry

\* What GiveUp does to the disk's row and to its request.
LEMMA GiveUpLemma ==
  ASSUME NEW v \in ViewModel, NEW d \in Disks, NEW state \in States \ {"downloading"}
  PROVE  LET w == GiveUp(v, d, state)
         IN /\ w \in ViewModel /\ w.pending[d] = Nil /\ w.state[d] # "downloading"
            /\ w.auto = v.auto
            /\ \A e \in Disks \ {d} : w.pending[e] = v.pending[e] /\ w.state[e] = v.state[e]
BY DEF GiveUp, ViewModel

LEMMA TransferStep ==
  ASSUME Core, NEW d \in Disks, NEW k \in Starters,
         \/ Progress(d, k) \/ Complete(d, k) \/ TransferFailed(d, k)
         \/ StagingFailed(d, k) \/ Staged(d, k) \/ Retry(d, k)
  PROVE  Core'
<1> USE DEF Core
<1>1. CASE Progress(d, k)
  <2>1. /\ task' = task /\ vm' = [vm EXCEPT !.state[d] = "downloading"]
        /\ task[d][k].phase \in Transferring
    BY <1>1 DEF Progress
  <2>2. vm' \in ViewModel
    BY <2>1 DEF ViewModel, States
  <2>3. task[d][k] \in [phase : Phases, left : 0 .. Attempts]
        /\ task' = [task EXCEPT ![d][k] = task[d][k]]
    BY <2>1 DEF TaskType
  <2>4. /\ vm'.pending = vm.pending /\ vm'.auto = vm.auto
        /\ \A e \in Disks \ {d} : vm'.state[e] = vm.state[e]
    BY <2>1 DEF ViewModel
  <2> DEFINE t == task[d][k]
  <2>5. t.phase \notin {"free", "retry"} /\ t.phase \in Transferring
    BY <2>1 DEF Transferring
  <2>6. t \in [phase : Phases, left : 0 .. Attempts] /\ task' = [task EXCEPT ![d][k] = t]
    BY <2>3
  <2> HIDE DEF Core, t
  <2> QED
    BY <2>2, <2>4, <2>5, <2>6, MoveLemma
<1>2. CASE Complete(d, k)
  <2>1. PICK outcome \in {"failed", "unstaged", "staged"} : Moves(d, k, outcome)
    BY <1>2 DEF Complete
  <2>2. vm' = vm
    BY <1>2 DEF Complete
  <2>3. outcome \in Phases \ {"free"} /\ outcome \in Transferring /\ outcome # "retry"
    BY DEF Phases, Transferring
  <2> QED
    BY <2>1, <2>2, <2>3, MovesLemma
<1>3. CASE TransferFailed(d, k)
  <2>1. CASE MayRetry(d, k) /\ d \notin vm.auto
    <3>1. Moves(d, k, "retry") /\ vm' = vm
      BY <1>3, <2>1 DEF TransferFailed
    <3> QED
      BY <2>1, <3>1, MovesLemma DEF Phases
  <2>2. CASE ~(MayRetry(d, k) /\ d \notin vm.auto)
    <3> DEFINE state == IF d \in vm.auto THEN "notDownloaded" ELSE "error"
               w == GiveUp(vm, d, state)
    <3>1. Ends(d, k) /\ vm' = [w EXCEPT !.auto = @ \ {d}]
      BY <1>3, <2>2 DEF TransferFailed
    <3>2. state \in States \ {"downloading"}
      BY DEF States
    <3>3. /\ w \in ViewModel /\ w.pending[d] = Nil /\ w.state[d] # "downloading"
          /\ w.auto = vm.auto
          /\ \A e \in Disks \ {d} : w.pending[e] = vm.pending[e] /\ w.state[e] = vm.state[e]
      BY <3>2, GiveUpLemma
    <3> HIDE DEF w
    <3>4. /\ vm' \in ViewModel /\ vm'.pending = w.pending /\ vm'.state = w.state
          /\ vm'.auto = vm.auto \ {d}
      BY <3>1, <3>3 DEF ViewModel
    <3> HIDE DEF Core
    <3> QED
      BY <3>1, <3>3, <3>4, EndLemma
  <2> QED
    BY <2>1, <2>2
<1>4. CASE StagingFailed(d, k)
  <2> DEFINE manual == [vm EXCEPT !.auto = @ \ {d}]
  <2>1. /\ manual \in ViewModel /\ manual.pending = vm.pending /\ manual.state = vm.state
        /\ manual.auto = vm.auto \ {d}
    BY DEF ViewModel
  <2>2. CASE MayRetry(d, k)
    <3>1. Moves(d, k, "retry") /\ vm' = manual
      BY <1>4, <2>2 DEF StagingFailed
    <3> QED
      BY <2>1, <2>2, <3>1, MovesLemma DEF Phases
  <2>3. CASE ~MayRetry(d, k)
    <3>1. Ends(d, k) /\ vm' = GiveUp(manual, d, "error")
      BY <1>4, <2>3 DEF StagingFailed
    <3> HIDE DEF manual
    <3>2. /\ vm' \in ViewModel /\ vm'.pending[d] = Nil /\ vm'.state[d] # "downloading"
          /\ vm'.auto = manual.auto
          /\ \A e \in Disks \ {d} : vm'.pending[e] = manual.pending[e]
                                   /\ vm'.state[e] = manual.state[e]
      BY <2>1, <3>1, GiveUpLemma DEF States
    <3> HIDE DEF Core
    <3> QED
      BY <2>1, <3>1, <3>2, EndLemma
  <2> QED
    BY <2>2, <2>3
<1>5. CASE Staged(d, k)
  <2>1. Moves(d, k, "verify")
        /\ vm' = [vm EXCEPT !.auto = @ \ {d}, !.state[d] = "downloading"]
    BY <1>5 DEF Staged
  <2>2. /\ vm' \in ViewModel /\ vm'.pending = vm.pending /\ vm'.auto = vm.auto \ {d}
        /\ \A e \in Disks \ {d} : vm'.state[e] = vm.state[e]
    BY <2>1 DEF ViewModel, States
  <2> QED
    BY <2>1, <2>2, MovesLemma DEF Phases
<1>6. CASE Retry(d, k)
  <2> DEFINE t == [task[d][k] EXCEPT !.phase = "net", !.left = LeftAfterRetry(@)]
  <2>1. /\ In(d, k, "retry") /\ task' = [task EXCEPT ![d][k] = t]
        /\ vm' = [vm EXCEPT !.state[d] = "downloading"]
    BY <1>6 DEF Retry
  <2>2. task[d][k] \in [phase : Phases, left : 0 .. Attempts] /\ task[d][k].left > 1
    BY <2>1 DEF TaskType, RetriesLeft
  <2>3. t \in [phase : Phases, left : 0 .. Attempts] /\ t.phase = "net"
    <3>1. LeftAfterRetry(task[d][k].left) \in 0 .. Attempts
      BY <2>2, CatalogAssumption DEF LeftAfterRetry
    <3> QED
      BY <2>2, <3>1 DEF Phases
  <2>4. /\ vm' \in ViewModel /\ vm'.pending = vm.pending /\ vm'.auto = vm.auto
        /\ \A e \in Disks \ {d} : vm'.state[e] = vm.state[e]
    BY <2>1 DEF ViewModel, States
  <2>5. "net" \in Transferring /\ t.phase \notin {"free", "retry"}
    BY <2>3 DEF Transferring
  <2> HIDE DEF t, Core
  <2> QED
    BY <2>1, <2>3, <2>4, <2>5, MoveLemma
<1> QED
  BY <1>1, <1>2, <1>3, <1>4, <1>5, <1>6

LEMMA FilesStep ==
  ASSUME Core, NEW d \in Disks, NEW k \in Starters,
         Verify(d, k) \/ Replace(d, k) \/ Rejected(d, k) \/ Landed(d, k)
  PROVE  Core'
<1> USE DEF Core
<1>1. CASE Verify(d, k) \/ Replace(d, k)
  <2>1. PICK phase \in {"rejected", "replace", "landed"} : Moves(d, k, phase)
    BY <1>1 DEF Verify, Replace, Reject
  <2>2. task[d][k].phase \notin Transferring
    BY <1>1 DEF Verify, Replace, In, Transferring
  <2>3. vm' = vm \/ vm' = [vm EXCEPT !.files = @ \ {d}] \/ vm' = [vm EXCEPT !.files = @ \cup {d}]
    BY <1>1 DEF Verify, Replace, Reject
  <2>4. /\ vm' \in ViewModel /\ vm'.pending = vm.pending /\ vm'.state = vm.state
        /\ vm'.auto = vm.auto
    BY <2>3 DEF ViewModel, Images
  <2>5. phase \in Phases \ {"free"} /\ phase # "retry"
    BY DEF Phases
  <2> HIDE DEF Core
  <2> QED
    BY <2>1, <2>2, <2>4, <2>5, MovesLemma
<1>2. CASE Rejected(d, k)
  <2>1. Ends(d, k) /\ vm' = GiveUp(vm, d, "error") /\ task[d][k].phase = "rejected"
    BY <1>2 DEF Rejected, HandlerBlock, In
  <2>2. /\ vm' \in ViewModel /\ vm'.pending[d] = Nil /\ vm'.state[d] # "downloading"
        /\ vm'.auto = vm.auto
        /\ \A e \in Disks \ {d} : vm'.pending[e] = vm.pending[e] /\ vm'.state[e] = vm.state[e]
    BY <2>1, GiveUpLemma DEF States
  <2>3. task[d][k].phase \notin Transferring
    BY <2>1 DEF Transferring
  <2> HIDE DEF Core
  <2> QED
    BY <2>1, <2>2, <2>3, EndLemma
<1>3. CASE Landed(d, k)
  <2> DEFINE done == [vm EXCEPT !.state[d] = "downloaded", !.pending[d] = Nil]
  <2>1. /\ Ends(d, k) /\ task[d][k].phase = "landed"
        /\ vm' = done \/ (/\ vm.pending[d] # Nil
                         /\ vm' = AttachCatalogDisk(done, d, vm.pending[d]))
    BY <1>3 DEF Landed, HandlerBlock, In
  <2>2. /\ done \in ViewModel /\ done.pending[d] = Nil /\ done.state[d] = "downloaded"
        /\ done.auto = vm.auto
        /\ \A e \in Disks \ {d} : done.pending[e] = vm.pending[e] /\ done.state[e] = vm.state[e]
    BY DEF ViewModel, States
  <2> HIDE DEF done
  <2>3. vm.pending[d] # Nil => vm.pending[d] \in Drives
    BY DEF ViewModel, Slots
  <2>4. /\ vm' \in ViewModel /\ vm'.pending[d] = Nil /\ vm'.state[d] # "downloading"
        /\ vm'.auto \subseteq vm.auto
        /\ \A e \in Disks \ {d} :
             /\ vm'.pending[e] # Nil => vm.pending[e] # Nil
             /\ vm'.state[e] = "downloading" => vm.state[e] = "downloading"
    BY <2>1, <2>2, <2>3, AttachLemma DEF Calmer
  <2>5. task[d][k].phase \notin Transferring
    BY <2>1 DEF Transferring
  <2> HIDE DEF Core
  <2> QED
    BY <2>1, <2>4, <2>5, EndLemma
<1> QED
  BY <1>1, <1>2, <1>3

LEMMA DownloadStep ==
  ASSUME Core, NEW d \in Disks, NEW k \in Starters, Download(d, k) \/ Progress(d, k)
  PROVE  Core'
BY TransferStep, FilesStep DEF Download

\* A launch: nothing is under way, whatever was kept.
LEMMA LaunchLemma ==
  ASSUME NEW files \in SUBSET Images, NEW stored \in Versions \cup {None},
         NEW boot \in {"A", "C"}, NEW bookmark \in SUBSET Drives,
         NEW version \in Versions \cup {Bad},
         vm' = Read(Installed(files, stored, boot, bookmark), version),
         task' = [d \in Disks |-> [k \in Starters |-> Free]]
  PROVE  Core'
<1> DEFINE v == Installed(files, stored, boot, bookmark)
<1>1. /\ v \in ViewModel /\ v.auto = {}
      /\ \A d \in Disks : v.pending[d] = Nil /\ v.state[d] = "notDownloaded"
  BY DEF Installed, ViewModel, States
<1> HIDE DEF v
<1>2. vm' \in ViewModel /\ Calmer(vm', v)
  BY <1>1, ReadLemma DEF v
<1>3. Free \in [phase : Phases, left : 0 .. Attempts] /\ Free.phase = "free"
  BY CatalogAssumption DEF Free, Phases
<1>4. task' \in TaskType /\ \A d \in Disks, k \in Starters : task'[d][k] = Free
  BY <1>3 DEF TaskType
<1>5. RetriesLeft'
  BY <1>3, <1>4 DEF RetriesLeft, In
<1> QED
  BY <1>1, <1>2, <1>4, <1>5 DEF Core, DownloadsAccounted, Calmer

-----------------------------------------------------------------------------
(* The types of the rest of the state.                                      *)

Rest ==
  /\ cached \in Versions \cup {Bad, None} /\ launches \in 1 .. MaxLaunches
  /\ fetching \in BOOLEAN /\ resolving \in BOOLEAN /\ resolved \in BOOLEAN
  /\ mainQ \in Seq(Blocks)
  /\ url \in {"idle", "net", "failed", "done", "gone"}
  /\ lost \subseteq Disks

LEMMA PostLemma ==
  ASSUME NEW block \in Blocks, mainQ \in Seq(Blocks), Post(block)
  PROVE  mainQ' \in Seq(Blocks)
BY DEF Post

LEMMA RunBlockLemma ==
  ASSUME NEW block, mainQ \in Seq(Blocks), RunBlock(block)
  PROVE  mainQ' \in Seq(Blocks)
BY DEF RunBlock

LEMMA RestStep ==
  ASSUME Rest, Core, Next
  PROVE  Rest'
<1> USE DEF Rest
<1> USE CatalogAssumption
<1>1. \A d \in Disks, k \in Starters : TaskBlock(d, k) \in Blocks
  BY DEF Blocks
<1>2. \A outcome \in Served : CatalogBlock(outcome) \in Blocks
                              /\ outcome \in Versions \cup {Bad, None}
  BY DEF Blocks, Versions, Bundled, Bad, None
<1>3. CASE ReadBookmarks
  <2>1. BookmarkBlock(vm.bookmark) \in Blocks
    BY DEF Blocks, Core, ViewModel
  <2> QED
    BY <1>3, <2>1, PostLemma, RunBlockLemma DEF ReadBookmarks
<1>4. ASSUME NEW drives \in SUBSET Drives, ApplyBookmarks(drives)
      PROVE  Rest'
  <2>1. mainQ' \in Seq(Blocks)
    BY <1>4, PostLemma, RunBlockLemma DEF ApplyBookmarks
  <2> QED
    BY <1>4, <2>1 DEF ApplyBookmarks
<1>5. CASE Fetch
  BY <1>2, <1>5, PostLemma, RunBlockLemma DEF Fetch
<1>6. ASSUME NEW outcome \in Served, FetchDone(outcome)
      PROVE  Rest'
  <2>1. mainQ' \in Seq(Blocks)
    BY <1>6, PostLemma, RunBlockLemma DEF FetchDone
  <2>2. cached' \in Versions \cup {Bad, None} /\ lost' \subseteq Disks
    BY <1>2, <1>6 DEF FetchDone, Overtaken
  <2> QED
    BY <1>6, <2>1, <2>2 DEF FetchDone
<1>7. CASE User
  BY <1>7 DEF User, DownloadDisk, DeleteCatalogDisk, UseCatalogDisk, ImportDisk, RemoveDisk,
              CreateBlankHDD, URLStart, quiet, quietURL, background, Overtaken
<1>8. CASE URL
  BY <1>8 DEF URL, URLFinished, URLHandlerReturns, URLLanded, quietURL
<1>9. CASE Relaunch
  <2>1. launches' \in 1 .. MaxLaunches
    BY <1>9 DEF Relaunch
  <2>2. mainQ' \in Seq(Blocks)
    <3>1. mainQ' = <<>>
      BY <1>9 DEF Relaunch
    <3> QED
      BY <3>1
  <2>3. /\ cached' = cached /\ url' = "idle" /\ lost' = {}
        /\ fetching' = TRUE /\ resolving' = TRUE /\ resolved' = FALSE
    BY <1>9 DEF Relaunch
  <2> QED
    BY <2>1, <2>2, <2>3
<1>10. ASSUME NEW d \in Disks, NEW k \in Starters, Progress(d, k) \/ Retry(d, k)
       PROVE  Rest'
  BY <1>10 DEF Progress, Retry, quiet, background
<1>11. ASSUME NEW d \in Disks, NEW k \in Starters,
              \/ TransferFailed(d, k) \/ StagingFailed(d, k) \/ Staged(d, k)
              \/ Rejected(d, k) \/ Landed(d, k)
       PROVE  Rest'
  <2>1. PICK phase \in Phases : HandlerBlock(d, k, phase)
    BY <1>11 DEF TransferFailed, StagingFailed, Staged, Rejected, Landed, Phases
  <2>2. mainQ' \in Seq(Blocks)
    BY <2>1, PostLemma, RunBlockLemma DEF HandlerBlock
  <2> QED
    BY <2>1, <2>2 DEF HandlerBlock, background
<1>12. ASSUME NEW d \in Disks, NEW k \in Starters,
              Complete(d, k) \/ Verify(d, k) \/ Replace(d, k)
       PROVE  Rest'
  <2>1. mainQ' = mainQ \/ Post(TaskBlock(d, k))
    BY <1>12 DEF Complete, Verify, Replace, Reject
  <2>2. mainQ' \in Seq(Blocks)
    BY <1>1, <2>1, PostLemma
  <2>3. lost' \subseteq Disks
    BY <1>12 DEF Complete, Verify, Replace
  <2> QED
    BY <1>12, <2>2, <2>3 DEF Complete, Verify, Replace, background
<1> QED
  BY <1>3, <1>4, <1>5, <1>6, <1>7, <1>8, <1>9, <1>10, <1>11, <1>12 DEF Next, Launch, Download

LEMMA CoreStep ==
  ASSUME Rest, Core, Next
  PROVE  Core'
<1>1. CASE Relaunch
  <2>1. CachedVersion \in Versions \cup {Bad}
    BY DEF CachedVersion, Versions, Bundled
  <2>2. /\ vm.files \in SUBSET Images /\ vm.stored \in Versions \cup {None}
        /\ vm.boot \in {"A", "C"} /\ vm.bookmark \in SUBSET Drives
    BY DEF Core, ViewModel
  <2> QED
    BY <1>1, <2>1, <2>2, LaunchLemma DEF Relaunch
<1>2. CASE Launch
  BY <1>2, LaunchStep DEF Rest
<1>3. CASE User
  BY <1>3, UserStep
<1>4. CASE URL
  BY <1>4, URLStep
<1>5. ASSUME NEW d \in Disks, NEW k \in Starters, Download(d, k) \/ Progress(d, k)
      PROVE  Core'
  BY <1>5, DownloadStep
<1> QED
  BY <1>1, <1>2, <1>3, <1>4, <1>5 DEF Next

LEMMA InvInit == Init => Core /\ Rest
<1> SUFFICES ASSUME Init PROVE Core /\ Rest
  OBVIOUS
<1> DEFINE v == Installed({}, None, "C", {})
<1>1. Rest
  <2>1. mainQ \in Seq(Blocks)
    <3>1. mainQ = <<>>
      BY DEF Init
    <3> QED
      BY <3>1
  <2>2. /\ cached = None /\ launches = 1 /\ url = "idle" /\ lost = {}
        /\ fetching = TRUE /\ resolving = TRUE /\ resolved = FALSE
    BY DEF Init
  <2>3. launches \in 1 .. MaxLaunches
    BY <2>2, CatalogAssumption
  <2>4. fetching \in BOOLEAN /\ resolving \in BOOLEAN /\ resolved \in BOOLEAN
    BY <2>2
  <2> QED
    BY <2>1, <2>2, <2>3, <2>4 DEF Rest
<1>2. /\ v \in ViewModel /\ v.auto = {}
      /\ \A d \in Disks : v.pending[d] = Nil /\ v.state[d] = "notDownloaded"
  BY DEF Installed, ViewModel, States
<1> HIDE DEF v
<1>3. vm \in ViewModel /\ Calmer(vm, v)
  BY <1>2, ReadLemma DEF Init, v, Versions
<1>4. Free \in [phase : Phases, left : 0 .. Attempts] /\ Free.phase = "free"
  BY CatalogAssumption DEF Free, Phases
<1>5. task \in TaskType /\ \A d \in Disks, k \in Starters : task[d][k] = Free
  BY <1>4 DEF Init, TaskType
<1>6. RetriesLeft
  BY <1>4, <1>5 DEF RetriesLeft, In
<1> QED
  BY <1>1, <1>2, <1>3, <1>5, <1>6 DEF Core, DownloadsAccounted, Calmer

LEMMA InvHolds == Spec => [](Core /\ Rest)
<1>1. (Core /\ Rest) /\ [Next]_vars => (Core /\ Rest)'
  <2>1. CASE Next
    BY <2>1, CoreStep, RestStep
  <2>2. CASE UNCHANGED vars
    BY <2>2 DEF vars, Core, Rest, DownloadsAccounted, RetriesLeft, Live, In
  <2> QED
    BY <2>1, <2>2
<1> QED
  BY <1>1, InvInit, PTL DEF Spec

\* The state of the settings' disks is always well formed, whatever the catalog,
\* the drives and the number of attempts.
THEOREM CatalogTypeCorrect == Spec => []TypeOK
<1>1. Core /\ Rest => TypeOK
  BY DEF Core, Rest, TypeOK
<1> QED
  BY <1>1, InvHolds, PTL

\* No drive waits for a disk, and no row shows a download, without a download of
\* that disk under way to end it; and no automatic mark outlives its transfer.
THEOREM DownloadsAreAccounted == Spec => []DownloadsAccounted
<1>1. Core /\ Rest => DownloadsAccounted
  BY DEF Core
<1> QED
  BY <1>1, InvHolds, PTL
-----------------------------------------------------------------------------
(* Catalog disks are marked.  Each method keeps the marks of the disks that  *)
(* stay, and marks the one it attaches.                                      *)

Marked(v) == \A drive \in Drives : v.path[drive] \in Disks => drive \in v.manifest

LEMMA SetPathMarked ==
  ASSUME NEW v \in ViewModel, Marked(v), NEW drive \in Drives, NEW image, image \notin Disks
  PROVE  Marked(SetPath(v, drive, image))
<1>1. /\ SetPath(v, drive, image).path = [v.path EXCEPT ![drive] = image]
      /\ SetPath(v, drive, image).manifest = v.manifest
  BY DEF SetPath, ViewModel
<1> QED
  BY <1>1 DEF Marked, ViewModel

LEMMA AttachMarked ==
  ASSUME NEW v \in ViewModel, Marked(v), NEW drive \in Drives, NEW d \in Disks
  PROVE  Marked(AttachCatalogDisk(v, d, drive))
<1>1. /\ AttachCatalogDisk(v, d, drive).path = [v.path EXCEPT ![drive] = d]
      /\ AttachCatalogDisk(v, d, drive).manifest = v.manifest \cup {drive}
  BY DEF AttachCatalogDisk, SetPath, ViewModel
<1> QED
  BY <1>1 DEF Marked, ViewModel

LEMMA RemoveMarked ==
  ASSUME NEW v \in ViewModel, Marked(v), NEW drives \in SUBSET Drives
  PROVE  Marked(RemoveDisks(v, drives))
<1>1. /\ RemoveDisks(v, drives).path = [dr \in Drives |-> IF dr \in drives THEN Nil
                                                          ELSE v.path[dr]]
      /\ RemoveDisks(v, drives).manifest = v.manifest \ drives
  BY DEF RemoveDisks, ViewModel
<1> QED
  BY <1>1, NamesAssumption DEF Marked

LEMMA DeleteMarked ==
  ASSUME NEW v \in ViewModel
  PROVE  Marked(DeleteAllDownloadedDisks(v))
<1> DEFINE w == DeleteAllDownloadedDisks(v)
<1>1. \A dr \in Drives : w.path[dr] = IF v.path[dr] \in Images THEN Nil ELSE v.path[dr]
  BY DEF DeleteAllDownloadedDisks, RemoveDisks, ViewModel
<1> HIDE DEF w
<1> QED
  BY <1>1, NamesAssumption DEF Marked, Images, w

LEMMA ReadMarked ==
  ASSUME NEW v \in ViewModel, Marked(v), NEW version \in Versions \cup {Bad}
  PROVE  Marked(Read(v, version))
<1> DEFINE w == [v EXCEPT !.catalog = version]
<1>1. w \in ViewModel /\ Marked(w)
  BY DEF ViewModel, Marked
<1>2. DeleteAllDownloadedDisks(w) \in ViewModel /\ Marked(DeleteAllDownloadedDisks(w))
  BY <1>1, DeleteLemma, DeleteMarked
<1>3. ASSUME NEW u \in ViewModel, Marked(u)
      PROVE  Marked(StoreVersion(u, version))
  BY <1>3 DEF StoreVersion, ViewModel, Marked
<1>4. Marked(Parse(v, version))
  <2> HIDE DEF w
  <2>1. Parse(v, version) \in {w, StoreVersion(w, version),
                               StoreVersion(DeleteAllDownloadedDisks(w), version)}
    BY DEF Parse, w
  <2> QED
    BY <1>1, <1>2, <1>3, <2>1
<1>5. ASSUME NEW u, Marked(u)
      PROVE  Marked(RefreshDownloadStates(u))
  BY <1>5 DEF RefreshDownloadStates, Marked
<1> QED
  BY <1>4, <1>5 DEF Read

LEMMA AutoAttachMarked ==
  ASSUME NEW v \in ViewModel, Marked(v), NEW ready
  PROVE  Marked(AutoAttach(v, ready))
<1>1. Marked(AttachCatalogDisk(v, DefaultDisk, "C"))
  BY AttachMarked, CatalogAssumption
<1>2. Marked([Request(v, DefaultDisk, "C") EXCEPT !.auto = @ \cup {DefaultDisk}])
  BY DEF Request, ViewModel, Marked
<1> QED
  BY <1>1, <1>2 DEF AutoAttach

\* A step that touches no drive and no mark.
LEMMA UnmovedMarked ==
  ASSUME Marked(vm), vm'.path = vm.path, vm'.manifest = vm.manifest
  PROVE  Marked(vm')
BY DEF Marked

LEMMA LaunchMarked ==
  ASSUME vm \in ViewModel, Marked(vm), Launch, cached \in Versions \cup {Bad, None}
  PROVE  Marked(vm')
<1>1. ASSUME NEW drives \in SUBSET Drives, ApplyBookmarks(drives)
      PROVE  Marked(vm')
  <2> DEFINE paths == [dr \in Drives |-> IF dr \in drives THEN Own ELSE vm.path[dr]]
             w == [vm EXCEPT !.path = paths]
  <2>1. paths \in [Drives -> Disks \cup {Nil, Own, Blank, Web}]
    BY DEF ViewModel
  <2>2. w \in ViewModel
    BY <2>1 DEF ViewModel
  <2>3. Marked(w)
    BY NamesAssumption DEF ViewModel, Marked
  <2>4. vm' = AutoAttach(w, TRUE)
    BY <1>1 DEF ApplyBookmarks, ThenAutoAttach
  <2> QED
    BY <2>2, <2>3, <2>4, AutoAttachMarked
<1>2. ASSUME NEW outcome \in Served, FetchDone(outcome)
      PROVE  Marked(vm')
  <2> DEFINE version == IF outcome = None THEN CachedVersion ELSE outcome
  <2>1. version \in Versions \cup {Bad}
    BY CatalogAssumption DEF CachedVersion, Versions, Bundled, Bad, None
  <2>2. Read(vm, version) \in ViewModel /\ Marked(Read(vm, version))
    BY <2>1, ReadLemma, ReadMarked
  <2>3. vm' = AutoAttach(Read(vm, version), resolved)
    BY <1>2 DEF FetchDone, ThenAutoAttach
  <2> QED
    BY <2>2, <2>3, AutoAttachMarked
<1>3. CASE ReadBookmarks \/ Fetch
  BY <1>3 DEF ReadBookmarks, Fetch
<1> QED
  BY <1>1, <1>2, <1>3 DEF Launch

LEMMA UserMarked ==
  ASSUME vm \in ViewModel, Marked(vm), User
  PROVE  Marked(vm')
<1>1. ASSUME NEW d \in Disks, DownloadDisk(d)
      PROVE  Marked(vm')
  BY <1>1 DEF DownloadDisk, ViewModel, Marked
<1>2. ASSUME NEW d \in Disks, DeleteCatalogDisk(d)
      PROVE  Marked(vm')
  <2> DEFINE w == [vm EXCEPT !.files = @ \ {d}, !.state[d] = "notDownloaded"]
             gone == {dr \in Drives : w.path[dr] = d}
  <2>1. w \in ViewModel /\ Marked(w)
    BY DEF ViewModel, States, Marked
  <2>2. vm' = RemoveDisks(w, gone)
    BY <1>2 DEF DeleteCatalogDisk, Detach
  <2> HIDE DEF w
  <2> QED
    BY <2>1, <2>2, RemoveMarked
<1>3. ASSUME NEW d \in Disks, NEW drive \in Slots, UseCatalogDisk(d, drive)
      PROVE  Marked(vm')
  <2>1. CASE d \in vm.files
    BY <1>3, <2>1, AttachMarked DEF UseCatalogDisk, Slots
  <2>2. CASE d \notin vm.files
    BY <1>3, <2>2, UnmovedMarked DEF UseCatalogDisk, Request, ViewModel
  <2> QED
    BY <2>1, <2>2
<1>4. ASSUME NEW drive \in Drives, ImportDisk(drive)
      PROVE  Marked(vm')
  <2>1. Marked(SetPath(vm, drive, Own))
    BY SetPathMarked, NamesAssumption
  <2>2. SetPath(vm, drive, Own) \in ViewModel
    BY SetPathLemma
  <2> QED
    BY <1>4, <2>1, <2>2 DEF ImportDisk, ViewModel, Marked
<1>5. ASSUME NEW drive \in Drives, RemoveDisk(drive)
      PROVE  Marked(vm')
  BY <1>5, RemoveMarked DEF RemoveDisk
<1>6. CASE CreateBlankHDD
  <2>1. Marked(SetPath(vm, "C", Blank)) /\ SetPath(vm, "C", Blank) \in ViewModel
    BY SetPathMarked, SetPathLemma, NamesAssumption, CatalogAssumption
  <2> QED
    BY <1>6, <2>1 DEF CreateBlankHDD, ViewModel, Marked
<1>7. CASE URLStart
  BY <1>7 DEF URLStart
<1> QED
  BY <1>1, <1>2, <1>3, <1>4, <1>5, <1>6, <1>7 DEF User

LEMMA DownloadMarked ==
  ASSUME vm \in ViewModel, Marked(vm), NEW d \in Disks, NEW k \in Starters,
         Download(d, k) \/ Progress(d, k)
  PROVE  Marked(vm')
<1>1. CASE Landed(d, k)
  <2> DEFINE done == [vm EXCEPT !.state[d] = "downloaded", !.pending[d] = Nil]
  <2>1. done \in ViewModel /\ Marked(done)
    BY DEF ViewModel, States, Marked
  <2>2. vm' = done \/ (vm.pending[d] # Nil /\ vm' = AttachCatalogDisk(done, d, vm.pending[d]))
    BY <1>1 DEF Landed
  <2>3. vm.pending[d] # Nil => vm.pending[d] \in Drives
    BY DEF ViewModel, Slots
  <2> HIDE DEF done
  <2> QED
    BY <2>1, <2>2, <2>3, AttachMarked
<1>2. CASE ~Landed(d, k)
  <2>1. vm'.path = vm.path /\ vm'.manifest = vm.manifest
    BY <1>2 DEF Download, Progress, Complete, TransferFailed, StagingFailed, Staged, Retry,
                Verify, Replace, Rejected, Reject, GiveUp, ViewModel
  <2> QED
    BY <2>1, UnmovedMarked
<1> QED
  BY <1>1, <1>2

LEMMA URLMarked ==
  ASSUME vm \in ViewModel, Marked(vm), URL
  PROVE  Marked(vm')
<1>1. CASE URLFinished \/ URLHandlerReturns
  BY <1>1 DEF URLFinished, URLHandlerReturns
<1>2. ASSUME NEW drive \in UrlDrives, URLLanded(drive)
      PROVE  Marked(vm')
  <2> DEFINE w == [vm EXCEPT !.files = @ \cup {Web}]
  <2>1. w \in ViewModel /\ Marked(w)
    BY DEF ViewModel, Images, Marked
  <2>2. Marked(SetPath(w, drive, Web))
    BY <2>1, SetPathMarked, NamesAssumption, CatalogAssumption
  <2>3. vm' \in {vm, SetPath(w, drive, Web), [vm EXCEPT !.files = @ \ {Web}]}
    BY <1>2 DEF URLLanded
  <2>4. Marked([vm EXCEPT !.files = @ \ {Web}])
    BY DEF ViewModel, Marked
  <2> QED
    BY <2>2, <2>3, <2>4
<1> QED
  BY <1>1, <1>2 DEF URL

LEMMA MarkedStep ==
  ASSUME Core, Rest, Marked(vm), Next
  PROVE  Marked(vm')
<1>0. vm \in ViewModel /\ cached \in Versions \cup {Bad, None}
  BY DEF Core, Rest
<1>1. CASE Relaunch
  <2> DEFINE v == Installed(vm.files, vm.stored, vm.boot, vm.bookmark)
  <2>1. v \in ViewModel /\ Marked(v)
    BY <1>0, NamesAssumption DEF Installed, ViewModel, States, Marked, Bad
  <2>2. CachedVersion \in Versions \cup {Bad}
    BY DEF CachedVersion, Versions, Bundled
  <2>3. vm' = Read(v, CachedVersion)
    BY <1>1 DEF Relaunch
  <2> HIDE DEF v
  <2> QED
    BY <2>1, <2>2, <2>3, ReadMarked
<1> QED
  BY <1>0, <1>1, LaunchMarked, UserMarked, DownloadMarked, URLMarked DEF Next

\* A catalog disk in a drive is marked as one, by whichever way it got there,
\* through imports, deletions, new catalogs, late downloads and relaunches.
THEOREM CatalogDisksAreMarked == Spec => []CatalogDisksMarked
<1>1. Init => Marked(vm)
  <2> DEFINE v == Installed({}, None, "C", {})
  <2>1. v \in ViewModel /\ Marked(v)
    BY NamesAssumption DEF Installed, ViewModel, States, Marked
  <2>2. Bundled \in Versions \cup {Bad}
    BY DEF Versions
  <2>3. Init => vm = Read(v, Bundled)
    BY DEF Init
  <2> HIDE DEF v
  <2> QED
    BY <2>1, <2>2, <2>3, ReadMarked
<1>2. Core /\ Rest /\ Marked(vm) /\ [Next]_vars => Marked(vm)'
  <2>1. ASSUME UNCHANGED vars, Marked(vm) PROVE Marked(vm)'
    BY <2>1 DEF vars, Marked
  <2> QED
    BY <2>1, MarkedStep
<1>3. Marked(vm) <=> CatalogDisksMarked
  BY DEF Marked, CatalogDisksMarked
<1> QED
  BY <1>1, <1>2, <1>3, InvHolds, PTL DEF Spec
-----------------------------------------------------------------------------
(* Versions.  Only a catalog that is read changes the catalog or the version. *)

Agrees(v) == v.catalog # Bad => v.stored = v.catalog

LEMMA ReadAgrees ==
  ASSUME NEW v \in ViewModel, NEW version \in Versions \cup {Bad}
  PROVE  Agrees(Read(v, version))
<1> DEFINE w == [v EXCEPT !.catalog = version]
           p == Parse(v, version)
<1>1. w \in ViewModel /\ w.catalog = version
  BY DEF ViewModel
<1>2. DeleteAllDownloadedDisks(w) \in ViewModel
      /\ DeleteAllDownloadedDisks(w).catalog = version
  <2> HIDE DEF w
  <2>1. ASSUME NEW u \in ViewModel
        PROVE  DeleteAllDownloadedDisks(u).catalog = u.catalog
    BY DEF DeleteAllDownloadedDisks, RemoveDisks, ViewModel
  <2> QED
    BY <1>1, <2>1, DeleteLemma
<1>3. ASSUME NEW u \in ViewModel, u.catalog = version
      PROVE  Agrees(StoreVersion(u, version))
  BY <1>3 DEF StoreVersion, ViewModel, Agrees
<1>4. Agrees(p)
  <2> HIDE DEF w
  <2>1. \/ version = Bad /\ p = w
        \/ p \in {StoreVersion(w, version), StoreVersion(DeleteAllDownloadedDisks(w), version)}
    BY DEF Parse, w
  <2> QED
    BY <1>1, <1>2, <1>3, <2>1 DEF Agrees
<1> HIDE DEF p
<1> QED
  BY <1>4 DEF Read, RefreshDownloadStates, Agrees, p

LEMMA UnreadAgrees ==
  ASSUME Agrees(vm), vm'.catalog = vm.catalog, vm'.stored = vm.stored
  PROVE  Agrees(vm')
BY DEF Agrees

\* attaching a default disk reads nothing
LEMMA AutoAttachAgrees ==
  ASSUME NEW v \in ViewModel, Agrees(v), NEW ready
  PROVE  Agrees(AutoAttach(v, ready))
BY DEF AutoAttach, AttachCatalogDisk, SetPath, Request, ViewModel, Agrees

LEMMA LaunchAgrees ==
  ASSUME vm \in ViewModel, Agrees(vm), Launch, cached \in Versions \cup {Bad, None}
  PROVE  Agrees(vm')
<1>1. ASSUME NEW drives \in SUBSET Drives, ApplyBookmarks(drives)
      PROVE  Agrees(vm')
  <2> DEFINE paths == [dr \in Drives |-> IF dr \in drives THEN Own ELSE vm.path[dr]]
             w == [vm EXCEPT !.path = paths]
  <2>1. paths \in [Drives -> Disks \cup {Nil, Own, Blank, Web}]
    BY DEF ViewModel
  <2>2. w \in ViewModel /\ Agrees(w)
    BY <2>1 DEF ViewModel, Agrees
  <2>3. vm' = AutoAttach(w, TRUE)
    BY <1>1 DEF ApplyBookmarks, ThenAutoAttach
  <2> QED
    BY <2>2, <2>3, AutoAttachAgrees
<1>2. ASSUME NEW outcome \in Served, FetchDone(outcome)
      PROVE  Agrees(vm')
  <2> DEFINE version == IF outcome = None THEN CachedVersion ELSE outcome
  <2>1. version \in Versions \cup {Bad}
    BY CatalogAssumption DEF CachedVersion, Versions, Bundled, Bad, None
  <2>2. Read(vm, version) \in ViewModel /\ Agrees(Read(vm, version))
    BY <2>1, ReadLemma, ReadAgrees
  <2>3. vm' = AutoAttach(Read(vm, version), resolved)
    BY <1>2 DEF FetchDone, ThenAutoAttach
  <2> QED
    BY <2>2, <2>3, AutoAttachAgrees
<1>3. CASE ReadBookmarks \/ Fetch
  BY <1>3 DEF ReadBookmarks, Fetch
<1> QED
  BY <1>1, <1>2, <1>3 DEF Launch

LEMMA QuietAgrees ==
  ASSUME vm \in ViewModel, Agrees(vm),
         User \/ URL \/ \E d \in Disks, k \in Starters : Download(d, k) \/ Progress(d, k)
  PROVE  Agrees(vm')
<1>1. CASE User
  <2>1. vm'.catalog = vm.catalog /\ vm'.stored = vm.stored
    BY <1>1 DEF User, DownloadDisk, DeleteCatalogDisk, Detach, RemoveDisks, UseCatalogDisk,
                AttachCatalogDisk, SetPath, Request, ImportDisk, RemoveDisk, CreateBlankHDD,
                URLStart, ViewModel
  <2> QED
    BY <2>1, UnreadAgrees
<1>2. CASE URL
  <2>1. vm'.catalog = vm.catalog /\ vm'.stored = vm.stored
    BY <1>2 DEF URL, URLFinished, URLHandlerReturns, URLLanded, SetPath, ViewModel
  <2> QED
    BY <2>1, UnreadAgrees
<1>3. ASSUME NEW d \in Disks, NEW k \in Starters, Download(d, k) \/ Progress(d, k)
      PROVE  Agrees(vm')
  <2>1. vm'.catalog = vm.catalog /\ vm'.stored = vm.stored
    BY <1>3 DEF Download, Progress, Complete, TransferFailed, StagingFailed, Staged, Retry,
                Verify, Replace, Rejected, Landed, Reject, GiveUp, AttachCatalogDisk,
                SetPath, ViewModel
  <2> QED
    BY <2>1, UnreadAgrees
<1> QED
  BY <1>1, <1>2, <1>3

LEMMA AgreesStep ==
  ASSUME Core, Rest, Agrees(vm), Next
  PROVE  Agrees(vm')
<1>0. vm \in ViewModel /\ cached \in Versions \cup {Bad, None}
  BY DEF Core, Rest
<1>1. CASE Relaunch
  <2> DEFINE v == Installed(vm.files, vm.stored, vm.boot, vm.bookmark)
  <2>1. v \in ViewModel
    BY <1>0 DEF Installed, ViewModel, States
  <2>2. CachedVersion \in Versions \cup {Bad}
    BY DEF CachedVersion, Versions, Bundled
  <2>3. vm' = Read(v, CachedVersion)
    BY <1>1 DEF Relaunch
  <2> HIDE DEF v
  <2> QED
    BY <2>1, <2>2, <2>3, ReadAgrees
<1> QED
  BY <1>0, <1>1, LaunchAgrees, QuietAgrees DEF Next

\* The stored version is that of the catalog on screen, so that the next catalog
\* of another version is seen to be one, whatever the launches have read.
THEOREM VersionsAgree == Spec => []VersionAgrees
<1>1. Init => Agrees(vm)
  <2> DEFINE v == Installed({}, None, "C", {})
  <2>1. v \in ViewModel
    BY DEF Installed, ViewModel, States
  <2>2. Bundled \in Versions \cup {Bad}
    BY DEF Versions
  <2>3. Init => vm = Read(v, Bundled)
    BY DEF Init
  <2> HIDE DEF v
  <2> QED
    BY <2>1, <2>2, <2>3, ReadAgrees
<1>2. Core /\ Rest /\ Agrees(vm) /\ [Next]_vars => Agrees(vm)'
  <2>1. ASSUME UNCHANGED vars, Agrees(vm) PROVE Agrees(vm)'
    BY <2>1 DEF vars, Agrees
  <2> QED
    BY <2>1, AgreesStep
<1>3. Agrees(vm) <=> VersionAgrees
  BY DEF Agrees, VersionAgrees
<1> QED
  BY <1>1, <1>2, <1>3, InvHolds, PTL DEF Spec
-----------------------------------------------------------------------------
(* Images are present.  Each method shows only what is in Disks/ and what was *)
(* shown without being there before.                                          *)

Shown(v, d) == v.state[d] = "downloaded" \/ \E drive \in Drives : v.path[drive] = d

Truer(w, v) ==
  \A d \in Disks : Shown(w, d) => d \in w.files \/ (Shown(v, d) /\ d \notin v.files)

\* An image that is shown, or that a download has just moved into place, is there, is
\* being replaced, or has been lost.
Present ==
  \A d \in Disks :
    Shown(vm, d) \/ (\E k \in Starters : In(d, k, "landed"))
      => d \in vm.files \/ d \in lost \/ \E k \in Starters : In(d, k, "replace")

\* What is shown truly in two steps is shown truly in both.
LEMMA TruerTransitive ==
  ASSUME NEW t, NEW u, NEW v, Truer(t, u), Truer(u, v)
  PROVE  Truer(t, v)
BY DEF Truer

\* A drive that gets an image that is not the catalog's.
LEMMA SetPathTruer ==
  ASSUME NEW v \in ViewModel, NEW drive \in Drives, NEW image, image \notin Disks
  PROVE  Truer(SetPath(v, drive, image), v)
<1>1. /\ SetPath(v, drive, image).path = [v.path EXCEPT ![drive] = image]
      /\ SetPath(v, drive, image).state = v.state
      /\ SetPath(v, drive, image).files = v.files
  BY DEF SetPath, ViewModel
<1> QED
  BY <1>1 DEF Truer, Shown, ViewModel

\* A drive that gets a catalog disk whose image is there.
LEMMA AttachTruer ==
  ASSUME NEW v \in ViewModel, NEW drive \in Drives, NEW d \in Disks, d \in v.files
  PROVE  Truer(AttachCatalogDisk(v, d, drive), v)
<1>1. /\ AttachCatalogDisk(v, d, drive).path = [v.path EXCEPT ![drive] = d]
      /\ AttachCatalogDisk(v, d, drive).state = v.state
      /\ AttachCatalogDisk(v, d, drive).files = v.files
  BY DEF AttachCatalogDisk, SetPath, ViewModel
<1> QED
  BY <1>1 DEF Truer, Shown, ViewModel

\* Drives that are emptied.
LEMMA RemoveTruer ==
  ASSUME NEW v \in ViewModel, NEW drives \in SUBSET Drives
  PROVE  Truer(RemoveDisks(v, drives), v)
<1>1. /\ RemoveDisks(v, drives).path = [dr \in Drives |-> IF dr \in drives THEN Nil
                                                          ELSE v.path[dr]]
      /\ RemoveDisks(v, drives).state = v.state
      /\ RemoveDisks(v, drives).files = v.files
  BY DEF RemoveDisks, ViewModel
<1> QED
  BY <1>1, NamesAssumption DEF Truer, Shown

\* All images go: nothing that was there is shown any longer.
LEMMA DeleteTruer ==
  ASSUME NEW v \in ViewModel
  PROVE  Truer(DeleteAllDownloadedDisks(v), v)
<1> DEFINE w == DeleteAllDownloadedDisks(v)
<1>1. \A dr \in Drives : w.path[dr] = IF v.path[dr] \in Images THEN Nil ELSE v.path[dr]
  BY DEF DeleteAllDownloadedDisks, RemoveDisks, ViewModel
<1>2. \A d \in Disks : w.state[d] = IF d \in v.files THEN "notDownloaded" ELSE v.state[d]
  BY DEF DeleteAllDownloadedDisks, RemoveDisks, ViewModel
<1> HIDE DEF w
<1> QED
  BY <1>1, <1>2, NamesAssumption DEF Truer, Shown, Images, w

\* A catalog that is read.
LEMMA ReadTruer ==
  ASSUME NEW v \in ViewModel, NEW version \in Versions \cup {Bad}
  PROVE  Truer(Read(v, version), v)
<1> DEFINE w == [v EXCEPT !.catalog = version]
           p == Parse(v, version)
<1>1. w \in ViewModel /\ Truer(w, v)
  BY DEF ViewModel, Truer, Shown
<1>2. DeleteAllDownloadedDisks(w) \in ViewModel /\ Truer(DeleteAllDownloadedDisks(w), v)
  <2> HIDE DEF w
  <2> QED
    BY <1>1, DeleteLemma, DeleteTruer, TruerTransitive
<1>3. ASSUME NEW u \in ViewModel, Truer(u, v)
      PROVE  Truer(StoreVersion(u, version), v)
  BY <1>3 DEF StoreVersion, ViewModel, Truer, Shown
<1>4. Truer(p, v)
  <2> HIDE DEF w
  <2>1. p \in {w, StoreVersion(w, version), StoreVersion(DeleteAllDownloadedDisks(w), version)}
    BY DEF Parse, w
  <2> QED
    BY <1>1, <1>2, <1>3, <2>1
<1>5. p \in ViewModel
  <2> HIDE DEF w
  <2>1. \/ version = Bad /\ p = w
        \/ /\ version \in Versions
           /\ p \in {StoreVersion(w, version),
                    StoreVersion(DeleteAllDownloadedDisks(w), version)}
    BY DEF Parse, w
  <2>2. ASSUME version \in Versions, NEW u \in ViewModel
        PROVE  StoreVersion(u, version) \in ViewModel
    BY <2>2 DEF StoreVersion, ViewModel
  <2> QED
    BY <1>1, <1>2, <2>1, <2>2
<1> HIDE DEF p
<1>6. Truer(RefreshDownloadStates(p), p)
  BY <1>5 DEF RefreshDownloadStates, ViewModel, Truer, Shown
<1> QED
  BY <1>4, <1>6, TruerTransitive DEF Read, p

\* The default disk is attached when it is there, and requested when it is not.
LEMMA AutoAttachTruer ==
  ASSUME NEW v \in ViewModel, NEW ready
  PROVE  Truer(AutoAttach(v, ready), v)
<1>1. DefaultDisk \in v.files => Truer(AttachCatalogDisk(v, DefaultDisk, "C"), v)
  BY AttachTruer, CatalogAssumption
<1>2. Truer([Request(v, DefaultDisk, "C") EXCEPT !.auto = @ \cup {DefaultDisk}], v)
  BY DEF Request, ViewModel, Truer, Shown
<1>3. Truer(v, v)
  BY DEF Truer
<1> QED
  BY <1>1, <1>2, <1>3 DEF AutoAttach

\* Presence is kept by a step that shows nothing untrue, lands and replaces nothing,
\* and notes as lost what it deletes under a download.
LEMMA PresentStep ==
  ASSUME Present, Truer(vm', vm), lost \subseteq lost',
         \A d \in Disks, k \in Starters : /\ In(d, k, "landed")' => In(d, k, "landed")
                                          /\ In(d, k, "replace") => In(d, k, "replace")',
         \A d \in Disks : d \in vm.files \ vm'.files
            => d \in lost' \/ \A k \in Starters : ~In(d, k, "landed")
  PROVE  Present'
<1> SUFFICES ASSUME NEW d \in Disks,
                    (Shown(vm', d) /\ d \notin vm'.files) \/ (\E k \in Starters : In(d, k, "landed")')
             PROVE  d \in vm'.files \/ d \in lost' \/ \E k \in Starters : In(d, k, "replace")'
  BY DEF Present, Shown
<1>1. CASE Shown(vm', d) /\ d \notin vm'.files
  BY <1>1 DEF Truer, Present
<1>2. CASE \E k \in Starters : In(d, k, "landed")'
  BY <1>2 DEF Present
<1> QED
  BY <1>1, <1>2

LEMMA LaunchPresent ==
  ASSUME Core, Rest, Present, Launch
  PROVE  Present'
<1>0. vm \in ViewModel /\ cached \in Versions \cup {Bad, None}
  BY DEF Core, Rest
<1>1. ASSUME NEW v \in ViewModel, NEW ready, NEW k \in Starters, ThenAutoAttach(v, ready, k)
      PROVE  /\ vm' = AutoAttach(v, ready) /\ Truer(vm', v) /\ vm'.files = v.files
             /\ \A d \in Disks, j \in Starters : /\ In(d, j, "landed")' => In(d, j, "landed")
                                                 /\ In(d, j, "replace") => In(d, j, "replace")'
  <2>1. vm' = AutoAttach(v, ready) /\ (task' = task \/ StartDownload(DefaultDisk, k))
    BY <1>1 DEF ThenAutoAttach
  <2>2. vm'.files = v.files
    BY <2>1 DEF AutoAttach, AttachCatalogDisk, SetPath, Request, ViewModel
  <2>3. ASSUME NEW d \in Disks, NEW j \in Starters, StartDownload(DefaultDisk, k)
        PROVE  /\ In(d, j, "landed")' => In(d, j, "landed")
               /\ In(d, j, "replace") => In(d, j, "replace")'
    <3>1. task[DefaultDisk][k] = Free /\ task' = [task EXCEPT ![DefaultDisk][k] = Fresh]
      BY <2>3 DEF StartDownload
    <3>2. task'[d][j] = IF d = DefaultDisk /\ j = k THEN Fresh ELSE task[d][j]
      BY <3>1, CatalogAssumption DEF Core, TaskType
    <3> QED
      BY <3>1, <3>2 DEF In, Free, Fresh
  <2> QED
    BY <2>1, <2>2, <2>3, AutoAttachTruer DEF In
<1>2. ASSUME NEW drives \in SUBSET Drives, ApplyBookmarks(drives)
      PROVE  Present'
  <2> DEFINE paths == [dr \in Drives |-> IF dr \in drives THEN Own ELSE vm.path[dr]]
             w == [vm EXCEPT !.path = paths]
  <2>1. paths \in [Drives -> Disks \cup {Nil, Own, Blank, Web}]
    BY <1>0 DEF ViewModel
  <2>2. w \in ViewModel /\ w.files = vm.files
    BY <1>0, <2>1 DEF ViewModel
  <2>3. Truer(w, vm)
    BY <1>0, NamesAssumption DEF ViewModel, Truer, Shown
  <2>4. ThenAutoAttach(w, TRUE, "bookmarks") /\ lost' = lost
    BY <1>2 DEF ApplyBookmarks
  <2> HIDE DEF w
  <2>5. Truer(vm', vm)
    BY <1>1, <2>2, <2>3, <2>4, TruerTransitive DEF Starters
  <2>6. \A d \in Disks, k \in Starters : /\ In(d, k, "landed")' => In(d, k, "landed")
                                         /\ In(d, k, "replace") => In(d, k, "replace")'
    BY <1>1, <2>2, <2>4 DEF Starters
  <2>7. vm'.files = vm.files
    BY <1>1, <2>2, <2>4 DEF Starters
  <2> QED
    BY <2>4, <2>5, <2>6, <2>7, PresentStep
<1>3. ASSUME NEW outcome \in Served, FetchDone(outcome)
      PROVE  Present'
  <2> DEFINE version == IF outcome = None THEN CachedVersion ELSE outcome
             w == Read(vm, version)
  <2>1. version \in Versions \cup {Bad}
    BY CatalogAssumption DEF CachedVersion, Versions, Bundled, Bad, None
  <2>2. w \in ViewModel /\ Truer(w, vm)
    BY <1>0, <2>1, ReadLemma, ReadTruer
  <2>3. /\ ThenAutoAttach(w, resolved, "catalog")
        /\ lost' = lost \cup Overtaken(vm, vm')
    BY <1>3 DEF FetchDone
  <2> HIDE DEF w
  <2>4. Truer(vm', vm)
    BY <1>1, <2>2, <2>3, TruerTransitive DEF Starters
  <2>5. \A d \in Disks, k \in Starters : /\ In(d, k, "landed")' => In(d, k, "landed")
                                         /\ In(d, k, "replace") => In(d, k, "replace")'
    BY <1>1, <2>2, <2>3 DEF Starters
  <2>6. \A d \in Disks : d \in vm.files \ vm'.files
            => d \in lost' \/ \A k \in Starters : ~In(d, k, "landed")
    BY <2>3 DEF Overtaken, Live, In
  <2> QED
    BY <2>3, <2>4, <2>5, <2>6, PresentStep
<1>4. CASE ReadBookmarks \/ Fetch
  BY <1>4 DEF ReadBookmarks, Fetch, Present, In
<1> QED
  BY <1>2, <1>3, <1>4 DEF Launch

LEMMA UserPresent ==
  ASSUME Core, Rest, Present, User
  PROVE  Present'
<1>0. vm \in ViewModel
  BY DEF Core
<1>a. ASSUME NEW d \in Disks, NEW k \in Starters, StartDownload(d, k),
             NEW e \in Disks, NEW j \in Starters
      PROVE  /\ In(e, j, "landed")' => In(e, j, "landed")
             /\ In(e, j, "replace") => In(e, j, "replace")'
  <2>1. task[d][k] = Free /\ task' = [task EXCEPT ![d][k] = Fresh]
    BY <1>a DEF StartDownload
  <2>2. task'[e][j] = IF e = d /\ j = k THEN Fresh ELSE task[e][j]
    BY <2>1 DEF Core, TaskType
  <2> QED
    BY <2>1, <2>2 DEF In, Free, Fresh
<1>b. ASSUME Truer(vm', vm), vm.files \subseteq vm'.files, task' = task, lost' = lost
      PROVE  Present'
  BY <1>b, PresentStep DEF In
<1>1. ASSUME NEW d \in Disks, DownloadDisk(d)
      PROVE  Present'
  <2>1. /\ vm' = [vm EXCEPT !.state[d] = "downloading"] /\ lost' = lost
        /\ StartDownload(d, "user")
    BY <1>1 DEF DownloadDisk
  <2>2. Truer(vm', vm) /\ vm'.files = vm.files
    BY <1>0, <2>1 DEF ViewModel, Truer, Shown
  <2> QED
    BY <1>a, <2>1, <2>2, PresentStep DEF Starters
<1>2. ASSUME NEW d \in Disks, DeleteCatalogDisk(d)
      PROVE  Present'
  <2> DEFINE w == [vm EXCEPT !.files = @ \ {d}, !.state[d] = "notDownloaded"]
             gone == {dr \in Drives : w.path[dr] = d}
  <2>1. vm' = RemoveDisks(w, gone) /\ lost' = lost \cup Overtaken(vm, vm') /\ task' = task
    BY <1>2 DEF DeleteCatalogDisk, Detach, quiet
  <2>2. /\ w.path = vm.path /\ w.files = vm.files \ {d}
        /\ w.state = [vm.state EXCEPT ![d] = "notDownloaded"]
    BY <1>0 DEF ViewModel
  <2>3. /\ vm'.path = [dr \in Drives |-> IF dr \in gone THEN Nil ELSE w.path[dr]]
        /\ vm'.state = w.state /\ vm'.files = w.files
    BY <1>0, <2>1 DEF RemoveDisks, ViewModel
  <2> HIDE DEF w
  <2>4. Truer(vm', vm)
    BY <1>0, <2>2, <2>3, NamesAssumption DEF Truer, Shown, ViewModel
  <2>5. \A e \in Disks : e \in vm.files \ vm'.files
            => e \in lost' \/ \A k \in Starters : ~In(e, k, "landed")
    BY <2>1 DEF Overtaken, Live, In
  <2> QED
    BY <2>1, <2>4, <2>5, PresentStep DEF In
<1>3. ASSUME NEW d \in Disks, NEW drive \in Slots, UseCatalogDisk(d, drive)
      PROVE  Present'
  <2>1. CASE d \in vm.files
    <3>1. vm' = AttachCatalogDisk(vm, d, drive) /\ task' = task /\ lost' = lost
      BY <1>3, <2>1 DEF UseCatalogDisk
    <3>2. vm'.files = vm.files
      BY <1>0, <3>1 DEF AttachCatalogDisk, SetPath, ViewModel
    <3> QED
      BY <1>0, <1>b, <2>1, <3>1, <3>2, AttachTruer DEF Slots
  <2>2. CASE d \notin vm.files
    <3>1. vm' = Request(vm, d, drive) /\ StartDownload(d, "user") /\ lost' = lost
      BY <1>3, <2>2 DEF UseCatalogDisk
    <3>2. Truer(vm', vm) /\ vm'.files = vm.files
      BY <1>0, <3>1 DEF Request, ViewModel, Truer, Shown
    <3> QED
      BY <1>a, <3>1, <3>2, PresentStep DEF Starters
  <2> QED
    BY <2>1, <2>2
<1>4. ASSUME NEW drive \in Drives, ImportDisk(drive)
      PROVE  Present'
  <2> DEFINE w == SetPath(vm, drive, Own)
  <2>1. w \in ViewModel /\ Truer(w, vm) /\ w.files = vm.files
    <3>1. w.files = vm.files
      BY <1>0 DEF SetPath, ViewModel
    <3> QED
      BY <1>0, <3>1, SetPathLemma, SetPathTruer, NamesAssumption
  <2>2. vm' = [w EXCEPT !.bookmark = @ \cup {drive}] /\ task' = task /\ lost' = lost
    BY <1>4 DEF ImportDisk, quiet
  <2> HIDE DEF w
  <2>3. Truer(vm', vm) /\ vm'.files = vm.files
    BY <2>1, <2>2 DEF ViewModel, Truer, Shown
  <2> QED
    BY <1>b, <2>2, <2>3
<1>5. ASSUME NEW drive \in Drives, RemoveDisk(drive)
      PROVE  Present'
  <2>1. vm' = RemoveDisks(vm, {drive}) /\ task' = task /\ lost' = lost
    BY <1>5 DEF RemoveDisk, quiet
  <2>2. vm'.files = vm.files
    BY <1>0, <2>1 DEF RemoveDisks, ViewModel
  <2> QED
    BY <1>0, <1>b, <2>1, <2>2, RemoveTruer
<1>6. CASE CreateBlankHDD
  <2> DEFINE w == SetPath(vm, "C", Blank)
  <2>1. w \in ViewModel /\ Truer(w, vm) /\ w.files = vm.files
    <3>1. w.files = vm.files
      BY <1>0 DEF SetPath, ViewModel
    <3> QED
      BY <1>0, <3>1, SetPathLemma, SetPathTruer, NamesAssumption, CatalogAssumption
  <2>2. /\ vm' = [w EXCEPT !.files = @ \cup {Blank}, !.bookmark = @ \ {"C"}]
        /\ task' = task /\ lost' = lost
    BY <1>6 DEF CreateBlankHDD, quiet
  <2> HIDE DEF w
  <2>3. Truer(vm', vm) /\ vm.files \subseteq vm'.files
    BY <2>1, <2>2, NamesAssumption DEF ViewModel, Truer, Shown
  <2> QED
    BY <1>b, <2>2, <2>3
<1>7. CASE URLStart
  BY <1>7 DEF URLStart, quietURL, Present, In
<1> QED
  BY <1>1, <1>2, <1>3, <1>4, <1>5, <1>6, <1>7 DEF User

\* downloadFromURL touches the image Web only, which the catalog does not know.
LEMMA URLPresent ==
  ASSUME Core, Rest, Present, URL
  PROVE  Present'
<1>0. vm \in ViewModel
  BY DEF Core
<1>1. CASE URLFinished \/ URLHandlerReturns
  BY <1>1 DEF URLFinished, URLHandlerReturns, quietURL, Present, In
<1>2. ASSUME NEW drive \in UrlDrives, URLLanded(drive)
      PROVE  Present'
  <2> DEFINE w == [vm EXCEPT !.files = @ \cup {Web}]
  <2>1. w \in ViewModel /\ w.files = vm.files \cup {Web} /\ Truer(w, vm)
    BY <1>0, NamesAssumption DEF ViewModel, Images, Truer, Shown
  <2>2. /\ Truer(SetPath(w, drive, Web), w)
        /\ SetPath(w, drive, Web).files = vm.files \cup {Web}
    <3>1. SetPath(w, drive, Web).files = w.files
      BY <2>1 DEF SetPath, ViewModel
    <3> QED
      BY <2>1, <3>1, SetPathTruer, NamesAssumption, CatalogAssumption
  <2>3. vm' \in {vm, SetPath(w, drive, Web), [vm EXCEPT !.files = @ \ {Web}]}
    BY <1>2 DEF URLLanded
  <2> HIDE DEF w
  <2>4. LET v == [vm EXCEPT !.files = @ \ {Web}]
        IN Truer(v, vm) /\ v.files = vm.files \ {Web}
    BY <1>0, NamesAssumption DEF ViewModel, Truer, Shown
  <2>5. Truer(vm', vm) /\ \A d \in Disks : d \in vm.files => d \in vm'.files
    <3>1. Truer(vm, vm) /\ Truer(SetPath(w, drive, Web), vm)
      BY <2>1, <2>2, TruerTransitive DEF Truer
    <3> QED
      BY <2>2, <2>3, <2>4, <3>1, NamesAssumption
  <2>6. task' = task /\ lost' = lost
    BY <1>2 DEF URLLanded, quietURL
  <2> QED
    BY <2>5, <2>6, PresentStep DEF In
<1> QED
  BY <1>1, <1>2 DEF URL

\* A download: Verify removes the old image when a replacement begins, Replace ends it
\* with the new image or a loss, and Landed shows the image once it is there.
LEMMA DownloadPresent ==
  ASSUME Core, Rest, Present, NEW d \in Disks, NEW k \in Starters,
         Download(d, k) \/ Progress(d, k)
  PROVE  Present'
<1>0. vm \in ViewModel
  BY DEF Core
<1>a. ASSUME NEW phase, Moves(d, k, phase), NEW e \in Disks, NEW j \in Starters
      PROVE  task'[e][j].phase = IF e = d /\ j = k THEN phase ELSE task[e][j].phase
  <2>1. task' = [task EXCEPT ![d][k].phase = phase]
    BY <1>a DEF Moves
  <2> QED
    BY <2>1 DEF Core, TaskType
<1>b. ASSUME Ends(d, k), NEW e \in Disks, NEW j \in Starters
      PROVE  task'[e][j].phase = IF e = d /\ j = k THEN "free" ELSE task[e][j].phase
  <2>1. task' = [task EXCEPT ![d][k] = Free]
    BY <1>b DEF Ends
  <2> QED
    BY <2>1 DEF Core, TaskType, Free
<1>1. CASE Progress(d, k)
  <2>1. vm' = [vm EXCEPT !.state[d] = "downloading"] /\ task' = task /\ lost' = lost
    BY <1>1 DEF Progress
  <2>2. Truer(vm', vm) /\ vm'.files = vm.files
    BY <1>0, <2>1 DEF ViewModel, Truer, Shown
  <2> QED
    BY <2>1, <2>2, PresentStep DEF In
<1>2. CASE \/ Complete(d, k) \/ TransferFailed(d, k) \/ StagingFailed(d, k)
           \/ Staged(d, k) \/ Retry(d, k) \/ Rejected(d, k)
  <2>1. /\ vm'.path = vm.path /\ vm'.files = vm.files /\ lost' = lost
        /\ \A e \in Disks : vm'.state[e] = "downloaded" => vm.state[e] = "downloaded"
    <3>1. vm'.path = vm.path /\ vm'.files = vm.files /\ lost' = lost
      BY <1>0, <1>2 DEF Complete, TransferFailed, StagingFailed, Staged, Retry, Rejected,
                        HandlerBlock, GiveUp, ViewModel, quiet
    <3>2. \/ vm'.state = vm.state
          \/ \E state \in States \ {"downloaded"} : vm'.state = [vm.state EXCEPT ![d] = state]
      <4>1. CASE Complete(d, k) \/ Staged(d, k) \/ Retry(d, k)
        BY <1>0, <4>1 DEF Complete, Staged, Retry, ViewModel, States
      <4>2. \A v \in ViewModel, state \in States :
              GiveUp(v, d, state).state = [v.state EXCEPT ![d] = state]
        BY DEF GiveUp, ViewModel
      <4>4. CASE TransferFailed(d, k)
        <5> DEFINE state == IF d \in vm.auto THEN "notDownloaded" ELSE "error"
                   w == GiveUp(vm, d, state)
        <5>1. vm' = vm \/ vm' = [w EXCEPT !.auto = @ \ {d}]
          BY <4>4 DEF TransferFailed
        <5>2. state \in States \ {"downloaded"}
          BY DEF States
        <5>3. w.state = [vm.state EXCEPT ![d] = state]
          BY <1>0, <4>2, <5>2
        <5>4. [w EXCEPT !.auto = @ \ {d}].state = w.state
          BY <1>0 DEF GiveUp, ViewModel
        <5> HIDE DEF state, w
        <5> QED
          BY <5>1, <5>2, <5>3, <5>4
      <4>5. CASE StagingFailed(d, k)
        <5> DEFINE manual == [vm EXCEPT !.auto = @ \ {d}]
        <5>1. manual \in ViewModel /\ manual.state = vm.state
          BY <1>0 DEF ViewModel
        <5>2. vm' = manual \/ vm' = GiveUp(manual, d, "error")
          BY <4>5 DEF StagingFailed
        <5> HIDE DEF manual
        <5> QED
          BY <4>2, <5>1, <5>2 DEF States
      <4>6. CASE Rejected(d, k)
        BY <1>0, <4>2, <4>6 DEF Rejected, States
      <4> QED
        BY <1>2, <4>1, <4>4, <4>5, <4>6
    <3> QED
      BY <1>0, <3>1, <3>2 DEF ViewModel
  <2>2. Truer(vm', vm)
    BY <2>1 DEF Truer, Shown
  <2>3. \A e \in Disks, j \in Starters :
          \/ task'[e][j].phase = task[e][j].phase
          \/ /\ task[e][j].phase \notin {"replace", "landed"}
             /\ task'[e][j].phase \notin {"replace", "landed"}
    <3>1. CASE \E phase \in {"failed", "unstaged", "staged", "retry", "verify"} :
                 Moves(d, k, phase) /\ task[d][k].phase \notin {"replace", "landed"}
      BY <1>a, <3>1
    <3>2. CASE Ends(d, k) /\ task[d][k].phase \notin {"replace", "landed"}
      BY <1>b, <3>2
    <3>3. CASE Retry(d, k)
      <4>1. /\ task' = [task EXCEPT ![d][k].phase = "net", ![d][k].left = LeftAfterRetry(@)]
            /\ task[d][k].phase = "retry"
        BY <3>3 DEF Retry, In
      <4> QED
        BY <4>1 DEF Core, TaskType
    <3> QED
      BY <1>2, <3>1, <3>2, <3>3 DEF Complete, TransferFailed, StagingFailed, Staged, Rejected,
                                    HandlerBlock, In
  <2> QED
    BY <2>1, <2>2, <2>3, PresentStep DEF In
<1>3. CASE Verify(d, k)
  <2>1. In(d, k, "verify") /\ lost' = lost
    BY <1>3 DEF Verify
  <2>2. CASE Moves(d, k, "rejected") /\ vm' = vm
    <3>1. Truer(vm', vm)
      BY <2>2 DEF Truer
    <3> QED
      BY <1>a, <2>1, <2>2, <3>1, PresentStep DEF In
  <2>3. CASE Moves(d, k, "replace") /\ vm' = [vm EXCEPT !.files = @ \ {d}]
    <3>1. vm'.files = vm.files \ {d} /\ vm'.path = vm.path /\ vm'.state = vm.state
      BY <1>0, <2>3 DEF ViewModel
    <3>2. In(d, k, "replace")'
      BY <1>a, <2>3 DEF In
    <3>3. \A e \in Disks \ {d}, j \in Starters : task'[e][j].phase = task[e][j].phase
      BY <1>a, <2>3
    <3> QED
      BY <2>1, <3>1, <3>2, <3>3 DEF Present, Shown, In
  <2> QED
    BY <1>3, <2>2, <2>3 DEF Verify, Reject
<1>4. CASE Replace(d, k)
  <2>1. In(d, k, "replace")
    BY <1>4 DEF Replace
  <2>2. \/ vm' = vm /\ lost' = lost \cup {d} /\ Moves(d, k, "rejected")
        \/ /\ vm' = [vm EXCEPT !.files = @ \cup {d}] /\ lost' = lost
           /\ Moves(d, k, "landed")
    BY <1>4 DEF Replace, Reject
  <2>3. \A e \in Disks \ {d}, j \in Starters : task'[e][j].phase = task[e][j].phase
    BY <1>a, <2>2
  <2>4. /\ vm'.path = vm.path /\ vm'.state = vm.state
        /\ vm.files \subseteq vm'.files /\ lost \subseteq lost'
        /\ d \in vm'.files \/ d \in lost'
    BY <1>0, <2>2 DEF ViewModel
  <2> QED
    BY <2>3, <2>4 DEF Present, Shown, In
<1>5. CASE Landed(d, k)
  <2> DEFINE done == [vm EXCEPT !.state[d] = "downloaded", !.pending[d] = Nil]
  <2>1. /\ In(d, k, "landed") /\ Ends(d, k) /\ lost' = lost
        /\ vm' = done \/ (vm.pending[d] # Nil /\ vm' = AttachCatalogDisk(done, d, vm.pending[d]))
    BY <1>5 DEF Landed, HandlerBlock
  <2>2. /\ done \in ViewModel /\ done.files = vm.files /\ done.path = vm.path
        /\ \A e \in Disks \ {d} : done.state[e] = vm.state[e]
    BY <1>0 DEF ViewModel, States
  <2>3. vm.pending[d] # Nil => vm.pending[d] \in Drives
    BY <1>0 DEF ViewModel, Slots
  <2> HIDE DEF done
  <2>4. /\ vm'.files = vm.files
        /\ \A e \in Disks \ {d} : Shown(vm', e) => Shown(vm, e)
    <3>1. CASE vm' = done
      BY <2>2, <3>1 DEF Shown
    <3>2. CASE vm.pending[d] # Nil /\ vm' = AttachCatalogDisk(done, d, vm.pending[d])
      <4>1. /\ vm'.path = [done.path EXCEPT ![vm.pending[d]] = d]
            /\ vm'.state = done.state /\ vm'.files = done.files
        BY <2>2, <2>3, <3>2 DEF AttachCatalogDisk, SetPath, ViewModel
      <4> QED
        BY <1>0, <2>2, <2>3, <3>2, <4>1 DEF Shown, ViewModel
    <3> QED
      BY <2>1, <3>1, <3>2
  <2>5. \A e \in Disks, j \in Starters :
          task'[e][j].phase = IF e = d /\ j = k THEN "free" ELSE task[e][j].phase
    BY <1>b, <2>1
  <2> QED
    BY <2>1, <2>4, <2>5 DEF Present, In
<1> QED
  BY <1>1, <1>2, <1>3, <1>4, <1>5 DEF Download

\* A launch: nothing is shown but what is found in Disks/, and nothing is under way.
LEMMA LaunchedPresent ==
  ASSUME NEW files \in SUBSET Images, NEW stored \in Versions \cup {None},
         NEW boot \in {"A", "C"}, NEW bookmark \in SUBSET Drives,
         NEW version \in Versions \cup {Bad},
         NEW w, w = Read(Installed(files, stored, boot, bookmark), version)
  PROVE  \A d \in Disks : Shown(w, d) => d \in w.files
<1> DEFINE v == Installed(files, stored, boot, bookmark)
<1>1. v \in ViewModel /\ \A d \in Disks : ~Shown(v, d)
  BY NamesAssumption DEF Installed, ViewModel, States, Shown
<1> HIDE DEF v
<1> QED
  BY <1>1, ReadTruer DEF v, Truer

LEMMA PresentKept ==
  ASSUME Core, Rest, Present, Next
  PROVE  Present'
<1>1. CASE Relaunch
  <2>1. CachedVersion \in Versions \cup {Bad}
    BY DEF CachedVersion, Versions, Bundled
  <2>2. /\ vm.files \in SUBSET Images /\ vm.stored \in Versions \cup {None}
        /\ vm.boot \in {"A", "C"} /\ vm.bookmark \in SUBSET Drives
    BY DEF Core, ViewModel
  <2>3. \A d \in Disks : Shown(vm', d) => d \in vm'.files
    BY <1>1, <2>1, <2>2, LaunchedPresent DEF Relaunch
  <2>4. \A d \in Disks, k \in Starters : task'[d][k].phase = "free"
    BY <1>1 DEF Relaunch, Free
  <2> QED
    BY <2>3, <2>4 DEF Present, In, Shown
<1> QED
  BY <1>1, LaunchPresent, UserPresent, URLPresent, DownloadPresent DEF Next

\* What a drive holds and a row shows as downloaded is in Disks/, or is being replaced
\* by a download, or was lost to one; and a catalog disk in a drive is marked.  So it
\* is after any interleaving of requests, deletions, catalogs and late downloads.
THEOREM DrivesTellTheTruth == Spec => []CatalogTrue
<1>1. Init => Present
  <2> SUFFICES ASSUME Init PROVE Present
    OBVIOUS
  <2>1. \A d \in Disks : Shown(vm, d) => d \in vm.files
    BY LaunchedPresent DEF Init, Versions, Bundled
  <2>2. \A d \in Disks, k \in Starters : task[d][k].phase = "free"
    BY DEF Init, Free
  <2> QED
    BY <2>1, <2>2 DEF Present, In
<1>2. Core /\ Rest /\ Present /\ [Next]_vars => Present'
  <2>1. ASSUME UNCHANGED vars, Present PROVE Present'
    BY <2>1 DEF vars, Present, Shown, In
  <2> QED
    BY <2>1, PresentKept
<1>3. Present /\ CatalogDisksMarked => CatalogTrue
  BY DEF Present, CatalogTrue, ImagesPresent, Shown, Live, In
<1> QED
  BY <1>1, <1>2, <1>3, InvHolds, CatalogDisksAreMarked, PTL DEF Spec
-----------------------------------------------------------------------------
(* What the user made stays.  Only a catalog of another version deletes it.  *)

Keeps(w, v) == Blank \in v.files => Blank \in w.files \/ w.stored # v.stored

\* Parsing deletes the images only when it stores another version.
LEMMA ReadKeeps ==
  ASSUME NEW v \in ViewModel, NEW version \in Versions \cup {Bad}
  PROVE  Keeps(Read(v, version), v)
<1> DEFINE w == [v EXCEPT !.catalog = version]
           p == Parse(v, version)
<1>1. w \in ViewModel /\ w.files = v.files /\ w.stored = v.stored
  BY DEF ViewModel
<1>2. DeleteAllDownloadedDisks(w) \in ViewModel
  BY <1>1, DeleteLemma
<1>3. \A u \in ViewModel : /\ StoreVersion(u, version).files = u.files
                          /\ StoreVersion(u, version).stored = version
  BY DEF StoreVersion, ViewModel
<1>4. Keeps(p, v)
  <2> HIDE DEF w
  <2>1. \/ p \in {w, StoreVersion(w, version)}
        \/ p = StoreVersion(DeleteAllDownloadedDisks(w), version) /\ version # v.stored
    BY DEF Parse, w
  <2> QED
    BY <1>1, <1>2, <1>3, <2>1 DEF Keeps
<1> HIDE DEF p
<1>5. RefreshDownloadStates(p) = p \/ (/\ RefreshDownloadStates(p).files = p.files
                                      /\ RefreshDownloadStates(p).stored = p.stored)
  BY DEF RefreshDownloadStates
<1> QED
  BY <1>4, <1>5 DEF Read, Keeps, p

LEMMA LaunchKeeps ==
  ASSUME Core, Rest, Launch
  PROVE  Keeps(vm', vm)
<1>0. vm \in ViewModel /\ cached \in Versions \cup {Bad, None}
  BY DEF Core, Rest
<1>1. ASSUME NEW v \in ViewModel, NEW ready
      PROVE  AutoAttach(v, ready).files = v.files /\ AutoAttach(v, ready).stored = v.stored
  BY DEF AutoAttach, AttachCatalogDisk, SetPath, Request, ViewModel
<1>2. ASSUME NEW drives \in SUBSET Drives, ApplyBookmarks(drives)
      PROVE  Keeps(vm', vm)
  <2> DEFINE paths == [dr \in Drives |-> IF dr \in drives THEN Own ELSE vm.path[dr]]
             w == [vm EXCEPT !.path = paths]
  <2>1. paths \in [Drives -> Disks \cup {Nil, Own, Blank, Web}]
    BY <1>0 DEF ViewModel
  <2>2. w \in ViewModel /\ w.files = vm.files /\ w.stored = vm.stored
    BY <1>0, <2>1 DEF ViewModel
  <2>3. vm' = AutoAttach(w, TRUE)
    BY <1>2 DEF ApplyBookmarks, ThenAutoAttach
  <2> QED
    BY <1>1, <2>2, <2>3 DEF Keeps
<1>3. ASSUME NEW outcome \in Served, FetchDone(outcome)
      PROVE  Keeps(vm', vm)
  <2> DEFINE version == IF outcome = None THEN CachedVersion ELSE outcome
  <2>1. version \in Versions \cup {Bad}
    BY CatalogAssumption DEF CachedVersion, Versions, Bundled, Bad, None
  <2>2. Read(vm, version) \in ViewModel /\ Keeps(Read(vm, version), vm)
    BY <1>0, <2>1, ReadLemma, ReadKeeps
  <2>3. vm' = AutoAttach(Read(vm, version), resolved)
    BY <1>3 DEF FetchDone, ThenAutoAttach
  <2> QED
    BY <1>1, <2>2, <2>3 DEF Keeps
<1>4. CASE ReadBookmarks \/ Fetch
  BY <1>4 DEF ReadBookmarks, Fetch, Keeps
<1> QED
  BY <1>2, <1>3, <1>4 DEF Launch

LEMMA QuietKeeps ==
  ASSUME Core, User \/ URL \/ \E d \in Disks, k \in Starters : Download(d, k) \/ Progress(d, k)
  PROVE  Keeps(vm', vm)
<1>0. vm \in ViewModel
  BY DEF Core
<1>1. CASE User
  <2>1. ASSUME NEW d \in Disks, DownloadDisk(d) \/ DeleteCatalogDisk(d)
        PROVE  vm.files \ {d} \subseteq vm'.files
    <3>1. CASE DownloadDisk(d)
      BY <1>0, <3>1 DEF DownloadDisk, ViewModel
    <3>2. CASE DeleteCatalogDisk(d)
      <4> DEFINE w == [vm EXCEPT !.files = @ \ {d}, !.state[d] = "notDownloaded"]
      <4>1. vm' = Detach(w, d) /\ w.files = vm.files \ {d}
        BY <1>0, <3>2 DEF DeleteCatalogDisk, ViewModel
      <4>2. Detach(w, d).files = w.files
        BY <1>0 DEF Detach, RemoveDisks, ViewModel
      <4> HIDE DEF w
      <4> QED
        BY <4>1, <4>2
    <3> QED
      BY <2>1, <3>1, <3>2
  <2>2. ASSUME NEW d \in Disks, NEW drive \in Slots, UseCatalogDisk(d, drive)
        PROVE  vm'.files = vm.files
    BY <1>0, <2>2 DEF UseCatalogDisk, AttachCatalogDisk, SetPath, Request, ViewModel
  <2>3. ASSUME NEW drive \in Drives, ImportDisk(drive) \/ RemoveDisk(drive)
        PROVE  vm'.files = vm.files
    <3>1. CASE ImportDisk(drive)
      BY <1>0, <3>1 DEF ImportDisk, SetPath, ViewModel
    <3>2. CASE RemoveDisk(drive)
      BY <1>0, <3>2 DEF RemoveDisk, RemoveDisks, ViewModel
    <3> QED
      BY <2>3, <3>1, <3>2
  <2>4. CreateBlankHDD \/ URLStart => vm.files \subseteq vm'.files
    <3>1. CASE CreateBlankHDD
      <4> DEFINE w == SetPath(vm, "C", Blank)
      <4>1. w.files = vm.files /\ w \in ViewModel
        BY <1>0, SetPathLemma, CatalogAssumption DEF SetPath, ViewModel
      <4>2. vm' = [w EXCEPT !.files = @ \cup {Blank}, !.bookmark = @ \ {"C"}]
        BY <3>1 DEF CreateBlankHDD
      <4> HIDE DEF w
      <4> QED
        BY <4>1, <4>2 DEF ViewModel
    <3>2. CASE URLStart
      BY <3>2 DEF URLStart
    <3> QED
      BY <3>1, <3>2
  <2>5. Blank \notin Disks
    BY NamesAssumption
  <2>6. vm.files \subseteq vm'.files \/ \E d \in Disks : vm.files \ {d} \subseteq vm'.files
    BY <1>1, <2>1, <2>2, <2>3, <2>4 DEF User
  <2> QED
    BY <2>5, <2>6 DEF Keeps
<1>2. CASE URL
  <2>1. URLFinished \/ URLHandlerReturns => vm' = vm
    BY DEF URLFinished, URLHandlerReturns
  <2>2. ASSUME NEW drive \in UrlDrives, URLLanded(drive)
        PROVE  vm.files \ {Web} \subseteq vm'.files
    <3> DEFINE w == [vm EXCEPT !.files = @ \cup {Web}]
    <3>1. vm' \in {vm, SetPath(w, drive, Web), [vm EXCEPT !.files = @ \ {Web}]}
      BY <2>2 DEF URLLanded
    <3>2. w.files = vm.files \cup {Web} /\ [vm EXCEPT !.files = @ \ {Web}].files = vm.files \ {Web}
      BY <1>0 DEF ViewModel
    <3>3. SetPath(w, drive, Web).files = w.files
      BY <1>0 DEF SetPath, ViewModel
    <3> HIDE DEF w
    <3> QED
      BY <3>1, <3>2, <3>3
  <2> QED
    BY <1>2, <2>1, <2>2 DEF URL, Keeps, Blank, Web
<1>3. ASSUME NEW d \in Disks, NEW k \in Starters, Download(d, k) \/ Progress(d, k)
      PROVE  Keeps(vm', vm)
  <2>1. \/ Progress(d, k) \/ Complete(d, k) \/ TransferFailed(d, k) \/ StagingFailed(d, k)
        \/ Staged(d, k) \/ Retry(d, k) \/ Rejected(d, k)
        => vm'.files = vm.files
    BY <1>0 DEF Progress, Complete, TransferFailed, StagingFailed, Staged, Retry, Rejected,
                GiveUp, ViewModel
  <2>2. Verify(d, k) \/ Replace(d, k) => vm.files \ {d} \subseteq vm'.files
    BY <1>0 DEF Verify, Replace, Reject, ViewModel
  <2>3. Landed(d, k) => vm'.files = vm.files
    BY <1>0 DEF Landed, AttachCatalogDisk, SetPath, ViewModel
  <2> QED
    BY <1>3, <2>1, <2>2, <2>3, NamesAssumption DEF Download, Keeps
<1> QED
  BY <1>1, <1>2, <1>3

\* An image the user made survives refetches, failed fetches, relaunches, deletions and
\* downloads: a step that removes it has read a catalog of another version.
THEOREM CreatedDisksStay == Spec => CreatedDisksKept
<1>1. Core /\ Rest /\ [Next]_vars
        => [(Blank \in vm.files /\ Blank \notin vm'.files) => vm'.stored # vm.stored]_vars
  <2> SUFFICES ASSUME Core, Rest, Next
               PROVE  Keeps(vm', vm)
    BY DEF Keeps
  <2>1. CASE Relaunch
    <3> DEFINE v == Installed(vm.files, vm.stored, vm.boot, vm.bookmark)
    <3>1. v \in ViewModel /\ v.files = vm.files /\ v.stored = vm.stored
      BY DEF Core, Installed, ViewModel, States
    <3>2. CachedVersion \in Versions \cup {Bad}
      BY DEF CachedVersion, Versions, Bundled
    <3>3. vm' = Read(v, CachedVersion)
      BY <2>1 DEF Relaunch
    <3> HIDE DEF v
    <3> QED
      BY <3>1, <3>2, <3>3, ReadKeeps DEF Keeps
  <2> QED
    BY <2>1, LaunchKeeps, QuietKeeps DEF Next
<1> QED
  BY <1>1, InvHolds, PTL DEF Spec, CreatedDisksKept
=============================================================================
