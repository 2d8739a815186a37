---------------------------- MODULE DiskCatalog ----------------------------
(***************************************************************************)
(* The settings screen's disks: the catalog and its versions, downloads    *)
(* with retry, the drives' paths, their bookmarks, and what a relaunch     *)
(* keeps.  The view model is one record, vm, and its functions map vm to   *)
(* vm, as the code's methods call each other on the main thread.  Each     *)
(* download has a thread of its own: URLSession's transfer (external), the *)
(* block it sends to the main queue, verification and the two file         *)
(* operations on a global queue, and the last block on the main queue,     *)
(* which is FIFO.                                                          *)
(* Hashes, archives, progress values and texts are left out; the catalog   *)
(* names one default disk, as release_assets/disks.xml does.               *)
(***************************************************************************)
EXTENDS Integers, FiniteSets, Sequences

CONSTANTS Disks,        \* the catalog's disks, all of one type: hard disks
          DefaultDisk,  \* the one with a <defaultDrive>, which is "C"
          MaxLaunches,  \* bound: launches of the process
          Attempts,     \* attempts of a download: 3 in the code
          Drives,       \* the drives in use, of "A", "C" and "D"
          UrlDrives,    \* those that downloadFromURL is used for
          Served,       \* how the fetch of the catalog can end: a version, 0 for a
                        \* catalog that parses to nothing, 3 for an error
          Brought       \* images the user brings along, of "own" and "blank"

ASSUME CatalogAssumption ==
  /\ DefaultDisk \in Disks
  /\ Attempts \in Nat \ {0} /\ MaxLaunches \in Nat \ {0}
  /\ "C" \in Drives /\ Drives \subseteq {"A", "C", "D"} /\ UrlDrives \subseteq Drives
  /\ Served \subseteq 0 .. 3 /\ Brought \subseteq {"own", "blank"}

\* Who starts a download: the user, or autoAttachDefaultDisks after the bookmarks
\* or after the catalog.  Each has at most one of a disk under way: for the last
\* two that is so in the code, for the user it is a bound.
Starters == {"user", "bookmarks", "catalog"}

Slots == Drives \ {"A"}             \* the drives of a hard disk
Nil == "nil"
Own == "own"                        \* an image the user picked in Files
Blank == "blank"                    \* one made by createBlankHDD, in Disks/
Web == "web"                        \* one fetched by downloadFromURL, in Disks/
ASSUME NamesAssumption == {Nil, Own, Blank, Web} \cap Disks = {}
Images == Disks \cup {Blank, Web}   \* what Disks/ can hold
Bundled == 1                        \* version of the catalog inside the app
Versions == {Bundled, 2}
Bad == 0                            \* a catalog that parses to nothing
None == 3                           \* no catalog at all

VARIABLES
  vm,        \* EmulatorViewModel, with what it keeps in UserDefaults and Disks/
  cached,    \* Disks/disks_catalog.xml
  launches,  \* launches so far
  fetching,  \* the fetch of the catalog is under way, its block not sent
  resolving, \* the bookmarks are being resolved, the block not sent
  resolved,  \* bookmarksResolved
  mainQ,     \* blocks on the main queue
  task,      \* the downloads: per disk and starter, where it is and attempts left
  url,       \* downloadFromURL: where it is
  lost       \* history, since launch: disks deleted while a download of theirs was
             \* live, or whose replacement failed after the old image was removed

vars == <<vm, cached, launches, fetching, resolving, resolved, mainQ, task, url,
          lost>>

States == {"notDownloaded", "downloading", "downloaded", "error"}
Phases == {"free", "net", "failed", "unstaged", "staged", "retry", "verify", "replace",
           "landed", "rejected"}
Transferring == {"net", "failed", "unstaged", "staged"}   \* till the handler's block has run
Free == [phase |-> "free", left |-> 0]
Fresh == [phase |-> "net", left |-> Attempts]

TaskBlock(d, k) == [kind |-> "task", disk |-> d, by |-> k]
CatalogBlock(version) == [kind |-> "catalog", version |-> version]
BookmarkBlock(drives) == [kind |-> "bookmarks", drives |-> drives]
Blocks == {TaskBlock(d, k) : d \in Disks, k \in Starters}
          \cup {CatalogBlock(version) : version \in Versions \cup {Bad, None}}
          \cup {BookmarkBlock(drives) : drives \in SUBSET Drives}
Post(block) == mainQ' = Append(mainQ, block)
RunBlock(block) == mainQ # <<>> /\ Head(mainQ) = block /\ mainQ' = Tail(mainQ)

ViewModel ==
  [path : [Drives -> Disks \cup {Nil, Own, Blank, Web}],
   bookmark : SUBSET Drives, manifest : SUBSET Drives, boot : {"A", "C"},
   files : SUBSET Images, stored : Versions \cup {None}, catalog : Versions \cup {Bad},
   state : [Disks -> States], pending : [Disks -> Slots \cup {Nil}],
   auto : SUBSET Disks]
TaskType == [Disks -> [Starters -> [phase : Phases, left : 0 .. Attempts]]]

TypeOK ==
  /\ vm \in ViewModel
  /\ cached \in Versions \cup {Bad, None} /\ launches \in 1 .. MaxLaunches
  /\ fetching \in BOOLEAN /\ resolving \in BOOLEAN /\ resolved \in BOOLEAN
  /\ mainQ \in Seq(Blocks)
  /\ task \in TaskType
  /\ url \in {"idle", "net", "failed", "done", "gone"}
  /\ lost \subseteq Disks

Live(d) == \E k \in Starters : task[d][k].phase # "free"

-----------------------------------------------------------------------------
(* Methods of the view model, as functions from vm to vm.                  *)

FloppyIn(v) == "A" \in Drives /\ v.path["A"] # Nil

\* setConfigBootDrive, as its callers call it, for a disk that enters drive
BootAfter(v, drive) ==
  IF drive = "A" \/ (drive = "C" /\ ~FloppyIn(v)) THEN drive ELSE v.boot

SetPath(v, drive, image) ==
  [v EXCEPT !.path[drive] = image, !.boot = BootAfter(v, drive)]

\* attachDiskPath for a catalog disk, and the mark in manifestDrives
AttachCatalogDisk(v, d, drive) ==
  [SetPath(v, drive, d) EXCEPT !.manifest = @ \cup {drive}]

RemoveDisks(v, drives) ==
  [v EXCEPT !.path = [dr \in Drives |-> IF dr \in drives THEN Nil ELSE @[dr]],
            !.bookmark = @ \ drives, !.manifest = @ \ drives]

\* every image in Disks/ goes, whoever made it, with the drives that hold one
DeleteAllDownloadedDisks(v) ==
  LET emptied == [v EXCEPT !.files = {},
                           !.state = [d \in Disks |-> IF d \in v.files THEN "notDownloaded"
                                                      ELSE @[d]]]
  IN [RemoveDisks(emptied, {dr \in Drives : v.path[dr] \in Images})
        EXCEPT !.manifest = {}]

\* catalogVersion in UserDefaults
StoreVersion_Once(v, version) == IF v.stored = None THEN [v EXCEPT !.stored = version] ELSE v
StoreVersion(v, version) == [v EXCEPT !.stored = version]

\* parseCatalogXML and checkCatalogVersionAndInvalidate
Parse_AlwaysInvalidates(v, version) ==
  IF version = Bad THEN [v EXCEPT !.catalog = version]
  ELSE StoreVersion(DeleteAllDownloadedDisks([v EXCEPT !.catalog = version]), version)
Parse(v, version) ==
  LET w == [v EXCEPT !.catalog = version]
  IN IF version = Bad THEN w
     ELSE IF v.stored \in {None, version} THEN StoreVersion(w, version)
     ELSE StoreVersion(DeleteAllDownloadedDisks(w), version)

RefreshDownloadStates(v) ==
  IF v.catalog = Bad THEN v
  ELSE [v EXCEPT !.state = [d \in Disks |-> IF d \in v.files THEN "downloaded" ELSE @[d]]]

\* autoAttachDefaultDisks has something to do
NeedsDefault(v, ready) ==
  ready /\ v.catalog # Bad /\ \A dr \in Drives : v.path[dr] = Nil

\* what useCatalogDisk and autoAttachDefaultDisks note before they download
Request(v, d, drive) == [v EXCEPT !.pending[d] = drive, !.state[d] = "downloading"]

AutoAttach(v, ready) ==
  IF ~NeedsDefault(v, ready) THEN v
  ELSE IF DefaultDisk \in v.files THEN AttachCatalogDisk(v, DefaultDisk, "C")
  ELSE [Request(v, DefaultDisk, "C") EXCEPT !.auto = @ \cup {DefaultDisk}]
AutoDownloads(v, ready) == NeedsDefault(v, ready) /\ DefaultDisk \notin v.files

\* a catalog has been read: parse, refresh
Read(v, version) == RefreshDownloadStates(Parse(v, version))

\* loadCachedCatalog: a cached catalog without disks gives way to the bundled one
CachedVersion == IF cached \in Versions THEN cached ELSE Bundled

\* downloadDiskWithRetry: a download of d starts
StartDownload(d, k) == task[d][k] = Free /\ task' = [task EXCEPT ![d][k] = Fresh]

\* v, then autoAttachDefaultDisks, with the download it may start
ThenAutoAttach(v, ready, k) ==
  /\ vm' = AutoAttach(v, ready)
  /\ IF AutoDownloads(v, ready) THEN StartDownload(DefaultDisk, k) ELSE UNCHANGED task

-----------------------------------------------------------------------------
(* Launch.                                                                 *)

Installed(files, stored, boot, bookmark) ==
  [path |-> [dr \in Drives |-> Nil], bookmark |-> bookmark, manifest |-> {},
   boot |-> boot, files |-> files, stored |-> stored, catalog |-> Bad,
   state |-> [d \in Disks |-> "notDownloaded"], pending |-> [d \in Disks |-> Nil],
   auto |-> {}]

\* EmulatorViewModel.init reads the catalog before the bookmarks are resolved
Init ==
  /\ vm = Read(Installed({}, None, "C", {}), Bundled)
  /\ cached = None /\ launches = 1
  /\ fetching = TRUE /\ resolving = TRUE /\ resolved = FALSE /\ mainQ = <<>>
  /\ task = [d \in Disks |-> [k \in Starters |-> Free]]
  /\ url = "idle" /\ lost = {}

\* the process ends, at any moment, and is launched again
Relaunch ==
  /\ launches < MaxLaunches /\ launches' = launches + 1
  /\ vm' = Read(Installed(vm.files, vm.stored, vm.boot, vm.bookmark), CachedVersion)
  /\ fetching' = TRUE /\ resolving' = TRUE /\ resolved' = FALSE /\ mainQ' = <<>>
  /\ task' = [d \in Disks |-> [k \in Starters |-> Free]]
  /\ url' = "idle" /\ lost' = {}
  /\ UNCHANGED cached

\* resolveBookmarksInBackground reads the bookmarks, and sends its block
ReadBookmarks ==
  /\ resolving /\ resolving' = FALSE
  /\ Post(BookmarkBlock(vm.bookmark))
  /\ UNCHANGED <<vm, cached, launches, fetching, resolved, task, url, lost>>

ApplyBookmarks(drives) ==
  /\ RunBlock(BookmarkBlock(drives)) /\ resolved' = TRUE
  /\ ThenAutoAttach([vm EXCEPT !.path = [dr \in Drives |-> IF dr \in drives THEN Own
                                                           ELSE @[dr]]], TRUE, "bookmarks")
  /\ UNCHANGED <<cached, launches, fetching, resolving, url, lost>>

\* the fetch ends with a catalog, as it is or spoilt, or with an error (None)
Fetch ==
  /\ fetching /\ fetching' = FALSE
  /\ \E outcome \in Served : Post(CatalogBlock(outcome))
  /\ UNCHANGED <<vm, cached, launches, resolving, resolved, task, url, lost>>

\* the disks whose images go from v to w although they are being downloaded
Overtaken(v, w) == {d \in Disks : d \in v.files \ w.files /\ Live(d)}

\* a catalog that has arrived is cached, whatever it is, then parsed; without one
\* the cached catalog is read again
FetchDone(outcome) ==
  /\ RunBlock(CatalogBlock(outcome))
  /\ cached' = IF outcome = None THEN cached ELSE outcome
  /\ ThenAutoAttach(Read(vm, IF outcome = None THEN CachedVersion ELSE outcome), resolved,
                    "catalog")
  /\ lost' = lost \cup Overtaken(vm, vm')
  /\ UNCHANGED <<launches, fetching, resolving, resolved, url>>

-----------------------------------------------------------------------------
(* The user, in the settings.  What a row offers depends on the state shown. *)

background == <<cached, launches, fetching, resolving, resolved, url>>
quiet == <<background, mainQ>>

UseCatalogDisk(d, drive) ==
  /\ vm.catalog # Bad /\ vm.state[d] # "downloading"
  /\ IF d \in vm.files
     THEN vm' = AttachCatalogDisk(vm, d, drive) /\ UNCHANGED task
     ELSE vm' = Request(vm, d, drive) /\ StartDownload(d, "user")
  /\ UNCHANGED <<quiet, lost>>

\* Download, or Retry after an error
DownloadDisk(d) ==
  /\ vm.catalog # Bad /\ vm.state[d] \in {"notDownloaded", "error"}
  /\ vm' = [vm EXCEPT !.state[d] = "downloading"] /\ StartDownload(d, "user")
  /\ UNCHANGED <<quiet, lost>>

\* deleteCatalogDisk detaches the drives that hold the disk
Detach_Forgets(v, d) == v
Detach(v, d) == RemoveDisks(v, {dr \in Drives : v.path[dr] = d})
DeleteCatalogDisk(d) ==
  /\ vm.catalog # Bad /\ vm.state[d] = "downloaded"
  /\ vm' = Detach([vm EXCEPT !.files = @ \ {d}, !.state[d] = "notDownloaded"], d)
  /\ lost' = lost \cup Overtaken(vm, vm')
  /\ UNCHANGED <<quiet, task>>

\* handleDiskImport and setDiskPath
ImportDisk(drive) ==
  /\ Own \in Brought
  /\ vm' = [SetPath(vm, drive, Own) EXCEPT !.bookmark = @ \cup {drive}]
  /\ UNCHANGED <<quiet, task, lost>>

RemoveDisk(drive) ==
  /\ vm.path[drive] # Nil
  /\ vm' = RemoveDisks(vm, {drive})
  /\ UNCHANGED <<quiet, task, lost>>

CreateBlankHDD ==
  /\ Blank \in Brought
  /\ vm' = [SetPath(vm, "C", Blank) EXCEPT !.files = @ \cup {Blank}, !.bookmark = @ \ {"C"}]
  /\ UNCHANGED <<quiet, task, lost>>

-----------------------------------------------------------------------------
(* One download.                                                           *)

In(d, k, phase) == task[d][k].phase = phase
Moves(d, k, phase) == task' = [task EXCEPT ![d][k].phase = phase]
Ends(d, k) == task' = [task EXCEPT ![d][k] = Free]

\* is another attempt left, and how many are left after it
MayRetry(d, k) == task[d][k].left > 1
LeftAfterRetry_Same(left) == left
LeftAfterRetry(left) == left - 1

\* the main queue's block gives the download up, in this state
GiveUp_KeepsPending(v, d, state) == [v EXCEPT !.state[d] = state]
GiveUp(v, d, state) == [v EXCEPT !.state[d] = state, !.pending[d] = Nil]

\* the observer of the transfer's progress, whose blocks precede the handler's
Progress(d, k) ==
  /\ task[d][k].phase \in Transferring /\ vm.state[d] # "downloading"
  /\ vm' = [vm EXCEPT !.state[d] = "downloading"]
  /\ UNCHANGED <<quiet, task, lost>>

\* the completion handler: an HTTP status or an error, or a file, that can be
\* staged or not; its block goes to the main queue
Complete(d, k) ==
  /\ In(d, k, "net")
  /\ \E outcome \in {"failed", "unstaged", "staged"} : Moves(d, k, outcome)
  /\ Post(TaskBlock(d, k))
  /\ UNCHANGED <<background, vm, lost>>

HandlerBlock(d, k, phase) ==
  /\ In(d, k, phase) /\ RunBlock(TaskBlock(d, k))
  /\ UNCHANGED <<background, lost>>

\* retry, unless automatic or the last attempt
TransferFailed(d, k) ==
  /\ HandlerBlock(d, k, "failed")
  /\ LET isAuto == d \in vm.auto
     IN IF MayRetry(d, k) /\ ~isAuto
        THEN Moves(d, k, "retry") /\ UNCHANGED vm
        ELSE /\ Ends(d, k)
             /\ vm' = [GiveUp(vm, d, IF isAuto THEN "notDownloaded" ELSE "error")
                         EXCEPT !.auto = @ \ {d}]

\* asyncAfter one second: downloadDiskWithRetry with one attempt less
Retry(d, k) ==
  /\ In(d, k, "retry")
  /\ task' = [task EXCEPT ![d][k].phase = "net", ![d][k].left = LeftAfterRetry(@)]
  /\ vm' = [vm EXCEPT !.state[d] = "downloading"]
  /\ UNCHANGED <<quiet, lost>>

StagingFailed(d, k) ==
  /\ HandlerBlock(d, k, "unstaged")
  /\ LET manual == [vm EXCEPT !.auto = @ \ {d}]
     IN IF MayRetry(d, k) THEN Moves(d, k, "retry") /\ vm' = manual
        ELSE Ends(d, k) /\ vm' = GiveUp(manual, d, "error")

Staged(d, k) ==
  /\ HandlerBlock(d, k, "staged") /\ Moves(d, k, "verify")
  /\ vm' = [vm EXCEPT !.auto = @ \ {d}, !.state[d] = "downloading"]

Reject(d, k) == Moves(d, k, "rejected") /\ Post(TaskBlock(d, k)) /\ UNCHANGED vm

\* SHA256 and archive: rejected, or the old image is removed
Verify(d, k) ==
  /\ In(d, k, "verify")
  /\ \/ Reject(d, k)
     \/ /\ Moves(d, k, "replace") /\ vm' = [vm EXCEPT !.files = @ \ {d}]
        /\ UNCHANGED mainQ
  /\ UNCHANGED <<background, lost>>

\* ... and the new one moved into its place
Replace(d, k) ==
  /\ In(d, k, "replace")
  /\ \/ Reject(d, k) /\ lost' = lost \cup {d}
     \/ /\ Moves(d, k, "landed") /\ vm' = [vm EXCEPT !.files = @ \cup {d}]
        /\ Post(TaskBlock(d, k)) /\ UNCHANGED lost
  /\ UNCHANGED background

\* the last block on the main queue, after a failure and after success
Rejected(d, k) ==
  /\ HandlerBlock(d, k, "rejected") /\ Ends(d, k)
  /\ vm' = GiveUp(vm, d, "error")

Landed(d, k) ==
  /\ HandlerBlock(d, k, "landed") /\ Ends(d, k)
  /\ LET done == [vm EXCEPT !.state[d] = "downloaded", !.pending[d] = Nil]
     IN vm' = IF vm.pending[d] = Nil THEN done
              ELSE AttachCatalogDisk(done, d, vm.pending[d])

-----------------------------------------------------------------------------
(* downloadFromURL.  URLSession deletes its file when the handler returns, and *)
(* the handler only sends a block to the main queue.                           *)

quietURL == <<cached, launches, fetching, resolving, resolved, mainQ, task, lost>>
URLStart == UrlDrives # {} /\ url = "idle" /\ url' = "net" /\ UNCHANGED <<vm, quietURL>>
URLFinished ==
  /\ url = "net" /\ url' \in {"failed", "done"}
  /\ UNCHANGED <<vm, quietURL>>
\* the handler returns (external)
URLHandlerReturns == url = "done" /\ url' = "gone" /\ UNCHANGED <<vm, quietURL>>
\* the block on the main queue: the old file is removed before the move
URLLanded(drive) ==
  /\ url \in {"failed", "done", "gone"} /\ url' = "idle"
  /\ vm' = CASE url = "failed" -> vm
             [] url = "done" -> SetPath([vm EXCEPT !.files = @ \cup {Web}], drive, Web)
             [] url = "gone" -> [vm EXCEPT !.files = @ \ {Web}]
  /\ UNCHANGED quietURL

-----------------------------------------------------------------------------
Launch ==
  \/ ReadBookmarks \/ \E drives \in SUBSET Drives : ApplyBookmarks(drives)
  \/ Fetch \/ \E outcome \in Served : FetchDone(outcome)
User ==
  \/ \E d \in Disks : \/ DownloadDisk(d) \/ DeleteCatalogDisk(d)
                      \/ \E drive \in Slots : UseCatalogDisk(d, drive)
  \/ \E drive \in Drives : ImportDisk(drive) \/ RemoveDisk(drive)
  \/ CreateBlankHDD \/ URLStart
Download(d, k) ==
  \/ Complete(d, k) \/ TransferFailed(d, k) \/ StagingFailed(d, k) \/ Staged(d, k)
  \/ Retry(d, k) \/ Verify(d, k) \/ Replace(d, k) \/ Rejected(d, k) \/ Landed(d, k)
URL == URLFinished \/ URLHandlerReturns \/ \E drive \in UrlDrives : URLLanded(drive)

Next == \/ Launch \/ User \/ URL \/ Relaunch
        \/ \E d \in Disks, k \in Starters : Download(d, k) \/ Progress(d, k)

\* transfers end (URLSession times out) and the queues are served
Fairness == WF_vars(Launch) /\ \A d \in Disks, k \in Starters : WF_vars(Download(d, k))
Spec == Init /\ [][Next]_vars /\ Fairness
-----------------------------------------------------------------------------
\* A wait has an end in sight: a drive waiting for a disk, and a row that shows a
\* download, have a download of that disk under way; an automatic download is
\* marked as such only while a transfer, whose end will clear the mark, goes on.
DownloadsAccounted ==
  \A d \in Disks :
    /\ vm.pending[d] # Nil \/ vm.state[d] = "downloading" => Live(d)
    /\ d \in vm.auto => \E k \in Starters : task[d][k].phase \in Transferring

\* What a drive holds and what a row shows as downloaded is in Disks/.  It can only
\* be missing while a download replaces it, after a replacement that failed, or
\* when it was deleted under a download that had already moved it.
ImagesPresent ==
  \A d \in Disks :
    vm.state[d] = "downloaded" \/ (\E drive \in Drives : vm.path[drive] = d)
      => d \in vm.files \/ Live(d) \/ d \in lost

\* The images kept are those of the catalog shown: whatever mixture of cached,
\* bundled and fetched catalogs the launches have read, the stored version is that
\* of the catalog on screen, so the next one that differs clears the images.
VersionAgrees == vm.catalog # Bad => vm.stored = vm.catalog

\* A catalog disk in a drive is marked as one (manifestDrives, line 107), by whichever
\* of the ways it got there: request, default disk, or the end of a download whose
\* drive has been given to another disk, emptied or cleared in the meantime.  (The
\* converse is false in the code: setDiskPath leaves the mark of an older disk.)
CatalogDisksMarked ==
  \A drive \in Drives : vm.path[drive] \in Disks => drive \in vm.manifest

\* Drives, rows and marks tell the truth about Disks/ (attachDiskPath, deleteCatalogDisk).
CatalogTrue == ImagesPresent /\ CatalogDisksMarked

\* An image the user made survives refetches, failed fetches, relaunches and
\* deletions: only a catalog of another version than the stored one deletes it.
CreatedDisksKept ==
  [][(Blank \in vm.files /\ Blank \notin vm'.files) => vm'.stored # vm.stored]_vars

\* Every download comes to an end: the row stops showing progress.
DownloadsSettle ==
  \A d \in Disks : vm.state[d] = "downloading" ~> vm.state[d] # "downloading"

\* ... and no drive waits for ever for a disk that was requested.
RequestsSettle == \A d \in Disks : vm.pending[d] # Nil ~> vm.pending[d] = Nil

\* What was asked for comes or is given up.
RequestsEnd == DownloadsSettle /\ RequestsSettle
=============================================================================
