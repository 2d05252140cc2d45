------------------------------ MODULE Download ------------------------------
(* The crate download route, src/src/routes/download.rs, beside the index     *)
(* route it shares the clock, the configuration, the process and the index    *)
(* files with.  Under --restrict-downloads a download is gated by what the    *)
(* index file of the crate says at that moment.                               *)
EXTENDS IndexProxy

CONSTANTS
  Downloaders,       \* connections that request crate files
  Crates,            \* the requested crate files: name and version
  RestrictDownloads  \* --restrict-downloads

ASSUME DownloadAssumption ==
  /\ Crates \subseteq Names \X Versions
  /\ RestrictDownloads \in BOOLEAN
  /\ None \notin Crates

VARIABLES
  crateFiles,  \* the crate files on disk: None, "torn" or "whole"
  download,    \* the download each connection has in flight, or None
  got          \* the last crate each connection received, or None

downloads == <<crateFiles, download, got>>

NameOf(k) == k[1]
VersionOf(k) == k[2]

DownloadPcs == {"gate", "read", "fetch", "create", "write"}

(* An admitted download remembers in window what it was gated under: 0 when   *)
(* it met no gate.                                                            *)
DownloadRequest ==
  [pc : DownloadPcs, crate : Crates, cutoff : Nat, window : Nat, gone : BOOLEAN]

Received == [crate : Crates, window : Nat, bytes : {"torn", "whole"}]

ASSUME DownloadNoneAssumption ==
  None \notin DownloadRequest /\ None \notin Received /\ None \notin {"torn", "whole"}

AtDownload(d, pc) == download[d] # None /\ download[d].pc = pc

Goes(d, r) == download' = [download EXCEPT ![d] = r]

(* crate_response.                                                            *)
Send(d, bytes) ==
  got' = [got EXCEPT ![d] = [crate  |-> download[d].crate,
                             window |-> download[d].window,
                             bytes  |-> bytes]]

-----------------------------------------------------------------------------
(* Mutant: the gate does not ask whether the crate is under a cooldown.       *)
GatedRegardless(n) == RestrictDownloads

Gated(n) == RestrictDownloads /\ CutoffFor(n) # None

(* handle_download up to its first await: the gate, or the crate cache.       *)
HandleDownload(d, k) ==
  /\ download[d] = None
  /\ LET n == NameOf(k)
         start(pc, cutoff, window) ==
           [pc |-> pc, crate |-> k, cutoff |-> cutoff, window |-> window,
            gone |-> FALSE]
     IN  \/ Gated(n) /\ Goes(d, start("gate", CutoffFor(n), ServeWindow(n)))
         \/ ~Gated(n) /\ Goes(d, start("read", 0, 0))
  /\ UNCHANGED <<vars, crateFiles, got>>

(* Mutant: a version the index says nothing of is let through.                *)
OldEnoughFailOpen(file, version, cutoff) ==
  (file # None /\ VersionPubtime(file.body, version) # None)
    => VersionPubtime(file.body, version) <= cutoff

(* download_old_enough on the index file read: no file, a file that is not    *)
(* UTF-8, a version that is absent or has no pubtime are all refusals.        *)
OldEnough(file, version, cutoff) ==
  /\ file # None /\ file.body.utf8
  /\ VersionPubtime(file.body, version) # None
  /\ VersionPubtime(file.body, version) <= cutoff

(* Mutant: the index file is looked up under the spelling of the download.    *)
IndexFileAsSpelled(d) ==
  LET n == NameOf(download[d].crate)
  IN  IF n \in DOMAIN disk THEN disk[n] ELSE None

IndexFileOf(d) == disk[FileOf[NameOf(download[d].crate)]]

Admitted(d) ==
  OldEnough(IndexFileOf(d), VersionOf(download[d].crate), download[d].cutoff)

Admit(d) ==
  /\ AtDownload(d, "gate") /\ Admitted(d)
  /\ Goes(d, [download[d] EXCEPT !.pc = "read"])
  /\ UNCHANGED <<vars, crateFiles, got>>

(* The 403.                                                                   *)
Refuse(d) ==
  /\ AtDownload(d, "gate") /\ ~Admitted(d)
  /\ Goes(d, None)
  /\ UNCHANGED <<vars, crateFiles, got>>

(* Serve the cached crate file as it is, or go and fetch it.                  *)
ReadCrate(d) ==
  /\ AtDownload(d, "read")
  /\ LET file == crateFiles[download[d].crate]
     IN  \/ /\ file # None
            /\ Send(d, file)
            /\ Goes(d, None)
         \/ /\ file = None
            /\ Goes(d, [download[d] EXCEPT !.pc = "fetch"])
            /\ UNCHANGED got
  /\ UNCHANGED <<vars, crateFiles>>

(* Upstream serves what it has published, once it has published it.           *)
Available(k) == VersionOf(k) \in PublishedLines(FileOf[NameOf(k)])

(* download_crate: the whole crate has arrived in memory, or the answer is an *)
(* error: upstream's status, 507 for an oversized crate, 502 for a failure.   *)
FetchCrate(d) ==
  /\ AtDownload(d, "fetch") /\ Available(download[d].crate)
  /\ Goes(d, [download[d] EXCEPT !.pc = "create"])
  /\ UNCHANGED <<vars, crateFiles, got>>

FetchError(d) ==
  /\ AtDownload(d, "fetch")
  /\ ~Available(download[d].crate) \/ Faults \cap {"upstream", "status"} # {}
  /\ Goes(d, None)
  /\ UNCHANGED <<vars, crateFiles, got>>

(* The write job of cache_store_crate ends; unless its handler was dropped,   *)
(* the crate is sent from memory, however the job went.                       *)
AfterCrateJob(d) ==
  /\ Goes(d, None)
  /\ IF download[d].gone THEN UNCHANGED got ELSE Send(d, "whole")

CreateCrate(d) ==
  /\ AtDownload(d, "create")
  /\ \/ /\ crateFiles' = [crateFiles EXCEPT ![download[d].crate] = "torn"]
        /\ Goes(d, [download[d] EXCEPT !.pc = "write"])
        /\ UNCHANGED got
     \/ /\ "disk" \in Faults
        /\ AfterCrateJob(d)
        /\ UNCHANGED crateFiles
  /\ UNCHANGED vars

(* Every writer of a crate file writes the same bytes.                        *)
WriteCrate(d) ==
  /\ AtDownload(d, "write")
  /\ \/ crateFiles' = [crateFiles EXCEPT ![download[d].crate] = "whole"]
     \/ "disk" \in Faults /\ UNCHANGED crateFiles
  /\ AfterCrateJob(d)
  /\ UNCHANGED vars

(* Mutant: dropping the handler aborts its write between two system calls.    *)
CancelAbortsStore(d) ==
  /\ "cancel" \in Faults
  /\ download[d] # None
  /\ Goes(d, None)
  /\ UNCHANGED <<vars, crateFiles, got>>

(* The client disconnects; a write job already started runs to its end.       *)
CancelDownload(d) ==
  /\ "cancel" \in Faults
  /\ download[d] # None /\ ~download[d].gone
  /\ Goes(d, IF download[d].pc \in WriteJob
             THEN [download[d] EXCEPT !.gone = TRUE] ELSE None)
  /\ UNCHANGED <<vars, crateFiles, got>>

-----------------------------------------------------------------------------
(* One process serves both routes.                                            *)

(* A restart ends the downloads in flight; a wiped cache directory takes the  *)
(* crate files with the index files.                                          *)
RestartAll ==
  /\ Restart
  /\ download' = [d \in Downloaders |-> None]
  /\ \/ UNCHANGED <<disk, crateFiles>>
     \/ /\ "wipe" \in Faults
        /\ disk' = EmptyMap(Files) /\ crateFiles' = EmptyMap(Crates)
  /\ UNCHANGED got

DownloadInit ==
  /\ Init
  /\ crateFiles = EmptyMap(Crates)
  /\ download = [d \in Downloaders |-> None]
  /\ got = [d \in Downloaders |-> None]

DownloadStep(d) ==
  \/ Admit(d) \/ Refuse(d) \/ ReadCrate(d) \/ FetchCrate(d) \/ FetchError(d)
  \/ CreateCrate(d) \/ WriteCrate(d)

DownloadNext ==
  \/ Operate /\ UNCHANGED downloads
  \/ \E d \in Downloaders : \/ \E k \in Crates : HandleDownload(d, k)
                            \/ DownloadStep(d)
                            \/ CancelDownload(d)
  \/ RestartAll

DownloadSpec == DownloadInit /\ [][DownloadNext]_<<vars, downloads>>

(* On top of the index route's fairness: downloads in flight move on, and     *)
(* every connection asks for every crate again and again.                     *)
DownloadFairness ==
  /\ Fairness
  /\ \A d \in Downloaders : WF_downloads(DownloadStep(d))
  /\ \A d \in Downloaders, k \in Crates : SF_downloads(HandleDownload(d, k))

DownloadLiveSpec == DownloadSpec /\ DownloadFairness

-----------------------------------------------------------------------------
(* Properties.                                                                *)

(* Every variable keeps its type; a file being written has been created.      *)
DownloadTypeOK ==
  /\ crateFiles \in [Crates -> {"torn", "whole", None}]
  /\ download \in [Downloaders -> DownloadRequest \cup {None}]
  /\ got \in [Downloaders -> Received \cup {None}]
  /\ \A d \in Downloaders :
       AtDownload(d, "write") => crateFiles[download[d].crate] # None

(* A version's publication is a whole window in the past.                     *)
KnownOld(k, w) ==
  PubTime[VersionOf(k)] # None /\ PubTime[VersionOf(k)] <= CutoffFrom(now, w)

(* With --restrict-downloads no connection ever received a crate file that    *)
(* was younger than the window it was gated under, or of unknown age: not     *)
(* from a crate cache filled under an older window or none, and not because   *)
(* the index file was missing, torn or replaced while the gate read it.       *)
DownloadsOldEnough ==
  \A d \in Downloaders :
    got[d] # None /\ got[d].window > 0 => KnownOld(got[d].crate, got[d].window)

(* Until the process is restarted, only a write that is still running may     *)
(* have a crate file truncated: two downloads of the same crate, and clients  *)
(* that hang up, leave it whole.                                              *)
CrateFilesWholeBetweenWrites ==
  restarts = 0 =>
    \A k \in Crates :
      crateFiles[k] = "torn" =>
        \E d \in Downloaders : AtDownload(d, "write") /\ download[d].crate = k

(* A truncated crate file that nobody is writing.                             *)
LeftTorn(k) ==
  /\ crateFiles[k] = "torn"
  /\ ~\E d \in Downloaders : AtDownload(d, "write") /\ download[d].crate = k

(* Whatever else goes on, only two things can leave a crate file torn under   *)
(* the downloads that follow: the process dies while it is truncated, or the  *)
(* call that writes it fails.  Downloads that overlap, hang up, or meet a     *)
(* failure of another call never do, before or after a restart.               *)
OnlyCrashesTearCrates ==
  [][\A k \in Crates :
       ~LeftTorn(k) /\ LeftTorn(k)' =>
         \/ RestartAll
         \/ \E d \in Downloaders :
              WriteCrate(d) /\ download[d].crate = k /\ UNCHANGED crateFiles
    ]_<<vars, downloads>>

(* What the README says of crate bytes: served verbatim, never modified.      *)
CratesServedVerbatim ==
  \A d \in Downloaders : got[d] # None => got[d].bytes = "whole"

(* What src/src/routes/download.rs says of its gate: cargo, which asks for    *)
(* the index and then for the crate, and asks again when it is refused, gets  *)
(* the crate; the gate is only ever in the way of a version that is too new.  *)
DownloadsSucceed ==
  \A d \in Downloaders : <>(got[d] # None)

-----------------------------------------------------------------------------
(* The inductive invariant behind DownloadsOldEnough: past the gate, the      *)
(* crate is old enough.                                                       *)
DownloadInv ==
  \A d \in Downloaders :
    /\ got[d] # None /\ got[d].window > 0
         => KnownOld(got[d].crate, got[d].window)
    /\ download[d] # None /\ download[d].window > 0
         => IF download[d].pc = "gate"
            THEN download[d].cutoff <= CutoffFrom(now, download[d].window)
            ELSE KnownOld(download[d].crate, download[d].window)
=============================================================================
