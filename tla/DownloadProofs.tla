--------------------------- MODULE DownloadProofs ---------------------------
(* Theorems about Download, for every value of its constants.                 *)
EXTENDS Download, WholenessProofs

-----------------------------------------------------------------------------
(* The index route behaves the same whatever downloads run beside it.         *)

(* The index route starts as it does alone.                                   *)
LEMMA DownloadInitIsInit == DownloadInit => Init
BY DEF DownloadInit

(* A step of a download changes nothing the index route owns.                 *)
LEMMA DownloadStepStutters ==
  ASSUME NEW d \in Downloaders,
         \/ \E k \in Crates : HandleDownload(d, k)
         \/ DownloadStep(d)
         \/ CancelDownload(d)
  PROVE  UNCHANGED vars
BY DEF HandleDownload, DownloadStep, CancelDownload, Admit, Refuse, ReadCrate,
       FetchCrate, FetchError, CreateCrate, WriteCrate

(* Every step of both routes is a step or a stutter of the index route.       *)
LEMMA DownloadNextIsNext ==
  [DownloadNext]_<<vars, downloads>> => [Next]_vars
<1> SUFFICES ASSUME [DownloadNext]_<<vars, downloads>>
             PROVE  [Next]_vars
  OBVIOUS
<1>1. CASE Operate /\ UNCHANGED downloads
  BY <1>1 DEF Next
<1>2. CASE \E d \in Downloaders : \/ \E k \in Crates : HandleDownload(d, k)
                                  \/ DownloadStep(d)
                                  \/ CancelDownload(d)
  BY <1>2, DownloadStepStutters
<1>3. CASE RestartAll
  BY <1>3 DEF RestartAll, Next
<1>4. CASE UNCHANGED <<vars, downloads>>
  BY <1>4
<1> QED
  BY <1>1, <1>2, <1>3, <1>4 DEF DownloadNext

(* The proxy with both routes implements the index route alone: downloads     *)
(* never disturb what index clients see.                                      *)
THEOREM DownloadImplementsIndexProxy == DownloadSpec => Spec
BY DownloadInitIsInit, DownloadNextIsNext, PTL DEF DownloadSpec, Spec

(* So the age gate of the index holds beside downloads too.                   *)
THEOREM DownloadAgeGate == DownloadSpec => [](TypeOK /\ AgeInv /\ NoTooNewVersion)
BY DownloadImplementsIndexProxy, TypeCorrect, AgeInvariant, AgeGateHolds, PTL

-----------------------------------------------------------------------------
(* Type correctness.                                                          *)

(* The types hold initially.                                                  *)
LEMMA DownloadInitType == DownloadInit => DownloadTypeOK
BY DownloadNoneAssumption DEF DownloadInit, DownloadTypeOK, EmptyMap, AtDownload

(* A download that meets the gate is gated by the cutoff of its window.       *)
LEMMA CutoffOfGate ==
  ASSUME TypeOK, NEW n \in Names, CutoffFor(n) # None
  PROVE  /\ CutoffFor(n) \in Nat /\ ServeWindow(n) \in Nat
         /\ CutoffFor(n) <= CutoffFrom(now, ServeWindow(n))
BY CutoffOfWindow, ServeWindowType

(* A step of connection d to a well-typed request or to none.                 *)
LEMMA GoesType ==
  ASSUME DownloadTypeOK, NEW d \in Downloaders,
         NEW r \in DownloadRequest \cup {None}, Goes(d, r)
  PROVE  /\ download' \in [Downloaders -> DownloadRequest \cup {None}]
         /\ download'[d] = r
         /\ \A e \in Downloaders : e # d => download'[e] = download[e]
BY DEF Goes, DownloadTypeOK

(* Sending a crate keeps the type of what connections received.               *)
LEMMA SendType ==
  ASSUME DownloadTypeOK, NEW d \in Downloaders, download[d] # None,
         NEW bytes \in {"torn", "whole"}, Send(d, bytes)
  PROVE  /\ got' \in [Downloaders -> Received \cup {None}]
         /\ got'[d] = [crate  |-> download[d].crate,
                       window |-> download[d].window,
                       bytes  |-> bytes]
         /\ \A e \in Downloaders : e # d => got'[e] = got[e]
<1>1. download[d] \in DownloadRequest
  BY DEF DownloadTypeOK
<1> QED
  BY <1>1 DEF Send, DownloadTypeOK, DownloadRequest, Received

(* A new download keeps the types.                                            *)
LEMMA HandleDownloadType ==
  ASSUME TypeOK, DownloadTypeOK, NEW d \in Downloaders, NEW k \in Crates,
         HandleDownload(d, k)
  PROVE  DownloadTypeOK'
<1> DEFINE n == NameOf(k)
           request(pc, cutoff, window) ==
             [pc |-> pc, crate |-> k, cutoff |-> cutoff, window |-> window,
              gone |-> FALSE]
<1>1. n \in Names
  BY DownloadAssumption DEF NameOf
<1>2. PICK r \in DownloadRequest : Goes(d, r) /\ r.pc # "write"
  <2>1. CASE Gated(n) /\ Goes(d, request("gate", CutoffFor(n), ServeWindow(n)))
    <3>1. request("gate", CutoffFor(n), ServeWindow(n)) \in DownloadRequest
      BY <1>1, <2>1, CutoffOfGate DEF Gated, DownloadRequest, DownloadPcs
    <3> QED
      BY <2>1, <3>1
  <2>2. CASE Goes(d, request("read", 0, 0))
    <3>1. request("read", 0, 0) \in DownloadRequest
      BY DEF DownloadRequest, DownloadPcs
    <3> QED
      BY <2>2, <3>1
  <2> QED
    BY <2>1, <2>2 DEF HandleDownload
<1>3. crateFiles' = crateFiles /\ got' = got
  BY DEF HandleDownload
<1> QED
  BY <1>2, <1>3, GoesType DEF DownloadTypeOK, AtDownload

(* The steps that read, ask upstream or give up.                              *)
LEMMA QuietDownloadType ==
  ASSUME DownloadTypeOK, NEW d \in Downloaders,
         \/ Admit(d) \/ Refuse(d) \/ FetchCrate(d) \/ FetchError(d)
         \/ CancelDownload(d) \/ ReadCrate(d)
  PROVE  DownloadTypeOK'
<1>1. crateFiles' = crateFiles
  BY DEF Admit, Refuse, FetchCrate, FetchError, CancelDownload, ReadCrate
<1>2. download[d] \in DownloadRequest
  BY DEF Admit, Refuse, FetchCrate, FetchError, CancelDownload, ReadCrate,
         AtDownload, DownloadTypeOK
<1>3. PICK r \in DownloadRequest \cup {None} :
        /\ Goes(d, r)
        /\ r # None => r.crate = download[d].crate
                       /\ (r.pc = "write" => download[d].pc = "write")
  <2>1. \A pc \in DownloadPcs :
          LET r == [download[d] EXCEPT !.pc = pc]
          IN  r \in DownloadRequest /\ r.crate = download[d].crate /\ r.pc = pc
    BY <1>2 DEF DownloadRequest
  <2>2. LET r == [download[d] EXCEPT !.gone = TRUE]
        IN  /\ r \in DownloadRequest /\ r.crate = download[d].crate
            /\ r.pc = download[d].pc
    BY <1>2 DEF DownloadRequest
  <2> QED
    BY <2>1, <2>2 DEF Admit, Refuse, FetchCrate, FetchError, CancelDownload,
                      ReadCrate, DownloadPcs
<1>4. got' \in [Downloaders -> Received \cup {None}]
  <2>1. CASE got' = got
    BY <2>1 DEF DownloadTypeOK
  <2>2. CASE ReadCrate(d) /\ crateFiles[download[d].crate] # None
    <3>1. download[d] # None /\ crateFiles[download[d].crate] \in {"torn", "whole"}
      BY <1>2, <2>2, DownloadNoneAssumption DEF DownloadTypeOK, DownloadRequest
    <3> QED
      BY <2>2, <3>1, SendType DEF ReadCrate
  <2> QED
    BY <2>1, <2>2 DEF Admit, Refuse, FetchCrate, FetchError, CancelDownload,
                      ReadCrate
<1> QED
  BY <1>1, <1>2, <1>3, <1>4, GoesType, DownloadNoneAssumption
     DEF DownloadTypeOK, AtDownload

(* The two system calls of the crate write keep the types.                    *)
LEMMA CrateJobType ==
  ASSUME DownloadTypeOK, NEW d \in Downloaders, CreateCrate(d) \/ WriteCrate(d)
  PROVE  DownloadTypeOK'
<1>1. download[d] \in DownloadRequest /\ download[d] # None
  BY DownloadNoneAssumption DEF CreateCrate, WriteCrate, AtDownload, DownloadTypeOK
<1>2. /\ crateFiles' \in [Crates -> {"torn", "whole", None}]
      /\ \A k \in Crates : crateFiles[k] # None => crateFiles'[k] # None
  BY DownloadNoneAssumption DEF CreateCrate, WriteCrate, DownloadTypeOK
<1>3. CASE AfterCrateJob(d)
  <2>1. got' \in [Downloaders -> Received \cup {None}]
    BY <1>1, <1>3, SendType DEF AfterCrateJob, DownloadTypeOK
  <2>2. Goes(d, None)
    BY <1>3 DEF AfterCrateJob
  <2> QED
    BY <1>2, <2>1, <2>2, GoesType DEF DownloadTypeOK, AtDownload, DownloadRequest
<1>4. CASE /\ crateFiles' = [crateFiles EXCEPT ![download[d].crate] = "torn"]
           /\ Goes(d, [download[d] EXCEPT !.pc = "write"])
           /\ UNCHANGED got
  <2> DEFINE r == [download[d] EXCEPT !.pc = "write"]
  <2>1. r \in DownloadRequest /\ r.crate = download[d].crate
    BY <1>1 DEF DownloadRequest, DownloadPcs
  <2>2. crateFiles'[r.crate] # None
    BY <1>1, <1>4, <2>1, DownloadNoneAssumption DEF DownloadTypeOK, DownloadRequest
  <2>3. Goes(d, r)
    BY <1>4
  <2> HIDE DEF r
  <2> QED
    BY <1>2, <1>4, <2>1, <2>2, <2>3, GoesType
       DEF DownloadTypeOK, AtDownload, DownloadRequest
<1> QED
  BY <1>3, <1>4 DEF CreateCrate, WriteCrate

(* A restart keeps the types.                                                 *)
LEMMA RestartAllType ==
  ASSUME DownloadTypeOK, RestartAll
  PROVE  DownloadTypeOK'
BY DEF RestartAll, DownloadTypeOK, EmptyMap, AtDownload

(* Every step keeps the types.                                                *)
LEMMA DownloadNextType ==
  TypeOK /\ DownloadTypeOK /\ [DownloadNext]_<<vars, downloads>> => DownloadTypeOK'
<1> SUFFICES ASSUME TypeOK, DownloadTypeOK, [DownloadNext]_<<vars, downloads>>
             PROVE  DownloadTypeOK'
  OBVIOUS
<1>1. CASE UNCHANGED downloads
  BY <1>1 DEF downloads, DownloadTypeOK, AtDownload
<1> QED
  BY <1>1, HandleDownloadType, QuietDownloadType, CrateJobType, RestartAllType
     DEF DownloadNext, DownloadStep

(* Every variable of the download route keeps its type, and a crate file that *)
(* is being written has been created.                                         *)
THEOREM DownloadTypeCorrect == DownloadSpec => []DownloadTypeOK
BY DownloadInitType, DownloadNextType, DownloadAgeGate, PTL DEF DownloadSpec

-----------------------------------------------------------------------------
(* The download gate.                                                         *)

(* Time passing moves a window's cutoff forward only.                         *)
LEMMA CutoffLater ==
  ASSUME NEW t \in Nat, NEW u \in Nat, t <= u, NEW w \in Nat, w > 0
  PROVE  /\ CutoffFrom(t, w) \in Nat /\ CutoffFrom(u, w) \in Nat
         /\ CutoffFrom(t, w) <= CutoffFrom(u, w)
BY DEF CutoffFrom

(* What is old enough stays old enough.                                       *)
LEMMA KnownOldLater ==
  ASSUME NEW t \in Nat, NEW u \in Nat, t <= u, NEW w \in Nat, w > 0,
         NEW p \in Nat, p <= CutoffFrom(t, w)
  PROVE  p <= CutoffFrom(u, w)
BY CutoffLater

(* What DownloadInv says of one connection at time t.                         *)
ConnectionInv(d, t) ==
  /\ got[d] # None /\ got[d].window > 0
       => /\ PubTime[VersionOf(got[d].crate)] # None
          /\ PubTime[VersionOf(got[d].crate)] <= CutoffFrom(t, got[d].window)
  /\ download[d] # None /\ download[d].window > 0
       => IF download[d].pc = "gate"
          THEN download[d].cutoff <= CutoffFrom(t, download[d].window)
          ELSE /\ PubTime[VersionOf(download[d].crate)] # None
               /\ PubTime[VersionOf(download[d].crate)]
                    <= CutoffFrom(t, download[d].window)

(* DownloadInv says the same thing of every connection.                       *)
LEMMA InvByConnection == DownloadInv <=> \A d \in Downloaders : ConnectionInv(d, now)
BY DEF DownloadInv, ConnectionInv, KnownOld

(* The surroundings: time may pass, the windows gated under stay.             *)
LEMMA DownloadInvLater ==
  ASSUME TypeOK, TypeOK', DownloadTypeOK, DownloadInv, now <= now',
         UNCHANGED downloads
  PROVE  DownloadInv'
<1> SUFFICES ASSUME NEW d \in Downloaders PROVE ConnectionInv(d, now)'
  BY DEF DownloadInv, ConnectionInv, KnownOld
<1>1. ConnectionInv(d, now)
  BY InvByConnection
<1>2. now \in Nat /\ now' \in Nat
  BY DEF TypeOK
<1>3. \A k \in Crates : PubTime[VersionOf(k)] \in Nat \cup {None}
  BY DownloadAssumption, PubTimeAssumption DEF VersionOf
<1>4. got' = got /\ download' = download
  BY DEF downloads
<1>5. /\ got[d] # None => got[d].crate \in Crates /\ got[d].window \in Nat
      /\ download[d] # None => /\ download[d].crate \in Crates
                               /\ download[d].window \in Nat
                               /\ download[d].cutoff \in Nat
  BY DEF DownloadTypeOK, Received, DownloadRequest
<1> QED
  BY <1>1, <1>2, <1>3, <1>4, <1>5, KnownOldLater DEF ConnectionInv

(* A step of one connection at an unchanged time.                             *)
LEMMA OneConnection ==
  ASSUME DownloadInv, NEW d \in Downloaders, now' = now,
         \A e \in Downloaders : e # d => download'[e] = download[e] /\ got'[e] = got[e],
         ConnectionInv(d, now)'
  PROVE  DownloadInv'
<1>1. \A e \in Downloaders : ConnectionInv(e, now)
  BY InvByConnection
<1>2. \A e \in Downloaders : ConnectionInv(e, now)'
  BY <1>1 DEF ConnectionInv
<1> QED
  BY <1>2 DEF DownloadInv, ConnectionInv, KnownOld

(* A new download is gated by a cutoff of its window.                         *)
LEMMA HandleDownloadInv ==
  ASSUME TypeOK, DownloadTypeOK, DownloadInv, NEW d \in Downloaders,
         NEW k \in Crates, HandleDownload(d, k)
  PROVE  DownloadInv'
<1> DEFINE n == NameOf(k)
<1>1. n \in Names
  BY DownloadAssumption DEF NameOf
<1>2. now' = now /\ got' = got
  BY DEF HandleDownload, vars
<1>3. \A e \in Downloaders : e # d => download'[e] = download[e]
  BY DEF HandleDownload, Goes, DownloadTypeOK
<1>4. ConnectionInv(d, now)
  BY InvByConnection
<1>5. CASE /\ Gated(n)
           /\ Goes(d, [pc |-> "gate", crate |-> k, cutoff |-> CutoffFor(n),
                       window |-> ServeWindow(n), gone |-> FALSE])
  <2>1. CutoffFor(n) <= CutoffFrom(now, ServeWindow(n)) /\ CutoffFor(n) \in Nat
    BY <1>1, <1>5, CutoffOfGate DEF Gated
  <2>2. /\ download'[d].pc = "gate" /\ download'[d].cutoff = CutoffFor(n)
        /\ download'[d].window = ServeWindow(n)
    BY <1>5 DEF Goes, DownloadTypeOK
  <2>3. ConnectionInv(d, now)'
    BY <1>2, <1>4, <2>1, <2>2 DEF ConnectionInv
  <2> QED
    BY <1>2, <1>3, <2>3, OneConnection
<1>6. CASE Goes(d, [pc |-> "read", crate |-> k, cutoff |-> 0, window |-> 0,
                    gone |-> FALSE])
  <2>1. download'[d].window = 0
    BY <1>6 DEF Goes, DownloadTypeOK
  <2>2. ConnectionInv(d, now)'
    BY <1>2, <1>4, <2>1 DEF ConnectionInv
  <2> QED
    BY <1>2, <1>3, <2>2, OneConnection
<1> QED
  BY <1>5, <1>6 DEF HandleDownload

(* The gate lets a crate through on the pubtime of the very version asked.    *)
LEMMA AdmitInv ==
  ASSUME TypeOK, DownloadTypeOK, DownloadInv, NEW d \in Downloaders, Admit(d)
  PROVE  DownloadInv'
<1>1. download[d] \in DownloadRequest /\ download[d] # None /\ download[d].pc = "gate"
  BY DEF Admit, AtDownload, DownloadTypeOK
<1>2. /\ now' = now /\ got' = got
      /\ \A e \in Downloaders : e # d => download'[e] = download[e]
  BY DEF Admit, vars, Goes, DownloadTypeOK
<1>3. /\ download'[d].pc = "read" /\ download'[d].crate = download[d].crate
      /\ download'[d].window = download[d].window
  BY <1>1 DEF Admit, Goes, DownloadTypeOK, DownloadRequest
<1>4. /\ PubTime[VersionOf(download[d].crate)] # None
      /\ PubTime[VersionOf(download[d].crate)] <= download[d].cutoff
  BY DEF Admit, Admitted, OldEnough, VersionPubtime
<1>5. /\ download[d].cutoff \in Nat /\ download[d].window \in Nat
      /\ PubTime[VersionOf(download[d].crate)] \in Nat
  BY <1>1, <1>4, DownloadAssumption, PubTimeAssumption
     DEF DownloadRequest, VersionOf
<1>6. now \in Nat
  BY DEF TypeOK
<1>7. ConnectionInv(d, now)
  BY InvByConnection
<1>8. download[d].window > 0 => CutoffFrom(now, download[d].window) \in Nat
  BY <1>5, <1>6, CutoffLater
<1>9. ConnectionInv(d, now)'
  BY <1>1, <1>2, <1>3, <1>4, <1>5, <1>7, <1>8 DEF ConnectionInv
<1> QED
  BY <1>2, <1>9, OneConnection

(* Past the gate a crate stays what it was when it was admitted.              *)
LEMMA PastGateInv ==
  ASSUME TypeOK, DownloadTypeOK, DownloadInv, NEW d \in Downloaders,
         \/ Refuse(d) \/ FetchCrate(d) \/ FetchError(d) \/ CancelDownload(d)
         \/ ReadCrate(d) \/ CreateCrate(d) \/ WriteCrate(d)
  PROVE  DownloadInv'
<1>1. download[d] \in DownloadRequest /\ download[d] # None
  BY DownloadNoneAssumption
     DEF Refuse, FetchCrate, FetchError, CancelDownload, ReadCrate, CreateCrate,
         WriteCrate, AtDownload, DownloadTypeOK
<1>2. now' = now
  BY DEF vars, Refuse, FetchCrate, FetchError, CancelDownload, ReadCrate,
         CreateCrate, WriteCrate
<1>3. PICK r \in DownloadRequest \cup {None} :
        /\ Goes(d, r)
        /\ r # None => /\ download[d].pc # "gate" /\ r.pc # "gate"
                       /\ r.crate = download[d].crate
                       /\ r.window = download[d].window
  <2>1. \A pc \in DownloadPcs :
          LET r == [download[d] EXCEPT !.pc = pc]
          IN  /\ r \in DownloadRequest /\ r.pc = pc
              /\ r.crate = download[d].crate /\ r.window = download[d].window
    BY <1>1 DEF DownloadRequest
  <2>2. LET r == [download[d] EXCEPT !.gone = TRUE]
        IN  /\ r \in DownloadRequest /\ r.pc = download[d].pc
            /\ r.crate = download[d].crate /\ r.window = download[d].window
    BY <1>1 DEF DownloadRequest
  <2>3. CASE FetchCrate(d) \/ ReadCrate(d) \/ CreateCrate(d)
    BY <2>1, <2>3 DEF FetchCrate, ReadCrate, CreateCrate, AfterCrateJob,
                      AtDownload, DownloadPcs
  <2>4. CASE Refuse(d) \/ FetchError(d) \/ WriteCrate(d)
    BY <2>4 DEF Refuse, FetchError, WriteCrate, AfterCrateJob
  <2>5. CASE CancelDownload(d)
    BY <2>2, <2>5 DEF CancelDownload, WriteJob
  <2> QED
    BY <2>3, <2>4, <2>5
<1>4. \/ got' = got
      \/ /\ download[d].pc # "gate"
         /\ \E bytes : Send(d, bytes)
  BY DEF Refuse, FetchCrate, FetchError, CancelDownload, ReadCrate,
         CreateCrate, WriteCrate, AfterCrateJob, AtDownload
<1>5. /\ \A e \in Downloaders : e # d => download'[e] = download[e] /\ got'[e] = got[e]
      /\ download'[d] = r
      /\ got'[d] = got[d] \/ /\ download[d].pc # "gate"
                             /\ got'[d].crate = download[d].crate
                             /\ got'[d].window = download[d].window
  BY <1>3, <1>4 DEF Goes, Send, DownloadTypeOK
<1>6. ConnectionInv(d, now)
  BY InvByConnection
<1>7. ConnectionInv(d, now)'
  BY <1>1, <1>2, <1>3, <1>5, <1>6 DEF ConnectionInv
<1> QED
  BY <1>2, <1>5, <1>7, OneConnection

(* No step moves the clock back.                                              *)
LEMMA TimeStep ==
  ASSUME TypeOK, [Next]_vars
  PROVE  now <= now'
<1>1. now \in Nat
  BY DEF TypeOK
<1>2. ASSUME NEW c \in Clients,
             \/ \E n \in Names : \E h \in Conditions(copy[c][n]) : HandleIndex(c, n, h)
             \/ Progress(c) \/ ReceiveFailure(c) \/ ForwardStatus(c)
             \/ FilterPanic(c) \/ Cancel(c)
      PROVE  now' = now
  BY <1>2 DEF environment, HandleIndex, Progress, WarmRead, FindIndex,
              UpstreamAnswer, ReceiveBody, ReceiveNotModified, CreateFile,
              WriteFile, TouchFile, StoreRefreshed, ReadBack, LostFile,
              StaleRead, IndexOk, Filter, ReceiveFailure, ForwardStatus,
              FilterPanic, Cancel
<1>3. CASE Tick \/ SetBack
  BY <1>1, <1>3, LimitsAssumption DEF Tick, SetBack, TypeOK
<1>4. CASE Restart
  BY <1>1, <1>4 DEF Restart
<1>5. ASSUME NEW n, Expire(n)
      PROVE  now' = now
  BY <1>5 DEF Expire, environment
<1>6. ASSUME NEW f, Publish(f)
      PROVE  now' = now
  BY <1>6 DEF Publish
<1>7. CASE UNCHANGED vars
  BY <1>1, <1>7 DEF vars
<1> QED
  BY <1>1, <1>2, <1>3, <1>4, <1>5, <1>6, <1>7 DEF Next, Operate

(* Every step keeps DownloadInv.                                              *)
LEMMA DownloadNextInv ==
  TypeOK /\ TypeOK' /\ DownloadTypeOK /\ DownloadInv
    /\ [DownloadNext]_<<vars, downloads>> => DownloadInv'
<1> SUFFICES ASSUME TypeOK, TypeOK', DownloadTypeOK, DownloadInv,
                    [DownloadNext]_<<vars, downloads>>
             PROVE  DownloadInv'
  OBVIOUS
<1>1. CASE UNCHANGED downloads
  <2>1. now <= now'
    BY DownloadNextIsNext, TimeStep
  <2> QED
    BY <1>1, <2>1, DownloadInvLater
<1>2. CASE RestartAll
  <2>1. /\ now' = now /\ got' = got
        /\ \A d \in Downloaders : download'[d] = None
    BY <1>2 DEF RestartAll, Restart
  <2> QED
    BY <2>1 DEF DownloadInv, KnownOld
<1> QED
  BY <1>1, <1>2, HandleDownloadInv, AdmitInv, PastGateInv
     DEF DownloadNext, DownloadStep, downloads

(* A download waiting at the gate has a cutoff no later than its window's,    *)
(* and past the gate its crate is old enough and stays so.                    *)
THEOREM DownloadInvariant == DownloadSpec => []DownloadInv
<1>1. DownloadInit => DownloadInv
  BY DEF DownloadInit, DownloadInv
<1> QED
  BY <1>1, DownloadNextInv, DownloadTypeCorrect, DownloadAgeGate, PTL
     DEF DownloadSpec

(* Under --restrict-downloads no connection ever receives a crate that was    *)
(* younger than the window it was gated under, or of unknown age.             *)
THEOREM DownloadGateHolds == DownloadSpec => []DownloadsOldEnough
<1>1. DownloadInv => DownloadsOldEnough
  BY DEF DownloadInv, DownloadsOldEnough
<1> QED
  BY <1>1, DownloadInvariant, PTL

-----------------------------------------------------------------------------
(* Crate files.                                                               *)

(* A step of one download that leaves the file alone leaves it to whoever is  *)
(* writing it.                                                                *)
LEMMA QuietCrateFile ==
  ASSUME DownloadTypeOK, NEW k \in Crates, ~LeftTorn(k),
         NEW d \in Downloaders, UNCHANGED crateFiles, ~AtDownload(d, "write"),
         NEW r, Goes(d, r)
  PROVE  ~LeftTorn(k)'
BY DEF LeftTorn, AtDownload, Goes, DownloadTypeOK

(* A truncated file is being written by whoever truncated it.                 *)
LEMMA CreatedCrateFile ==
  ASSUME DownloadTypeOK, NEW k \in Crates, ~LeftTorn(k),
         NEW d \in Downloaders, CreateCrate(d)
  PROVE  ~LeftTorn(k)'
<1>1. AtDownload(d, "create") /\ download[d] \in DownloadRequest
  BY DEF CreateCrate, AtDownload, DownloadTypeOK
<1>2. CASE crateFiles' = [crateFiles EXCEPT ![download[d].crate] = "torn"]
           /\ download' = [download EXCEPT ![d] = [@ EXCEPT !.pc = "write"]]
  <2>1. /\ AtDownload(d, "write")' /\ download'[d].crate = download[d].crate
        /\ \A e \in Downloaders : e # d => download'[e] = download[e]
    BY <1>1, <1>2, DownloadNoneAssumption
       DEF DownloadTypeOK, DownloadRequest, DownloadPcs, AtDownload
  <2>2. CASE k = download[d].crate
    BY <2>1, <2>2 DEF LeftTorn
  <2>3. CASE k # download[d].crate
    <3>1. crateFiles'[k] = crateFiles[k]
      BY <1>2, <2>3 DEF DownloadTypeOK
    <3>2. ~ AtDownload(d, "write")
      BY <1>1 DEF AtDownload
    <3> QED
      BY <2>1, <3>1, <3>2 DEF LeftTorn, AtDownload
  <2> QED
    BY <2>2, <2>3
<1>3. CASE UNCHANGED crateFiles /\ Goes(d, None)
  BY <1>1, <1>3, QuietCrateFile DEF AtDownload
<1> QED
  BY <1>2, <1>3 DEF CreateCrate, AfterCrateJob, Goes

(* A write makes the file whole, and ends the writes of no other download.    *)
LEMMA WrittenCrateFile ==
  ASSUME DownloadTypeOK, NEW k \in Crates, ~LeftTorn(k),
         NEW d \in Downloaders, WriteCrate(d),
         ~(download[d].crate = k /\ UNCHANGED crateFiles)
  PROVE  ~LeftTorn(k)'
<1>1. /\ AtDownload(d, "write") /\ download[d] \in DownloadRequest
      /\ download' = [download EXCEPT ![d] = None]
  BY DEF WriteCrate, AfterCrateJob, Goes, AtDownload, DownloadTypeOK
<1>2. \/ crateFiles' = [crateFiles EXCEPT ![download[d].crate] = "whole"]
      \/ UNCHANGED crateFiles
  BY DEF WriteCrate
<1>3. CASE k = download[d].crate
  <2>1. crateFiles'[k] = "whole"
    BY <1>2, <1>3 DEF DownloadTypeOK
  <2> QED
    BY <2>1 DEF LeftTorn
<1>4. CASE k # download[d].crate
  <2>1. crateFiles'[k] = crateFiles[k]
    BY <1>2, <1>4 DEF DownloadTypeOK
  <2>2. \A e \in Downloaders :
          AtDownload(e, "write") /\ download[e].crate = k
            => AtDownload(e, "write")' /\ download'[e].crate = k
    BY <1>1, <1>4 DEF AtDownload, DownloadTypeOK
  <2> QED
    BY <2>1, <2>2 DEF LeftTorn
<1> QED
  BY <1>3, <1>4

(* A client that hangs up leaves its write running.                           *)
LEMMA AbandonedCrateFile ==
  ASSUME DownloadTypeOK, NEW k \in Crates, ~LeftTorn(k),
         NEW d \in Downloaders, CancelDownload(d)
  PROVE  ~LeftTorn(k)'
<1>1. CASE AtDownload(d, "write")
  <2>1. /\ UNCHANGED crateFiles
        /\ download' = [download EXCEPT ![d] = [@ EXCEPT !.gone = TRUE]]
    BY <1>1 DEF CancelDownload, Goes, WriteJob, AtDownload
  <2>2. download[d] \in DownloadRequest
    BY <1>1 DEF AtDownload, DownloadTypeOK
  <2>3. \A e \in Downloaders :
          AtDownload(e, "write") => /\ AtDownload(e, "write")'
                                   /\ download'[e].crate = download[e].crate
    BY <2>1, <2>2, DownloadNoneAssumption
       DEF DownloadTypeOK, DownloadRequest, DownloadPcs, AtDownload
  <2> QED
    BY <2>1, <2>3 DEF LeftTorn
<1>2. CASE ~AtDownload(d, "write")
  BY <1>2, QuietCrateFile DEF CancelDownload
<1> QED
  BY <1>1, <1>2

(* No step but a restart or a write that fails leaves a crate file torn.      *)
LEMMA CrateFilesStep ==
  ASSUME DownloadTypeOK, [DownloadNext]_<<vars, downloads>>, ~RestartAll,
         NEW k \in Crates, ~LeftTorn(k),
         ~\E d \in Downloaders :
            WriteCrate(d) /\ download[d].crate = k /\ UNCHANGED crateFiles
  PROVE  ~LeftTorn(k)'
<1>1. CASE UNCHANGED downloads
  BY <1>1 DEF downloads, LeftTorn, AtDownload
<1>2. ASSUME NEW d \in Downloaders, NEW j \in Crates, HandleDownload(d, j)
      PROVE  ~LeftTorn(k)'
  <2>1. UNCHANGED crateFiles /\ ~AtDownload(d, "write") /\ \E r : Goes(d, r)
    BY <1>2 DEF HandleDownload, AtDownload
  <2> QED
    BY <2>1, QuietCrateFile
<1>3. ASSUME NEW d \in Downloaders,
             \/ Admit(d) \/ Refuse(d) \/ ReadCrate(d) \/ FetchCrate(d)
             \/ FetchError(d)
      PROVE  ~LeftTorn(k)'
  <2>1. UNCHANGED crateFiles /\ ~AtDownload(d, "write") /\ \E r : Goes(d, r)
    BY <1>3 DEF Admit, Refuse, ReadCrate, FetchCrate, FetchError, AtDownload
  <2> QED
    BY <2>1, QuietCrateFile
<1>4. ASSUME NEW d \in Downloaders, CreateCrate(d) \/ WriteCrate(d) \/ CancelDownload(d)
      PROVE  ~LeftTorn(k)'
  BY <1>4, CreatedCrateFile, WrittenCrateFile, AbandonedCrateFile
<1> QED
  BY <1>1, <1>2, <1>3, <1>4 DEF DownloadNext, DownloadStep, downloads

(* However many downloads of a crate overlap, hang up or fail, before or      *)
(* after any restart, a crate file is left torn only by a process that dies   *)
(* while it is truncated, or by a write that fails.                           *)
THEOREM CratesTornByCrashesOnly == DownloadSpec => OnlyCrashesTearCrates
<1>1. DownloadTypeOK /\ [DownloadNext]_<<vars, downloads>> =>
        [\A k \in Crates :
           ~LeftTorn(k) /\ LeftTorn(k)' =>
             \/ RestartAll
             \/ \E d \in Downloaders :
                  WriteCrate(d) /\ download[d].crate = k /\ UNCHANGED crateFiles
        ]_<<vars, downloads>>
  BY CrateFilesStep
<1> QED
  BY <1>1, DownloadTypeCorrect, PTL DEF DownloadSpec, OnlyCrashesTearCrates

(* A process that runs on is not restarted.                                   *)
LEMMA RunningKeepsRestarts ==
  ASSUME [DownloadNext]_<<vars, downloads>>, ~RestartAll
  PROVE  restarts' = restarts
<1>1. ASSUME NEW c \in Clients, Progress(c) PROVE restarts' = restarts
  BY <1>1 DEF Progress, WarmRead, FindIndex, UpstreamAnswer, ReceiveBody,
     ReceiveNotModified, CreateFile, WriteFile, TouchFile, StoreRefreshed,
     ReadBack, LostFile, StaleRead, IndexOk, Filter, environment
<1>2. Operate => restarts' = restarts
  BY <1>1 DEF Operate, HandleIndex, ReceiveFailure, ForwardStatus, FilterPanic,
     Cancel, Expire, Publish, Tick, SetBack, environment
<1>3. ASSUME NEW d \in Downloaders,
             \/ \E k \in Crates : HandleDownload(d, k)
             \/ DownloadStep(d) \/ CancelDownload(d)
      PROVE  restarts' = restarts
  BY <1>3 DEF HandleDownload, DownloadStep, Admit, Refuse, ReadCrate, FetchCrate,
     FetchError, CreateCrate, WriteCrate, CancelDownload, vars
<1> QED
  BY <1>2, <1>3 DEF DownloadNext, vars

(* So, as long as the process lives and the file system does what it is       *)
(* asked, a crate file is truncated only under a write that is still running. *)
THEOREM CrateFilesWhole ==
  ASSUME "disk" \notin Faults
  PROVE  DownloadSpec => []CrateFilesWholeBetweenWrites
<1>1. DownloadInit => CrateFilesWholeBetweenWrites
  BY DownloadNoneAssumption DEF DownloadInit, CrateFilesWholeBetweenWrites, EmptyMap
<1>2. ASSUME TypeOK, DownloadTypeOK, CrateFilesWholeBetweenWrites,
             [DownloadNext]_<<vars, downloads>>
      PROVE  CrateFilesWholeBetweenWrites'
  <2>1. SUFFICES ASSUME restarts' = 0, NEW k \in Crates  PROVE ~LeftTorn(k)'
    BY DEF CrateFilesWholeBetweenWrites, LeftTorn
  <2>2. ~RestartAll
    BY <1>2, <2>1 DEF RestartAll, Restart, TypeOK
  <2>3. ~LeftTorn(k)
    BY <1>2, <2>1, <2>2, RunningKeepsRestarts
       DEF CrateFilesWholeBetweenWrites, LeftTorn
  <2>4. CASE \E d \in Downloaders :
               WriteCrate(d) /\ download[d].crate = k /\ UNCHANGED crateFiles
    <3>1. crateFiles'[k] = "whole"
      BY <1>2, <2>4 DEF WriteCrate, DownloadTypeOK
    <3> QED
      BY <3>1 DEF LeftTorn
  <2>5. CASE ~\E d \in Downloaders :
               WriteCrate(d) /\ download[d].crate = k /\ UNCHANGED crateFiles
    BY <1>2, <2>2, <2>3, <2>5, CrateFilesStep
  <2> QED
    BY <2>4, <2>5
<1> QED
  BY <1>1, <1>2, DownloadTypeCorrect, DownloadAgeGate, PTL DEF DownloadSpec

-----------------------------------------------------------------------------
(* What else is known of the index route holds beside downloads.              *)

(* A copy given or confirmed without a window lacks no version of its         *)
(* revision, and a body from the memo is at most a bucket off the clock,      *)
(* whatever downloads are gated by the same files meanwhile.                  *)
THEOREM DownloadsHoldNothingBack ==
  DownloadSpec => []NothingHeldBack /\ MemoJitterBounded
BY DownloadImplementsIndexProxy, NothingIsHeldBack, MemoJitterHolds, PTL
=============================================================================
