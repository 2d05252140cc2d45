-------------------------- MODULE IndexProxyProofs --------------------------
(* Theorems about IndexProxy, for every value of its constants.               *)
EXTENDS IndexProxy, TLAPS

-----------------------------------------------------------------------------
(* Facts about the operators.                                                 *)

(* Windows are numbers.                                                       *)
LEMMA WindowsNat == Windows \subseteq Nat
BY WindowsAssumption

(* Insert yields a map over the same keys whose values are old ones or new.   *)
LEMMA InsertType ==
  ASSUME NEW Keys, NEW Values, NEW map \in [Keys -> Values \cup {None}],
         NEW key \in Keys, NEW value \in Values, NEW max
  PROVE  /\ Insert(map, key, value, max) \in [Keys -> Values \cup {None}]
         /\ \A k \in Keys : \/ Insert(map, key, value, max)[k] \in {map[k], None}
                            \/ k = key /\ Insert(map, key, value, max)[k] = value
BY DEF Insert, EmptyMap

(* A request about to answer is a request.                                    *)
LEMMA BuildType ==
  ASSUME NEW r \in Request, NEW entry \in Entry, NEW body \in Body
  PROVE  Build(r, entry, body) \in Request
BY DEF Build, Request, Entry, NoEntry, Pcs

(* A copy that was just served is a copy.                                     *)
LEMMA ServedType ==
  ASSUME NEW entry \in Entry, NEW w \in Nat, NEW body \in Body
  PROVE  Served(entry, w, body) \in Copy
BY DEF Served, WithIndexValidators, Entry, Copy

(* A copy that was just confirmed is a copy.                                  *)
LEMMA ConfirmedType ==
  ASSUME NEW held \in Copy, NEW entry \in Entry, NEW w \in Nat
  PROVE  Confirmed(held, entry, w) \in Copy
BY DEF Confirmed, WithIndexValidators, Entry, Copy

(* The window in force for a crate is a number.                               *)
LEMMA ServeWindowType ==
  ASSUME TypeOK, NEW n \in Names
  PROVE  ServeWindow(n) \in Nat
BY WindowsAssumption DEF ServeWindow, TypeOK

(* A cutoff is a number or absent.                                            *)
LEMMA CutoffType ==
  ASSUME TypeOK, NEW n \in Names
  PROVE  CutoffFor(n) \in Nat \cup {None}
BY WindowsAssumption, LimitsAssumption DEF CutoffFor, CutoffFrom, TypeOK

(* Filtering a body leaves a body.                                            *)
LEMMA FilterType ==
  ASSUME NEW body \in Body, NEW cutoff
  PROVE  /\ FilterIndex(body, cutoff) \in Body
         /\ FilterIndex(body, cutoff).lines \subseteq body.lines
BY DEF FilterIndex, FilterBody, Body

(* A client's validators are an entry, and come from a copy it holds.         *)
LEMMA ConditionsType ==
  ASSUME NEW held \in Copy \cup {None}, NEW h \in Conditions(held)
  PROVE  /\ h.entry \in Entry
         /\ h.win \in Nat
BY DEF Conditions, Unconditional, IfNoneMatch, IfModifiedSince, NoEntry, Entry,
       Copy

(* The body of a revision is a body.                                          *)
LEMMA RevBodyType ==
  ASSUME NEW f \in Files, NEW r \in Revs
  PROVE  /\ RevBody(f, r) \in Body
         /\ RevBody(f, r) # None => RevBody(f, r).lines = RevLines[f][r]
BY RevsAssumption DEF RevBody, Body

(* The response headers leave an entry.                                       *)
LEMMA WithHeadersType ==
  ASSUME NEW entry \in Entry, NEW r \in Revs, NEW sendsDate \in BOOLEAN
  PROVE  WithHeaders(entry, r, sendsDate) \in Entry
BY RevsAssumption DEF WithHeaders, Entry

(* What a write leaves in a file is a body.                                   *)
LEMMA OverwrittenType ==
  ASSUME NEW old \in Body, NEW new \in Body,
         NEW b \in Overwritten(old, new) \cup PartlyWritten(old, new)
  PROVE  /\ b \in Body
         /\ b.lines \subseteq old.lines \cup new.lines
BY DEF Overwritten, PartlyWritten, Body

(* The memo is keyed by validators.                                           *)
LEMMA ValidatorType ==
  ASSUME NEW entry \in Entry
  PROVE  EntryValidator(entry) \in Validators
BY RevsAssumption DEF EntryValidator, Validators, Entry, Revs

-----------------------------------------------------------------------------
(* Type correctness.                                                          *)

(* A step that moves one client's request keeps the requests well typed, if   *)
(* it leaves no file out.                                                     *)
LEMMA BecomesType ==
  ASSUME TypeOK, NEW c \in Clients, NEW r \in Request \cup {None},
         Becomes(c, r),
         \A f \in Files : disk[f] # None => disk'[f] # None,
         \A d \in Clients, n \in Names : copy[d][n] # None => copy'[d][n] # None,
         r # None => PhaseOK(r, disk', copy'[c])
  PROVE  /\ req' \in [Clients -> Request \cup {None}]
         /\ \A d \in Clients : req'[d] # None => PhaseOK(req'[d], disk', copy'[d])
<1>1. req' \in [Clients -> Request \cup {None}]
  BY DEF TypeOK, Becomes
<1>2. ASSUME NEW d \in Clients, req'[d] # None
      PROVE  PhaseOK(req'[d], disk', copy'[d])
  <2>1. CASE d = c
    BY <1>2, <2>1 DEF Becomes, TypeOK
  <2>2. CASE d # c
    <3>1. req'[d] = req[d] /\ req[d] \in Request
      BY <1>2, <2>2 DEF Becomes, TypeOK
    <3>2. FileOf[req[d].name] \in Files /\ req[d].name \in Names
      BY <3>1, NamesAssumption DEF Request
    <3> QED
      BY <1>2, <3>1, <3>2 DEF TypeOK, PhaseOK
  <2> QED
    BY <2>1, <2>2
<1> QED
  BY <1>1, <1>2

(* Storing metadata keeps the types of both of its variables.                 *)
LEMMA StoreMetadataType ==
  ASSUME TypeOK, NEW n \in Names, NEW entry \in Entry, StoreMetadata(n, entry)
  PROVE  metadata' \in [Names -> Entry \cup {None}] /\ expired' \subseteq Names
BY InsertType DEF TypeOK, StoreMetadata

(* Handing a client a copy keeps the type of its copies.                      *)
LEMMA HoldsType ==
  ASSUME TypeOK, NEW c \in Clients, NEW n \in Names, NEW held \in Copy,
         Holds(c, n, held)
  PROVE  copy' \in [Clients -> [Names -> Copy \cup {None}]]
BY DEF TypeOK, Holds

(* A 304 is only sent to a client that holds a copy.                          *)
LEMMA NotModifiedType ==
  ASSUME TypeOK, NEW c \in Clients, NEW n \in Names, NEW entry \in Entry,
         copy[c][n] # None, IndexNotModified(c, n, entry)
  PROVE  /\ copy' \in [Clients -> [Names -> Copy \cup {None}]]
         /\ \A d \in Clients, m \in Names :
              copy[d][m] # None => copy'[d][m] # None
<1>1. copy[c][n] \in Copy
  BY DEF TypeOK
<1>2. Confirmed(copy[c][n], entry, ServeWindow(n)) \in Copy
  BY <1>1, ServeWindowType, ConfirmedType
<1> QED
  BY <1>2, HoldsType, NoneAssumption DEF IndexNotModified, Holds, TypeOK

(* The types hold initially.                                                  *)
LEMMA InitType == Init => TypeOK
BY WindowsAssumption, RevsAssumption, LimitsAssumption
   DEF Init, TypeOK, EmptyMap, Revs

(* The steps that change the request of one client only.                      *)
LEMMA RequestStepType ==
  ASSUME TypeOK, NEW c \in Clients, NEW r \in Request \cup {None},
         Becomes(c, r), UNCHANGED <<environment, disk, caches, copy>>,
         r # None => PhaseOK(r, disk, copy[c])
  PROVE  TypeOK'
BY BecomesType DEF TypeOK, environment, caches

(* A new request keeps the types.                                             *)
LEMMA HandleIndexType ==
  ASSUME TypeOK, NEW c \in Clients, NEW n \in Names,
         NEW h \in Conditions(copy[c][n]), HandleIndex(c, n, h)
  PROVE  TypeOK'
<1> DEFINE ok == WindowOk(n, h.win)
<1> DEFINE start(pc, entry) ==
      [pc |-> pc, name |-> n, client |-> h.entry, windowOk |-> ok,
       entry |-> entry, body |-> None, cutoff |-> 0, gone |-> FALSE]
<1>1. /\ copy[c][n] \in Copy \cup {None}
      /\ metadata[n] \in Entry \cup {None}
  BY DEF TypeOK
<1>2. h.entry \in Entry
  BY <1>1, ConditionsType
<1>3. h.entry # NoEntry => copy[c][n] # None
  BY DEF Conditions, Unconditional
<1>4. ASSUME NEW pc \in {"find", "send", "warm_read"}, NEW entry \in Entry,
             Becomes(c, start(pc, entry)), UNCHANGED copy
      PROVE  TypeOK'
  <2>1. start(pc, entry) \in Request
    BY <1>2 DEF Request, Pcs, WindowOk
  <2>2. PhaseOK(start(pc, entry), disk, copy[c])
    BY <1>3 DEF PhaseOK, WriteJob
  <2>3. UNCHANGED <<environment, disk, caches, copy>>
    BY <1>4 DEF HandleIndex
  <2> QED
    BY <1>4, <2>1, <2>2, <2>3, RequestStepType
<1>5. CASE metadata[n] # None /\ ConfirmsCopy(ok, metadata[n], h.entry)
           /\ IndexNotModified(c, n, metadata[n]) /\ UNCHANGED req
  <2>1. h.entry # NoEntry
    BY <1>5 DEF ConfirmsCopy, IsEquivalent, NoEntry
  <2>2. /\ copy' \in [Clients -> [Names -> Copy \cup {None}]]
        /\ \A d \in Clients, m \in Names :
             copy[d][m] # None => copy'[d][m] # None
    BY <1>1, <1>3, <1>5, <2>1, NotModifiedType
  <2>3. UNCHANGED <<environment, disk, caches>>
    BY DEF HandleIndex
  <2>4. \A d \in Clients : req[d] # None => PhaseOK(req[d], disk', copy'[d])
    BY <2>2, <2>3 DEF PhaseOK, TypeOK, Request
  <2> QED
    BY <1>5, <2>2, <2>3, <2>4 DEF TypeOK, environment, caches
<1>6. NoEntry \in Entry
  BY DEF NoEntry, Entry
<1> QED
  BY <1>1, <1>4, <1>5, <1>6 DEF HandleIndex

(* A request in flight is well typed, and so is the file it works on.         *)
LEMMA InFlight ==
  ASSUME TypeOK, NEW c \in Clients, req[c] # None
  PROVE  /\ req[c] \in Request
         /\ req[c].name \in Names
         /\ File(c) \in Files
         /\ req[c].entry \in Entry
         /\ req[c].client \in Entry
         /\ req[c].body \in Body \cup {None}
         /\ PhaseOK(req[c], disk, copy[c])
         /\ disk[File(c)] # None => /\ disk[File(c)] \in IndexFile
                                    /\ disk[File(c)].body \in Body
                                    /\ disk[File(c)].mtime \in Nat
BY NamesAssumption DEF TypeOK, Request, File, IndexFile

(* A request about to answer has the body it needs.                           *)
LEMMA BuildPhase ==
  ASSUME NEW r \in Request, NEW entry, NEW body \in Body, NEW files, NEW held
  PROVE  PhaseOK(Build(r, entry, body), files, held)
BY NoneAssumption DEF Build, PhaseOK, Request, WriteJob

(* The steps that read, answer an error or hand over keep the types.          *)
LEMMA ReadingStepType ==
  ASSUME TypeOK, NEW c \in Clients,
         \/ WarmRead(c) \/ FindIndex(c) \/ ReceiveBody(c) \/ ReadBack(c)
         \/ StaleRead(c) \/ ReceiveFailure(c) \/ ForwardStatus(c)
         \/ FilterPanic(c) \/ Cancel(c)
  PROVE  TypeOK'
<1> DEFINE Fit(r) == r \in Request /\ PhaseOK(r, disk, copy[c])
<1>1. req[c] # None
  BY DEF WarmRead, FindIndex, ReceiveBody, ReadBack, StaleRead, ReceiveFailure,
         ForwardStatus, FilterPanic, Cancel, At
<1>2. UNCHANGED <<environment, disk, caches, copy>>
  BY DEF WarmRead, FindIndex, ReceiveBody, ReadBack, StaleRead, ReceiveFailure,
         ForwardStatus, FilterPanic, Cancel
<1> SUFFICES \E r \in Request \cup {None} :
               Becomes(c, r) /\ (r # None => PhaseOK(r, disk, copy[c]))
  BY <1>2, RequestStepType
<1>3. CASE WarmRead(c)
  <2>1. disk[File(c)] # None
          => Fit(Build(req[c], req[c].entry, disk[File(c)].body))
    BY <1>1, InFlight, BuildType, BuildPhase
  <2>2. Fit([req[c] EXCEPT !.pc = "find", !.entry = NoEntry])
    BY <1>1, InFlight DEF PhaseOK, Request, WriteJob, Pcs, NoEntry, Entry
  <2> QED
    BY <1>3, <2>1, <2>2 DEF WarmRead
<1>4. CASE FindIndex(c)
  <2>1. \A entry \in Entry : Fit([req[c] EXCEPT !.pc = "send", !.entry = entry])
    BY <1>1, InFlight DEF PhaseOK, Request, WriteJob, Pcs
  <2>2. disk[File(c)] # None
          => [etag |-> None, mtime |-> disk[File(c)].mtime] \in Entry
    BY <1>1, InFlight DEF Entry
  <2> QED
    BY <1>1, <1>4, <2>1, <2>2, InFlight DEF FindIndex
<1>5. CASE ReceiveBody(c)
  <2>1. Fit([req[c] EXCEPT !.pc = "create"])
    BY <1>1, <1>5, InFlight DEF ReceiveBody, PhaseOK, Request, WriteJob, Pcs
  <2> QED
    BY <1>5, <2>1 DEF ReceiveBody
<1>6. CASE ReadBack(c)
  <2>1. disk[File(c)] # None
          => Fit(Build(req[c], req[c].entry, disk[File(c)].body))
    BY <1>1, InFlight, BuildType, BuildPhase
  <2>2. Fit([req[c] EXCEPT !.pc = "lost"])
    BY <1>1, InFlight DEF PhaseOK, Request, WriteJob, Pcs
  <2> QED
    BY <1>6, <2>1, <2>2 DEF ReadBack
<1>7. CASE StaleRead(c)
  <2>1. disk[File(c)] # None
          => Fit(Build(req[c], req[c].client, disk[File(c)].body))
    BY <1>1, InFlight, BuildType, BuildPhase
  <2> QED
    BY <1>7, <2>1 DEF StaleRead
<1>8. CASE ReceiveFailure(c)
  <2>1. Fit([req[c] EXCEPT !.pc = "stale_read", !.entry = NoEntry, !.body = None])
    BY <1>1, InFlight DEF PhaseOK, Request, WriteJob, Pcs, NoEntry, Entry
  <2> QED
    BY <1>8, <2>1 DEF ReceiveFailure
<1>9. CASE ForwardStatus(c) \/ FilterPanic(c)
  BY <1>9 DEF ForwardStatus, FilterPanic
<1>10. CASE Cancel(c)
  <2>1. req[c].pc \in WriteJob => Fit([req[c] EXCEPT !.gone = TRUE])
    BY <1>1, InFlight DEF PhaseOK, Request, WriteJob, Pcs
  <2> QED
    BY <1>10, <2>1 DEF Cancel
<1> QED
  BY <1>3, <1>4, <1>5, <1>6, <1>7, <1>8, <1>9, <1>10

(* Upstream's answer keeps the types.                                         *)
LEMMA UpstreamAnswerType ==
  ASSUME TypeOK, NEW c \in Clients, UpstreamAnswer(c)
  PROVE  TypeOK'
<1>1. req[c] # None /\ req[c].pc = "send"
  BY DEF UpstreamAnswer, At
<1> DEFINE r == upstream[File(c)]
           answer(sendsDate, body) ==
             [req[c] EXCEPT !.pc = "recv", !.body = body,
                            !.entry = WithHeaders(req[c].entry, r, sendsDate)]
<1>2. File(c) \in Files /\ r \in Revs
  BY <1>1, InFlight DEF TypeOK
<1>3. RevBody(File(c), r) \in Body
  BY <1>2, RevBodyType
<1>4. ASSUME NEW sendsDate \in BOOLEAN, NEW body \in Body \cup {None},
             Becomes(c, answer(sendsDate, body))
      PROVE  TypeOK'
  <2>1. WithHeaders(req[c].entry, r, sendsDate) \in Entry
    BY <1>1, <1>2, InFlight, WithHeadersType
  <2>2. answer(sendsDate, body) \in Request
    BY <1>1, <2>1, InFlight DEF Request, Pcs
  <2>3. PhaseOK(answer(sendsDate, body), disk, copy[c])
    BY <1>1, InFlight DEF PhaseOK, Request, WriteJob
  <2>4. UNCHANGED <<environment, disk, caches, copy>>
    BY DEF UpstreamAnswer
  <2> QED
    BY <1>4, <2>2, <2>3, <2>4, RequestStepType
<1>5. \/ \E sendsDate \in BOOLEAN : Becomes(c, answer(sendsDate, None))
      \/ Becomes(c, answer("lm" \in UpstreamSends, RevBody(File(c), r)))
  BY Zenon DEF UpstreamAnswer
<1>6. ("lm" \in UpstreamSends) \in BOOLEAN
  OBVIOUS
<1> QED
  BY <1>3, <1>4, <1>5, <1>6, Zenon

(* The end of a write job leaves a request in a phase that fits it.           *)
LEMMA AfterJobType ==
  ASSUME TypeOK, NEW c \in Clients, req[c] # None, req[c].body # None,
         AfterJob(c)
  PROVE  \E r \in Request \cup {None} :
           /\ Becomes(c, r)
           /\ \A files : r # None => PhaseOK(r, files, copy[c])
<1> DEFINE r == [req[c] EXCEPT !.pc = "store"]
<1>1. r \in Request /\ \A files : PhaseOK(r, files, copy[c])
  BY InFlight DEF PhaseOK, Request, WriteJob, Pcs
<1> QED
  BY <1>1 DEF AfterJob

(* The steps of the write job.                                                *)
LEMMA WriteStepType ==
  ASSUME TypeOK, NEW c \in Clients,
         CreateFile(c) \/ WriteFile(c) \/ TouchFile(c)
  PROVE  TypeOK'
<1>1. req[c] # None /\ req[c].pc \in {"create", "write", "touch"}
  BY DEF CreateFile, WriteFile, TouchFile, At
<1>2. /\ req[c].body \in Body
      /\ req[c].pc \in {"write", "touch"} => disk[File(c)] \in IndexFile
      /\ req[c].pc = "touch" => req[c].entry.mtime \in Nat
  BY <1>1, InFlight DEF PhaseOK, WriteJob, File, Entry
<1>3. clock \in Nat
  BY LimitsAssumption DEF TypeOK
<1>4. UNCHANGED <<environment, caches, copy>>
  BY DEF CreateFile, WriteFile, TouchFile
<1> SUFFICES \E r \in Request \cup {None}, d \in IndexFile :
               /\ Becomes(c, r)
               /\ disk' \in {disk, [disk EXCEPT ![File(c)] = d]}
               /\ r # None => PhaseOK(r, disk', copy[c])
  <2>1. PICK r \in Request \cup {None}, d \in IndexFile :
               /\ Becomes(c, r)
               /\ disk' \in {disk, [disk EXCEPT ![File(c)] = d]}
               /\ r # None => PhaseOK(r, disk', copy[c])
    OBVIOUS
  <2>2. \A f \in Files : disk[f] # None => disk'[f] # None
    BY <1>1, <2>1, InFlight, NoneAssumption DEF TypeOK
  <2>3. disk' \in [Files -> IndexFile \cup {None}]
    BY <2>1 DEF TypeOK
  <2>4. copy' = copy
    BY <1>4
  <2>5. /\ req' \in [Clients -> Request \cup {None}]
        /\ \A d2 \in Clients :
             req'[d2] # None => PhaseOK(req'[d2], disk', copy'[d2])
    BY <2>1, <2>2, <2>4, BecomesType
  <2> QED
    BY <1>4, <2>3, <2>5 DEF TypeOK, environment, caches
<1>5. CASE CreateFile(c)
  <2> DEFINE r == [req[c] EXCEPT !.pc = "write"]
             d == [body |-> Truncated, mtime |-> clock]
  <2>1. d \in IndexFile
    BY <1>3 DEF IndexFile, Truncated, Body
  <2>2. r \in Request
    BY <1>1, InFlight DEF Request, Pcs
  <2>3. PhaseOK(r, [disk EXCEPT ![File(c)] = d], copy[c])
    BY <1>1, <1>2, <2>1, InFlight, NoneAssumption
       DEF PhaseOK, Request, File, TypeOK
  <2>4. CASE AfterJob(c) /\ UNCHANGED disk
    BY <1>1, <1>2, <2>1, <2>4, AfterJobType, NoneAssumption
  <2>5. CASE Becomes(c, r) /\ disk' = [disk EXCEPT ![File(c)] = d]
    BY <2>1, <2>2, <2>3, <2>5
  <2> QED
    BY <1>5, <2>4, <2>5 DEF CreateFile
<1>6. CASE WriteFile(c)
  <2>1. disk[File(c)].body \in Body
    BY <1>1, <1>2, <1>6 DEF WriteFile, At, IndexFile
  <2>2. PICK body \in Overwritten(disk[File(c)].body, req[c].body)
                       \cup PartlyWritten(disk[File(c)].body, req[c].body) :
          /\ disk' = [disk EXCEPT ![File(c)] = [body |-> body, mtime |-> clock]]
          /\ \/ /\ req[c].entry.mtime # None
                /\ Becomes(c, [req[c] EXCEPT !.pc = "touch"])
             \/ AfterJob(c)
    BY <1>6, Zenon DEF WriteFile
  <2> DEFINE d == [body |-> body, mtime |-> clock]
             r == [req[c] EXCEPT !.pc = "touch"]
  <2>3. d \in IndexFile
    BY <1>2, <1>3, <2>1, OverwrittenType DEF IndexFile
  <2>4. r \in Request
    BY <1>1, InFlight DEF Request, Pcs
  <2>5. req[c].entry.mtime # None => PhaseOK(r, disk', copy[c])
    BY <1>1, <1>2, <2>2, <2>3, InFlight, NoneAssumption
       DEF PhaseOK, Request, File, TypeOK
  <2>6. CASE AfterJob(c)
    BY <1>1, <1>2, <2>2, <2>3, <2>6, AfterJobType, NoneAssumption
  <2> QED
    BY <2>2, <2>3, <2>4, <2>5, <2>6
<1>7. CASE TouchFile(c)
  <2> DEFINE d == [body |-> disk[File(c)].body, mtime |-> req[c].entry.mtime]
  <2>1. disk[File(c)] \in IndexFile /\ req[c].entry.mtime \in Nat
    BY <1>2, <1>7 DEF TouchFile, At
  <2>2. d \in IndexFile
    BY <2>1 DEF IndexFile
  <2>3. disk' \in {disk, [disk EXCEPT ![File(c)] = d]} /\ AfterJob(c)
    BY <1>7 DEF TouchFile
  <2> QED
    BY <1>1, <1>2, <2>2, <2>3, AfterJobType, NoneAssumption
<1> QED
  BY <1>5, <1>6, <1>7

(* The steps that store the entry, then confirm the client's copy or go on.   *)
LEMMA StoringStepType ==
  ASSUME TypeOK, NEW c \in Clients, ReceiveNotModified(c) \/ StoreRefreshed(c)
  PROVE  TypeOK'
<1>1. req[c] # None
  BY DEF ReceiveNotModified, StoreRefreshed, At
<1> DEFINE n == req[c].name
           entry == req[c].entry
           confirms == ConfirmsCopy(req[c].windowOk, entry, req[c].client)
           next == IF StoreRefreshed(c) THEN Build(req[c], entry, req[c].body)
                   ELSE [req[c] EXCEPT !.pc = "reread"]
<1>2. metadata' \in [Names -> Entry \cup {None}] /\ expired' \subseteq Names
  BY <1>1, InFlight, StoreMetadataType DEF ReceiveNotModified, StoreRefreshed
<1>3. UNCHANGED <<environment, disk, memo>>
  BY DEF ReceiveNotModified, StoreRefreshed
<1>4. CASE confirms /\ IndexNotModified(c, n, entry) /\ Becomes(c, None)
  <2>1. req[c].client # NoEntry
    BY <1>4 DEF ConfirmsCopy, IsEquivalent, NoEntry
  <2>2. /\ copy' \in [Clients -> [Names -> Copy \cup {None}]]
        /\ \A d \in Clients, m \in Names :
             copy[d][m] # None => copy'[d][m] # None
    BY <1>1, <1>4, <2>1, InFlight, NotModifiedType DEF PhaseOK
  <2>3. /\ req' \in [Clients -> Request \cup {None}]
        /\ \A d \in Clients :
             req'[d] # None => PhaseOK(req'[d], disk', copy'[d])
    BY <1>3, <1>4, <2>2, BecomesType
  <2> QED
    BY <1>2, <1>3, <2>2, <2>3 DEF TypeOK, environment
<1>5. CASE ReceiveNotModified(c) /\ UNCHANGED copy
           /\ Becomes(c, [req[c] EXCEPT !.pc = "reread"])
  <2>1. /\ [req[c] EXCEPT !.pc = "reread"] \in Request
        /\ PhaseOK([req[c] EXCEPT !.pc = "reread"], disk, copy[c])
    BY <1>1, InFlight DEF PhaseOK, Request, Pcs, WriteJob
  <2>2. /\ req' \in [Clients -> Request \cup {None}]
        /\ \A d \in Clients :
             req'[d] # None => PhaseOK(req'[d], disk', copy'[d])
    BY <1>3, <1>5, <2>1, BecomesType
  <2> QED
    BY <1>2, <1>3, <1>5, <2>2 DEF TypeOK, environment
<1>6. CASE StoreRefreshed(c) /\ UNCHANGED copy
           /\ Becomes(c, Build(req[c], entry, req[c].body))
  <2>1. req[c].body \in Body
    BY <1>1, <1>6, InFlight DEF StoreRefreshed, At, PhaseOK
  <2>2. /\ Build(req[c], entry, req[c].body) \in Request
        /\ PhaseOK(Build(req[c], entry, req[c].body), disk, copy[c])
    BY <1>1, <2>1, InFlight, BuildType, BuildPhase
  <2>3. /\ req' \in [Clients -> Request \cup {None}]
        /\ \A d \in Clients :
             req'[d] # None => PhaseOK(req'[d], disk', copy'[d])
    BY <1>3, <1>6, <2>2, BecomesType
  <2> QED
    BY <1>2, <1>3, <1>6, <2>3 DEF TypeOK, environment
<1> QED
  BY <1>4, <1>5, <1>6 DEF ReceiveNotModified, StoreRefreshed

(* Forgetting an entry keeps the types.                                       *)
LEMMA LostFileType ==
  ASSUME TypeOK, NEW c \in Clients, LostFile(c)
  PROVE  TypeOK'
<1>1. /\ req[c] # None /\ Becomes(c, None)
      /\ UNCHANGED <<environment, disk, memo, copy>>
  BY DEF LostFile, At
<1>2. /\ req' \in [Clients -> Request \cup {None}]
      /\ \A d \in Clients : req'[d] # None => PhaseOK(req'[d], disk', copy'[d])
  BY <1>1, BecomesType
<1>3. metadata' \in [Names -> Entry \cup {None}] /\ expired' \subseteq Names
  BY <1>1, InFlight DEF LostFile, Remove, TypeOK
<1> QED
  BY <1>1, <1>2, <1>3 DEF TypeOK, environment

(* A 200: the client of the request holds a new copy, the request is over.    *)
LEMMA AnswerType ==
  ASSUME TypeOK, NEW c \in Clients, req[c] # None, NEW held \in Copy,
         Holds(c, req[c].name, held), Becomes(c, None), UNCHANGED disk
  PROVE  /\ copy' \in [Clients -> [Names -> Copy \cup {None}]]
         /\ req' \in [Clients -> Request \cup {None}]
         /\ \A d \in Clients : req'[d] # None => PhaseOK(req'[d], disk', copy'[d])
<1>1. copy' \in [Clients -> [Names -> Copy \cup {None}]]
  BY InFlight, HoldsType
<1>2. \A d \in Clients, m \in Names : copy[d][m] # None => copy'[d][m] # None
  BY InFlight, NoneAssumption DEF Holds, TypeOK
<1> QED
  BY <1>1, <1>2, BecomesType

(* The 200 keeps the types.                                                   *)
LEMMA IndexOkType ==
  ASSUME TypeOK, NEW c \in Clients, IndexOk(c)
  PROVE  TypeOK'
<1>1. /\ req[c] # None /\ req[c].pc = "ok"
      /\ UNCHANGED <<environment, disk, caches>>
  BY DEF IndexOk, At
<1> DEFINE n == req[c].name
           entry == req[c].entry
           cutoff == CutoffFor(n)
<1>2. req[c].body \in Body /\ n \in Names /\ entry \in Entry
  BY <1>1, InFlight DEF PhaseOK
<1>3. ASSUME NEW w \in Nat, NEW body \in Body,
             Holds(c, n, Served(entry, w, body)), Becomes(c, None)
      PROVE  TypeOK'
  BY <1>1, <1>2, <1>3, ServedType, AnswerType DEF TypeOK, environment, caches
<1>4. CASE cutoff # None /\ UNCHANGED copy
           /\ Becomes(c, [req[c] EXCEPT !.pc = "filter", !.cutoff = cutoff])
  <2>1. cutoff \in Nat
    BY <1>2, <1>4, CutoffType
  <2>2. [req[c] EXCEPT !.pc = "filter", !.cutoff = cutoff] \in Request
    BY <1>1, <2>1, InFlight DEF Request, Pcs
  <2>3. PhaseOK([req[c] EXCEPT !.pc = "filter", !.cutoff = cutoff], disk, copy[c])
    BY <1>1, InFlight DEF PhaseOK, Request, WriteJob
  <2> QED
    BY <1>1, <1>4, <2>2, <2>3, RequestStepType
<1>5. memo[n] # None => memo[n].body \in Body
  BY <1>2 DEF TypeOK, MemoEntry
<1>6. ServeWindow(n) \in Nat
  BY <1>2, ServeWindowType
<1> QED
  BY <1>2, <1>3, <1>4, <1>5, <1>6 DEF IndexOk, MemoHit

(* The filter task keeps the types.                                           *)
LEMMA FilterStepType ==
  ASSUME TypeOK, NEW c \in Clients, Filter(c)
  PROVE  TypeOK'
<1>1. /\ req[c] # None /\ req[c].pc = "filter" /\ Becomes(c, None)
      /\ UNCHANGED <<environment, disk, metadata, expired>>
  BY DEF Filter, At
<1> DEFINE n == req[c].name
           filtered == FilterIndex(req[c].body, req[c].cutoff)
           kept == [validator |-> EntryValidator(req[c].entry),
                    bucket    |-> Bucket(req[c].cutoff),
                    body      |-> filtered]
<1>2. /\ req[c].body \in Body /\ n \in Names /\ req[c].entry \in Entry
      /\ req[c].cutoff \in Nat
  BY <1>1, InFlight DEF PhaseOK, Request
<1>3. filtered \in Body /\ Bucket(req[c].cutoff) \in Nat
  BY <1>2, FilterType, LimitsAssumption DEF Bucket
<1>4. kept \in MemoEntry
  BY <1>2, <1>3, ValidatorType DEF MemoEntry
<1>5. memo' \in [Names -> MemoEntry \cup {None}]
  <2>1. memo' = Insert(memo, n, kept, MemoMax)
    BY DEF Filter
  <2>2. memo \in [Names -> MemoEntry \cup {None}] /\ n \in Names
    BY <1>2 DEF TypeOK
  <2> HIDE DEF kept, n
  <2> QED
    BY <1>4, <2>1, <2>2, InsertType
<1>6. Holds(c, n, Served(req[c].entry, ServeWindow(n), filtered))
  BY DEF Filter
<1>7. Served(req[c].entry, ServeWindow(n), filtered) \in Copy
  BY <1>2, <1>3, ServeWindowType, ServedType
<1> QED
  BY <1>1, <1>5, <1>6, <1>7, AnswerType DEF TypeOK, environment

(* The clock, upstream and restarts keep the types.                           *)
LEMMA SurroundingsType ==
  ASSUME TypeOK,
         \/ \E n \in Names : Expire(n)
         \/ \E f \in Files : Publish(f)
         \/ Tick \/ SetBack
         \/ Restart
  PROVE  TypeOK'
<1>1. CASE \E n \in Names : Expire(n)
  BY <1>1 DEF Expire, TypeOK, environment
<1>2. CASE \E f \in Files : Publish(f)
  BY <1>2, RevsAssumption DEF Publish, TypeOK, caches, Revs
<1>3. CASE Tick \/ SetBack
  BY <1>3, LimitsAssumption DEF Tick, SetBack, TypeOK, caches
<1>4. CASE Restart
  BY <1>4, LimitsAssumption DEF Restart, TypeOK, EmptyMap
<1> QED
  BY <1>1, <1>2, <1>3, <1>4

(* Every step keeps the types.                                                *)
LEMMA NextType == TypeOK /\ [Next]_vars => TypeOK'
<1> SUFFICES ASSUME TypeOK, [Next]_vars PROVE TypeOK'
  OBVIOUS
<1>1. CASE UNCHANGED vars
  BY <1>1 DEF vars, TypeOK
<1>2. ASSUME NEW c \in Clients, NEW n \in Names,
             NEW h \in Conditions(copy[c][n]), HandleIndex(c, n, h)
      PROVE  TypeOK'
  BY <1>2, HandleIndexType
<1>3. ASSUME NEW c \in Clients, Progress(c) PROVE TypeOK'
  BY <1>3, ReadingStepType, UpstreamAnswerType, WriteStepType, StoringStepType,
     LostFileType, IndexOkType, FilterStepType DEF Progress
<1>4. ASSUME NEW c \in Clients,
             ReceiveFailure(c) \/ ForwardStatus(c) \/ FilterPanic(c) \/ Cancel(c)
      PROVE  TypeOK'
  BY <1>4, ReadingStepType
<1> QED
  BY <1>1, <1>2, <1>3, <1>4, SurroundingsType DEF Next, Operate

(* Every reachable state is well typed, and no request is ever at an await    *)
(* whose inputs are missing: no body to write or serve, no truncated file to  *)
(* fill, no copy to confirm.                                                  *)
THEOREM TypeCorrect == Spec => []TypeOK
BY InitType, NextType, PTL DEF Spec

-----------------------------------------------------------------------------
(* The age gate.                                                              *)

(* A body old enough for a window stays old enough: the cutoff only advances. *)
LEMMA AgedLater ==
  ASSUME NEW body \in Body, NEW t \in Nat, NEW u \in Nat, t <= u,
         NEW w \in Nat, w > 0, AgedUnder(body, t, w)
  PROVE  AgedUnder(body, u, w)
<1> SUFFICES ASSUME body.utf8, NEW v \in body.lines,
                    PubTime[v] # None
             PROVE  ~(PubTime[v] > CutoffFrom(u, w))
  BY DEF AgedUnder, TooNew
<1>1. PubTime[v] \in Nat
  BY PubTimeAssumption DEF Body
<1>2. ~(PubTime[v] > CutoffFrom(t, w))
  BY DEF AgedUnder, TooNew
<1> QED
  BY <1>1, <1>2 DEF CutoffFrom

(* What the filter lets through under a cutoff no later than the window's is  *)
(* old enough for the window.                                                 *)
LEMMA FilteredAged ==
  ASSUME NEW body \in Body, NEW t \in Nat, NEW w \in Nat, w > 0,
         NEW cutoff \in Nat, cutoff <= CutoffFrom(t, w)
  PROVE  AgedUnder(FilterIndex(body, cutoff), t, w)
<1>1. CutoffFrom(t, w) \in Nat
  BY DEF CutoffFrom
<1>2. FilterIndex(body, cutoff).utf8 = body.utf8
  BY DEF FilterIndex, Body
<1>3. body.utf8 => FilterIndex(body, cutoff).lines = FilterBody(body.lines, cutoff)
  BY DEF FilterIndex, Body
<1>4. \A v \in FilterBody(body.lines, cutoff) : ~TooNew(v, CutoffFrom(t, w))
  BY <1>1, PubTimeAssumption DEF FilterBody, TooNew, Body
<1> QED
  BY <1>2, <1>3, <1>4 DEF AgedUnder

(* A copy of an old enough body is old enough.                                *)
LEMMA ServedAged ==
  ASSUME NEW n \in Names, NEW entry \in Entry, NEW w \in Nat,
         NEW body \in Body, FromUpstream(FileOf[n], body),
         w > 0 => AgedFor(body, w)
  PROVE  CopyInv(n, Served(entry, w, body))
BY DEF CopyInv, Served, WithIndexValidators, Entry

(* A copy old enough for the window in force may be confirmed under it.       *)
LEMMA ConfirmedAged ==
  ASSUME NEW n \in Names, NEW entry \in Entry, NEW w \in Nat,
         NEW held \in Copy, CopyInv(n, held), w > 0 => AgedFor(held.body, w)
  PROVE  CopyInv(n, Confirmed(held, entry, w))
BY DEF CopyInv, Confirmed, WithIndexValidators, Entry, Copy

(* While clock, window and registry stand still, only what changed matters.   *)
LEMMA QuietStep ==
  ASSUME TypeOK, TypeOK', AgeInv, UNCHANGED environment,
         \A f \in Files :
           \/ disk'[f] = disk[f]
           \/ FromUpstream(f, disk'[f].body),
         \A n \in Names :
           \/ memo'[n] \in {memo[n], None}
           \/ /\ FromUpstream(FileOf[n], memo'[n].body)
              /\ ServeWindow(n) > 0
              /\ AgedFor(memo'[n].body, ServeWindow(n)),
         \A c \in Clients, n \in Names :
           copy'[c][n] = copy[c][n] \/ CopyInv(n, copy'[c][n]),
         \A c \in Clients :
           \/ req'[c] = None
           \/ req'[c] = req[c] /\ copy'[c] = copy[c]
           \/ RequestInv(req'[c], copy'[c][req'[c].name])
  PROVE  AgeInv'
<1>1. now' = now /\ cooldown' = cooldown /\ upstream' = upstream
  BY DEF environment
<1>2. \A f \in Files : FileInv(f)'
  BY <1>1 DEF AgeInv, FileInv, FromUpstream, PublishedLines
<1>3. \A n \in Names : MemoInv(n)'
  BY <1>1 DEF AgeInv, MemoInv, FromUpstream, PublishedLines, ServeWindow, AgedFor
<1>4. \A c \in Clients, n \in Names :
        copy'[c][n] # None => CopyInv(n, copy[c][n])'
  BY <1>1 DEF AgeInv, CopyInv, FromUpstream, PublishedLines, AgedFor
<1>5. \A c \in Clients :
        req'[c] # None => RequestInv(req[c], copy[c][req[c].name])'
  BY <1>1 DEF AgeInv, RequestInv, FromUpstream, PublishedLines, ServeWindow,
              AgedFor
<1> QED
  BY <1>2, <1>3, <1>4, <1>5 DEF AgeInv

(* A step that only moves one request.                                        *)
LEMMA RequestStepAged ==
  ASSUME TypeOK, TypeOK', AgeInv, NEW c \in Clients, NEW r,
         Becomes(c, r), UNCHANGED <<environment, disk, memo, copy>>,
         r # None => RequestInv(r, copy[c][r.name])
  PROVE  AgeInv'
<1>1. \A d \in Clients : req'[d] = IF d = c THEN r ELSE req[d]
  BY DEF Becomes, TypeOK
<1>2. UNCHANGED environment /\ disk' = disk /\ memo' = memo /\ copy' = copy
  OBVIOUS
<1> QED
  BY <1>1, <1>2, QuietStep, Zenon

(* A step that answers the client: its request is over, its copy renewed.     *)
LEMMA AnswerStepAged ==
  ASSUME TypeOK, TypeOK', AgeInv, NEW c \in Clients, NEW n \in Names, NEW held,
         Holds(c, n, held), req' = [req EXCEPT ![c] = None],
         UNCHANGED <<environment, disk, memo>>, CopyInv(n, held)
  PROVE  AgeInv'
<1>1. \A d \in Clients : req'[d] = IF d = c THEN None ELSE req[d]
  BY DEF TypeOK
<1>2. \A d \in Clients : d # c => copy'[d] = copy[d]
  BY DEF TypeOK, Holds
<1>3. \A m \in Names : copy'[c][m] = IF m = n THEN held ELSE copy[c][m]
  BY DEF TypeOK, Holds
<1>4. UNCHANGED environment /\ disk' = disk /\ memo' = memo
  OBVIOUS
<1>5. \A d \in Clients, m \in Names :
        copy'[d][m] = copy[d][m] \/ CopyInv(m, copy'[d][m])
  BY <1>2, <1>3, Zenon
<1>6. \A d \in Clients : req'[d] = None \/ (req'[d] = req[d] /\ copy'[d] = copy[d])
  BY <1>1, <1>2, Zenon
<1> QED
  BY <1>4, <1>5, <1>6, QuietStep, Zenon

(* A new request keeps AgeInv.                                                *)
LEMMA HandleIndexAged ==
  ASSUME TypeOK, TypeOK', AgeInv, NEW c \in Clients, NEW n \in Names,
         NEW h \in Conditions(copy[c][n]), HandleIndex(c, n, h)
  PROVE  AgeInv'
<1> DEFINE held == copy[c][n]
           w == ServeWindow(n)
           start(pc, entry) ==
             [pc |-> pc, name |-> n, client |-> h.entry,
              windowOk |-> WindowOk(n, h.win), entry |-> entry, body |-> None,
              cutoff |-> 0, gone |-> FALSE]
<1>1. held # None => held \in Copy /\ CopyInv(n, held)
  BY DEF TypeOK, AgeInv
<1>2. w \in Nat
  BY ServeWindowType
<1>3. WindowOk(n, h.win) /\ w > 0 => held # None /\ AgedFor(held.body, w)
  <2>1. SUFFICES ASSUME h.win = w, w > 0
                 PROVE  held # None /\ AgedFor(held.body, w)
    BY DEF WindowOk
  <2>2. held # None /\ held.win = w
    BY <1>2, <2>1
       DEF Conditions, Unconditional, IfNoneMatch, IfModifiedSince
  <2> QED
    BY <1>1, <2>1, <2>2 DEF CopyInv
<1>4. ASSUME NEW pc \in {"find", "send", "warm_read"}, NEW entry,
             Becomes(c, start(pc, entry)), UNCHANGED copy
      PROVE  AgeInv'
  <2>1. RequestInv(start(pc, entry), copy[c][start(pc, entry).name])
    BY <1>3 DEF RequestInv
  <2>2. UNCHANGED <<environment, disk, memo, copy>>
    BY <1>4 DEF HandleIndex, caches
  <2> QED
    BY <1>4, <2>1, <2>2, RequestStepAged
<1>5. CASE metadata[n] # None
           /\ ConfirmsCopy(WindowOk(n, h.win), metadata[n], h.entry)
           /\ IndexNotModified(c, n, metadata[n]) /\ UNCHANGED req
  <2>1. held # None
    BY <1>5 DEF ConfirmsCopy, IsEquivalent, Conditions, Unconditional, NoEntry
  <2>2. w > 0 => AgedFor(held.body, w)
    BY <1>3, <1>5 DEF ConfirmsCopy
  <2>3. metadata[n] \in Entry
    BY <1>5 DEF TypeOK
  <2>4. CopyInv(n, Confirmed(held, metadata[n], w))
    BY <1>1, <1>2, <2>1, <2>2, <2>3, ConfirmedAged
  <2>5. Holds(c, n, Confirmed(held, metadata[n], w))
    BY <1>5 DEF IndexNotModified
  <2>6. UNCHANGED <<environment, disk, memo>>
    BY DEF HandleIndex, caches
  <2>7. req' = [req EXCEPT ![c] = None]
    BY <1>5 DEF HandleIndex, TypeOK
  <2> QED
    BY <2>4, <2>5, <2>6, <2>7, AnswerStepAged
<1> QED
  BY <1>4, <1>5 DEF HandleIndex

(* What is known of a request in flight and of the copy its client holds.     *)
LEMMA InFlightAged ==
  ASSUME TypeOK, AgeInv, NEW c \in Clients, req[c] # None
  PROVE  /\ RequestInv(req[c], copy[c][req[c].name])
         /\ copy[c][req[c].name] # None
              => /\ copy[c][req[c].name] \in Copy
                 /\ CopyInv(req[c].name, copy[c][req[c].name])
         /\ disk[File(c)] # None => FromUpstream(File(c), disk[File(c)].body)
         /\ ServeWindow(req[c].name) \in Nat
<1>1. req[c].name \in Names /\ File(c) \in Files
  BY InFlight
<1> QED
  BY <1>1, ServeWindowType DEF TypeOK, AgeInv, FileInv

(* The steps that read, answer an error or hand over keep AgeInv.             *)
LEMMA ReadingStepAged ==
  ASSUME TypeOK, TypeOK', AgeInv, NEW c \in Clients,
         \/ WarmRead(c) \/ FindIndex(c) \/ ReceiveBody(c) \/ ReadBack(c)
         \/ StaleRead(c) \/ ReceiveFailure(c) \/ ForwardStatus(c)
         \/ FilterPanic(c) \/ Cancel(c) \/ LostFile(c)
  PROVE  AgeInv'
<1>1. req[c] # None
  BY DEF WarmRead, FindIndex, ReceiveBody, ReadBack, StaleRead, ReceiveFailure,
         ForwardStatus, FilterPanic, Cancel, LostFile, At
<1>2. UNCHANGED <<environment, disk, memo, copy>>
  BY DEF WarmRead, FindIndex, ReceiveBody, ReadBack, StaleRead, ReceiveFailure,
         ForwardStatus, FilterPanic, Cancel, LostFile, caches
<1>3. req[c] \in Request /\ RequestInv(req[c], copy[c][req[c].name])
  BY <1>1, InFlight, InFlightAged
<1>4. ASSUME NEW r, Becomes(c, r), r # None => RequestInv(r, copy[c][r.name])
      PROVE  AgeInv'
  BY <1>2, <1>4, RequestStepAged
<1>5. disk[File(c)] # None
        => \A entry \in Entry :
             LET r == Build(req[c], entry, disk[File(c)].body)
             IN  RequestInv(r, copy[c][r.name])
  <2> SUFFICES ASSUME disk[File(c)] # None, NEW entry \in Entry
               PROVE  LET r == Build(req[c], entry, disk[File(c)].body)
                      IN  RequestInv(r, copy[c][r.name])
    OBVIOUS
  <2>1. FromUpstream(FileOf[req[c].name], disk[File(c)].body)
    BY <1>1, InFlightAged DEF File
  <2> QED
    BY <1>3, <2>1 DEF Build, RequestInv, Request
<1>6. /\ req[c].entry \in Entry /\ req[c].client \in Entry
  BY <1>1, InFlight
<1>7. \A pc \in Pcs \ {"filter"}, entry \in Entry :
        LET r == [req[c] EXCEPT !.pc = pc, !.entry = entry]
        IN  RequestInv(r, copy[c][r.name])
  BY <1>3 DEF RequestInv, Request
<1>8. CASE WarmRead(c)
  <2>1. NoEntry \in Entry /\ "find" \in Pcs \ {"filter"}
    BY DEF NoEntry, Entry, Pcs
  <2> QED
    BY <1>4, <1>5, <1>6, <1>7, <1>8, <2>1 DEF WarmRead
<1>9. CASE FindIndex(c)
  <2>1. "send" \in Pcs \ {"filter"}
    BY DEF Pcs
  <2>2. disk[File(c)] # None
          => [etag |-> None, mtime |-> disk[File(c)].mtime] \in Entry
    BY <1>1, InFlight DEF Entry
  <2> QED
    BY <1>4, <1>6, <1>7, <1>9, <2>1, <2>2 DEF FindIndex
<1>10. CASE ReceiveBody(c)
  <2>1. RequestInv([req[c] EXCEPT !.pc = "create"],
                   copy[c][[req[c] EXCEPT !.pc = "create"].name])
    BY <1>3 DEF RequestInv, Request
  <2> QED
    BY <1>4, <1>10, <2>1 DEF ReceiveBody
<1>11. CASE ReadBack(c)
  <2>1. RequestInv([req[c] EXCEPT !.pc = "lost"],
                   copy[c][[req[c] EXCEPT !.pc = "lost"].name])
    BY <1>3 DEF RequestInv, Request
  <2> QED
    BY <1>4, <1>5, <1>6, <1>11, <2>1 DEF ReadBack
<1>12. CASE StaleRead(c)
  BY <1>4, <1>5, <1>6, <1>12 DEF StaleRead
<1>13. CASE ReceiveFailure(c)
  <2> DEFINE r == [req[c] EXCEPT !.pc = "stale_read", !.entry = NoEntry,
                                 !.body = None]
  <2>1. RequestInv(r, copy[c][r.name])
    BY <1>3 DEF RequestInv, Request
  <2> QED
    BY <1>4, <1>13, <2>1 DEF ReceiveFailure
<1>14. CASE ForwardStatus(c) \/ FilterPanic(c) \/ LostFile(c)
  BY <1>4, <1>14 DEF ForwardStatus, FilterPanic, LostFile
<1>15. CASE Cancel(c)
  <2>1. req[c].pc \in WriteJob
          => RequestInv([req[c] EXCEPT !.gone = TRUE],
                        copy[c][[req[c] EXCEPT !.gone = TRUE].name])
    BY <1>3 DEF RequestInv, Request, WriteJob
  <2> QED
    BY <1>4, <1>15, <2>1 DEF Cancel
<1> QED
  BY <1>8, <1>9, <1>10, <1>11, <1>12, <1>13, <1>14, <1>15

(* Upstream's answer keeps AgeInv.                                            *)
LEMMA UpstreamAnswerAged ==
  ASSUME TypeOK, TypeOK', AgeInv, NEW c \in Clients, UpstreamAnswer(c)
  PROVE  AgeInv'
<1>1. /\ req[c] # None
      /\ UNCHANGED <<environment, disk, memo, copy>>
  BY DEF UpstreamAnswer, At, caches
<1> DEFINE r == upstream[File(c)]
           answer(sendsDate, body) ==
             [req[c] EXCEPT !.pc = "recv", !.body = body,
                            !.entry = WithHeaders(req[c].entry, r, sendsDate)]
<1>2. req[c] \in Request /\ RequestInv(req[c], copy[c][req[c].name])
  BY <1>1, InFlight, InFlightAged
<1>3. FromUpstream(FileOf[req[c].name], RevBody(File(c), r))
  <2>1. r \in Revs /\ r \in 1..r /\ File(c) \in Files
    BY <1>1, InFlight DEF TypeOK, Revs
  <2> QED
    BY <2>1 DEF FromUpstream, PublishedLines, RevBody, File
<1>4. ASSUME NEW sendsDate, NEW body,
             body \in {None, RevBody(File(c), r)},
             Becomes(c, answer(sendsDate, body))
      PROVE  AgeInv'
  <2>1. RequestInv(answer(sendsDate, body), copy[c][answer(sendsDate, body).name])
    BY <1>2, <1>3, <1>4 DEF RequestInv, Request
  <2> QED
    BY <1>1, <1>4, <2>1, RequestStepAged
<1>5. \/ \E sendsDate \in BOOLEAN : Becomes(c, answer(sendsDate, None))
      \/ Becomes(c, answer("lm" \in UpstreamSends, RevBody(File(c), r)))
  BY Zenon DEF UpstreamAnswer
<1> QED
  BY <1>4, <1>5, Zenon

(* The write job puts published lines on disk, whatever it leaves there.      *)
LEMMA WriteStepAged ==
  ASSUME TypeOK, TypeOK', AgeInv, NEW c \in Clients,
         CreateFile(c) \/ WriteFile(c) \/ TouchFile(c)
  PROVE  AgeInv'
<1>1. req[c] # None /\ req[c].pc \in {"create", "write", "touch"}
  BY DEF CreateFile, WriteFile, TouchFile, At
<1>2. UNCHANGED <<environment, memo, copy>>
  BY DEF CreateFile, WriteFile, TouchFile, caches
<1>3. /\ req[c] \in Request /\ RequestInv(req[c], copy[c][req[c].name])
      /\ File(c) \in Files
  BY <1>1, InFlight, InFlightAged
<1>4. /\ req[c].body \in Body /\ FromUpstream(File(c), req[c].body)
      /\ req[c].pc \in {"write", "touch"}
           => /\ disk[File(c)] \in IndexFile
              /\ FromUpstream(File(c), disk[File(c)].body)
  BY <1>1, <1>3, InFlight, InFlightAged
     DEF PhaseOK, WriteJob, File, RequestInv, TypeOK
<1>5. \E r : /\ Becomes(c, r)
             /\ r # None => RequestInv(r, copy[c][r.name])
  <2>1. \A pc \in {"write", "touch", "store"} :
          RequestInv([req[c] EXCEPT !.pc = pc],
                     copy[c][[req[c] EXCEPT !.pc = pc].name])
    BY <1>3 DEF RequestInv, Request
  <2> QED
    BY <2>1 DEF CreateFile, WriteFile, TouchFile, AfterJob
<1>6. \/ UNCHANGED disk
      \/ \E body, mtime :
           /\ FromUpstream(File(c), body)
           /\ disk' = [disk EXCEPT ![File(c)] = [body |-> body, mtime |-> mtime]]
  <2>1. CASE CreateFile(c)
    <3>1. FromUpstream(File(c), Truncated)
      BY DEF FromUpstream, Truncated
    <3> QED
      BY <2>1, <3>1 DEF CreateFile
  <2>2. CASE WriteFile(c)
    <3>1. disk[File(c)] \in IndexFile /\ FromUpstream(File(c), disk[File(c)].body)
      BY <1>4, <2>2 DEF WriteFile, At
    <3>2. PICK body \in Overwritten(disk[File(c)].body, req[c].body)
                         \cup PartlyWritten(disk[File(c)].body, req[c].body) :
            disk' = [disk EXCEPT ![File(c)] = [body |-> body, mtime |-> clock]]
      BY <2>2, Zenon DEF WriteFile
    <3>3. FromUpstream(File(c), body)
      BY <1>4, <3>1, OverwrittenType DEF FromUpstream, IndexFile
    <3> QED
      BY <3>2, <3>3
  <2>3. CASE TouchFile(c)
    <3>1. FromUpstream(File(c), disk[File(c)].body)
      BY <1>4, <2>3 DEF TouchFile, At
    <3> QED
      BY <2>3, <3>1 DEF TouchFile
  <2> QED
    BY <2>1, <2>2, <2>3
<1>7. \A f \in Files : disk'[f] = disk[f] \/ FromUpstream(f, disk'[f].body)
  BY <1>3, <1>6 DEF TypeOK, FromUpstream
<1>8. PICK r : /\ Becomes(c, r)
               /\ r # None => RequestInv(r, copy[c][r.name])
  BY <1>5
<1>9. \A d \in Clients : req'[d] = IF d = c THEN r ELSE req[d]
  BY <1>8 DEF Becomes, TypeOK
<1>10. UNCHANGED environment /\ memo' = memo /\ copy' = copy
  BY <1>2
<1> QED
  BY <1>7, <1>8, <1>9, <1>10, QuietStep, Zenon

(* The steps that store metadata and may confirm a copy keep AgeInv.          *)
LEMMA StoringStepAged ==
  ASSUME TypeOK, TypeOK', AgeInv, NEW c \in Clients,
         ReceiveNotModified(c) \/ StoreRefreshed(c)
  PROVE  AgeInv'
<1>1. req[c] # None /\ UNCHANGED <<environment, disk, memo>>
  BY DEF ReceiveNotModified, StoreRefreshed, At
<1> DEFINE n == req[c].name
           held == copy[c][n]
           entry == req[c].entry
           confirms == ConfirmsCopy(req[c].windowOk, entry, req[c].client)
<1>2. /\ req[c] \in Request /\ n \in Names /\ entry \in Entry
      /\ PhaseOK(req[c], disk, copy[c])
      /\ RequestInv(req[c], held)
      /\ held # None => held \in Copy /\ CopyInv(n, held)
      /\ ServeWindow(n) \in Nat
  BY <1>1, InFlight, InFlightAged
<1>3. CASE confirms /\ IndexNotModified(c, n, entry) /\ Becomes(c, None)
  <2>1. held # None
    BY <1>2, <1>3 DEF ConfirmsCopy, IsEquivalent, NoEntry, PhaseOK
  <2>2. ServeWindow(n) > 0 => AgedFor(held.body, ServeWindow(n))
    BY <1>2, <1>3 DEF ConfirmsCopy, RequestInv
  <2>3. CopyInv(n, Confirmed(held, entry, ServeWindow(n)))
    BY <1>2, <2>1, <2>2, ConfirmedAged
  <2> QED
    BY <1>1, <1>2, <1>3, <2>3, AnswerStepAged DEF IndexNotModified, Becomes
<1>4. CASE ReceiveNotModified(c) /\ UNCHANGED copy
           /\ Becomes(c, [req[c] EXCEPT !.pc = "reread"])
  <2>1. RequestInv([req[c] EXCEPT !.pc = "reread"],
                   copy[c][[req[c] EXCEPT !.pc = "reread"].name])
    BY <1>2 DEF RequestInv, Request
  <2> QED
    BY <1>1, <1>4, <2>1, RequestStepAged
<1>5. CASE StoreRefreshed(c) /\ UNCHANGED copy
           /\ Becomes(c, Build(req[c], entry, req[c].body))
  <2>1. RequestInv(Build(req[c], entry, req[c].body),
                   copy[c][Build(req[c], entry, req[c].body).name])
    BY <1>2 DEF RequestInv, Request, Build
  <2> QED
    BY <1>1, <1>5, <2>1, RequestStepAged
<1> QED
  BY <1>3, <1>4, <1>5 DEF ReceiveNotModified, StoreRefreshed

(* Without a cutoff there is no window; with one it is no later than the      *)
(* window's cutoff at the latest time the clock has shown.                    *)
LEMMA CutoffOfWindow ==
  ASSUME TypeOK, NEW n \in Names
  PROVE  /\ CutoffFor(n) # None => /\ ServeWindow(n) > 0
                                   /\ CutoffFor(n) \in Nat
                                   /\ CutoffFor(n) <= CutoffFrom(now, ServeWindow(n))
         /\ CutoffFor(n) = None => ServeWindow(n) = 0
BY WindowsAssumption, LimitsAssumption, NoneAssumption
   DEF CutoffFor, ServeWindow, CutoffFrom, TypeOK

(* The 200 keeps AgeInv, whether or not the memo answers it.                  *)
LEMMA IndexOkAged ==
  ASSUME TypeOK, TypeOK', AgeInv, NEW c \in Clients, IndexOk(c)
  PROVE  AgeInv'
<1> DEFINE n == req[c].name
           entry == req[c].entry
           w == ServeWindow(n)
<1>1. /\ req[c] # None /\ req[c].pc = "ok"
      /\ UNCHANGED <<environment, disk, memo>>
  BY DEF IndexOk, At, caches
<1>2. /\ req[c] \in Request /\ n \in Names /\ entry \in Entry
      /\ req[c].body \in Body
      /\ FromUpstream(FileOf[n], req[c].body)
      /\ RequestInv(req[c], copy[c][n])
      /\ w \in Nat
  BY <1>1, InFlight, InFlightAged DEF PhaseOK, RequestInv
<1>3. CASE Holds(c, n, Served(entry, 0, req[c].body)) /\ Becomes(c, None)
  <2>1. CopyInv(n, Served(entry, 0, req[c].body))
    BY <1>2, ServedAged
  <2> QED
    BY <1>1, <1>2, <1>3, <2>1, AnswerStepAged DEF Becomes
<1>4. CASE memo[n] # None /\ Holds(c, n, Served(entry, w, memo[n].body))
           /\ Becomes(c, None)
  <2>1. /\ memo[n].body \in Body /\ FromUpstream(FileOf[n], memo[n].body)
        /\ AgedFor(memo[n].body, w)
    BY <1>2, <1>4 DEF AgeInv, MemoInv, TypeOK, MemoEntry
  <2>2. CopyInv(n, Served(entry, w, memo[n].body))
    BY <1>2, <2>1, ServedAged
  <2> QED
    BY <1>1, <1>2, <1>4, <2>2, AnswerStepAged DEF Becomes
<1>5. CASE CutoffFor(n) # None /\ UNCHANGED copy
           /\ Becomes(c, [req[c] EXCEPT !.pc = "filter", !.cutoff = CutoffFor(n)])
  <2> DEFINE r == [req[c] EXCEPT !.pc = "filter", !.cutoff = CutoffFor(n)]
  <2>1. w > 0 /\ CutoffFor(n) \in Nat /\ CutoffFor(n) <= CutoffFrom(now, w)
    BY <1>2, <1>5, CutoffOfWindow
  <2>2. RequestInv(r, copy[c][r.name])
    BY <1>2, <2>1 DEF RequestInv, Request
  <2> QED
    BY <1>1, <1>5, <2>2, RequestStepAged
<1> QED
  BY <1>3, <1>4, <1>5 DEF IndexOk, MemoHit

(* The filter task keeps AgeInv.                                              *)
LEMMA FilterAged ==
  ASSUME TypeOK, TypeOK', AgeInv, NEW c \in Clients, Filter(c)
  PROVE  AgeInv'
<1> DEFINE n == req[c].name
           w == ServeWindow(n)
           filtered == FilterIndex(req[c].body, req[c].cutoff)
           kept == [validator |-> EntryValidator(req[c].entry),
                    bucket    |-> Bucket(req[c].cutoff),
                    body      |-> filtered]
           held == Served(req[c].entry, w, filtered)
<1>1. /\ req[c] # None /\ req[c].pc = "filter" /\ Becomes(c, None)
      /\ UNCHANGED <<environment, disk>>
      /\ memo' = Insert(memo, n, kept, MemoMax)
      /\ Holds(c, n, held)
  BY DEF Filter, At
<1>2. /\ req[c] \in Request /\ n \in Names /\ req[c].entry \in Entry
      /\ req[c].body \in Body /\ req[c].cutoff \in Nat
      /\ FromUpstream(FileOf[n], req[c].body)
      /\ w \in Nat /\ w > 0 /\ req[c].cutoff <= CutoffFrom(now, w)
  BY <1>1, InFlight, InFlightAged DEF PhaseOK, RequestInv, Request
<1>3. now \in Nat
  BY LimitsAssumption DEF TypeOK
<1>4. filtered \in Body /\ FromUpstream(FileOf[n], filtered)
  BY <1>2, FilterType DEF FromUpstream
<1>5. AgedFor(filtered, w)
  BY <1>2, <1>3, FilteredAged DEF AgedFor
<1>6. CopyInv(n, held)
  BY <1>2, <1>4, <1>5, ServedAged
<1>7. kept.body = filtered
  OBVIOUS
<1>8. \A m \in Names :
        \/ memo'[m] \in {memo[m], None}
        \/ m = n /\ memo'[m] = kept
  <2>1. memo \in [Names -> MemoEntry \cup {None}]
    BY DEF TypeOK
  <2> QED
    BY <1>1, <1>2, <2>1 DEF Insert, EmptyMap
<1>9. \A d \in Clients : req'[d] = IF d = c THEN None ELSE req[d]
  BY <1>1 DEF Becomes, TypeOK
<1>10. \A d \in Clients : d # c => copy'[d] = copy[d]
  BY <1>1 DEF Holds, TypeOK
<1>11. \A m \in Names : copy'[c][m] = IF m = n THEN held ELSE copy[c][m]
  BY <1>1, <1>2 DEF Holds, TypeOK
<1>12. UNCHANGED environment /\ disk' = disk
  BY <1>1
<1>13. \A m \in Names :
         \/ memo'[m] \in {memo[m], None}
         \/ /\ FromUpstream(FileOf[m], memo'[m].body)
            /\ ServeWindow(m) > 0
            /\ AgedFor(memo'[m].body, ServeWindow(m))
  <2> HIDE DEF kept, filtered
  <2> QED
    BY <1>2, <1>4, <1>5, <1>7, <1>8, Zenon
<1>14. \A d \in Clients, m \in Names :
         copy'[d][m] = copy[d][m] \/ CopyInv(m, copy'[d][m])
  <2> HIDE DEF held
  <2> QED
    BY <1>6, <1>10, <1>11, Zenon
<1>15. \A d \in Clients :
         req'[d] = None \/ (req'[d] = req[d] /\ copy'[d] = copy[d])
  BY <1>9, <1>10, Zenon
<1> QED
  BY <1>12, <1>13, <1>14, <1>15, QuietStep, Zenon

(* Time, new revisions and restarts keep every body published and old enough. *)
LEMMA SurroundingsAged ==
  ASSUME TypeOK, TypeOK', AgeInv,
         \/ \E n \in Names : Expire(n)
         \/ \E f \in Files : Publish(f)
         \/ Tick \/ SetBack
         \/ Restart
  PROVE  AgeInv'
<1>1. CASE \E n \in Names : Expire(n)
  <2>1. UNCHANGED <<environment, disk, memo, req, copy>>
    BY <1>1 DEF Expire
  <2> QED
    BY <2>1, QuietStep
<1>2. CASE (\E f \in Files : Publish(f)) \/ Tick \/ SetBack
  <2>1. /\ UNCHANGED <<cooldown, disk, memo, req, copy>>
        /\ now \in Nat /\ now' \in Nat /\ now <= now'
    BY <1>2, LimitsAssumption DEF Publish, Tick, SetBack, caches, TypeOK
  <2>2. \A f \in Files : \A body : FromUpstream(f, body) => body.lines \subseteq PublishedLines(f)'
    <3>1. \A f \in Files : /\ upstream[f] \in Nat /\ upstream'[f] \in Nat
                          /\ upstream[f] <= upstream'[f]
      <4>1. \A f \in Files : upstream[f] \in Nat
        BY RevsAssumption DEF TypeOK, Revs
      <4>2. CASE Tick \/ SetBack
        BY <4>1, <4>2 DEF Tick, SetBack
      <4>3. CASE \E f \in Files : Publish(f)
        <5>1. PICK f \in Files : upstream' = [upstream EXCEPT ![f] = @ + 1]
          BY <4>3 DEF Publish
        <5> QED
          BY <4>1, <5>1 DEF TypeOK
      <4> QED
        BY <1>2, <4>2, <4>3
    <3>2. \A f \in Files : PublishedLines(f) \subseteq PublishedLines(f)'
      BY <3>1 DEF PublishedLines
    <3> QED
      BY <3>2 DEF FromUpstream
  <2>3. \A body \in Body, w \in Nat :
          w > 0 /\ AgedUnder(body, now, w) => AgedUnder(body, now', w)
    BY <2>1, AgedLater
  <2>4. \A n \in Names : ServeWindow(n)' = ServeWindow(n) /\ ServeWindow(n) \in Nat
    BY <2>1, ServeWindowType DEF ServeWindow
  <2>5. \A f \in Files : FileInv(f)'
    BY <2>1, <2>2 DEF AgeInv, FileInv, FromUpstream
  <2>6. \A n \in Names : MemoInv(n)'
    <3> SUFFICES ASSUME NEW n \in Names, memo[n] # None PROVE MemoInv(n)'
      BY <2>1 DEF MemoInv
    <3>1. memo[n].body \in Body /\ FileOf[n] \in Files
      BY NamesAssumption DEF TypeOK, MemoEntry
    <3> QED
      BY <2>1, <2>2, <2>3, <2>4, <3>1 DEF AgeInv, MemoInv, AgedFor, FromUpstream
  <2>7. \A c \in Clients, n \in Names : (copy[c][n] # None => CopyInv(n, copy[c][n]))'
    <3> SUFFICES ASSUME NEW c \in Clients, NEW n \in Names, copy[c][n] # None
                 PROVE  CopyInv(n, copy[c][n])'
      BY <2>1
    <3>1. /\ copy[c][n].body \in Body /\ FileOf[n] \in Files
          /\ copy[c][n].conf \in Nat /\ copy[c][n].win \in Nat
      BY NamesAssumption DEF TypeOK, Copy
    <3> QED
      BY <2>1, <2>2, <2>3, <3>1 DEF AgeInv, CopyInv, AgedFor, FromUpstream
  <2>8. \A c \in Clients :
          (req[c] # None => RequestInv(req[c], copy[c][req[c].name]))'
    <3> SUFFICES ASSUME NEW c \in Clients, req[c] # None
                 PROVE  RequestInv(req[c], copy[c][req[c].name])'
      BY <2>1
    <3> DEFINE n == req[c].name
               held == copy[c][n]
               w == ServeWindow(n)
    <3>1. /\ n \in Names /\ FileOf[n] \in Files /\ req[c].cutoff \in Nat
          /\ held # None => held.body \in Body
          /\ req[c].body # None => req[c].body \in Body
      BY NamesAssumption DEF TypeOK, Request, Copy
    <3>2. w > 0 => /\ CutoffFrom(now, w) \in Nat /\ CutoffFrom(now', w) \in Nat
                   /\ CutoffFrom(now, w) <= CutoffFrom(now', w)
      BY <2>1, <2>4, <3>1 DEF CutoffFrom
    <3>3. RequestInv(req[c], held)
      BY DEF AgeInv
    <3>4. /\ req[c].body # None => req[c].body.lines \subseteq PublishedLines(FileOf[n])'
          /\ req[c].windowOk /\ w > 0
               => held # None /\ AgedUnder(held.body, now', w)
          /\ req[c].pc = "filter" => w > 0 /\ req[c].cutoff <= CutoffFrom(now', w)
      <4>1. req[c].body # None
              => req[c].body.lines \subseteq PublishedLines(FileOf[n])'
        BY <2>1, <2>2, <3>1, <3>3 DEF RequestInv, PublishedLines
      <4>2. req[c].windowOk /\ w > 0
              => held # None /\ AgedUnder(held.body, now', w)
        BY <2>3, <2>4, <3>1, <3>3 DEF RequestInv, AgedFor
      <4>3. req[c].pc = "filter" => w > 0 /\ req[c].cutoff <= CutoffFrom(now', w)
        BY <3>1, <3>2, <3>3 DEF RequestInv
      <4> QED
        BY <4>1, <4>2, <4>3
    <3> QED
      BY <2>1, <2>4, <3>1, <3>4 DEF RequestInv, AgedFor, FromUpstream
  <2> QED
    BY <2>5, <2>6, <2>7, <2>8 DEF AgeInv
<1>3. CASE Restart
  <2>1. /\ now' = now /\ upstream' = upstream /\ copy' = copy
        /\ \A n \in Names : memo'[n] = None
        /\ \A c \in Clients : req'[c] = None
        /\ \A f \in Files : disk'[f] \in {disk[f], None}
    BY <1>3 DEF Restart, EmptyMap
  <2>2. \A f \in Files : FileInv(f)'
    BY <2>1 DEF AgeInv, FileInv, FromUpstream, PublishedLines
  <2>3. \A c \in Clients, n \in Names : (copy[c][n] # None => CopyInv(n, copy[c][n]))'
    BY <2>1 DEF AgeInv, CopyInv, AgedFor, FromUpstream, PublishedLines
  <2> QED
    BY <2>1, <2>2, <2>3 DEF AgeInv, MemoInv
<1> QED
  BY <1>1, <1>2, <1>3

(* Every step keeps AgeInv.                                                   *)
LEMMA NextAged == TypeOK /\ TypeOK' /\ AgeInv /\ [Next]_vars => AgeInv'
<1> SUFFICES ASSUME TypeOK, TypeOK', AgeInv, [Next]_vars PROVE AgeInv'
  OBVIOUS
<1>1. CASE UNCHANGED vars
  <2>1. UNCHANGED <<environment, disk, memo, req, copy>>
    BY <1>1 DEF vars, environment
  <2> QED
    BY <2>1, QuietStep
<1>2. ASSUME NEW c \in Clients, NEW n \in Names,
             NEW h \in Conditions(copy[c][n]), HandleIndex(c, n, h)
      PROVE  AgeInv'
  BY <1>2, HandleIndexAged
<1>3. ASSUME NEW c \in Clients, Progress(c) PROVE AgeInv'
  BY <1>3, ReadingStepAged, UpstreamAnswerAged, WriteStepAged, StoringStepAged,
     IndexOkAged, FilterAged DEF Progress
<1>4. ASSUME NEW c \in Clients,
             ReceiveFailure(c) \/ ForwardStatus(c) \/ FilterPanic(c) \/ Cancel(c)
      PROVE  AgeInv'
  BY <1>4, ReadingStepAged
<1> QED
  BY <1>1, <1>2, <1>3, <1>4, SurroundingsAged DEF Next, Operate

(* AgeInv holds initially.                                                    *)
LEMMA InitAged == Init => AgeInv
BY DEF Init, AgeInv, EmptyMap, FileInv, MemoInv

(* The invariant behind the age gate: every body, wherever it is held (index  *)
(* file, memo, request or client copy), is old enough for its window.         *)
THEOREM AgeInvariant == Spec => []AgeInv
BY InitType, NextType, InitAged, NextAged, PTL DEF Spec

(* No client ever looks at a copy younger than the window the proxy last      *)
(* served or confirmed it under, through every cache, race, crash and window  *)
(* change.                                                                    *)
THEOREM AgeGateHolds == Spec => []NoTooNewVersion
<1>1. AgeInv => NoTooNewVersion
  BY DEF AgeInv, CopyInv, AgedFor, NoTooNewVersion
<1> QED
  BY <1>1, AgeInvariant, PTL

-----------------------------------------------------------------------------
(* The proxy implements the abstract age gate.                                *)

(* The proxy starts where the age gate starts.                                *)
LEMMA RefineInit == Init => Gate!Init
BY DEF Init, Gate!Init, Gate!Nothing, View, Shown, EmptyMap

(* Every answer, 200 or 304, is an answer of the abstract gate.               *)
LEMMA RefineAnswer ==
  ASSUME TypeOK, TypeOK', AgeInv', UNCHANGED environment,
         NEW c \in Clients, NEW n \in Names, NEW held,
         Holds(c, n, held), held # None, held.conf = ServeWindow(n)
  PROVE  Gate!Answer(c, n)
<1> DEFINE shown == Shown(held)
<1>1. now' = now /\ cooldown' = cooldown /\ upstream' = upstream
  BY DEF environment
<1>2. copy'[c][n] = held /\ held \in Copy /\ held # None
  BY NoneAssumption DEF Holds, TypeOK
<1>3. CopyInv(n, copy[c][n])'
  BY <1>2 DEF AgeInv
<1>4. /\ held.body.lines \subseteq PublishedLines(FileOf[n])
      /\ held.conf > 0 => AgedUnder(held.body, now, held.conf)
  BY <1>1, <1>2, <1>3 DEF CopyInv, FromUpstream, PublishedLines, AgedFor
<1>5. shown.lines \subseteq Gate!Published(FileOf[n])
  BY <1>2, <1>4 DEF Shown, Gate!Published, PublishedLines
<1>6. Gate!WindowFor(n) = ServeWindow(n)
  BY DEF Gate!WindowFor, ServeWindow
<1>7. Gate!WindowFor(n) > 0 => Gate!Old(shown.lines, Gate!WindowFor(n))
  <2>1. \A v, cutoff : Gate!TooNew(v, cutoff) <=> TooNew(v, cutoff)
    BY DEF Gate!TooNew, TooNew
  <2>2. \A t, w : Gate!CutoffFrom(t, w) = CutoffFrom(t, w)
    BY DEF Gate!CutoffFrom, CutoffFrom
  <2> QED
    BY <1>2, <1>4, <1>6, <2>1, <2>2 DEF Shown, Gate!Old, AgedUnder
<1>8. shown = [lines |-> shown.lines, under |-> Gate!WindowFor(n)]
  BY <1>2, <1>6 DEF Shown
<1>9. View' = [View EXCEPT ![c][n] = shown]
  <2>1. \A d \in Clients, m \in Names :
          Shown(copy'[d][m]) = IF d = c /\ m = n THEN shown ELSE Shown(copy[d][m])
    BY DEF Holds, TypeOK
  <2> HIDE DEF shown
  <2> QED
    BY <2>1 DEF View
<1> HIDE DEF shown
<1> QED
  BY <1>1, <1>5, <1>7, <1>8, <1>9 DEF Gate!Answer

(* A step that changes no copy, clock, window or revision is a stutter.       *)
LEMMA RefineStutter ==
  ASSUME UNCHANGED environment, UNCHANGED copy
  PROVE  UNCHANGED Gate!vars
BY DEF environment, Gate!vars, View

(* A client's step is an answer of the age gate, or a stutter.                *)
LEMMA RefineClientStep ==
  ASSUME TypeOK, TypeOK', AgeInv', NEW c \in Clients,
         \/ \E n \in Names : \E h \in Conditions(copy[c][n]) : HandleIndex(c, n, h)
         \/ Progress(c) \/ ReceiveFailure(c) \/ ForwardStatus(c)
         \/ FilterPanic(c) \/ Cancel(c)
  PROVE  [Gate!Next]_(Gate!vars)
<1>1. UNCHANGED environment
  BY DEF HandleIndex, Progress, WarmRead, FindIndex, UpstreamAnswer, ReceiveBody,
         ReceiveNotModified, CreateFile, WriteFile, TouchFile, StoreRefreshed,
         ReadBack, LostFile, StaleRead, IndexOk, Filter, ReceiveFailure,
         ForwardStatus, FilterPanic, Cancel
<1>2. ASSUME NEW n \in Names, NEW held \in Copy, Holds(c, n, held),
             held.conf = ServeWindow(n)
      PROVE  [Gate!Next]_(Gate!vars)
  BY <1>1, <1>2, RefineAnswer, NoneAssumption DEF Gate!Next
<1>3. CASE UNCHANGED copy
  BY <1>1, <1>3, RefineStutter
<1>4. ASSUME NEW n \in Names, NEW entry \in Entry, copy[c][n] # None,
             IndexNotModified(c, n, entry)
      PROVE  [Gate!Next]_(Gate!vars)
  <2>1. Confirmed(copy[c][n], entry, ServeWindow(n)).conf = ServeWindow(n)
    BY DEF Confirmed, WithIndexValidators
  <2>2. Confirmed(copy[c][n], entry, ServeWindow(n)) \in Copy
    BY <1>4, ServeWindowType, ConfirmedType DEF TypeOK
  <2> QED
    BY <1>2, <1>4, <2>1, <2>2 DEF IndexNotModified
<1>5. ASSUME NEW n \in Names, NEW entry \in Entry, NEW body \in Body,
             Holds(c, n, Served(entry, ServeWindow(n), body))
      PROVE  [Gate!Next]_(Gate!vars)
  <2>1. Served(entry, ServeWindow(n), body).conf = ServeWindow(n)
    BY DEF Served, WithIndexValidators
  <2>2. Served(entry, ServeWindow(n), body) \in Copy
    BY ServeWindowType, ServedType
  <2> QED
    BY <1>2, <1>5, <2>1, <2>2
<1>6. CASE \E n \in Names : \E h \in Conditions(copy[c][n]) : HandleIndex(c, n, h)
  <2>0. PICK n \in Names : \E h \in Conditions(copy[c][n]) : HandleIndex(c, n, h)
    BY <1>6
  <2>1. PICK h \in Conditions(copy[c][n]) : HandleIndex(c, n, h)
    BY <2>0
  <2>2. CASE UNCHANGED req
             /\ metadata[n] # None /\ ConfirmsCopy(WindowOk(n, h.win), metadata[n], h.entry)
             /\ IndexNotModified(c, n, metadata[n])
    <3>1. h.entry # NoEntry
      BY <2>2 DEF ConfirmsCopy, IsEquivalent, NoEntry
    <3>2. copy[c][n] # None
      BY <3>1 DEF Conditions, Unconditional
    <3>3. metadata[n] \in Entry
      BY <2>2 DEF TypeOK
    <3> QED
      BY <1>4, <2>2, <3>2, <3>3
  <2> QED
    BY <1>3, <2>1, <2>2 DEF HandleIndex
<1>7. CASE ReceiveNotModified(c) \/ StoreRefreshed(c)
  <2> DEFINE confirms == ConfirmsCopy(req[c].windowOk, req[c].entry, req[c].client)
  <2>1. req[c] # None
    BY <1>7 DEF ReceiveNotModified, StoreRefreshed, At
  <2>2. /\ req[c].name \in Names /\ req[c].entry \in Entry
        /\ req[c].client # NoEntry => copy[c][req[c].name] # None
    BY <2>1, InFlight DEF PhaseOK
  <2>3. confirms => req[c].client # NoEntry
    BY DEF ConfirmsCopy, IsEquivalent, NoEntry
  <2> QED
    BY <1>3, <1>4, <1>7, <2>2, <2>3 DEF ReceiveNotModified, StoreRefreshed
<1>8. CASE IndexOk(c)
  <2>1. req[c] # None /\ req[c].pc = "ok"
    BY <1>8 DEF IndexOk, At
  <2>2. /\ req[c].name \in Names /\ req[c].entry \in Entry
        /\ req[c].body \in Body
        /\ memo[req[c].name] # None => memo[req[c].name].body \in Body
    BY <2>1, InFlight DEF PhaseOK, TypeOK, MemoEntry
  <2>3. CutoffFor(req[c].name) = None => ServeWindow(req[c].name) = 0
    BY <2>2, CutoffOfWindow
  <2> QED
    BY <1>3, <1>5, <1>8, <2>2, <2>3 DEF IndexOk, MemoHit
<1>9. CASE Filter(c)
  <2>1. req[c] # None /\ req[c].pc = "filter"
    BY <1>9 DEF Filter, At
  <2>2. /\ req[c].name \in Names /\ req[c].entry \in Entry
        /\ req[c].body \in Body
    BY <2>1, InFlight DEF PhaseOK
  <2>3. FilterIndex(req[c].body, req[c].cutoff) \in Body
    BY <2>2, FilterType
  <2> QED
    BY <1>5, <1>9, <2>2, <2>3 DEF Filter
<1> QED
  BY <1>3, <1>6, <1>7, <1>8, <1>9
     DEF Progress, WarmRead, FindIndex, UpstreamAnswer, ReceiveBody, CreateFile,
         WriteFile, TouchFile, ReadBack, LostFile, StaleRead, ReceiveFailure,
         ForwardStatus, FilterPanic, Cancel

(* The clock, upstream and restarts are steps of the age gate.                *)
LEMMA RefineSurroundings ==
  ASSUME TypeOK,
         \/ \E n \in Names : Expire(n)
         \/ \E f \in Files : Publish(f)
         \/ Tick \/ SetBack
         \/ Restart
  PROVE  [Gate!Next]_(Gate!vars)
<1>1. CASE \E n \in Names : Expire(n)
  BY <1>1, RefineStutter DEF Expire
<1>2. CASE \E f \in Files : Publish(f)
  BY <1>2 DEF Publish, Gate!Next, Gate!Publish, View
<1>3. CASE Tick \/ SetBack
  <2>1. UNCHANGED <<cooldown, upstream, copy>>
    BY <1>3 DEF Tick, SetBack
  <2>2. now' = now \/ (now < MaxTime /\ now' = now + 1)
    <3>1. now \in 0..MaxTime /\ clock \in 0..now /\ MaxTime \in Nat
      BY LimitsAssumption DEF TypeOK
    <3>2. CASE Tick
      BY <3>1, <3>2 DEF Tick
    <3>3. CASE SetBack
      BY <3>3 DEF SetBack
    <3> QED
      BY <1>3, <3>2, <3>3
  <2>3. CASE now' = now
    BY <2>1, <2>3 DEF Gate!vars, View
  <2>4. CASE now < MaxTime /\ now' = now + 1
    BY <2>1, <2>4 DEF Gate!Next, Gate!Tick, View
  <2> QED
    BY <2>2, <2>3, <2>4
<1>4. CASE Restart
  BY <1>4 DEF Restart, Gate!Next, Gate!Reconfigure, View
<1> QED
  BY <1>1, <1>2, <1>3, <1>4

(* Every step of the proxy is a step of the age gate, or a stutter.           *)
LEMMA RefineNext ==
  TypeOK /\ TypeOK' /\ AgeInv' /\ [Next]_vars => [Gate!Next]_(Gate!vars)
<1> SUFFICES ASSUME TypeOK, TypeOK', AgeInv', [Next]_vars
             PROVE  [Gate!Next]_(Gate!vars)
  OBVIOUS
<1>1. CASE UNCHANGED vars
  BY <1>1, RefineStutter DEF vars, environment
<1> QED
  BY <1>1, RefineClientStep, RefineSurroundings DEF Next, Operate

(* The proxy with its caches, races, crashes and restarts implements the      *)
(* abstract age gate: every answer shows only published lines of the crate    *)
(* asked for, none younger than the window in force.                          *)
THEOREM ImplementsAgeGate == Spec => AgeGateSpec
BY TypeCorrect, AgeInvariant, RefineInit, RefineNext, PTL
   DEF Spec, AgeGateSpec, Gate!Spec

=============================================================================
