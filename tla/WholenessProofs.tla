-------------------------- MODULE WholenessProofs --------------------------
(* Theorems about what the index route may not withhold: bodies that claim to *)
(* be a revision are the whole revision, wherever no filter was applied, and  *)
(* a filter applied through the memo is at most a bucket off.                 *)
EXTENDS IndexProxyProofs

(* A body that still is a revision has all of its lines.                      *)
WholeBody(f, body) == body.rev # None => body.lines = RevLines[f][body.rev]

(* A memoised body is what the filter makes of its revision, give or take a   *)
(* bucket, for every cutoff of its bucket.                                    *)
MemoWhole(f, kept) ==
  \A cutoff \in Nat :
    Bucket(cutoff) = kept.bucket
      => AgedIn(f, kept.body, cutoff) /\ AgedOut(kept.body, cutoff)

(* A copy under no window, or with a validator that says so, is whole.        *)
CopyWhole(f, held) ==
  held.conf = 0 \/ (held.etag # None /\ held.win = 0) \/ held.lm # None
    => WholeBody(f, held.body)

(* A request that may end in a 304 without a window has a whole copy to       *)
(* confirm.                                                                   *)
RequestWhole(r, held) ==
  /\ r.body # None => WholeBody(FileOf[r.name], r.body)
  /\ r.windowOk /\ ServeWindow(r.name) = 0 /\ r.client # NoEntry
       => WholeBody(FileOf[r.name], held.body)

WholeInv ==
  /\ \A f \in Files : disk[f] # None => WholeBody(f, disk[f].body)
  /\ \A n \in Names : memo[n] # None => MemoWhole(FileOf[n], memo[n])
  /\ \A c \in Clients, n \in Names :
       copy[c][n] # None => CopyWhole(FileOf[n], copy[c][n])
  /\ \A c \in Clients :
       req[c] # None => RequestWhole(req[c], copy[c][req[c].name])

-----------------------------------------------------------------------------
(* Facts about the operators.                                                 *)

(* Two cutoffs of one bucket are less than a bucket apart.                    *)
LEMMA SameBucket ==
  ASSUME NEW a \in Nat, NEW b \in Nat, Bucket(a) = Bucket(b)
  PROVE  a < b + BucketSecs
<1>1. BucketSecs \in Nat /\ BucketSecs > 0
  BY LimitsAssumption
<1>2. /\ a = BucketSecs * (a \div BucketSecs) + (a % BucketSecs)
      /\ b = BucketSecs * (b \div BucketSecs) + (b % BucketSecs)
      /\ a % BucketSecs \in 0..(BucketSecs - 1)
      /\ b % BucketSecs \in 0..(BucketSecs - 1)
  BY <1>1
<1> QED
  BY <1>1, <1>2 DEF Bucket

(* The filter yields what the memo may keep under its cutoff's bucket.        *)
LEMMA FilteredWhole ==
  ASSUME NEW f \in Files, NEW body \in Body, WholeBody(f, body),
         NEW cutoff \in Nat, NEW kept,
         kept.bucket = Bucket(cutoff), kept.body = FilterIndex(body, cutoff)
  PROVE  MemoWhole(f, kept)
<1> DEFINE filtered == FilterIndex(body, cutoff)
<1> SUFFICES ASSUME NEW k \in Nat, Bucket(k) = Bucket(cutoff)
             PROVE  AgedIn(f, filtered, k) /\ AgedOut(filtered, k)
  BY DEF MemoWhole
<1>1. k < cutoff + BucketSecs /\ cutoff < k + BucketSecs /\ BucketSecs \in Nat
  BY SameBucket, LimitsAssumption
<1>2. /\ filtered.rev = body.rev /\ filtered.utf8 = body.utf8
      /\ body.utf8 => filtered.lines = FilterBody(body.lines, cutoff)
      /\ ~body.utf8 => filtered.lines = body.lines
  BY DEF FilterIndex, Body
<1>3. \A v \in body.lines : PubTime[v] \in Nat \cup {None}
  BY PubTimeAssumption DEF Body
<1>4. AgedIn(f, filtered, k)
  <2>1. SUFFICES ASSUME body.rev # None, NEW v \in RevLines[f][body.rev],
                        PubTime[v] = None \/ PubTime[v] + BucketSecs <= k
                 PROVE  v \in filtered.lines
    BY <1>2 DEF AgedIn
  <2>2. v \in body.lines
    BY <2>1 DEF WholeBody
  <2>3. ~TooNew(v, cutoff)
    BY <1>1, <1>3, <2>1, <2>2 DEF TooNew
  <2> QED
    BY <1>2, <2>2, <2>3 DEF FilterBody
<1>5. AgedOut(filtered, k)
  <2>1. SUFFICES ASSUME body.utf8, NEW v \in filtered.lines, PubTime[v] # None
                 PROVE  PubTime[v] < k + BucketSecs
    BY <1>2 DEF AgedOut
  <2>2. v \in body.lines /\ ~TooNew(v, cutoff)
    BY <1>2, <2>1 DEF FilterBody
  <2> QED
    BY <1>1, <1>3, <2>1, <2>2 DEF TooNew
<1> QED
  BY <1>4, <1>5

(* What upstream serves, and what a write leaves of whole bodies, is whole.   *)
LEMMA WrittenWhole ==
  ASSUME NEW f, NEW old, NEW new, WholeBody(f, new),
         NEW b \in Overwritten(old, new) \cup PartlyWritten(old, new)
  PROVE  WholeBody(f, b)
BY DEF Overwritten, PartlyWritten, WholeBody

(* A copy just served is whole if the body is, or if a window applies.        *)
LEMMA ServedWhole ==
  ASSUME NEW f, NEW entry \in Entry, NEW w \in Nat, NEW body,
         w = 0 => WholeBody(f, body)
  PROVE  CopyWhole(f, Served(entry, w, body))
BY DEF CopyWhole, Served, WithIndexValidators, Entry

(* A copy may be confirmed under no window if it is whole.                    *)
LEMMA ConfirmedWhole ==
  ASSUME NEW f, NEW entry \in Entry, NEW w \in Nat, NEW held \in Copy,
         CopyWhole(f, held), w = 0 => WholeBody(f, held.body)
  PROVE  CopyWhole(f, Confirmed(held, entry, w))
BY DEF CopyWhole, Confirmed, WithIndexValidators, Entry, Copy

-----------------------------------------------------------------------------
(* The invariant.                                                             *)

(* Within a process only what a step changed can break it.                    *)
LEMMA ProcessStep ==
  ASSUME WholeInv, cooldown' = cooldown,
         \A f \in Files :
           disk'[f] \in {disk[f], None} \/ WholeBody(f, disk'[f].body),
         \A n \in Names :
           memo'[n] \in {memo[n], None} \/ MemoWhole(FileOf[n], memo'[n]),
         \A c \in Clients, n \in Names :
           copy'[c][n] = copy[c][n] \/ CopyWhole(FileOf[n], copy'[c][n]),
         \A c \in Clients :
           \/ req'[c] = None
           \/ req'[c] = req[c] /\ copy'[c] = copy[c]
           \/ RequestWhole(req'[c], copy'[c][req'[c].name])
  PROVE  WholeInv'
<1>1. \A f \in Files : disk'[f] # None => WholeBody(f, disk'[f].body)
  BY DEF WholeInv
<1>2. \A n \in Names : memo'[n] # None => MemoWhole(FileOf[n], memo'[n])
  BY DEF WholeInv
<1>3. \A c \in Clients, n \in Names :
        copy'[c][n] # None => CopyWhole(FileOf[n], copy'[c][n])
  BY DEF WholeInv
<1>4. \A c \in Clients :
        req'[c] # None => RequestWhole(req[c], copy[c][req[c].name])'
  BY DEF WholeInv, RequestWhole, ServeWindow
<1> QED
  BY <1>1, <1>2, <1>3, <1>4 DEF WholeInv

(* A step that only moves one request.                                        *)
LEMMA RequestStepWhole ==
  ASSUME TypeOK, WholeInv, NEW c \in Clients, NEW r,
         Becomes(c, r), UNCHANGED <<environment, disk, memo, copy>>,
         r # None => RequestWhole(r, copy[c][r.name])
  PROVE  WholeInv'
<1>1. \A d \in Clients : req'[d] = IF d = c THEN r ELSE req[d]
  BY DEF Becomes, TypeOK
<1>2. cooldown' = cooldown /\ disk' = disk /\ memo' = memo /\ copy' = copy
  BY DEF environment
<1>3. \A d \in Clients :
        \/ req'[d] = None
        \/ req'[d] = req[d] /\ copy'[d] = copy[d]
        \/ RequestWhole(req'[d], copy'[d][req'[d].name])
  BY <1>1, <1>2, Zenon
<1>4. /\ \A f \in Files : disk'[f] \in {disk[f], None}
      /\ \A n \in Names : memo'[n] \in {memo[n], None}
  BY <1>2
<1> QED
  BY <1>2, <1>3, <1>4, ProcessStep, Zenon

(* A step that answers the client: its request is over, its copy renewed.     *)
LEMMA AnswerStepWhole ==
  ASSUME TypeOK, WholeInv, NEW c \in Clients, NEW n \in Names, NEW held,
         Holds(c, n, held), req' = [req EXCEPT ![c] = None],
         cooldown' = cooldown, disk' = disk,
         \A m \in Names :
           memo'[m] \in {memo[m], None} \/ MemoWhole(FileOf[m], memo'[m]),
         CopyWhole(FileOf[n], held)
  PROVE  WholeInv'
<1>1. \A d \in Clients : d # c => copy'[d] = copy[d]
  BY DEF TypeOK, Holds
<1>2. \A m \in Names : copy'[c][m] = IF m = n THEN held ELSE copy[c][m]
  BY DEF TypeOK, Holds
<1>3. \A d \in Clients, m \in Names :
        copy'[d][m] = copy[d][m] \/ CopyWhole(FileOf[m], copy'[d][m])
  BY <1>1, <1>2, Zenon
<1>4. \A d \in Clients : req'[d] = None \/ (req'[d] = req[d] /\ copy'[d] = copy[d])
  BY <1>1 DEF TypeOK
<1>5. \A f \in Files : disk'[f] \in {disk[f], None}
  OBVIOUS
<1> QED
  BY <1>3, <1>4, <1>5, ProcessStep, Zenon

(* What is known of a request in flight and of the copy its client holds.     *)
LEMMA InFlightWhole ==
  ASSUME TypeOK, WholeInv, NEW c \in Clients, req[c] # None
  PROVE  /\ RequestWhole(req[c], copy[c][req[c].name])
         /\ copy[c][req[c].name] # None
              => /\ copy[c][req[c].name] \in Copy
                 /\ CopyWhole(File(c), copy[c][req[c].name])
         /\ disk[File(c)] # None => WholeBody(File(c), disk[File(c)].body)
         /\ ServeWindow(req[c].name) \in Nat
BY InFlight, ServeWindowType DEF TypeOK, WholeInv, File

(* A new request, or the 304 that answers it at once.                         *)
LEMMA HandleIndexWhole ==
  ASSUME TypeOK, WholeInv, NEW c \in Clients, NEW n \in Names,
         NEW h \in Conditions(copy[c][n]), HandleIndex(c, n, h)
  PROVE  WholeInv'
<1> DEFINE held == copy[c][n]
           w == ServeWindow(n)
           start(pc, entry) ==
             [pc |-> pc, name |-> n, client |-> h.entry,
              windowOk |-> WindowOk(n, h.win), entry |-> entry, body |-> None,
              cutoff |-> 0, gone |-> FALSE]
<1>1. held # None => held \in Copy /\ CopyWhole(FileOf[n], held)
  BY DEF TypeOK, WholeInv
<1>2. WindowOk(n, h.win) /\ w = 0 /\ h.entry # NoEntry
        => held # None /\ WholeBody(FileOf[n], held.body)
  <2>1. SUFFICES ASSUME h.win = 0, h.entry # NoEntry
                 PROVE  held # None /\ WholeBody(FileOf[n], held.body)
    BY DEF WindowOk
  <2>2. \/ held # None /\ held.etag # None /\ held.win = 0
        \/ held # None /\ held.lm # None
    BY <2>1 DEF Conditions, Unconditional, IfNoneMatch, IfModifiedSince
  <2> QED
    BY <1>1, <2>2 DEF CopyWhole
<1>3. ASSUME NEW pc \in {"find", "send", "warm_read"}, NEW entry,
             Becomes(c, start(pc, entry)), UNCHANGED copy
      PROVE  WholeInv'
  <2>1. RequestWhole(start(pc, entry), copy[c][start(pc, entry).name])
    BY <1>2 DEF RequestWhole
  <2>2. UNCHANGED <<environment, disk, memo, copy>>
    BY <1>3 DEF HandleIndex, caches
  <2> QED
    BY <1>3, <2>1, <2>2, RequestStepWhole
<1>4. CASE metadata[n] # None
           /\ ConfirmsCopy(WindowOk(n, h.win), metadata[n], h.entry)
           /\ IndexNotModified(c, n, metadata[n]) /\ UNCHANGED req
  <2>1. h.entry # NoEntry /\ WindowOk(n, h.win)
    BY <1>4 DEF ConfirmsCopy, IsEquivalent, NoEntry
  <2>2. held # None
    BY <2>1 DEF Conditions, Unconditional
  <2>3. metadata[n] \in Entry /\ w \in Nat
    BY <1>4, ServeWindowType DEF TypeOK
  <2>4. CopyWhole(FileOf[n], Confirmed(held, metadata[n], w))
    BY <1>1, <1>2, <2>1, <2>2, <2>3, ConfirmedWhole
  <2>5. Holds(c, n, Confirmed(held, metadata[n], w))
    BY <1>4 DEF IndexNotModified
  <2>6. cooldown' = cooldown /\ disk' = disk /\ memo' = memo
    BY DEF HandleIndex, caches, environment
  <2>7. req' = [req EXCEPT ![c] = None]
    BY <1>4 DEF HandleIndex, TypeOK
  <2> QED
    BY <2>4, <2>5, <2>6, <2>7, AnswerStepWhole
<1> QED
  BY <1>3, <1>4 DEF HandleIndex

(* The steps that read, answer an error or hand over.                         *)
LEMMA ReadingStepWhole ==
  ASSUME TypeOK, WholeInv, NEW c \in Clients,
         \/ WarmRead(c) \/ FindIndex(c) \/ ReceiveBody(c) \/ ReadBack(c)
         \/ StaleRead(c) \/ ReceiveFailure(c) \/ ForwardStatus(c)
         \/ FilterPanic(c) \/ Cancel(c) \/ LostFile(c)
  PROVE  WholeInv'
<1>1. req[c] # None
  BY DEF WarmRead, FindIndex, ReceiveBody, ReadBack, StaleRead, ReceiveFailure,
         ForwardStatus, FilterPanic, Cancel, LostFile, At
<1>2. UNCHANGED <<environment, disk, memo, copy>>
  BY DEF WarmRead, FindIndex, ReceiveBody, ReadBack, StaleRead, ReceiveFailure,
         ForwardStatus, FilterPanic, Cancel, LostFile, caches
<1>3. req[c] \in Request /\ RequestWhole(req[c], copy[c][req[c].name])
  BY <1>1, InFlight, InFlightWhole
<1>4. ASSUME NEW r, Becomes(c, r), r # None => RequestWhole(r, copy[c][r.name])
      PROVE  WholeInv'
  BY <1>2, <1>4, RequestStepWhole
<1>5. ASSUME disk[File(c)] # None, NEW entry \in Entry
      PROVE  LET r == Build(req[c], entry, disk[File(c)].body)
             IN  RequestWhole(r, copy[c][r.name])
  <2>1. WholeBody(FileOf[req[c].name], disk[File(c)].body)
    BY <1>1, <1>5, InFlightWhole DEF File
  <2> QED
    BY <1>3, <2>1 DEF Build, RequestWhole, Request
<1>6. \A pc, entry :
        LET r == [req[c] EXCEPT !.pc = pc, !.entry = entry]
        IN  RequestWhole(r, copy[c][r.name])
  BY <1>3 DEF RequestWhole, Request
<1>7. /\ req[c].entry \in Entry /\ req[c].client \in Entry
  BY <1>1, InFlight
<1>8. CASE WarmRead(c)
  BY <1>4, <1>5, <1>6, <1>7, <1>8 DEF WarmRead
<1>9. CASE FindIndex(c)
  BY <1>4, <1>6, <1>9 DEF FindIndex
<1>10. CASE ReceiveBody(c) \/ ReadBack(c)
  <2>1. \A pc : LET r == [req[c] EXCEPT !.pc = pc]
                IN  RequestWhole(r, copy[c][r.name])
    BY <1>3 DEF RequestWhole, Request
  <2> QED
    BY <1>4, <1>5, <1>7, <1>10, <2>1 DEF ReceiveBody, ReadBack
<1>11. CASE StaleRead(c)
  BY <1>4, <1>5, <1>7, <1>11 DEF StaleRead
<1>12. CASE ReceiveFailure(c)
  <2> DEFINE r == [req[c] EXCEPT !.pc = "stale_read", !.entry = NoEntry,
                                 !.body = None]
  <2>1. RequestWhole(r, copy[c][r.name])
    BY <1>3 DEF RequestWhole, Request
  <2> QED
    BY <1>4, <1>12, <2>1 DEF ReceiveFailure
<1>13. CASE ForwardStatus(c) \/ FilterPanic(c) \/ LostFile(c)
  BY <1>4, <1>13 DEF ForwardStatus, FilterPanic, LostFile
<1>14. CASE Cancel(c)
  <2>1. LET r == [req[c] EXCEPT !.gone = TRUE]
        IN  RequestWhole(r, copy[c][r.name])
    BY <1>3 DEF RequestWhole, Request
  <2> QED
    BY <1>4, <1>14, <2>1 DEF Cancel
<1> QED
  BY <1>8, <1>9, <1>10, <1>11, <1>12, <1>13, <1>14

(* Upstream's answer is a whole revision.                                     *)
LEMMA UpstreamAnswerWhole ==
  ASSUME TypeOK, WholeInv, NEW c \in Clients, UpstreamAnswer(c)
  PROVE  WholeInv'
<1>1. /\ req[c] # None
      /\ UNCHANGED <<environment, disk, memo, copy>>
  BY DEF UpstreamAnswer, At, caches
<1> DEFINE rev == upstream[File(c)]
           answer(sendsDate, body) ==
             [req[c] EXCEPT !.pc = "recv", !.body = body,
                            !.entry = WithHeaders(req[c].entry, rev, sendsDate)]
<1>2. req[c] \in Request /\ RequestWhole(req[c], copy[c][req[c].name])
  BY <1>1, InFlight, InFlightWhole
<1>3. WholeBody(FileOf[req[c].name], RevBody(File(c), rev))
  BY DEF WholeBody, RevBody, File
<1>4. ASSUME NEW sendsDate, NEW body,
             body \in {None, RevBody(File(c), rev)},
             Becomes(c, answer(sendsDate, body))
      PROVE  WholeInv'
  <2>1. RequestWhole(answer(sendsDate, body),
                     copy[c][answer(sendsDate, body).name])
    BY <1>2, <1>3, <1>4 DEF RequestWhole, Request
  <2> QED
    BY <1>1, <1>4, <2>1, RequestStepWhole
<1>5. \/ \E sendsDate \in BOOLEAN : Becomes(c, answer(sendsDate, None))
      \/ Becomes(c, answer("lm" \in UpstreamSends, RevBody(File(c), rev)))
  BY Zenon DEF UpstreamAnswer
<1> QED
  BY <1>4, <1>5, Zenon

(* The write job leaves a whole body, or one that claims no revision.         *)
LEMMA WriteStepWhole ==
  ASSUME TypeOK, WholeInv, NEW c \in Clients,
         CreateFile(c) \/ WriteFile(c) \/ TouchFile(c)
  PROVE  WholeInv'
<1>1. req[c] # None /\ req[c].pc \in {"create", "write", "touch"}
  BY DEF CreateFile, WriteFile, TouchFile, At
<1>2. cooldown' = cooldown /\ memo' = memo /\ copy' = copy
  BY DEF CreateFile, WriteFile, TouchFile, caches, environment
<1>3. /\ req[c] \in Request /\ File(c) \in Files
      /\ RequestWhole(req[c], copy[c][req[c].name])
      /\ PhaseOK(req[c], disk, copy[c])
      /\ disk[File(c)] # None => WholeBody(File(c), disk[File(c)].body)
  BY <1>1, InFlight, InFlightWhole
<1>4. /\ WholeBody(File(c), req[c].body)
      /\ req[c].pc \in {"write", "touch"} => disk[File(c)] # None
  BY <1>1, <1>3 DEF RequestWhole, PhaseOK, WriteJob, File
<1>5. PICK r : /\ Becomes(c, r)
               /\ r # None => RequestWhole(r, copy[c][r.name])
  <2>1. \A pc : LET r == [req[c] EXCEPT !.pc = pc]
                IN  RequestWhole(r, copy[c][r.name])
    BY <1>3 DEF RequestWhole, Request
  <2> QED
    BY <2>1 DEF CreateFile, WriteFile, TouchFile, AfterJob
<1>6. \/ UNCHANGED disk
      \/ \E body, mtime :
           /\ WholeBody(File(c), body)
           /\ disk' = [disk EXCEPT ![File(c)] = [body |-> body, mtime |-> mtime]]
  <2>1. CASE CreateFile(c)
    <3>1. WholeBody(File(c), Truncated)
      BY DEF WholeBody, Truncated
    <3> QED
      BY <2>1, <3>1 DEF CreateFile
  <2>2. CASE WriteFile(c)
    <3>1. PICK body \in Overwritten(disk[File(c)].body, req[c].body)
                         \cup PartlyWritten(disk[File(c)].body, req[c].body) :
            disk' = [disk EXCEPT ![File(c)] = [body |-> body, mtime |-> clock]]
      BY <2>2, Zenon DEF WriteFile
    <3>2. WholeBody(File(c), body)
      BY <1>4, WrittenWhole
    <3> QED
      BY <3>1, <3>2
  <2>3. CASE TouchFile(c)
    <3>1. WholeBody(File(c), disk[File(c)].body)
      BY <1>3, <1>4, <2>3 DEF TouchFile, At
    <3> QED
      BY <2>3, <3>1 DEF TouchFile
  <2> QED
    BY <2>1, <2>2, <2>3
<1>7. \A f \in Files :
        disk'[f] \in {disk[f], None} \/ WholeBody(f, disk'[f].body)
  BY <1>3, <1>6 DEF TypeOK, WholeBody
<1>8. \A d \in Clients :
        \/ req'[d] = None
        \/ req'[d] = req[d] /\ copy'[d] = copy[d]
        \/ RequestWhole(req'[d], copy'[d][req'[d].name])
  <2>1. \A d \in Clients : req'[d] = IF d = c THEN r ELSE req[d]
    BY <1>5 DEF Becomes, TypeOK
  <2> QED
    BY <1>2, <1>5, <2>1, Zenon
<1>9. \A n \in Names : memo'[n] \in {memo[n], None}
  BY <1>2
<1> QED
  BY <1>2, <1>7, <1>8, <1>9, ProcessStep, Zenon

(* The steps that store metadata and may confirm a copy.                      *)
LEMMA StoringStepWhole ==
  ASSUME TypeOK, WholeInv, NEW c \in Clients,
         ReceiveNotModified(c) \/ StoreRefreshed(c)
  PROVE  WholeInv'
<1>1. req[c] # None /\ UNCHANGED <<environment, disk, memo>>
  BY DEF ReceiveNotModified, StoreRefreshed, At
<1> DEFINE n == req[c].name
           held == copy[c][n]
           entry == req[c].entry
           confirms == ConfirmsCopy(req[c].windowOk, entry, req[c].client)
<1>2. /\ req[c] \in Request /\ n \in Names /\ entry \in Entry
      /\ PhaseOK(req[c], disk, copy[c])
      /\ RequestWhole(req[c], held)
      /\ held # None => held \in Copy /\ CopyWhole(FileOf[n], held)
      /\ ServeWindow(n) \in Nat
  BY <1>1, InFlight, InFlightWhole DEF File
<1>3. CASE confirms /\ IndexNotModified(c, n, entry) /\ Becomes(c, None)
  <2>1. req[c].client # NoEntry /\ req[c].windowOk /\ held # None
    BY <1>2, <1>3 DEF ConfirmsCopy, IsEquivalent, NoEntry, PhaseOK
  <2>2. CopyWhole(FileOf[n], Confirmed(held, entry, ServeWindow(n)))
    BY <1>2, <2>1, ConfirmedWhole DEF RequestWhole
  <2>3. cooldown' = cooldown /\ disk' = disk /\ memo' = memo
    BY <1>1 DEF environment
  <2> QED
    BY <1>2, <1>3, <2>2, <2>3, AnswerStepWhole DEF IndexNotModified, Becomes
<1>4. CASE ReceiveNotModified(c) /\ UNCHANGED copy
           /\ Becomes(c, [req[c] EXCEPT !.pc = "reread"])
  <2>1. RequestWhole([req[c] EXCEPT !.pc = "reread"],
                     copy[c][[req[c] EXCEPT !.pc = "reread"].name])
    BY <1>2 DEF RequestWhole, Request
  <2> QED
    BY <1>1, <1>4, <2>1, RequestStepWhole
<1>5. CASE StoreRefreshed(c) /\ UNCHANGED copy
           /\ Becomes(c, Build(req[c], entry, req[c].body))
  <2>1. RequestWhole(Build(req[c], entry, req[c].body),
                     copy[c][Build(req[c], entry, req[c].body).name])
    BY <1>2 DEF RequestWhole, Request, Build
  <2> QED
    BY <1>1, <1>5, <2>1, RequestStepWhole
<1> QED
  BY <1>3, <1>4, <1>5 DEF ReceiveNotModified, StoreRefreshed

(* The 200: only a body served without a cutoff has no window.                *)
LEMMA IndexOkWhole ==
  ASSUME TypeOK, WholeInv, NEW c \in Clients, IndexOk(c)
  PROVE  WholeInv'
<1> DEFINE n == req[c].name
           entry == req[c].entry
           w == ServeWindow(n)
<1>1. /\ req[c] # None /\ req[c].pc = "ok"
      /\ UNCHANGED <<environment, disk, memo>>
  BY DEF IndexOk, At, caches
<1>2. /\ req[c] \in Request /\ n \in Names /\ entry \in Entry
      /\ req[c].body # None
      /\ RequestWhole(req[c], copy[c][n])
      /\ w \in Nat
      /\ CutoffFor(n) # None => w > 0
  BY <1>1, InFlight, InFlightWhole, CutoffOfWindow DEF PhaseOK
<1>3. cooldown' = cooldown /\ disk' = disk /\ memo' = memo
  BY <1>1 DEF environment
<1>4. ASSUME NEW v \in Nat, NEW body, v = 0 => WholeBody(FileOf[n], body),
             Holds(c, n, Served(entry, v, body)), Becomes(c, None)
      PROVE  WholeInv'
  <2>1. CopyWhole(FileOf[n], Served(entry, v, body))
    BY <1>2, <1>4, ServedWhole
  <2> QED
    BY <1>2, <1>3, <1>4, <2>1, AnswerStepWhole DEF Becomes
<1>5. CASE Holds(c, n, Served(entry, 0, req[c].body)) /\ Becomes(c, None)
  BY <1>2, <1>4, <1>5 DEF RequestWhole
<1>6. CASE /\ CutoffFor(n) # None /\ Becomes(c, None)
           /\ Holds(c, n, Served(entry, w, memo[n].body))
  BY <1>2, <1>4, <1>6
<1>7. CASE UNCHANGED copy
           /\ Becomes(c, [req[c] EXCEPT !.pc = "filter", !.cutoff = CutoffFor(n)])
  <2> DEFINE r == [req[c] EXCEPT !.pc = "filter", !.cutoff = CutoffFor(n)]
  <2>1. RequestWhole(r, copy[c][r.name])
    BY <1>2 DEF RequestWhole, Request
  <2> QED
    BY <1>1, <1>7, <2>1, RequestStepWhole
<1> QED
  BY <1>5, <1>6, <1>7 DEF IndexOk

(* The filter task: what it memoises is right for the whole bucket.           *)
LEMMA FilterWhole ==
  ASSUME TypeOK, AgeInv, WholeInv, NEW c \in Clients, Filter(c)
  PROVE  WholeInv'
<1> DEFINE n == req[c].name
           w == ServeWindow(n)
           filtered == FilterIndex(req[c].body, req[c].cutoff)
           kept == [validator |-> EntryValidator(req[c].entry),
                    bucket    |-> Bucket(req[c].cutoff),
                    body      |-> filtered]
           held == Served(req[c].entry, w, filtered)
<1>1. /\ req[c] # None /\ req[c].pc = "filter" /\ Becomes(c, None)
      /\ cooldown' = cooldown /\ disk' = disk
      /\ memo' = Insert(memo, n, kept, MemoMax)
      /\ Holds(c, n, held)
  BY DEF Filter, At, environment
<1>2. /\ req[c] \in Request /\ n \in Names /\ req[c].entry \in Entry
      /\ FileOf[n] \in Files
      /\ req[c].body \in Body /\ req[c].cutoff \in Nat
      /\ WholeBody(FileOf[n], req[c].body)
      /\ w \in Nat /\ w > 0
  BY <1>1, InFlight, InFlightWhole, InFlightAged
     DEF PhaseOK, RequestInv, RequestWhole, Request, File
<1>3. MemoWhole(FileOf[n], kept)
  BY <1>2, FilteredWhole
<1>4. CopyWhole(FileOf[n], held)
  BY <1>2, ServedWhole
<1>5. \A m \in Names :
        \/ memo'[m] \in {memo[m], None}
        \/ m = n /\ memo'[m] = kept
  <2>1. memo \in [Names -> MemoEntry \cup {None}]
    BY DEF TypeOK
  <2> QED
    BY <1>1, <1>2, <2>1 DEF Insert, EmptyMap
<1>6. \A m \in Names :
        memo'[m] \in {memo[m], None} \/ MemoWhole(FileOf[m], memo'[m])
  <2> HIDE DEF kept
  <2> QED
    BY <1>3, <1>5, Zenon
<1> HIDE DEF held
<1> QED
  BY <1>1, <1>2, <1>4, <1>6, AnswerStepWhole DEF Becomes

(* Every step keeps WholeInv.                                                 *)
LEMMA NextWhole == TypeOK /\ AgeInv /\ WholeInv /\ [Next]_vars => WholeInv'
<1> SUFFICES ASSUME TypeOK, AgeInv, WholeInv, [Next]_vars PROVE WholeInv'
  OBVIOUS
<1>1. ASSUME UNCHANGED <<cooldown, disk, memo, req, copy>> PROVE WholeInv'
  <2>1. /\ cooldown' = cooldown /\ disk' = disk /\ memo' = memo
        /\ req' = req /\ copy' = copy
    BY <1>1
  <2>2. /\ \A f \in Files : disk'[f] \in {disk[f], None}
        /\ \A n \in Names : memo'[n] \in {memo[n], None}
    BY <2>1
  <2> QED
    BY <2>1, <2>2, ProcessStep, Zenon
<1>2. CASE UNCHANGED vars
  BY <1>1, <1>2 DEF vars
<1>3. CASE \/ \E n \in Names : Expire(n)
           \/ \E f \in Files : Publish(f)
           \/ Tick \/ SetBack
  BY <1>1, <1>3 DEF Expire, Publish, Tick, SetBack, environment, caches
<1>4. ASSUME NEW c \in Clients, NEW n \in Names,
             NEW h \in Conditions(copy[c][n]), HandleIndex(c, n, h)
      PROVE  WholeInv'
  BY <1>4, HandleIndexWhole
<1>5. ASSUME NEW c \in Clients, Progress(c) PROVE WholeInv'
  BY <1>5, ReadingStepWhole, UpstreamAnswerWhole, WriteStepWhole,
     StoringStepWhole, IndexOkWhole, FilterWhole DEF Progress
<1>6. ASSUME NEW c \in Clients,
             ReceiveFailure(c) \/ ForwardStatus(c) \/ FilterPanic(c) \/ Cancel(c)
      PROVE  WholeInv'
  BY <1>6, ReadingStepWhole
<1>7. CASE Restart
  <2>1. /\ copy' = copy
        /\ \A n \in Names : memo'[n] = None
        /\ \A c \in Clients : req'[c] = None
        /\ \A f \in Files : disk'[f] \in {disk[f], None}
    BY <1>7 DEF Restart, EmptyMap
  <2> QED
    BY <2>1 DEF WholeInv
<1> QED
  BY <1>2, <1>3, <1>4, <1>5, <1>6, <1>7 DEF Next, Operate

(* Every body that claims to be a revision is all of it, in every file, every *)
(* unfiltered copy and every request, and what the memo keeps is right for    *)
(* every cutoff of its bucket.                                                *)
THEOREM WholeInvariant == Spec => []WholeInv
<1>1. Init => WholeInv
  BY DEF Init, WholeInv, EmptyMap
<1> QED
  BY <1>1, NextWhole, TypeCorrect, AgeInvariant, PTL DEF Spec

(* A client that is answered or confirmed without a window has every version  *)
(* of the revision it holds, whatever windows, restarts, torn files and       *)
(* memoised bodies came before.                                               *)
THEOREM NothingIsHeldBack == Spec => []NothingHeldBack
<1>1. TypeOK /\ WholeInv => NothingHeldBack
  BY DEF WholeInv, CopyWhole, WholeBody, NothingHeldBack
<1> QED
  BY <1>1, WholeInvariant, TypeCorrect, PTL

(* A body answered from the memo suits the cutoff of that moment.             *)
LEMMA MemoAnswer ==
  ASSUME TypeOK, WholeInv, NEW c \in Clients, IndexOk(c), req'[c] = None,
         ServeWindow(req[c].name) > 0
  PROVE  LET n == req[c].name
         IN  /\ AgedIn(FileOf[n], copy'[c][n].body, CutoffFor(n))
             /\ AgedOut(copy'[c][n].body, CutoffFor(n))
<1> DEFINE n == req[c].name
           cutoff == CutoffFor(n)
<1>1. req[c] # None /\ req[c] \in Request /\ n \in Names
  BY InFlight DEF IndexOk, At
<1>2. cutoff # None /\ cutoff \in Nat
  BY <1>1, CutoffOfWindow
<1>3. req'[c] # [req[c] EXCEPT !.pc = "filter", !.cutoff = cutoff]
  <2>1. [req[c] EXCEPT !.pc = "filter", !.cutoff = cutoff] \in Request
    BY <1>1, <1>2 DEF Request, Pcs
  <2> QED
    BY <2>1, NoneAssumption
<1>4. /\ MemoHit(n, EntryValidator(req[c].entry), Bucket(cutoff))
      /\ Holds(c, n, Served(req[c].entry, ServeWindow(n), memo[n].body))
  BY <1>2, <1>3 DEF IndexOk, Becomes, TypeOK
<1>5. copy'[c][n].body = memo[n].body
  BY <1>1, <1>4 DEF Holds, Served, TypeOK
<1>6. MemoWhole(FileOf[n], memo[n]) /\ memo[n].bucket = Bucket(cutoff)
  BY <1>1, <1>4 DEF WholeInv, MemoHit
<1> QED
  BY <1>2, <1>5, <1>6 DEF MemoWhole

(* An answer from the memo is no more than a bucket away from what the filter *)
(* would make of its revision at that moment, in either direction, also when  *)
(* the clock is set back.                                                     *)
THEOREM MemoJitterHolds == Spec => MemoJitterBounded
<1>1. TypeOK /\ WholeInv
        => \A c \in Clients :
             IndexOk(c) /\ req'[c] = None
               => LET n == req[c].name IN
                    ServeWindow(n) > 0
                      => /\ AgedIn(FileOf[n], copy'[c][n].body, CutoffFor(n))
                         /\ AgedOut(copy'[c][n].body, CutoffFor(n))
  BY MemoAnswer
<1> QED
  BY <1>1, WholeInvariant, TypeCorrect, PTL DEF MemoJitterBounded

-----------------------------------------------------------------------------
(* Index files between writes, for one client at a time.                      *)

(* What a write job carries is a revision, and it fills a file that is empty. *)
JobInv(c) ==
  /\ req[c].pc \in WriteJob \cup {"recv"} /\ req[c].body # None
       => req[c].body.rev # None
  /\ req[c].pc = "write" => disk[File(c)].body = Truncated

FilesInv ==
  /\ FilesWholeBetweenWrites
  /\ \A c \in Clients : req[c] # None => JobInv(c)

(* A step that leaves the files alone and is not between truncation and write.*)
LEMMA FilesQuietStep ==
  ASSUME TypeOK, FilesInv, NEW c \in Clients, NEW r,
         Becomes(c, r), disk' = disk, ~At(c, "write"),
         r # None => /\ r.pc # "write"
                     /\ r.pc \in WriteJob \cup {"recv"} /\ r.body # None
                          => r.body.rev # None
  PROVE  FilesInv'
<1>1. \A d \in Clients : req'[d] = IF d = c THEN r ELSE req[d]
  BY DEF Becomes, TypeOK
<1>2. FilesWholeBetweenWrites'
  BY <1>1 DEF FilesInv, FilesWholeBetweenWrites, At, File
<1>3. \A d \in Clients : req'[d] # None => JobInv(d)'
  BY <1>1 DEF FilesInv, JobInv, File
<1> QED
  BY <1>2, <1>3 DEF FilesInv

(* The handler's steps outside the write job.                                 *)
LEMMA FilesHandlerStep ==
  ASSUME TypeOK, FilesInv, NEW c \in Clients,
         \/ \E n \in Names : \E h \in Conditions(copy[c][n]) : HandleIndex(c, n, h)
         \/ WarmRead(c) \/ FindIndex(c) \/ UpstreamAnswer(c)
         \/ ReceiveBody(c) \/ ReceiveNotModified(c) \/ StoreRefreshed(c)
         \/ ReadBack(c) \/ LostFile(c) \/ StaleRead(c)
         \/ IndexOk(c) \/ Filter(c)
         \/ ReceiveFailure(c) \/ ForwardStatus(c) \/ FilterPanic(c)
  PROVE  FilesInv'
<1>1. /\ disk' = disk /\ ~At(c, "write")
      /\ \/ UNCHANGED req
         \/ \E r : /\ Becomes(c, r)
                   /\ r # None => /\ r.pc # "write"
                                  /\ r.pc \in WriteJob \cup {"recv"} /\ r.body # None
                                       => r.body.rev # None
  <2>1. CASE \E n \in Names : \E h \in Conditions(copy[c][n]) : HandleIndex(c, n, h)
    BY <2>1 DEF HandleIndex, At, WriteJob
  <2>2. CASE UpstreamAnswer(c)
    <3> DEFINE rev == upstream[File(c)]
               answer(sendsDate, body) ==
                 [req[c] EXCEPT !.pc = "recv", !.body = body,
                                !.entry = WithHeaders(req[c].entry, rev, sendsDate)]
    <3>1. req[c] \in Request /\ RevBody(File(c), rev).rev # None
      <4>1. req[c] \in Request /\ File(c) \in Files
        BY <2>2, InFlight DEF UpstreamAnswer, At
      <4>2. rev \in Nat
        BY <4>1, RevsAssumption DEF TypeOK, Revs
      <4> QED
        BY <4>1, <4>2, NoneAssumption DEF RevBody
    <3>2. \/ \E sendsDate \in BOOLEAN : Becomes(c, answer(sendsDate, None))
          \/ Becomes(c, answer("lm" \in UpstreamSends, RevBody(File(c), rev)))
      BY <2>2, Zenon DEF UpstreamAnswer
    <3>3. \A sendsDate, body :
            /\ answer(sendsDate, body).pc = "recv"
            /\ answer(sendsDate, body).body = body
      BY <3>1 DEF Request
    <3>4. disk' = disk /\ ~At(c, "write")
      BY <2>2 DEF UpstreamAnswer, At
    <3> HIDE DEF answer
    <3> QED
      BY <3>1, <3>2, <3>3, <3>4
  <2>3. CASE \/ WarmRead(c) \/ FindIndex(c) \/ ReadBack(c) \/ StaleRead(c)
             \/ ReceiveNotModified(c) \/ StoreRefreshed(c) \/ IndexOk(c)
    <3>1. req[c] \in Request
      BY <2>3, InFlight
         DEF WarmRead, FindIndex, ReadBack, StaleRead, ReceiveNotModified,
             StoreRefreshed, IndexOk, At
    <3>2. disk' = disk /\ ~At(c, "write")
      BY <2>3
         DEF WarmRead, FindIndex, ReadBack, StaleRead, ReceiveNotModified,
             StoreRefreshed, IndexOk, At
    <3> DEFINE Quiet(r) == r # None => r.pc \notin WriteJob \cup {"recv"}
    <3>3. \A pc, entry, cutoff, body :
            pc \notin WriteJob \cup {"recv"}
              => /\ Quiet([req[c] EXCEPT !.pc = pc, !.entry = entry])
                 /\ Quiet([req[c] EXCEPT !.pc = pc, !.cutoff = cutoff])
                 /\ Quiet([req[c] EXCEPT !.pc = pc])
                 /\ Quiet(Build(req[c], entry, body))
      BY <3>1 DEF Request, Build, WriteJob
    <3>4. "find" \notin WriteJob \cup {"recv"} /\ "send" \notin WriteJob \cup {"recv"}
          /\ "reread" \notin WriteJob \cup {"recv"} /\ "lost" \notin WriteJob \cup {"recv"}
          /\ "filter" \notin WriteJob \cup {"recv"}
      BY DEF WriteJob
    <3>5. Quiet(None)
      OBVIOUS
    <3>6. \E r : Becomes(c, r) /\ Quiet(r)
      <4> HIDE DEF Quiet
      <4> QED
        BY <2>3, <3>3, <3>4, <3>5
           DEF WarmRead, FindIndex, ReadBack, StaleRead, ReceiveNotModified,
               StoreRefreshed, IndexOk
    <3> QED
      BY <3>2, <3>6 DEF WriteJob
  <2>4. CASE ReceiveBody(c)
    <3>1. req[c] \in Request /\ req[c].body # None /\ req[c].body.rev # None
      BY <2>4, InFlight DEF ReceiveBody, At, FilesInv, JobInv
    <3> QED
      BY <2>4, <3>1 DEF ReceiveBody, At, Request
  <2>5. CASE ReceiveFailure(c)
    <3>1. req[c] \in Request
      BY <2>5, InFlight DEF ReceiveFailure, At
    <3> DEFINE r == [req[c] EXCEPT !.pc = "stale_read", !.entry = NoEntry,
                                   !.body = None]
    <3>2. r.pc = "stale_read"
      BY <3>1 DEF Request
    <3>3. Becomes(c, r) /\ disk' = disk /\ ~At(c, "write")
      BY <2>5 DEF ReceiveFailure, At
    <3> HIDE DEF r
    <3> QED
      BY <3>2, <3>3 DEF WriteJob
  <2>6. CASE LostFile(c) \/ Filter(c) \/ ForwardStatus(c) \/ FilterPanic(c)
    BY <2>6 DEF LostFile, Filter, ForwardStatus, FilterPanic, At
  <2> QED
    BY <2>1, <2>2, <2>3, <2>4, <2>5, <2>6
<1>2. CASE UNCHANGED req
  BY <1>1, <1>2 DEF FilesInv, FilesWholeBetweenWrites, JobInv, At, File
<1> QED
  BY <1>1, <1>2, FilesQuietStep

(* The write job of the only client.                                          *)
LEMMA FilesWriteStep ==
  ASSUME TypeOK, FilesInv, "disk" \notin Faults,
         \A c, d \in Clients : c = d,
         NEW c \in Clients, CreateFile(c) \/ WriteFile(c) \/ TouchFile(c)
  PROVE  FilesInv'
<1>1. /\ req[c] \in Request /\ File(c) \in Files /\ JobInv(c)
      /\ req[c].pc \in WriteJob /\ req[c].body # None
      /\ req[c].pc \in {"write", "touch"} => disk[File(c)] # None
  BY InFlight
     DEF CreateFile, WriteFile, TouchFile, At, FilesInv, PhaseOK, WriteJob, File
<1>2. \A pc : LET r == [req[c] EXCEPT !.pc = pc]
              IN  r.pc = pc /\ r.name = req[c].name /\ r.body = req[c].body
  BY <1>1 DEF Request
<1>3. req[c].body.rev # None
  BY <1>1 DEF JobInv
<1>4. \A r : Becomes(c, r) => req'[c] = r
  BY DEF Becomes, TypeOK
<1>5. ASSUME NEW pc, Becomes(c, [req[c] EXCEPT !.pc = pc]),
             pc = "write" => disk'[File(c)].body = Truncated
      PROVE  req'[c] # None => JobInv(c)'
  <2>1. /\ req'[c].pc = pc /\ req'[c].name = req[c].name
        /\ req'[c].body = req[c].body
    <3>1. req'[c] = [req[c] EXCEPT !.pc = pc]
      BY <1>4, <1>5
    <3> QED
      BY <1>2, <3>1, Zenon
  <2> QED
    BY <1>3, <1>5, <2>1 DEF JobInv, File
<1>6. AfterJob(c) => /\ req'[c] # None => JobInv(c)'
                     /\ ~At(c, "write")'
  <2>1. SUFFICES ASSUME AfterJob(c)
                 PROVE  /\ req'[c] # None => JobInv(c)'
                        /\ ~At(c, "write")'
    OBVIOUS
  <2>2. CASE Becomes(c, None)
    BY <1>4, <2>2 DEF At
  <2>3. CASE Becomes(c, [req[c] EXCEPT !.pc = "store"])
    <3>1. req'[c] # None => JobInv(c)'
      BY <1>5, <2>3
    <3>2. ~At(c, "write")'
      BY <1>2, <1>4, <2>3 DEF At
    <3> QED
      BY <3>1, <3>2
  <2> QED
    BY <2>1, <2>2, <2>3 DEF AfterJob
<1>7. \A f \in Files : f # File(c) => disk'[f] = disk[f]
  BY <1>1 DEF CreateFile, WriteFile, TouchFile, TypeOK
<1>8. /\ req'[c] # None => JobInv(c)'
      /\ \/ At(c, "write")' /\ File(c)' = File(c)
         \/ disk'[File(c)] # None => disk'[File(c)].body.rev # None
  <2>1. CASE CreateFile(c)
    <3>1. /\ disk' = [disk EXCEPT ![File(c)] = [body |-> Truncated, mtime |-> clock]]
          /\ Becomes(c, [req[c] EXCEPT !.pc = "write"])
      BY <2>1 DEF CreateFile
    <3>2. disk'[File(c)].body = Truncated
      BY <1>1, <3>1 DEF TypeOK
    <3>3. req'[c] # None => JobInv(c)'
      BY <1>5, <3>1, <3>2
    <3>4. At(c, "write")' /\ File(c)' = File(c)
      <4>1. [req[c] EXCEPT !.pc = "write"] # None
        <5>1. [req[c] EXCEPT !.pc = "write"] \in Request
          BY <1>1 DEF Request, Pcs
        <5> QED
          BY <5>1, NoneAssumption
      <4>2. req'[c] = [req[c] EXCEPT !.pc = "write"]
        BY <1>4, <3>1
      <4>3. req'[c].pc = "write" /\ req'[c].name = req[c].name
        BY <1>2, <4>2, Zenon
      <4> QED
        BY <4>1, <4>2, <4>3 DEF At, File
    <3> QED
      BY <3>3, <3>4
  <2>2. CASE WriteFile(c)
    <3>1. disk[File(c)].body = Truncated
      BY <1>1, <2>2 DEF WriteFile, At, JobInv
    <3>2. Overwritten(disk[File(c)].body, req[c].body) = {req[c].body}
      BY <3>1 DEF Overwritten, Truncated
    <3>3. disk' = [disk EXCEPT ![File(c)] = [body |-> req[c].body, mtime |-> clock]]
      BY <2>2, <3>2 DEF WriteFile
    <3>4. disk'[File(c)].body.rev # None
      BY <1>1, <1>3, <3>3 DEF TypeOK
    <3>5. AfterJob(c) \/ Becomes(c, [req[c] EXCEPT !.pc = "touch"])
      BY <2>2 DEF WriteFile
    <3> QED
      BY <1>5, <1>6, <3>4, <3>5
  <2>3. CASE TouchFile(c)
    <3>1. disk' = [disk EXCEPT ![File(c)] =
                     [body |-> @.body, mtime |-> req[c].entry.mtime]]
      BY <2>3 DEF TouchFile
    <3>2. disk[File(c)] # None /\ disk[File(c)].body.rev # None
      BY <1>1, <2>3 DEF TouchFile, At, FilesInv, FilesWholeBetweenWrites
    <3>3. disk'[File(c)].body.rev # None
      BY <1>1, <3>1, <3>2 DEF TypeOK
    <3> QED
      BY <1>6, <2>3, <3>3 DEF TouchFile
  <2> QED
    BY <2>1, <2>2, <2>3
<1>9. \A d \in Clients : req'[d] # None => JobInv(d)'
  BY <1>8
<1>10. FilesWholeBetweenWrites'
  <2>1. SUFFICES ASSUME NEW f \in Files, disk'[f] # None, disk'[f].body.rev = None
                 PROVE  \E d \in Clients : At(d, "write")' /\ File(d)' = f
    BY DEF FilesWholeBetweenWrites
  <2>2. CASE f = File(c)
    BY <1>8, <2>1, <2>2
  <2>3. CASE f # File(c)
    <3>1. disk[f] # None /\ disk[f].body.rev = None
      BY <1>7, <2>1, <2>3
    <3>2. PICK d \in Clients : At(d, "write") /\ File(d) = f
      BY <3>1 DEF FilesInv, FilesWholeBetweenWrites
    <3> QED
      BY <2>3, <3>2
  <2> QED
    BY <2>2, <2>3
<1> QED
  BY <1>9, <1>10 DEF FilesInv

(* A client hangs up: its write job goes on.                                  *)
LEMMA FilesCancelStep ==
  ASSUME TypeOK, FilesInv, NEW c \in Clients, Cancel(c)
  PROVE  FilesInv'
<1>1. req[c] # None /\ disk' = disk
  BY DEF Cancel
<1>2. CASE req[c].pc \in WriteJob
  <2>1. Becomes(c, [req[c] EXCEPT !.gone = TRUE]) /\ req[c] \in Request
    BY <1>1, <1>2, InFlight DEF Cancel
  <2>2. \A d \in Clients : d # c => req'[d] = req[d]
    BY <2>1 DEF Becomes, TypeOK
  <2>3. /\ req'[c] # None /\ req'[c].pc = req[c].pc
        /\ req'[c].name = req[c].name /\ req'[c].body = req[c].body
    <3>1. req'[c] = [req[c] EXCEPT !.gone = TRUE]
      BY <2>1 DEF Becomes, TypeOK
    <3>2. [req[c] EXCEPT !.gone = TRUE] \in Request
      BY <2>1 DEF Request
    <3> QED
      BY <2>1, <3>1, <3>2, NoneAssumption DEF Request
  <2>4. FilesWholeBetweenWrites'
    BY <1>1, <2>2, <2>3 DEF FilesInv, FilesWholeBetweenWrites, At, File
  <2>5. \A d \in Clients : req'[d] # None => JobInv(d)'
    BY <1>1, <2>2, <2>3 DEF FilesInv, JobInv, File
  <2> QED
    BY <2>4, <2>5 DEF FilesInv
<1>3. CASE req[c].pc \notin WriteJob
  <2>1. Becomes(c, None) /\ ~At(c, "write")
    BY <1>3 DEF Cancel, At, WriteJob
  <2> QED
    BY <1>1, <2>1, FilesQuietStep
<1> QED
  BY <1>2, <1>3

(* Every step keeps FilesInv.                                                 *)
LEMMA NextFiles ==
  ASSUME MaxRestarts = 0, "disk" \notin Faults, \A c, d \in Clients : c = d,
         TypeOK, FilesInv, [Next]_vars
  PROVE  FilesInv'
<1>1. CASE UNCHANGED <<disk, req>>
  BY <1>1 DEF FilesInv, FilesWholeBetweenWrites, JobInv, At, File
<1>2. CASE \/ UNCHANGED vars
           \/ \E n \in Names : Expire(n)
           \/ \E f \in Files : Publish(f)
           \/ Tick \/ SetBack
  BY <1>1, <1>2 DEF vars, Expire, Publish, Tick, SetBack
<1>3. ~Restart
  BY DEF Restart, TypeOK
<1>4. ASSUME NEW c \in Clients, Progress(c) PROVE FilesInv'
  BY <1>4, FilesHandlerStep, FilesWriteStep DEF Progress
<1>5. ASSUME NEW c \in Clients, Cancel(c) PROVE FilesInv'
  BY <1>5, FilesCancelStep
<1> QED
  BY <1>2, <1>3, <1>4, <1>5, FilesHandlerStep DEF Next, Operate

(* For a process that is not restarted, a file system that does what it is    *)
(* asked and one client at a time, whatever spellings it uses, however its    *)
(* transfers fail and wherever it hangs up, an index file is only ever        *)
(* truncated under a write that is still running.                             *)
THEOREM FilesAreWhole ==
  ASSUME MaxRestarts = 0, "disk" \notin Faults, \A c, d \in Clients : c = d
  PROVE  Spec => []FilesWholeBetweenWrites
<1>1. Init => FilesInv
  BY DEF Init, FilesInv, FilesWholeBetweenWrites, EmptyMap
<1>2. TypeOK /\ FilesInv /\ [Next]_vars => FilesInv'
  BY NextFiles
<1>3. FilesInv => FilesWholeBetweenWrites
  BY DEF FilesInv
<1> QED
  BY <1>1, <1>2, <1>3, TypeCorrect, PTL DEF Spec
=============================================================================
