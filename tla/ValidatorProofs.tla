-------------------------- MODULE ValidatorProofs --------------------------
(* The theorem that an etag never runs ahead of the body it is sent with, for *)
(* one client at a time.  Etags and dates are compared with the revisions     *)
(* they may name: what the metadata, the client and a request in flight know  *)
(* of a crate is never newer than its index file, and the file never newer    *)
(* than the registry.                                                         *)
EXTENDS WholenessProofs

(* The validators of an entry name revision r or an earlier one.              *)
UpTo(entry, r) ==
  /\ entry.etag # None => entry.etag <= r
  /\ entry.mtime # None => entry.mtime <= RevDate[r]

(* Both name the same revision.                                               *)
Coherent(entry) ==
  entry.etag # None =>
    /\ "etag" \in UpstreamSends
    /\ entry.mtime # None => entry.mtime = RevDate[entry.etag]

Validates(held) == [etag |-> held.etag, mtime |-> held.lm]

(* Nothing the proxy or a client holds of a crate is newer than revision r.   *)
Known(f, r) ==
  \A n \in Names :
    FileOf[n] = f =>
      /\ metadata[n] # None => UpTo(metadata[n], r)
      /\ \A c \in Clients : copy[c][n] # None => UpTo(Validates(copy[c][n]), r)

Busy(f, pcs) == \E c \in Clients : req[c] # None /\ req[c].pc \in pcs /\ File(c) = f

(* A file that nobody is writing is as new as all that is known of its crate, *)
(* and its date is not newer than its body.                                   *)
FileOrder(f) ==
  disk[f] # None =>
    /\ ~Busy(f, {"write"}) => /\ disk[f].body.rev # None
                              /\ disk[f].body.rev <= upstream[f]
                              /\ Known(f, disk[f].body.rev)
    /\ ~Busy(f, {"write", "touch"})
         => disk[f].mtime <= RevDate[disk[f].body.rev]

MemoOrder(kept) ==
  /\ kept.body.rev # None
  /\ kept.validator[1] = "etag" => kept.validator[2] <= kept.body.rev

CopyOrder(held) ==
  /\ held.body.rev # None
  /\ UpTo(Validates(held), held.body.rev)
  /\ held.etag # None => "etag" \in UpstreamSends

(* From the headers of an answer to the entry that is stored.                 *)
Fetched == WriteJob \cup {"recv", "store"}

RequestOrder(c, r) ==
  LET f == FileOf[r.name]
  IN  /\ Coherent(r.entry) /\ UpTo(r.entry, upstream[f])
      /\ \E h \in Conditions(copy[c][r.name]) : r.client = h.entry
      /\ r.pc \notin Fetched \cup {"ok", "filter"} => r.body = None
      /\ r.body # None => r.body.rev # None /\ UpTo(r.entry, r.body.rev)
      /\ r.pc \in Fetched /\ r.body # None
           => /\ r.body.rev <= upstream[f]
              /\ Known(f, r.body.rev)
              /\ r.entry.mtime # None
      /\ r.pc \in {"touch", "store"} => disk[f] # None /\ disk[f].body = r.body
      /\ (r.body = None \/ r.pc \notin {"recv", "create", "write"}) /\ disk[f] # None
           => UpTo(r.entry, disk[f].body.rev)

OrderInv ==
  /\ \A f \in Files : Known(f, upstream[f]) /\ FileOrder(f)
  /\ \A n \in Names : metadata[n] # None => Coherent(metadata[n])
  /\ \A n \in Names : memo[n] # None => MemoOrder(memo[n])
  /\ \A c \in Clients, n \in Names : copy[c][n] # None => CopyOrder(copy[c][n])
  /\ \A c \in Clients : req[c] # None => RequestOrder(c, req[c])

(* What the theorem assumes: one process, a file system that does what it is  *)
(* asked, an upstream that dates its answers and never publishes two          *)
(* revisions of a crate in one second, and one client at a time.              *)
Orderly ==
  /\ MaxRestarts = 0
  /\ "disk" \notin Faults
  /\ "lm" \in UpstreamSends
  /\ \A r, s \in Revs : r < s => RevDate[r] < RevDate[s]
  /\ \A c, d \in Clients : c = d

-----------------------------------------------------------------------------
(* Facts about the operators.                                                 *)

(* Revisions are numbers, and so are their dates, which never go back.        *)
LEMMA RevsAreNumbers ==
  /\ Revs \subseteq Nat
  /\ \A r \in Revs : RevDate[r] \in Nat /\ r # None
  /\ \A r, s \in Revs : r <= s => RevDate[r] <= RevDate[s]
<1>1. Revs \subseteq Nat /\ \A r \in Revs : RevDate[r] \in Nat
  BY RevsAssumption DEF Revs
<1>2. ASSUME NEW r \in Revs, NEW s \in Revs, r <= s
      PROVE  RevDate[r] <= RevDate[s]
  <2>1. r < s => RevDate[r] <= RevDate[s]
    BY RevsAssumption
  <2>2. r < s \/ r = s
    BY <1>1, <1>2
  <2> QED
    BY <1>1, <2>1, <2>2
<1> QED
  BY <1>1, <1>2, NoneAssumption

(* Where no two revisions share a date, the dates tell which one is newer.    *)
LEMMA DatesTellRevisions ==
  ASSUME Orderly
  PROVE  \A r, s \in Revs : RevDate[r] <= RevDate[s] => r <= s
<1>1. SUFFICES ASSUME NEW r \in Revs, NEW s \in Revs, RevDate[r] <= RevDate[s]
               PROVE  r <= s
  OBVIOUS
<1>2. s < r => RevDate[s] < RevDate[r]
  BY DEF Orderly
<1>3. r \in Nat /\ s \in Nat /\ RevDate[r] \in Nat /\ RevDate[s] \in Nat
  BY RevsAreNumbers
<1> QED
  BY <1>1, <1>2, <1>3

(* What is not newer than a revision is not newer than a later one.           *)
LEMMA UpToLater ==
  ASSUME NEW entry \in Entry, NEW r \in Revs, NEW s \in Revs, r <= s,
         UpTo(entry, r)
  PROVE  UpTo(entry, s)
<1>1. entry.etag \in Revs \cup {None} /\ entry.mtime \in Nat \cup {None}
  BY DEF Entry
<1>2. /\ r \in Nat /\ s \in Nat /\ RevDate[r] <= RevDate[s]
      /\ RevDate[r] \in Nat /\ RevDate[s] \in Nat
  BY RevsAreNumbers
<1>3. entry.etag # None => entry.etag <= s
  <2>1. SUFFICES ASSUME entry.etag # None PROVE entry.etag <= s
    OBVIOUS
  <2>2. entry.etag \in Nat /\ entry.etag <= r
    BY <1>1, <2>1, RevsAreNumbers DEF UpTo
  <2> QED
    BY <1>2, <2>2
<1> QED
  BY <1>1, <1>2, <1>3 DEF UpTo

(* An entry equivalent to one that is not newer than r is not newer than r.   *)
LEMMA EquivalentUpTo ==
  ASSUME Orderly, NEW entry \in Entry, NEW other \in Entry, NEW r \in Revs,
         Coherent(entry), IsEquivalent(entry, other), UpTo(other, r)
  PROVE  UpTo(entry, r)
<1>1. /\ entry.etag \in Revs \cup {None} /\ entry.mtime \in Nat \cup {None}
      /\ other.etag \in Revs \cup {None} /\ other.mtime \in Nat \cup {None}
  BY DEF Entry
<1>2. CASE entry.etag # None /\ entry.etag = other.etag
  BY <1>1, <1>2, RevsAreNumbers DEF UpTo, Coherent
<1>3. CASE entry.mtime # None /\ entry.mtime = other.mtime
  BY <1>1, <1>3, RevsAreNumbers, DatesTellRevisions DEF UpTo, Coherent
<1> QED
  BY <1>2, <1>3 DEF IsEquivalent

(* The validators of a 200 and of a 304 are not newer than the entry, or than *)
(* those the copy had.                                                        *)
LEMMA AnswerUpTo ==
  ASSUME NEW entry \in Entry, NEW w \in Nat, NEW r, UpTo(entry, r)
  PROVE  /\ \A body : /\ UpTo(Validates(Served(entry, w, body)), r)
                      /\ Served(entry, w, body).body = body
                      /\ Served(entry, w, body).etag = entry.etag
         /\ \A held : /\ UpTo(Validates(held), r)
                           => UpTo(Validates(Confirmed(held, entry, w)), r)
                      /\ Confirmed(held, entry, w).body = held.body
                      /\ Confirmed(held, entry, w).etag \in {entry.etag, held.etag}
BY DEF UpTo, Validates, Served, Confirmed, WithIndexValidators

(* The validators a client sends are those of its copy.                       *)
LEMMA ConditionsOrder ==
  ASSUME NEW held, NEW h \in Conditions(held)
  PROVE  /\ h.entry = NoEntry \/ held # None
         /\ h.entry.etag # None => h.entry.mtime = None /\ h.entry.etag = held.etag
         /\ \A r : (held # None => UpTo(Validates(held), r)) => UpTo(h.entry, r)
BY DEF Conditions, Unconditional, IfNoneMatch, IfModifiedSince, NoEntry, UpTo,
       Validates

(* No validators are those of any copy.                                       *)
LEMMA NoConditions ==
  ASSUME NEW held
  PROVE  /\ \E h \in Conditions(held) : NoEntry = h.entry
         /\ Coherent(NoEntry) /\ \A r : UpTo(NoEntry, r)
<1>1. Unconditional \in Conditions(held) /\ Unconditional.entry = NoEntry
  BY DEF Conditions, Unconditional
<1> QED
  BY <1>1 DEF NoEntry, Coherent, UpTo

-----------------------------------------------------------------------------
(* Steps of one client's request.                                             *)

(* With nobody writing the file, it is whole and as new as what is known.     *)
LEMMA QuietFile ==
  ASSUME TypeOK, OrderInv, Orderly, NEW c \in Clients, NEW f \in Files,
         ~At(c, "write"), disk[f] # None
  PROVE  /\ disk[f].body \in Body
         /\ disk[f].body.rev \in Revs
         /\ disk[f].body.rev <= upstream[f]
         /\ Known(f, disk[f].body.rev)
         /\ ~At(c, "touch") => disk[f].mtime <= RevDate[disk[f].body.rev]
<1>1. ~Busy(f, {"write"}) /\ (~At(c, "touch") => ~Busy(f, {"write", "touch"}))
  BY DEF Busy, Orderly, At
<1>2. disk[f].body \in Body
  BY DEF TypeOK, IndexFile
<1>3. disk[f].body.rev \in Revs \cup {None}
  BY <1>2 DEF Body
<1> QED
  BY <1>1, <1>2, <1>3 DEF OrderInv, FileOrder

(* What is known stays known when entries are dropped, or replaced by ones    *)
(* that are known too.                                                        *)
LEMMA KnownStep ==
  ASSUME TypeOK, NEW f \in Files, NEW r, Known(f, r),
         NEW c \in Clients, NEW n \in Names,
         \A m \in Names :
           \/ metadata'[m] \in {metadata[m], None}
           \/ m = n /\ (FileOf[n] = f => UpTo(metadata'[m], r)),
         \A d \in Clients, m \in Names :
           \/ copy'[d][m] = copy[d][m]
           \/ m = n /\ (FileOf[n] = f => UpTo(Validates(copy'[d][m]), r))
  PROVE  \A m \in Names :
           FileOf[m] = f =>
             /\ metadata'[m] # None => UpTo(metadata'[m], r)
             /\ \A d \in Clients :
                  copy'[d][m] # None => UpTo(Validates(copy'[d][m]), r)
BY DEF Known

(* A step of a client that is not writing: it may renew the metadata and the  *)
(* memo under its name and its own copy, and go on as a request r.            *)
LEMMA HandlerStep ==
  ASSUME TypeOK, OrderInv, Orderly, NEW c \in Clients, NEW n \in Names, NEW r,
         Becomes(c, r), disk' = disk, upstream' = upstream,
         ~At(c, "write"), ~At(c, "touch"),
         \A m \in Names :
           \/ metadata'[m] \in {metadata[m], None}
           \/ /\ m = n /\ Coherent(metadata'[m])
              /\ UpTo(metadata'[m], upstream[FileOf[n]])
              /\ disk[FileOf[n]] # None
                   => UpTo(metadata'[m], disk[FileOf[n]].body.rev),
         \A m \in Names : memo'[m] \in {memo[m], None} \/ MemoOrder(memo'[m]),
         \A d \in Clients, m \in Names :
           \/ copy'[d][m] = copy[d][m]
           \/ /\ m = n /\ CopyOrder(copy'[d][m])
              /\ UpTo(Validates(copy'[d][m]), upstream[FileOf[n]])
              /\ disk[FileOf[n]] # None
                   => UpTo(Validates(copy'[d][m]), disk[FileOf[n]].body.rev),
         r # None => /\ copy' = copy
                     /\ RequestOrder(c, r)
                     /\ r.pc \notin {"write", "touch"}
                     /\ metadata' = metadata \/ r.body = None \/ r.pc \notin Fetched
  PROVE  OrderInv'
<1>1. \A f \in Files : Known(f, upstream[f])'
  <2>1. TAKE f \in Files
  <2>2. Known(f, upstream[f])
    BY DEF OrderInv
  <2>3. /\ \A m \in Names :
             \/ metadata'[m] \in {metadata[m], None}
             \/ m = n /\ (FileOf[n] = f => UpTo(metadata'[m], upstream[f]))
        /\ \A d \in Clients, m \in Names :
             \/ copy'[d][m] = copy[d][m]
             \/ m = n /\ (FileOf[n] = f => UpTo(Validates(copy'[d][m]), upstream[f]))
    OBVIOUS
  <2> QED
    BY <2>2, <2>3, KnownStep DEF Known
<1>2. \A f \in Files : FileOrder(f)'
  <2>1. SUFFICES ASSUME NEW f \in Files, disk[f] # None PROVE FileOrder(f)'
    BY DEF FileOrder
  <2> DEFINE rev == disk[f].body.rev
  <2>2. /\ rev \in Revs /\ rev <= upstream[f] /\ Known(f, rev)
        /\ disk[f].mtime <= RevDate[rev]
    BY <2>1, QuietFile
  <2>3. /\ \A m \in Names :
             \/ metadata'[m] \in {metadata[m], None}
             \/ m = n /\ (FileOf[n] = f => UpTo(metadata'[m], rev))
        /\ \A d \in Clients, m \in Names :
             \/ copy'[d][m] = copy[d][m]
             \/ m = n /\ (FileOf[n] = f => UpTo(Validates(copy'[d][m]), rev))
    BY <2>1
  <2> HIDE DEF rev
  <2>4. \A m \in Names :
          FileOf[m] = f =>
            /\ metadata'[m] # None => UpTo(metadata'[m], rev)
            /\ \A d \in Clients :
                 copy'[d][m] # None => UpTo(Validates(copy'[d][m]), rev)
    BY <2>2, <2>3, KnownStep
  <2>5. rev' = rev
    BY DEF rev
  <2>6. Known(f, rev)'
    BY <2>4, <2>5 DEF Known
  <2> QED
    BY <2>2, <2>5, <2>6, RevsAreNumbers DEF FileOrder, rev
<1>3. \A m \in Names : metadata'[m] # None => Coherent(metadata'[m])
  BY DEF OrderInv
<1>4. \A m \in Names : memo'[m] # None => MemoOrder(memo'[m])
  BY DEF OrderInv
<1>5. \A d \in Clients, m \in Names : copy'[d][m] # None => CopyOrder(copy'[d][m])
  BY DEF OrderInv
<1>6. \A d \in Clients : req'[d] # None => RequestOrder(d, req[d])'
  <2>1. SUFFICES ASSUME r # None PROVE RequestOrder(c, req[c])'
    BY DEF Orderly, Becomes, TypeOK
  <2>2. req'[c] = r /\ copy' = copy
    BY <2>1 DEF Becomes, TypeOK
  <2>3. r.body # None /\ r.pc \in Fetched
          => \A f, s : Known(f, s) => Known(f, s)'
    BY <2>1, <2>2 DEF Known
  <2> QED
    BY <2>1, <2>2, <2>3 DEF RequestOrder
<1> QED
  BY <1>1, <1>2, <1>3, <1>4, <1>5, <1>6 DEF OrderInv, Coherent, MemoOrder, CopyOrder,
     UpTo, Validates

(* What is known of a request in flight: the validators its client sent are   *)
(* no newer than anything known of the crate.                                 *)
LEMMA InFlightOrder ==
  ASSUME TypeOK, OrderInv, NEW c \in Clients, req[c] # None
  PROVE  /\ RequestOrder(c, req[c])
         /\ upstream[File(c)] \in Revs /\ Known(File(c), upstream[File(c)])
         /\ Coherent(req[c].client)
         /\ \A r : Known(File(c), r) => UpTo(req[c].client, r)
<1> DEFINE held == copy[c][req[c].name]
<1>1. req[c] \in Request /\ req[c].name \in Names /\ File(c) \in Files
  BY InFlight
<1>2. RequestOrder(c, req[c])
  BY DEF OrderInv
<1>3. PICK h \in Conditions(held) : req[c].client = h.entry
  BY <1>2 DEF RequestOrder
<1>4. held # None => CopyOrder(held)
  BY <1>1 DEF OrderInv
<1>5. Coherent(req[c].client)
  BY <1>3, <1>4, ConditionsOrder DEF Coherent, CopyOrder, NoEntry
<1>6. ASSUME NEW r, Known(File(c), r) PROVE UpTo(req[c].client, r)
  <2>1. held # None => UpTo(Validates(held), r)
    BY <1>1, <1>6 DEF Known, File
  <2> QED
    BY <1>3, <2>1, ConditionsOrder
<1>7. upstream[File(c)] \in Revs /\ Known(File(c), upstream[File(c)])
  BY <1>1 DEF TypeOK, OrderInv
<1> QED
  BY <1>2, <1>5, <1>6, <1>7

(* A step of a handler that leaves the caches and the copies alone.           *)
LEMMA RequestOnlyStep ==
  ASSUME TypeOK, OrderInv, Orderly, NEW c \in Clients, NEW n \in Names, NEW r,
         Becomes(c, r), UNCHANGED <<upstream, disk, metadata, memo, copy>>,
         ~At(c, "write"), ~At(c, "touch"),
         r # None => RequestOrder(c, r) /\ r.pc \notin {"write", "touch"}
  PROVE  OrderInv'
BY HandlerStep

(* A request that is about to answer from the file.                           *)
LEMMA BuildOrder ==
  ASSUME TypeOK, OrderInv, Orderly, NEW c \in Clients, req[c] # None,
         ~At(c, "write"), disk[File(c)] # None,
         NEW entry \in Entry, Coherent(entry), UpTo(entry, upstream[File(c)]),
         UpTo(entry, disk[File(c)].body.rev)
  PROVE  LET r == Build(req[c], entry, disk[File(c)].body)
         IN  RequestOrder(c, r) /\ r.pc \notin {"write", "touch"}
<1> DEFINE r == Build(req[c], entry, disk[File(c)].body)
<1>1. req[c] \in Request /\ File(c) \in Files
  BY InFlight
<1>2. /\ r.pc = "ok" /\ r.name = req[c].name /\ r.client = NoEntry
      /\ r.entry = entry /\ r.body = disk[File(c)].body
  BY <1>1 DEF Build, Request
<1>3. disk[File(c)].body.rev # None
  BY <1>1, QuietFile, RevsAreNumbers
<1> HIDE DEF r
<1>4. RequestOrder(c, r)
  BY <1>2, <1>3, NoConditions DEF RequestOrder, File, Fetched, WriteJob
<1> QED
  BY <1>2, <1>4 DEF r

(* The steps that read, answer an error or hand over.                         *)
LEMMA ReadingStepOrder ==
  ASSUME TypeOK, OrderInv, Orderly, NEW c \in Clients,
         \/ WarmRead(c) \/ FindIndex(c) \/ ReceiveBody(c) \/ ReadBack(c)
         \/ StaleRead(c) \/ ReceiveFailure(c) \/ ForwardStatus(c)
         \/ FilterPanic(c)
  PROVE  OrderInv'
<1> DEFINE f == File(c)
<1>1. /\ req[c] # None /\ ~At(c, "write") /\ ~At(c, "touch")
      /\ UNCHANGED <<upstream, disk, metadata, memo, copy>>
  BY DEF WarmRead, FindIndex, ReceiveBody, ReadBack, StaleRead, ReceiveFailure,
         ForwardStatus, FilterPanic, At, environment, caches
<1>2. /\ req[c] \in Request /\ req[c].name \in Names /\ f \in Files
      /\ req[c].entry \in Entry /\ req[c].client \in Entry
      /\ PhaseOK(req[c], disk, copy[c])
  BY <1>1, InFlight
<1>3. /\ RequestOrder(c, req[c]) /\ Coherent(req[c].client)
      /\ \A s : Known(f, s) => UpTo(req[c].client, s)
      /\ Known(f, upstream[f]) /\ upstream[f] \in Revs
  BY <1>1, InFlightOrder
<1>4. disk[f] # None => /\ disk[f].body.rev \in Revs
                        /\ disk[f].body.rev <= upstream[f]
                        /\ Known(f, disk[f].body.rev)
                        /\ disk[f].mtime <= RevDate[disk[f].body.rev]
                        /\ disk[f].mtime \in Nat
  BY <1>1, <1>2, QuietFile DEF TypeOK, IndexFile
<1>5. ASSUME NEW r, Becomes(c, r),
             r # None => RequestOrder(c, r) /\ r.pc \notin {"write", "touch"}
      PROVE  OrderInv'
  BY <1>1, <1>2, <1>5, RequestOnlyStep
<1>6. ASSUME disk[f] # None, NEW entry \in Entry, Coherent(entry),
             UpTo(entry, upstream[f]), UpTo(entry, disk[f].body.rev),
             Becomes(c, Build(req[c], entry, disk[f].body))
      PROVE  OrderInv'
  BY <1>1, <1>5, <1>6, BuildOrder
<1>7. ASSUME NEW r, Becomes(c, r), r.name = req[c].name, r.client = req[c].client,
             r.body = None, r.pc \notin Fetched \cup {"ok", "filter"},
             Coherent(r.entry), UpTo(r.entry, upstream[f]),
             disk[f] # None => UpTo(r.entry, disk[f].body.rev)
      PROVE  OrderInv'
  <2>1. RequestOrder(c, r)
    BY <1>3, <1>7 DEF RequestOrder, File, Fetched, WriteJob
  <2> QED
    BY <1>5, <1>7, <2>1 DEF Fetched, WriteJob
<1>8. CASE WarmRead(c)
  <2>1. CASE disk[f] # None
    <3>1. /\ Coherent(req[c].entry) /\ UpTo(req[c].entry, upstream[f])
          /\ UpTo(req[c].entry, disk[f].body.rev)
      BY <1>3, <1>8, <2>1 DEF RequestOrder, File, WarmRead, At
    <3> QED
      BY <1>2, <1>6, <1>8, <2>1, <3>1 DEF WarmRead
  <2>2. CASE disk[f] = None
    <3> DEFINE r == [req[c] EXCEPT !.pc = "find", !.entry = NoEntry]
    <3>1. Becomes(c, r)
      BY <1>8, <2>2 DEF WarmRead
    <3>2. /\ r.pc = "find" /\ r.entry = NoEntry /\ r.body = req[c].body
          /\ r.name = req[c].name /\ r.client = req[c].client
      BY <1>2 DEF Request
    <3>3. req[c].body = None
      BY <1>3, <1>8 DEF RequestOrder, WarmRead, At, Fetched, WriteJob
    <3>4. r.pc \notin Fetched \cup {"ok", "filter"}
      BY <3>2 DEF Fetched, WriteJob
    <3> HIDE DEF r
    <3> QED
      BY <1>7, <3>1, <3>2, <3>3, <3>4, NoConditions
  <2> QED
    BY <2>1, <2>2
<1>9. CASE FindIndex(c)
  <2> DEFINE entry == IF disk[f] = None THEN req[c].client
                      ELSE [etag |-> None, mtime |-> disk[f].mtime]
             r == [req[c] EXCEPT !.pc = "send", !.entry = entry]
  <2>1. Coherent(entry) /\ UpTo(entry, upstream[f])
    <3>1. CASE disk[f] = None
      BY <1>3, <3>1
    <3>2. CASE disk[f] # None
      <4>1. /\ RevDate[disk[f].body.rev] \in Nat /\ RevDate[upstream[f]] \in Nat
            /\ RevDate[disk[f].body.rev] <= RevDate[upstream[f]]
        BY <1>3, <1>4, <3>2, RevsAreNumbers
      <4>2. disk[f].mtime <= RevDate[upstream[f]]
        BY <1>4, <3>2, <4>1
      <4> QED
        BY <3>2, <4>2 DEF Coherent, UpTo
    <3> QED
      BY <3>1, <3>2
  <2>2. disk[f] # None => UpTo(entry, disk[f].body.rev)
    BY <1>4 DEF UpTo
  <2>3. /\ r.pc = "send" /\ r.entry = entry /\ r.body = req[c].body
        /\ r.name = req[c].name /\ r.client = req[c].client
    BY <1>2 DEF Request
  <2>4. Becomes(c, r)
    BY <1>9 DEF FindIndex
  <2>5. req[c].body = None
    BY <1>3, <1>9 DEF RequestOrder, FindIndex, At, Fetched, WriteJob
  <2>6. r.pc \notin Fetched \cup {"ok", "filter"}
    BY <2>3 DEF Fetched, WriteJob
  <2> HIDE DEF r, entry
  <2> QED
    BY <1>7, <2>1, <2>2, <2>3, <2>4, <2>5, <2>6
<1>10. CASE ReceiveBody(c)
  <2> DEFINE r == [req[c] EXCEPT !.pc = "create"]
  <2>1. /\ r.pc = "create" /\ r.entry = req[c].entry /\ r.body = req[c].body
        /\ r.name = req[c].name /\ r.client = req[c].client
    BY <1>2 DEF Request
  <2>2. Becomes(c, r) /\ req[c].pc = "recv" /\ req[c].body # None
    BY <1>10 DEF ReceiveBody, At
  <2> HIDE DEF r
  <2>3. RequestOrder(c, r)
    BY <1>3, <2>1, <2>2 DEF RequestOrder, Fetched, WriteJob
  <2> QED
    BY <1>5, <2>1, <2>2, <2>3
<1>11. CASE ReadBack(c)
  <2>1. /\ Coherent(req[c].entry) /\ UpTo(req[c].entry, upstream[f])
        /\ disk[f] # None => UpTo(req[c].entry, disk[f].body.rev)
        /\ req[c].body = None
    BY <1>3, <1>11 DEF RequestOrder, File, ReadBack, At, Fetched, WriteJob
  <2>2. CASE disk[f] # None
    BY <1>2, <1>6, <1>11, <2>1, <2>2 DEF ReadBack
  <2>3. CASE disk[f] = None
    <3> DEFINE r == [req[c] EXCEPT !.pc = "lost"]
    <3>1. Becomes(c, r)
      BY <1>11, <2>3 DEF ReadBack
    <3>2. /\ r.pc = "lost" /\ r.entry = req[c].entry /\ r.body = req[c].body
          /\ r.name = req[c].name /\ r.client = req[c].client
      BY <1>2 DEF Request
    <3>3. r.pc \notin Fetched \cup {"ok", "filter"}
      BY <3>2 DEF Fetched, WriteJob
    <3> HIDE DEF r
    <3> QED
      BY <1>7, <2>1, <2>3, <3>1, <3>2, <3>3
  <2> QED
    BY <2>2, <2>3
<1>12. CASE StaleRead(c)
  <2>1. CASE disk[f] # None
    BY <1>2, <1>3, <1>4, <1>6, <1>12, <2>1 DEF StaleRead
  <2>2. CASE disk[f] = None
    BY <1>5, <1>12, <2>2 DEF StaleRead
  <2> QED
    BY <2>1, <2>2
<1>13. CASE ReceiveFailure(c)
  <2> DEFINE r == [req[c] EXCEPT !.pc = "stale_read", !.entry = NoEntry,
                                 !.body = None]
  <2>1. Becomes(c, r)
    BY <1>13 DEF ReceiveFailure
  <2>2. /\ r.pc = "stale_read" /\ r.entry = NoEntry /\ r.body = None
        /\ r.name = req[c].name /\ r.client = req[c].client
    BY <1>2 DEF Request
  <2>3. r.pc \notin Fetched \cup {"ok", "filter"}
    BY <2>2 DEF Fetched, WriteJob
  <2> HIDE DEF r
  <2> QED
    BY <1>7, <2>1, <2>2, <2>3, NoConditions
<1>14. CASE ForwardStatus(c) \/ FilterPanic(c)
  BY <1>5, <1>14 DEF ForwardStatus, FilterPanic
<1> QED
  BY <1>8, <1>9, <1>10, <1>11, <1>12, <1>13, <1>14
(* A step that answers the client: its request is over, its copy renewed.     *)
LEMMA AnswerStepOrder ==
  ASSUME TypeOK, OrderInv, Orderly, NEW c \in Clients, NEW n \in Names, NEW held,
         Holds(c, n, held), req' = [req EXCEPT ![c] = None],
         disk' = disk, upstream' = upstream, ~At(c, "write"), ~At(c, "touch"),
         \A m \in Names :
           \/ metadata'[m] \in {metadata[m], None}
           \/ /\ m = n /\ Coherent(metadata'[m])
              /\ UpTo(metadata'[m], upstream[FileOf[n]])
              /\ disk[FileOf[n]] # None
                   => UpTo(metadata'[m], disk[FileOf[n]].body.rev),
         \A m \in Names : memo'[m] \in {memo[m], None} \/ MemoOrder(memo'[m]),
         CopyOrder(held), UpTo(Validates(held), upstream[FileOf[n]]),
         disk[FileOf[n]] # None
           => UpTo(Validates(held), disk[FileOf[n]].body.rev)
  PROVE  OrderInv'
<1>1. \A d \in Clients, m \in Names :
        copy'[d][m] = IF d = c /\ m = n THEN held ELSE copy[d][m]
  BY DEF Holds, TypeOK
<1>2. Becomes(c, None)
  BY DEF Becomes
<1> QED
  BY <1>1, <1>2, HandlerStep

(* A 304 is sent for an entry that names the revision the client's copy came  *)
(* with, so the copy's validators stay behind its body.                       *)
LEMMA ConfirmOrder ==
  ASSUME TypeOK, OrderInv, Orderly, NEW c \in Clients, NEW n \in Names,
         NEW h \in Conditions(copy[c][n]), NEW entry \in Entry, Coherent(entry),
         IsEquivalent(entry, h.entry), NEW w \in Nat
  PROVE  LET held == Confirmed(copy[c][n], entry, w)
         IN  /\ CopyOrder(held)
             /\ \A r : UpTo(entry, r) /\ Known(FileOf[n], r)
                       => UpTo(Validates(held), r)
<1> DEFINE old == copy[c][n]
<1>1. old \in Copy \cup {None} /\ h.entry \in Entry
  BY ConditionsType DEF TypeOK
<1>2. old # None
  BY ConditionsOrder DEF IsEquivalent, NoEntry
<1>3. CopyOrder(old) /\ old.body.rev \in Revs
  BY <1>1, <1>2 DEF OrderInv, CopyOrder, Copy, Body
<1>4. UpTo(entry, old.body.rev)
  <2>1. UpTo(h.entry, old.body.rev)
    BY <1>3, ConditionsOrder DEF CopyOrder
  <2> QED
    BY <1>1, <1>3, <2>1, EquivalentUpTo
<1>5. CopyOrder(Confirmed(old, entry, w))
  BY <1>3, <1>4, AnswerUpTo DEF CopyOrder, Coherent
<1>6. ASSUME NEW r, UpTo(entry, r), Known(FileOf[n], r)
      PROVE  UpTo(Validates(Confirmed(old, entry, w)), r)
  <2>1. UpTo(Validates(old), r)
    BY <1>2, <1>6 DEF Known
  <2> QED
    BY <1>6, <2>1, AnswerUpTo
<1> QED
  BY <1>5, <1>6

(* A new request, or the 304 that answers it at once.                         *)
LEMMA HandleIndexOrder ==
  ASSUME TypeOK, OrderInv, Orderly, NEW c \in Clients, NEW n \in Names,
         NEW h \in Conditions(copy[c][n]), HandleIndex(c, n, h)
  PROVE  OrderInv'
<1> DEFINE f == FileOf[n]
           cached == metadata[n]
           start(pc, entry) ==
             [pc |-> pc, name |-> n, client |-> h.entry,
              windowOk |-> WindowOk(n, h.win), entry |-> entry, body |-> None,
              cutoff |-> 0, gone |-> FALSE]
<1>1. /\ req[c] = None /\ ~At(c, "write") /\ ~At(c, "touch")
      /\ UNCHANGED <<upstream, disk, metadata, memo>>
      /\ f \in Files /\ upstream[f] \in Revs /\ Known(f, upstream[f])
  BY NamesAssumption DEF HandleIndex, At, environment, caches, TypeOK, OrderInv
<1>2. disk[f] # None => Known(f, disk[f].body.rev)
  BY <1>1, QuietFile
<1>3. cached # None => /\ cached \in Entry /\ Coherent(cached)
                       /\ UpTo(cached, upstream[f])
                       /\ disk[f] # None => UpTo(cached, disk[f].body.rev)
  BY <1>1, <1>2 DEF OrderInv, Known, TypeOK
<1>4. ASSUME NEW pc \in {"find", "send", "warm_read"}, NEW entry,
             entry = NoEntry \/ (entry = cached /\ cached # None),
             Becomes(c, start(pc, entry)), UNCHANGED copy
      PROVE  OrderInv'
  <2> DEFINE r == start(pc, entry)
  <2>1. /\ Coherent(entry) /\ UpTo(entry, upstream[f])
        /\ disk[f] # None => UpTo(entry, disk[f].body.rev)
    BY <1>3, <1>4, NoConditions
  <2>2. RequestOrder(c, r) /\ r.pc \notin {"write", "touch"}
    BY <2>1 DEF RequestOrder, Fetched, WriteJob
  <2> QED
    BY <1>1, <1>4, <2>2, RequestOnlyStep
<1>5. CASE /\ cached # None
           /\ ConfirmsCopy(WindowOk(n, h.win), cached, h.entry)
           /\ IndexNotModified(c, n, cached) /\ UNCHANGED req
  <2> DEFINE held == Confirmed(copy[c][n], cached, ServeWindow(n))
  <2>1. /\ CopyOrder(held)
        /\ \A r : UpTo(cached, r) /\ Known(f, r) => UpTo(Validates(held), r)
    BY <1>3, <1>5, ServeWindowType, ConfirmOrder DEF ConfirmsCopy
  <2>2. Holds(c, n, held)
    BY <1>5 DEF IndexNotModified
  <2>3. req' = [req EXCEPT ![c] = None]
    BY <1>1, <1>5 DEF TypeOK
  <2> HIDE DEF held
  <2> QED
    BY <1>1, <1>2, <1>3, <1>5, <2>1, <2>2, <2>3, AnswerStepOrder
<1> QED
  BY <1>4, <1>5 DEF HandleIndex
(* A 304 means that what the request knew is upstream's revision itself.      *)
LEMMA UnmodifiedOrder ==
  ASSUME Orderly, NEW entry \in Entry, NEW r \in Revs,
         Coherent(entry), UpTo(entry, r), Unmodified(entry, r)
  PROVE  /\ entry.etag # None => entry.etag = r
         /\ entry.mtime # None => entry.mtime = RevDate[r]
         /\ \A s \in Revs : s <= r /\ UpTo(entry, s) => s = r
<1>1. /\ entry.etag \in Revs \cup {None} /\ entry.mtime \in Nat \cup {None}
      /\ r \in Nat /\ RevDate[r] \in Nat
  BY RevsAreNumbers DEF Entry
<1>2. CASE entry.etag # None
  <2>1. entry.etag = r
    BY <1>2 DEF Unmodified
  <2>2. \A s \in Revs : s <= r /\ r <= s => s = r
    BY RevsAreNumbers, <1>1
  <2> QED
    BY <1>2, <2>1, <2>2 DEF Coherent, UpTo
<1>3. CASE entry.etag = None
  <2>1. /\ entry.mtime # None /\ RevDate[r] <= entry.mtime
        /\ entry.mtime <= RevDate[r]
    BY <1>3 DEF Unmodified, UpTo
  <2>2. entry.mtime = RevDate[r]
    BY <1>1, <2>1
  <2>3. ASSUME NEW s \in Revs, s <= r, UpTo(entry, s) PROVE s = r
    <3>1. RevDate[r] <= RevDate[s]
      BY <2>1, <2>2, <2>3 DEF UpTo
    <3>2. r <= s
      BY <3>1, <2>3, DatesTellRevisions
    <3>3. s \in Nat
      BY RevsAreNumbers
    <3> QED
      BY <1>1, <2>3, <3>2, <3>3
  <2> QED
    BY <1>3, <2>2, <2>3
<1> QED
  BY <1>2, <1>3

(* Upstream's answer names the revision current when it is given.             *)
LEMMA UpstreamAnswerOrder ==
  ASSUME TypeOK, OrderInv, Orderly, NEW c \in Clients, UpstreamAnswer(c)
  PROVE  OrderInv'
<1> DEFINE f == File(c)
           rev == upstream[f]
           entry == req[c].entry
           answer(sendsDate, body) ==
             [req[c] EXCEPT !.pc = "recv", !.body = body,
                            !.entry = WithHeaders(entry, rev, sendsDate)]
<1>1. /\ req[c] # None /\ req[c].pc = "send"
      /\ ~At(c, "write") /\ ~At(c, "touch")
      /\ UNCHANGED <<upstream, disk, metadata, memo, copy>>
  BY DEF UpstreamAnswer, At, environment, caches
<1>2. /\ req[c] \in Request /\ req[c].name \in Names /\ f \in Files
      /\ entry \in Entry
  BY <1>1, InFlight
<1>3. RequestOrder(c, req[c]) /\ Known(f, rev) /\ rev \in Revs
  BY <1>1, InFlightOrder
<1>4. /\ Coherent(entry) /\ UpTo(entry, rev) /\ req[c].body = None
      /\ disk[f] # None => UpTo(entry, disk[f].body.rev)
      /\ \E h \in Conditions(copy[c][req[c].name]) : req[c].client = h.entry
  BY <1>1, <1>3 DEF RequestOrder, File, Fetched, WriteJob
<1>5. disk[f] # None => disk[f].body.rev \in Revs /\ disk[f].body.rev <= rev
  BY <1>1, <1>2, QuietFile
<1>6. rev \in Nat /\ RevDate[rev] \in Nat /\ rev # None
  BY <1>3, RevsAreNumbers
<1>7. \A sendsDate, body :
        LET r == answer(sendsDate, body)
        IN  /\ r.pc = "recv" /\ r.body = body
            /\ r.entry = WithHeaders(entry, rev, sendsDate)
            /\ r.name = req[c].name /\ r.client = req[c].client
  BY <1>2 DEF Request
<1>8. ASSUME NEW sendsDate \in BOOLEAN, Unmodified(entry, rev),
             Becomes(c, answer(sendsDate, None))
      PROVE  OrderInv'
  <2> DEFINE new == WithHeaders(entry, rev, sendsDate)
             r == answer(sendsDate, None)
  <2>1. /\ entry.etag # None => entry.etag = rev
        /\ entry.mtime # None => entry.mtime = RevDate[rev]
        /\ disk[f] # None => disk[f].body.rev = rev
    BY <1>2, <1>3, <1>4, <1>5, <1>8, UnmodifiedOrder
  <2>2. Coherent(new) /\ UpTo(new, rev)
    BY <1>4, <1>6, <2>1 DEF WithHeaders, Coherent, UpTo
  <2>3. disk[f] # None => UpTo(new, disk[f].body.rev)
    BY <2>1, <2>2
  <2>4. /\ r.pc = "recv" /\ r.body = None /\ r.entry = new
        /\ r.name = req[c].name /\ r.client = req[c].client
    BY <1>7
  <2> HIDE DEF r, new
  <2>5. RequestOrder(c, r)
    BY <1>4, <2>2, <2>3, <2>4 DEF RequestOrder, File, Fetched, WriteJob
  <2>6. Becomes(c, r)
    BY <1>8 DEF r
  <2> QED
    BY <1>1, <1>2, <2>4, <2>5, <2>6, RequestOnlyStep
<1>9. ASSUME Becomes(c, answer("lm" \in UpstreamSends, RevBody(f, rev)))
      PROVE  OrderInv'
  <2> DEFINE new == WithHeaders(entry, rev, "lm" \in UpstreamSends)
             body == RevBody(f, rev)
             r == answer("lm" \in UpstreamSends, body)
  <2>1. body.rev = rev
    BY DEF RevBody
  <2>2. /\ Coherent(new) /\ UpTo(new, rev) /\ new.mtime # None
    BY <1>4, <1>6, NoneAssumption DEF WithHeaders, Coherent, UpTo, Orderly
  <2>3. body # None
    BY <1>2, <1>3, RevBodyType, NoneAssumption
  <2>4. /\ r.pc = "recv" /\ r.body = body /\ r.entry = new
        /\ r.name = req[c].name /\ r.client = req[c].client
    BY <1>7
  <2> HIDE DEF r, new, body
  <2>5. RequestOrder(c, r)
    BY <1>3, <1>4, <1>6, <2>1, <2>2, <2>3, <2>4
       DEF RequestOrder, File, Fetched, WriteJob
  <2>6. Becomes(c, r)
    BY <1>9 DEF r, body
  <2> QED
    BY <1>1, <1>2, <2>4, <2>5, <2>6, RequestOnlyStep
<1>10. \/ \E sendsDate \in BOOLEAN :
            Unmodified(entry, rev) /\ Becomes(c, answer(sendsDate, None))
       \/ Becomes(c, answer("lm" \in UpstreamSends, RevBody(f, rev)))
  BY Zenon DEF UpstreamAnswer
<1> HIDE DEF answer, rev, entry, f
<1> QED
  BY <1>8, <1>9, <1>10
(* Storing the entry of a 304, or of a refresh whose write has ended: it is   *)
(* no newer than the file it describes.                                       *)
LEMMA StoreOrder ==
  ASSUME TypeOK, OrderInv, Orderly, NEW c \in Clients,
         ReceiveNotModified(c) \/ StoreRefreshed(c)
  PROVE  OrderInv'
<1> DEFINE f == File(c)
           n == req[c].name
           entry == req[c].entry
           held == Confirmed(copy[c][n], entry, ServeWindow(n))
<1>1. /\ req[c] # None /\ ~At(c, "write") /\ ~At(c, "touch")
      /\ UNCHANGED <<upstream, disk, memo>>
      /\ StoreMetadata(n, entry)
      /\ req[c].pc = "store" \/ req[c].body = None
  BY DEF ReceiveNotModified, StoreRefreshed, At, environment
<1>2. /\ req[c] \in Request /\ n \in Names /\ f \in Files /\ f = FileOf[n]
      /\ entry \in Entry /\ PhaseOK(req[c], disk, copy[c])
  BY <1>1, InFlight DEF File
<1>3. /\ RequestOrder(c, req[c]) /\ Known(f, upstream[f])
  BY <1>1, InFlightOrder
<1>4. /\ Coherent(entry) /\ UpTo(entry, upstream[f])
      /\ disk[f] # None => UpTo(entry, disk[f].body.rev)
  BY <1>1, <1>3 DEF RequestOrder, File
<1>5. disk[f] # None => Known(f, disk[f].body.rev)
  BY <1>1, <1>2, QuietFile
<1>6. \A m \in Names :
        \/ metadata'[m] \in {metadata[m], None}
        \/ m = n /\ metadata'[m] = entry
  <2>1. metadata \in [Names -> Entry \cup {None}]
    BY DEF TypeOK
  <2>2. metadata' = Insert(metadata, n, entry, MetadataMax)
    BY <1>1 DEF StoreMetadata
  <2> QED
    BY <1>2, <2>1, <2>2 DEF Insert, EmptyMap
<1>7. CASE /\ ConfirmsCopy(req[c].windowOk, entry, req[c].client)
           /\ IndexNotModified(c, n, entry) /\ Becomes(c, None)
  <2>1. PICK h \in Conditions(copy[c][n]) : req[c].client = h.entry
    BY <1>3 DEF RequestOrder
  <2>2. /\ CopyOrder(held)
        /\ \A r : UpTo(entry, r) /\ Known(f, r) => UpTo(Validates(held), r)
    BY <1>2, <1>4, <1>7, <2>1, ServeWindowType, ConfirmOrder DEF ConfirmsCopy
  <2>3. Holds(c, n, held) /\ req' = [req EXCEPT ![c] = None]
    BY <1>7 DEF IndexNotModified, Becomes
  <2> HIDE DEF held, entry, n, f
  <2>4. \A m \in Names : memo'[m] = memo[m]
    BY <1>1
  <2> QED
    BY <1>1, <1>2, <1>3, <1>4, <1>5, <1>6, <2>2, <2>3, <2>4, AnswerStepOrder
<1>8. ASSUME NEW r, Becomes(c, r), UNCHANGED copy, RequestOrder(c, r),
             r.pc \in {"ok", "reread"}
      PROVE  OrderInv'
  BY <1>1, <1>2, <1>4, <1>6, <1>8, HandlerStep DEF Fetched, WriteJob
<1>9. CASE /\ ReceiveNotModified(c) /\ UNCHANGED copy
           /\ Becomes(c, [req[c] EXCEPT !.pc = "reread"])
  <2> DEFINE r == [req[c] EXCEPT !.pc = "reread"]
  <2>1. /\ r.pc = "reread" /\ r.entry = entry /\ r.body = None
        /\ r.name = n /\ r.client = req[c].client /\ req[c].body = None
    BY <1>2, <1>9 DEF Request, ReceiveNotModified
  <2> HIDE DEF r
  <2>2. RequestOrder(c, r)
    BY <1>3, <1>4, <2>1 DEF RequestOrder, File, Fetched, WriteJob
  <2> QED
    BY <1>8, <1>9, <2>1, <2>2 DEF r
<1>10. CASE StoreRefreshed(c)
            /\ Becomes(c, Build(req[c], entry, req[c].body)) /\ UNCHANGED copy
  <2> DEFINE r == Build(req[c], entry, req[c].body)
  <2>1. /\ r.pc = "ok" /\ r.entry = entry /\ r.body = req[c].body
        /\ r.name = n /\ r.client = NoEntry
    BY <1>2 DEF Request, Build
  <2> HIDE DEF r
  <2>2. RequestOrder(c, r)
    BY <1>3, <1>4, <2>1, NoConditions DEF RequestOrder, File, Fetched, WriteJob
  <2> QED
    BY <1>8, <1>10, <2>1, <2>2 DEF r
<1> QED
  BY <1>7, <1>9, <1>10 DEF ReceiveNotModified, StoreRefreshed
(* A 200 carries validators that are no newer than its body, filtered or not. *)
LEMMA ServeOrder ==
  ASSUME TypeOK, OrderInv, NEW c \in Clients, req[c] # None,
         req[c].pc \in {"ok", "filter"}, NEW w \in Nat, NEW body,
         body.rev # None, req[c].entry.etag # None => req[c].entry.etag <= body.rev,
         w > 0 \/ body.rev = req[c].body.rev
  PROVE  LET held == Served(req[c].entry, w, body)
         IN  /\ CopyOrder(held)
             /\ UpTo(Validates(held), upstream[File(c)])
             /\ disk[File(c)] # None
                  => UpTo(Validates(held), disk[File(c)].body.rev)
<1> DEFINE entry == req[c].entry
<1>1. /\ entry \in Entry /\ req[c].body # None
      /\ Coherent(entry) /\ UpTo(entry, upstream[File(c)])
      /\ disk[File(c)] # None => UpTo(entry, disk[File(c)].body.rev)
      /\ UpTo(entry, req[c].body.rev)
  BY InFlight, InFlightOrder DEF RequestOrder, File, PhaseOK
<1>2. UpTo(Validates(Served(entry, w, body)), body.rev)
  <2>1. CASE w > 0
    BY <2>1 DEF UpTo, Validates, Served, WithIndexValidators
  <2>2. CASE body.rev = req[c].body.rev
    BY <1>1, <2>2, AnswerUpTo
  <2> QED
    BY <2>1, <2>2
<1> QED
  BY <1>1, <1>2, AnswerUpTo DEF CopyOrder, Coherent

(* The answer, whole or from the memo.                                        *)
LEMMA IndexOkOrder ==
  ASSUME TypeOK, OrderInv, Orderly, NEW c \in Clients, IndexOk(c)
  PROVE  OrderInv'
<1> DEFINE n == req[c].name
           entry == req[c].entry
           cutoff == CutoffFor(n)
<1>1. /\ req[c] # None /\ req[c].pc = "ok" /\ ~At(c, "write") /\ ~At(c, "touch")
      /\ UNCHANGED <<upstream, disk, metadata, memo>>
  BY DEF IndexOk, At, environment, caches
<1>2. /\ req[c] \in Request /\ n \in Names /\ File(c) \in Files
      /\ File(c) = FileOf[n] /\ entry \in Entry /\ req[c].body # None
  BY <1>1, InFlight DEF File, PhaseOK
<1>3. RequestOrder(c, req[c])
  BY <1>1, InFlightOrder
<1>4. ASSUME NEW w \in Nat, NEW body, body.rev # None,
             entry.etag # None => entry.etag <= body.rev,
             w > 0 \/ body.rev = req[c].body.rev,
             Holds(c, n, Served(entry, w, body)), Becomes(c, None)
      PROVE  OrderInv'
  <2> DEFINE held == Served(entry, w, body)
  <2>1. /\ CopyOrder(held) /\ UpTo(Validates(held), upstream[FileOf[n]])
        /\ disk[FileOf[n]] # None
             => UpTo(Validates(held), disk[FileOf[n]].body.rev)
    BY <1>1, <1>2, <1>4, ServeOrder
  <2>2. req' = [req EXCEPT ![c] = None] /\ Holds(c, n, held)
    BY <1>4 DEF Becomes
  <2> HIDE DEF held, n
  <2> QED
    BY <1>1, <1>2, <2>1, <2>2, AnswerStepOrder
<1>5. CASE cutoff = None /\ Holds(c, n, Served(entry, 0, req[c].body))
           /\ Becomes(c, None)
  BY <1>2, <1>3, <1>4, <1>5 DEF RequestOrder, UpTo
<1>6. CASE /\ cutoff # None /\ MemoHit(n, EntryValidator(entry), Bucket(cutoff))
           /\ Holds(c, n, Served(entry, ServeWindow(n), memo[n].body))
           /\ Becomes(c, None)
  <2>1. ServeWindow(n) \in Nat /\ ServeWindow(n) > 0
    BY <1>2, <1>6, CutoffOfWindow, ServeWindowType
  <2>2. MemoOrder(memo[n]) /\ memo[n].validator = EntryValidator(entry)
    BY <1>2, <1>6 DEF MemoHit, OrderInv
  <2>3. entry.etag # None => entry.etag <= memo[n].body.rev
    <3>1. entry.etag # None => EntryValidator(entry) = <<"etag", entry.etag>>
      BY DEF EntryValidator
    <3>2. entry.etag # None => /\ EntryValidator(entry)[1] = "etag"
                               /\ EntryValidator(entry)[2] = entry.etag
      BY <3>1
    <3> QED
      BY <2>2, <3>2 DEF MemoOrder
  <2> QED
    BY <1>4, <1>6, <2>1, <2>2, <2>3 DEF MemoOrder
<1>7. CASE Becomes(c, [req[c] EXCEPT !.pc = "filter", !.cutoff = cutoff])
           /\ UNCHANGED copy
  <2> DEFINE r == [req[c] EXCEPT !.pc = "filter", !.cutoff = cutoff]
  <2>1. /\ r.pc = "filter" /\ r.entry = entry /\ r.body = req[c].body
        /\ r.name = n /\ r.client = req[c].client
    BY <1>2 DEF Request
  <2>2. Becomes(c, r)
    BY <1>7
  <2> HIDE DEF r
  <2>3. RequestOrder(c, r)
    BY <1>1, <1>3, <2>1 DEF RequestOrder, File, Fetched, WriteJob
  <2> QED
    BY <1>1, <1>2, <1>7, <2>1, <2>2, <2>3, RequestOnlyStep
<1> QED
  BY <1>5, <1>6, <1>7 DEF IndexOk

(* What the filter leaves keeps its revision, in the answer and in the memo.  *)
LEMMA FilterOrder ==
  ASSUME TypeOK, OrderInv, Orderly, NEW c \in Clients, Filter(c)
  PROVE  OrderInv'
<1> DEFINE n == req[c].name
           entry == req[c].entry
           filtered == FilterIndex(req[c].body, req[c].cutoff)
           kept == [validator |-> EntryValidator(entry),
                    bucket    |-> Bucket(req[c].cutoff),
                    body      |-> filtered]
           held == Served(entry, ServeWindow(n), filtered)
<1>1. /\ req[c] # None /\ req[c].pc = "filter"
      /\ ~At(c, "write") /\ ~At(c, "touch")
      /\ UNCHANGED <<upstream, disk, metadata>>
      /\ memo' = Insert(memo, n, kept, MemoMax)
      /\ Holds(c, n, held) /\ req' = [req EXCEPT ![c] = None]
  BY DEF Filter, At, environment, Becomes
<1>2. /\ req[c] \in Request /\ n \in Names /\ File(c) = FileOf[n]
      /\ entry \in Entry /\ req[c].body \in Body
  BY <1>1, InFlight DEF File, PhaseOK
<1>3. /\ req[c].body.rev # None
      /\ entry.etag # None => entry.etag <= req[c].body.rev
  BY <1>1, <1>2, InFlightOrder, NoneAssumption DEF RequestOrder, UpTo
<1>4. filtered.rev = req[c].body.rev
  BY <1>2 DEF FilterIndex, Body
<1>5. MemoOrder(kept)
  BY <1>3, <1>4 DEF MemoOrder, EntryValidator
<1>6. \A m \in Names : memo'[m] \in {memo[m], None} \/ MemoOrder(memo'[m])
  <2>1. memo \in [Names -> MemoEntry \cup {None}]
    BY DEF TypeOK
  <2> HIDE DEF kept
  <2>2. \A m \in Names : \/ memo'[m] \in {memo[m], None}
                         \/ memo'[m] = kept
    BY <1>1, <1>2, <2>1 DEF Insert, EmptyMap
  <2> QED
    BY <1>5, <2>2
<1>7. /\ CopyOrder(held) /\ UpTo(Validates(held), upstream[FileOf[n]])
      /\ disk[FileOf[n]] # None
           => UpTo(Validates(held), disk[FileOf[n]].body.rev)
  BY <1>1, <1>2, <1>3, <1>4, ServeWindowType, ServeOrder
<1> HIDE DEF held, kept, n
<1> QED
  BY <1>1, <1>2, <1>6, <1>7, AnswerStepOrder

(* Forgetting the entry of a lost file leaves less to be known.               *)
LEMMA LostFileOrder ==
  ASSUME TypeOK, OrderInv, Orderly, NEW c \in Clients, LostFile(c)
  PROVE  OrderInv'
<1>1. /\ req[c] # None /\ ~At(c, "write") /\ ~At(c, "touch")
      /\ Becomes(c, None) /\ UNCHANGED <<upstream, disk, memo, copy>>
  BY DEF LostFile, At, environment
<1>2. req[c].name \in Names
  BY <1>1, InFlight
<1>3. \A m \in Names : metadata'[m] \in {metadata[m], None}
  BY DEF LostFile, Remove, TypeOK
<1> QED
  BY <1>1, <1>2, <1>3, HandlerStep
-----------------------------------------------------------------------------
(* The write job.                                                             *)

(* A step of the write job, or a hang-up during it, changes its file and its  *)
(* request only.                                                              *)
LEMMA JobStep ==
  ASSUME TypeOK, OrderInv, Orderly, NEW c \in Clients, req[c] # None, NEW r,
         Becomes(c, r), UNCHANGED <<upstream, metadata, memo, copy>>,
         NEW f \in Files, f = File(c),
         \A g \in Files : g # f => disk'[g] = disk[g],
         r # None => r.name = req[c].name,
         FileOrder(f)', req'[c] # None => RequestOrder(c, req[c])'
  PROVE  OrderInv'
<1>1. req'[c] = r
  BY DEF Becomes, TypeOK
<1>2. ASSUME NEW g \in Files PROVE FileOrder(g)'
  <2>1. CASE g = f
    BY <2>1
  <2>2. CASE g # f
    <3>1. \A pcs : ~Busy(g, pcs) /\ ~Busy(g, pcs)'
      BY <1>1, <2>2 DEF Busy, File, Orderly
    <3>2. FileOrder(g)
      BY DEF OrderInv
    <3>3. \A s : Known(g, s)' <=> Known(g, s)
      BY DEF Known
    <3> QED
      BY <2>2, <3>1, <3>2, <3>3 DEF FileOrder
  <2> QED
    BY <2>1, <2>2
<1>3. \A g \in Files : Known(g, upstream[g])'
  BY DEF OrderInv, Known
<1>4. \A d \in Clients : req'[d] # None => RequestOrder(d, req[d])'
  BY DEF Orderly
<1> QED
  BY <1>2, <1>3, <1>4 DEF OrderInv, Coherent, MemoOrder, CopyOrder, UpTo, Validates

(* What the write job starts from.                                            *)
LEMMA JobOrder ==
  ASSUME TypeOK, OrderInv, FilesInv, NEW c \in Clients, req[c] # None,
         req[c].pc \in WriteJob
  PROVE  LET r == req[c]
             f == File(c)
         IN  /\ r \in Request /\ f \in Files /\ r.name \in Names
             /\ r.body \in Body /\ r.body # None /\ r.body.rev \in Revs
             /\ r.body.rev <= upstream[f] /\ Known(f, r.body.rev)
             /\ UpTo(r.entry, r.body.rev) /\ r.entry.mtime \in Nat
             /\ RequestOrder(c, r)
             /\ r.pc = "write" => disk[f] # None /\ disk[f].body = Truncated
             /\ r.pc = "touch" => disk[f] # None /\ disk[f].body = r.body
<1>1. /\ req[c] \in Request /\ File(c) \in Files /\ req[c].name \in Names
      /\ req[c].body # None /\ req[c].body \in Body /\ req[c].entry \in Entry
      /\ req[c].pc \in {"write", "touch"} => disk[File(c)] # None
  BY InFlight DEF PhaseOK, File
<1>2. RequestOrder(c, req[c]) /\ JobInv(c)
  BY InFlightOrder DEF FilesInv
<1> QED
  BY <1>1, <1>2 DEF RequestOrder, JobInv, File, Fetched, WriteJob, Body, Entry

(* What is known depends on the metadata and the copies only.                 *)
LEMMA KnownUnchanged ==
  ASSUME UNCHANGED <<metadata, copy>>, NEW f, NEW r, Known(f, r)
  PROVE  Known(f, r)'
BY DEF Known, UpTo, Validates

(* The file is truncated.                                                     *)
LEMMA CreateFileOrder ==
  ASSUME TypeOK, OrderInv, FilesInv, Orderly, NEW c \in Clients, CreateFile(c)
  PROVE  OrderInv'
<1> DEFINE r == [req[c] EXCEPT !.pc = "write"]
<1>1. /\ req[c] # None /\ req[c].pc = "create"
      /\ disk' = [disk EXCEPT ![File(c)] = [body |-> Truncated, mtime |-> clock]]
      /\ Becomes(c, r) /\ UNCHANGED <<upstream, metadata, memo, copy>>
  BY DEF CreateFile, At, Orderly, environment, caches
<1>2. /\ req[c] \in Request /\ File(c) \in Files /\ req[c].body # None
      /\ req[c].name \in Names /\ RequestOrder(c, req[c])
      /\ Known(File(c), req[c].body.rev)
  BY <1>1, JobOrder DEF WriteJob
<1>3. PICK f \in Files : f = File(c)
  BY <1>2
<1>4. /\ r.pc = "write" /\ r.entry = req[c].entry /\ r.body = req[c].body
      /\ r.name = req[c].name /\ r.client = req[c].client /\ r \in Request
  BY <1>2 DEF Request, Pcs
<1>5. req'[c] = r /\ r # None
  BY <1>1, <1>4, NoneAssumption DEF Becomes, TypeOK
<1> HIDE DEF r
<1>6. FileOrder(f)'
  BY <1>3, <1>4, <1>5 DEF FileOrder, Busy, File
<1>7. RequestOrder(c, req[c])'
  <2>1. PICK rev : rev = req[c].body.rev
    OBVIOUS
  <2>2. Known(f, rev)'
    BY <1>1, <1>2, <1>3, <2>1, KnownUnchanged
  <2> QED
    BY <1>1, <1>2, <1>3, <1>4, <1>5, <2>1, <2>2
       DEF RequestOrder, Fetched, WriteJob, File
<1> QED
  BY <1>1, <1>3, <1>4, <1>6, <1>7, JobStep
(* The body is written; its date is still to be set.                          *)
LEMMA WriteFileOrder ==
  ASSUME TypeOK, OrderInv, FilesInv, Orderly, NEW c \in Clients, WriteFile(c)
  PROVE  OrderInv'
<1> DEFINE r == [req[c] EXCEPT !.pc = "touch"]
<1>1. /\ req[c] # None /\ req[c].pc = "write"
      /\ UNCHANGED <<upstream, metadata, memo, copy>>
  BY DEF WriteFile, At, environment, caches
<1>2. /\ req[c] \in Request /\ File(c) \in Files /\ req[c].body # None
      /\ req[c].name \in Names /\ RequestOrder(c, req[c])
      /\ req[c].entry.mtime \in Nat
      /\ disk[File(c)] # None /\ disk[File(c)].body = Truncated
  BY <1>1, JobOrder DEF WriteJob
<1>3. PICK f \in Files : f = File(c)
  BY <1>2
<1>4. PICK rev \in Revs : /\ rev = req[c].body.rev /\ rev <= upstream[f]
                         /\ Known(f, rev) /\ UpTo(req[c].entry, rev)
  BY <1>1, <1>3, JobOrder DEF WriteJob
<1>5. Becomes(c, r)
      /\ disk' = [disk EXCEPT ![f] = [body |-> req[c].body, mtime |-> clock]]
  <2>1. Overwritten(disk[f].body, req[c].body) = {req[c].body}
    BY <1>2, <1>3 DEF Overwritten, Truncated
  <2>2. req[c].entry.mtime # None
    BY <1>2, NoneAssumption
  <2> QED
    BY <1>3, <2>1, <2>2 DEF WriteFile, Orderly
<1>6. /\ r.pc = "touch" /\ r.entry = req[c].entry /\ r.body = req[c].body
      /\ r.name = req[c].name /\ r.client = req[c].client /\ r \in Request
  BY <1>2 DEF Request, Pcs
<1>7. req'[c] = r /\ r # None
  BY <1>5, <1>6, NoneAssumption DEF Becomes, TypeOK
<1>8. disk'[f] # None /\ disk'[f].body = req[c].body
  <2>1. disk'[f] = [body |-> req[c].body, mtime |-> clock]
    BY <1>5 DEF TypeOK
  <2>2. disk'[f] # None
    <3>1. disk'[f] \in IndexFile
      BY <1>1, <2>1, JobOrder DEF IndexFile, WriteJob, TypeOK
    <3> QED
      BY <3>1, NoneAssumption
  <2> QED
    BY <2>1, <2>2
<1>9. Known(f, rev)' /\ rev # None
  BY <1>1, <1>4, KnownUnchanged, RevsAreNumbers
<1> HIDE DEF r
<1>10. FileOrder(f)'
  <2>1. Busy(f, {"write", "touch"})'
    BY <1>3, <1>6, <1>7 DEF Busy, File
  <2> QED
    BY <1>1, <1>4, <1>8, <1>9, <2>1 DEF FileOrder
<1>11. RequestOrder(c, req[c])'
  BY <1>1, <1>2, <1>3, <1>4, <1>6, <1>7, <1>8, <1>9
     DEF RequestOrder, Fetched, WriteJob, File, UpTo
<1> QED
  BY <1>1, <1>3, <1>5, <1>6, <1>10, <1>11, JobStep

(* The date is set: upstream's, of the revision that was written.             *)
LEMMA TouchFileOrder ==
  ASSUME TypeOK, OrderInv, FilesInv, Orderly, NEW c \in Clients, TouchFile(c)
  PROVE  OrderInv'
<1> DEFINE r == [req[c] EXCEPT !.pc = "store"]
<1>1. /\ req[c] # None /\ req[c].pc = "touch" /\ AfterJob(c)
      /\ UNCHANGED <<upstream, metadata, memo, copy>>
      /\ disk' = [disk EXCEPT ![File(c)] =
                    [body |-> @.body, mtime |-> req[c].entry.mtime]]
  BY DEF TouchFile, At, environment, caches, Orderly
<1>2. /\ req[c] \in Request /\ File(c) \in Files /\ req[c].body # None
      /\ req[c].name \in Names /\ RequestOrder(c, req[c])
      /\ req[c].entry.mtime \in Nat /\ req[c].body \in Body
      /\ disk[File(c)] # None /\ disk[File(c)].body = req[c].body
  BY <1>1, JobOrder DEF WriteJob
<1>3. PICK f \in Files : f = File(c)
  BY <1>2
<1>4. PICK rev \in Revs : /\ rev = req[c].body.rev /\ rev <= upstream[f]
                         /\ Known(f, rev) /\ UpTo(req[c].entry, rev)
  BY <1>1, <1>3, JobOrder DEF WriteJob
<1>5. disk'[f] = [body |-> req[c].body, mtime |-> req[c].entry.mtime]
  BY <1>1, <1>2, <1>3 DEF TypeOK
<1>6. disk'[f] # None
  BY <1>2, <1>5, NoneAssumption DEF IndexFile
<1>7. /\ r.pc = "store" /\ r.entry = req[c].entry /\ r.body = req[c].body
      /\ r.name = req[c].name /\ r.client = req[c].client
  BY <1>2 DEF Request
<1>8. Known(f, rev)' /\ rev # None
  BY <1>1, <1>4, KnownUnchanged, RevsAreNumbers
<1>9. FileOrder(f)'
  <2>1. req[c].entry.mtime <= RevDate[rev]
    BY <1>2, <1>4, NoneAssumption DEF UpTo
  <2> QED
    BY <1>1, <1>4, <1>5, <1>8, <2>1 DEF FileOrder
<1> HIDE DEF r
<1>10. req'[c] = r => RequestOrder(c, req[c])'
  BY <1>1, <1>2, <1>3, <1>4, <1>5, <1>6, <1>7, <1>8
     DEF RequestOrder, Fetched, WriteJob, File, UpTo
<1>11. \/ Becomes(c, None) /\ req'[c] = None
       \/ Becomes(c, r) /\ req'[c] = r
  BY <1>1 DEF AfterJob, Becomes, TypeOK, r
<1> QED
  BY <1>1, <1>3, <1>7, <1>9, <1>10, <1>11, JobStep

(* A client hangs up: its write job goes on.                                  *)
LEMMA CancelOrder ==
  ASSUME TypeOK, OrderInv, FilesInv, Orderly, NEW c \in Clients, Cancel(c)
  PROVE  OrderInv'
<1>1. /\ req[c] # None /\ UNCHANGED <<upstream, disk, metadata, memo, copy>>
  BY DEF Cancel, environment, caches
<1>2. /\ req[c] \in Request /\ req[c].name \in Names /\ File(c) \in Files
      /\ RequestOrder(c, req[c]) /\ FileOrder(File(c))
  BY <1>1, InFlight, InFlightOrder DEF OrderInv
<1>3. CASE req[c].pc \in WriteJob
  <2> DEFINE r == [req[c] EXCEPT !.gone = TRUE]
  <2>1. PICK f \in Files : f = File(c)
    BY <1>2
  <2>2. /\ r.pc = req[c].pc /\ r.entry = req[c].entry /\ r.body = req[c].body
        /\ r.name = req[c].name /\ r.client = req[c].client /\ r \in Request
    BY <1>2 DEF Request
  <2>3. Becomes(c, r)
    BY <1>3 DEF Cancel
  <2>4. req'[c] = r /\ r # None
    BY <2>2, <2>3, NoneAssumption DEF Becomes, TypeOK
  <2> HIDE DEF r
  <2>5. \A s : Known(f, s)' <=> Known(f, s)
    BY <1>1 DEF Known, UpTo, Validates
  <2>6. \A pcs : Busy(f, pcs)' <=> Busy(f, pcs)
    BY <1>1, <2>2, <2>4 DEF Busy, File, Orderly
  <2>7. FileOrder(f)'
    BY <1>1, <1>2, <2>1, <2>5, <2>6 DEF FileOrder
  <2>8. RequestOrder(c, req[c])'
    BY <1>1, <1>2, <2>1, <2>2, <2>4, <2>5
       DEF RequestOrder, Fetched, WriteJob, File, UpTo
  <2> QED
    BY <1>1, <2>1, <2>2, <2>3, <2>7, <2>8, JobStep
<1>4. CASE req[c].pc \notin WriteJob
  <2>1. Becomes(c, None) /\ ~At(c, "write") /\ ~At(c, "touch")
    BY <1>4 DEF Cancel, At, WriteJob
  <2> QED
    BY <1>1, <1>2, <2>1, RequestOnlyStep
<1> QED
  BY <1>3, <1>4
-----------------------------------------------------------------------------
(* The invariant.                                                             *)

(* A new revision leaves everything known behind it.                          *)
LEMMA PublishOrder ==
  ASSUME TypeOK, OrderInv, NEW f \in Files, Publish(f)
  PROVE  OrderInv'
<1>1. /\ UNCHANGED <<disk, metadata, memo, req, copy>>
      /\ upstream' = [upstream EXCEPT ![f] = @ + 1] /\ upstream[f] < LastRev
  BY DEF Publish, caches
<1>2. ASSUME NEW g \in Files
      PROVE  /\ upstream[g] \in Revs /\ upstream'[g] \in Revs
             /\ upstream[g] <= upstream'[g]
  BY <1>1, RevsAssumption DEF TypeOK, Revs
<1>3. ASSUME NEW g \in Files, NEW entry \in Entry, UpTo(entry, upstream[g])
      PROVE  UpTo(entry, upstream'[g])
  BY <1>2, <1>3, UpToLater
<1>4. \A g \in Files : Known(g, upstream[g])'
  <2>1. SUFFICES ASSUME NEW g \in Files, NEW n \in Names, FileOf[n] = g
                 PROVE  /\ metadata[n] # None => UpTo(metadata[n], upstream'[g])
                        /\ \A c \in Clients :
                             copy[c][n] # None
                               => UpTo(Validates(copy[c][n]), upstream'[g])
    BY <1>1 DEF Known, UpTo, Validates
  <2>2. metadata[n] # None => metadata[n] \in Entry
    BY DEF TypeOK
  <2>3. \A c \in Clients : copy[c][n] # None => Validates(copy[c][n]) \in Entry
    BY DEF TypeOK, Copy, Validates, Entry
  <2>4. Known(g, upstream[g])
    BY DEF OrderInv
  <2> QED
    BY <1>3, <2>1, <2>2, <2>3, <2>4 DEF Known
<1>5. \A g, s : Known(g, s)' <=> Known(g, s)
  BY <1>1 DEF Known, UpTo, Validates
<1>6. \A g \in Files : FileOrder(g)'
  <2>1. SUFFICES ASSUME NEW g \in Files, disk[g] # None PROVE FileOrder(g)'
    BY <1>1 DEF FileOrder
  <2>2. \A pcs : Busy(g, pcs)' <=> Busy(g, pcs)
    BY <1>1 DEF Busy, File
  <2>3. disk[g].body.rev # None => disk[g].body.rev \in Nat
    BY <2>1, RevsAreNumbers DEF TypeOK, IndexFile, Body
  <2>4. disk[g].body.rev # None /\ disk[g].body.rev <= upstream[g]
          => disk[g].body.rev <= upstream'[g]
    <3>1. upstream[g] \in Nat /\ upstream'[g] \in Nat
      BY <1>2, RevsAreNumbers
    <3> QED
      BY <1>2, <2>3, <3>1
  <2>5. FileOrder(g)
    BY DEF OrderInv
  <2> QED
    BY <1>1, <1>5, <2>2, <2>4, <2>5 DEF FileOrder
<1>7. ASSUME NEW c \in Clients, req[c] # None PROVE RequestOrder(c, req[c])'
  <2> DEFINE g == File(c)
  <2>1. /\ g \in Files /\ req[c].entry \in Entry /\ req[c].body \in Body \cup {None}
        /\ RequestOrder(c, req[c])
    BY <1>7, InFlight, InFlightOrder
  <2>2. UpTo(req[c].entry, upstream'[g])
    BY <1>3, <2>1 DEF RequestOrder, File
  <2>3. req[c].body # None /\ req[c].body.rev # None /\ req[c].body.rev <= upstream[g]
          => req[c].body.rev <= upstream'[g]
    <3>1. upstream[g] \in Nat /\ upstream'[g] \in Nat /\ upstream[g] <= upstream'[g]
      BY <1>2, <2>1, RevsAreNumbers
    <3>2. req[c].body # None /\ req[c].body.rev # None => req[c].body.rev \in Nat
      BY <2>1, RevsAreNumbers DEF Body
    <3> QED
      BY <3>1, <3>2
  <2> QED
    BY <1>1, <1>5, <2>1, <2>2, <2>3 DEF RequestOrder, File, Coherent, UpTo
<1> QED
  BY <1>1, <1>4, <1>6, <1>7
     DEF OrderInv, Coherent, MemoOrder, CopyOrder, UpTo, Validates

(* Every step keeps OrderInv.                                                 *)
LEMMA NextOrder ==
  ASSUME Orderly, TypeOK, FilesInv, OrderInv, [Next]_vars
  PROVE  OrderInv'
<1>1. CASE UNCHANGED <<upstream, disk, metadata, memo, req, copy>>
  <2>1. \A f, s : Known(f, s)' <=> Known(f, s)
    BY <1>1 DEF Known, UpTo, Validates
  <2>2. \A f \in Files : FileOrder(f)'
    BY <1>1, <2>1 DEF OrderInv, FileOrder, Busy, File
  <2>3. \A c \in Clients : req[c] # None => RequestOrder(c, req[c])'
    BY <1>1, <2>1 DEF OrderInv, RequestOrder, Coherent, UpTo
  <2> QED
    BY <1>1, <2>1, <2>2, <2>3
       DEF OrderInv, Coherent, MemoOrder, CopyOrder, UpTo, Validates
<1>2. CASE \/ UNCHANGED vars \/ \E n \in Names : Expire(n)
           \/ Tick \/ SetBack
  BY <1>1, <1>2 DEF vars, environment, Expire, Tick, SetBack, caches
<1>3. ~Restart
  BY DEF Restart, TypeOK, Orderly
<1>4. ASSUME NEW c \in Clients, Progress(c) PROVE OrderInv'
  BY <1>4, ReadingStepOrder, UpstreamAnswerOrder, StoreOrder, LostFileOrder,
     IndexOkOrder, FilterOrder, CreateFileOrder, WriteFileOrder, TouchFileOrder
     DEF Progress
<1>5. ASSUME NEW c \in Clients,
             \/ \E n \in Names : \E h \in Conditions(copy[c][n]) : HandleIndex(c, n, h)
             \/ ReceiveFailure(c) \/ ForwardStatus(c) \/ FilterPanic(c) \/ Cancel(c)
      PROVE  OrderInv'
  BY <1>5, HandleIndexOrder, ReadingStepOrder, CancelOrder
<1> QED
  BY <1>2, <1>3, <1>4, <1>5, PublishOrder DEF Next, Operate

(* For a process that is not restarted, a file system that does what it is    *)
(* asked, an upstream that dates its answers and one client at a time, every  *)
(* state satisfies OrderInv, whatever spellings the client uses, however its  *)
(* transfers fail, wherever it hangs up, whatever expires or is evicted and   *)
(* whenever the registry publishes.                                           *)
LEMMA OrderInvariant ==
  ASSUME Orderly
  PROVE  Spec => [](TypeOK /\ OrderInv)
<1>1. Init => OrderInv
  BY NoConditions DEF Init, OrderInv, Known, FileOrder, EmptyMap
<1>2. Init => FilesInv
  BY DEF Init, FilesInv, FilesWholeBetweenWrites, EmptyMap
<1>3. TypeOK /\ FilesInv /\ [Next]_vars => FilesInv'
  BY NextFiles DEF Orderly
<1>4. TypeOK /\ FilesInv /\ OrderInv /\ [Next]_vars => OrderInv'
  BY NextOrder
<1> QED
  BY <1>1, <1>2, <1>3, <1>4, TypeCorrect, PTL DEF Spec

(* No answer to the only client carries an etag newer than its body, though   *)
(* the proxy answers from files, entries and memo fills that other spellings  *)
(* of the name have refreshed: such a client would be told 304 and never see  *)
(* the revision its etag names.                                               *)
THEOREM ValidatorsFollowBodies ==
  ASSUME MaxRestarts = 0, "disk" \notin Faults, "lm" \in UpstreamSends,
         \A r, s \in Revs : r < s => RevDate[r] < RevDate[s],
         \A c, d \in Clients : c = d
  PROVE  Spec => []ValidatorNotAheadOfBody
<1>1. Orderly
  BY DEF Orderly
<1>2. TypeOK /\ OrderInv => ValidatorNotAheadOfBody
  BY DEF OrderInv, CopyOrder, UpTo, Validates, ValidatorNotAheadOfBody
<1> QED
  BY <1>1, <1>2, OrderInvariant, PTL

(* Under the same assumptions the memo never serves something stale: the      *)
(* revision a body is tagged with is not newer than the one it was made from. *)
THEOREM MemoFollowsBodies ==
  ASSUME MaxRestarts = 0, "disk" \notin Faults, "lm" \in UpstreamSends,
         \A r, s \in Revs : r < s => RevDate[r] < RevDate[s],
         \A c, d \in Clients : c = d
  PROVE  Spec => []MemoNeverStale
<1>1. Orderly
  BY DEF Orderly
<1>2. OrderInv => MemoNeverStale
  BY DEF OrderInv, MemoOrder, MemoNeverStale
<1> QED
  BY <1>1, <1>2, OrderInvariant, PTL
=============================================================================
