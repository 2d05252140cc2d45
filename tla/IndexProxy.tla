----------------------------- MODULE IndexProxy -----------------------------
(* The sparse-index route of the proxy, src/src/routes/index.rs, with the     *)
(* caches it reads and fills: the index files on disk (cache/file.rs), the    *)
(* in-memory metadata (cache/metadata.rs) and the memo of filtered bodies     *)
(* (cache/memo.rs).  Every await of the handler separates two actions, so     *)
(* requests interleave wherever tokio can switch tasks, and the blocking      *)
(* file writes proceed one system call at a time.                             *)
EXTENDS Cooldown, FiniteSets

CONSTANTS
  Clients,        \* HTTP clients, each with at most one request in flight
  Names,          \* crate names as spelled in a request path
  Files,          \* lower-cased names: upstream crates and cache files
  FileOf,         \* the lower-cased name of every spelling
  Overrides,      \* crates exempt from the cooldown (lower-cased)
  Windows,        \* cooldown windows the proxy may be started with; 0 is off
  LastRev,        \* revisions of an index entry upstream publishes
  RevLines,       \* the version lines of every revision of every crate
  RevDate,        \* the Last-Modified date of every revision
  OpaqueRevs,     \* revisions whose body is not valid UTF-8
  BucketSecs,     \* MEMO_BUCKET_SECS
  MetadataMax,    \* METADATA_MAX_ENTRIES
  MemoMax,        \* MEMO_MAX_ENTRIES
  UpstreamSends,  \* the validators upstream attaches: "etag", "lm"
  Faults,         \* the faults this instance may meet (see FaultKinds)
  MaxTime,        \* bound on the clock
  MaxRestarts     \* bound on the number of restarts

Revs == 1..LastRev

FaultKinds ==
  {"upstream",  \* a transfer from upstream fails
   "status",    \* upstream answers with a status other than 200 and 304
   "disk",      \* a file-system call of the cache write fails
   "cancel",    \* a client disconnects and its handler future is dropped
   "filter",    \* the blocking filter task panics
   "clock",     \* the wall clock is set back
   "wipe"}      \* a restart comes with an empty cache directory

ASSUME NamesAssumption ==
  /\ FileOf \in [Names -> Files]
  /\ Overrides \subseteq Files
ASSUME WindowsAssumption == Windows \subseteq Nat /\ Windows # {}
ASSUME RevsAssumption ==
  /\ LastRev \in Nat \ {0}
  /\ RevLines \in [Files -> [Revs -> SUBSET Versions]]
  /\ RevDate \in [Revs -> Nat]
  /\ \A r, s \in Revs : r < s => RevDate[r] <= RevDate[s]
  /\ OpaqueRevs \subseteq Revs
ASSUME LimitsAssumption ==
  /\ BucketSecs \in Nat \ {0}
  /\ MetadataMax \in Nat \ {0}
  /\ MemoMax \in Nat \ {0}
  /\ MaxTime \in Nat
  /\ MaxRestarts \in Nat
ASSUME EnvironmentAssumption ==
  /\ UpstreamSends \subseteq {"etag", "lm"}
  /\ Faults \subseteq FaultKinds
  /\ IsFiniteSet(Names)

VARIABLES
  clock,      \* what the wall clock shows
  now,        \* the latest time it has shown
  cooldown,   \* the configured window, fixed until the next restart
  restarts,   \* restarts so far
  upstream,   \* the current revision of every crate at the registry
  disk,       \* the index files: None or [body, mtime]
  metadata,   \* MetadataCache: the entry held for a name, or None
  expired,    \* the names whose entry's last upstream check is older than the TTL
  memo,       \* FilteredMemo: None or [validator, bucket, body]
  req,        \* the request each client has in flight, or None
  copy        \* what each client holds of each name, or None

vars == <<clock, now, cooldown, restarts, upstream, disk, metadata, expired, memo,
          req, copy>>

environment == <<clock, now, cooldown, restarts, upstream>>
caches == <<metadata, expired, memo>>

INSTANCE BoundedMap

-----------------------------------------------------------------------------
(* Data.                                                                      *)

(* An index entry body.  rev is None for a file that is not the body of one   *)
(* revision: truncated, partly written, or written over by two writers.       *)
Body == [rev : Revs \cup {None}, lines : SUBSET Versions, utf8 : BOOLEAN]

RevBody(file, r) ==
  [rev |-> r, lines |-> RevLines[file][r], utf8 |-> r \notin OpaqueRevs]

Truncated == [rev |-> None, lines |-> {}, utf8 |-> TRUE]

IndexFile == [body : Body, mtime : Nat]

(* The validators of an IndexEntry; a strong etag names one revision.         *)
Entry == [etag : Revs \cup {None}, mtime : Nat \cup {None}]

NoEntry == [etag |-> None, mtime |-> None]

IsEquivalent(entry, other) ==
  \/ entry.etag # None /\ entry.etag = other.etag
  \/ entry.mtime # None /\ entry.mtime = other.mtime

(* The memo's source validator: the etag, else the date, else nothing.        *)
EntryValidator(entry) ==
  CASE entry.etag # None                        -> <<"etag", entry.etag>>
    [] entry.etag = None /\ entry.mtime # None -> <<"lm", entry.mtime>>
    [] OTHER                                    -> <<"none", 0>>

Validators == {"etag", "lm", "none"} \X Nat

MemoEntry == [validator : Validators, bucket : Nat, body : Body]

(* A client's copy: the validators it was given (win is the window in the     *)
(* etag's marker, 0 when unmarked), the window the proxy served under when    *)
(* it last sent or confirmed the copy, and the body.                          *)
Copy == [etag : Revs \cup {None}, win : Nat, lm : Nat \cup {None},
         conf : Nat, body : Body]

-----------------------------------------------------------------------------
(* Configuration and validators.                                              *)

(* Mutant: the overrides are matched against the name as it was requested.    *)
CutoffForAsSpelled(n) ==
  IF n \in Overrides THEN None ELSE CutoffFrom(clock, cooldown)

CutoffFor(n) ==
  IF FileOf[n] \in Overrides THEN None ELSE CutoffFrom(clock, cooldown)

ServeWindow(n) == IF FileOf[n] \in Overrides THEN 0 ELSE cooldown

(* Mutant: the etag of a filtered answer does not carry the window.           *)
ValidatorsUnmarked(entry, window) ==
  [etag |-> entry.etag, win |-> 0,
   lm |-> IF window = 0 THEN entry.mtime ELSE None]

(* The validators of an answer: upstream's own for an unfiltered body, only   *)
(* the etag, weak and marked with the window, for a filtered one.             *)
WithIndexValidators(entry, window) ==
  IF window = 0
  THEN [etag |-> entry.etag, win |-> 0, lm |-> entry.mtime]
  ELSE [etag |-> entry.etag,
        win  |-> IF entry.etag = None THEN 0 ELSE window,
        lm   |-> None]

(* What a client may send for a name: no validator, If-None-Match with the    *)
(* etag it holds, or If-Modified-Since with the date it holds.                *)
Unconditional == [entry |-> NoEntry, win |-> 0]

IfNoneMatch(held) ==
  [entry |-> [etag |-> held.etag, mtime |-> None], win |-> held.win]

IfModifiedSince(held) ==
  [entry |-> [etag |-> None, mtime |-> held.lm], win |-> 0]

Conditions(held) ==
  {Unconditional}
    \cup (IF held # None /\ held.etag # None THEN {IfNoneMatch(held)} ELSE {})
    \cup (IF held # None /\ held.lm # None THEN {IfModifiedSince(held)} ELSE {})

(* The condition cargo sends: the etag if it has one, else the date.          *)
Preferred(held) ==
  IF held = None \/ (held.etag = None /\ held.lm = None) THEN Unconditional
  ELSE IF held.etag # None THEN IfNoneMatch(held) ELSE IfModifiedSince(held)

(* Mutant: the window a client's copy was filtered under is not looked at.    *)
WindowIgnored(n, clientWindow) == TRUE

WindowOk(n, clientWindow) == clientWindow = ServeWindow(n)

(* A 304 is sent when the client's copy was filtered under the window served  *)
(* now and its validators name the entry the proxy holds.                     *)
ConfirmsCopy(windowOk, entry, clientEntry) ==
  windowOk /\ IsEquivalent(entry, clientEntry)

-----------------------------------------------------------------------------
(* Requests in flight.  pc names the await the handler is at.                 *)

Pcs == {"warm_read", "find", "send", "recv", "create", "write", "touch",
        "store", "reread", "lost", "stale_read", "ok", "filter"}

WriteJob == {"create", "write", "touch"}

Request ==
  [pc       : Pcs,
   name     : Names,
   client   : Entry,               \* index_entry: the client's validators
   windowOk : BOOLEAN,
   entry    : Entry,               \* cached_entry, then response.entry
   body     : Body \cup {None},    \* response data or the file read
   cutoff   : Nat,                 \* the filter task's cutoff
   gone     : BOOLEAN]             \* the future was dropped during a write

(* The absent value is none of the values it stands in for.                   *)
ASSUME NoneAssumption ==
  /\ None \notin Nat /\ None \notin Body /\ None \notin IndexFile
  /\ None \notin Entry /\ None \notin Copy /\ None \notin Request

At(c, pc) == req[c] # None /\ req[c].pc = pc

File(c) == FileOf[req[c].name]

(* From here on the handler only builds a 200 from entry and body.            *)
Build(r, entry, body) ==
  [r EXCEPT !.pc = "ok", !.client = NoEntry, !.windowOk = FALSE,
            !.entry = entry, !.body = body]

Becomes(c, r) == req' = [req EXCEPT ![c] = r]

Holds(c, n, held) == copy' = [copy EXCEPT ![c][n] = held]

(* What the client holds after a 200 and after a 304.                         *)
Served(entry, window, body) ==
  LET v == WithIndexValidators(entry, window)
  IN  [etag |-> v.etag, win |-> v.win, lm |-> v.lm, conf |-> window,
       body |-> body]

Confirmed(held, entry, window) ==
  LET v == WithIndexValidators(entry, window)
  IN  [etag |-> IF v.etag = None THEN held.etag ELSE v.etag,
       win  |-> IF v.etag = None THEN held.win ELSE v.win,
       lm   |-> IF v.lm = None THEN held.lm ELSE v.lm,
       conf |-> window, body |-> held.body]

(* index_not_modified to client c for name n.                                 *)
IndexNotModified(c, n, entry) ==
  Holds(c, n, Confirmed(copy[c][n], entry, ServeWindow(n)))

StoreMetadata(n, entry) ==
  /\ metadata' = Insert(metadata, n, entry, MetadataMax)
  /\ expired' = {m \in expired : m # n /\ metadata'[m] # None}

-----------------------------------------------------------------------------
(* The handler.                                                               *)

(* handle_index up to its first await, for a client that sends the validators *)
(* in h: look the metadata up, and answer 304 or choose where to read from.   *)
HandleIndex(c, n, h) ==
  /\ req[c] = None
  /\ LET cached == metadata[n]
         ok     == WindowOk(n, h.win)
         start(pc, entry) ==
           [pc |-> pc, name |-> n, client |-> h.entry, windowOk |-> ok,
            entry |-> entry, body |-> None, cutoff |-> 0, gone |-> FALSE]
     IN  \/ /\ cached = None
            /\ Becomes(c, start("find", NoEntry))
            /\ UNCHANGED copy
         \/ /\ cached # None /\ n \in expired
            /\ Becomes(c, start("send", cached))
            /\ UNCHANGED copy
         \/ /\ cached # None /\ n \notin expired
            /\ ConfirmsCopy(ok, cached, h.entry)
            /\ IndexNotModified(c, n, cached)
            /\ UNCHANGED req
         \/ /\ cached # None /\ n \notin expired
            /\ ~ConfirmsCopy(ok, cached, h.entry)
            /\ Becomes(c, start("warm_read", cached))
            /\ UNCHANGED copy
  /\ UNCHANGED <<environment, disk, caches>>

(* The warm read of the index file: a 200 from it, or on to upstream.         *)
WarmRead(c) ==
  /\ At(c, "warm_read")
  /\ \/ /\ disk[File(c)] # None
        /\ Becomes(c, Build(req[c], req[c].entry, disk[File(c)].body))
     \/ /\ disk[File(c)] = None
        /\ Becomes(c, [req[c] EXCEPT !.pc = "find", !.entry = NoEntry])
  /\ UNCHANGED <<environment, disk, caches, copy>>

(* cache_find_index: the validators to send upstream are the file's mtime,    *)
(* or, when there is no file, the client's own.                               *)
FindIndex(c) ==
  /\ At(c, "find")
  /\ LET entry == IF disk[File(c)] = None THEN req[c].client
                  ELSE [etag |-> None, mtime |-> disk[File(c)].mtime]
     IN  Becomes(c, [req[c] EXCEPT !.pc = "send", !.entry = entry])
  /\ UNCHANGED <<environment, disk, caches, copy>>

(* Upstream evaluates the conditional request against revision r.             *)
Unmodified(entry, r) ==
  \/ entry.etag # None /\ "etag" \in UpstreamSends /\ entry.etag = r
  \/ /\ entry.etag = None /\ entry.mtime # None
     /\ "lm" \in UpstreamSends /\ RevDate[r] <= entry.mtime

(* Mutant: the etag of a revision that is already known is kept.              *)
WithHeadersKept(entry, r, sendsDate) ==
  [etag  |-> IF entry.etag # None THEN entry.etag
             ELSE IF "etag" \in UpstreamSends THEN r ELSE None,
   mtime |-> IF sendsDate THEN RevDate[r] ELSE entry.mtime]

(* The entry after the response headers are applied: a header that is absent  *)
(* leaves what the request carried.                                           *)
WithHeaders(entry, r, sendsDate) ==
  [etag  |-> IF "etag" \in UpstreamSends THEN r ELSE entry.etag,
   mtime |-> IF sendsDate THEN RevDate[r] ELSE entry.mtime]

(* Upstream answers, from the revision current at that moment: 200 with the   *)
(* body, or 304, whose Last-Modified is optional.                             *)
UpstreamAnswer(c) ==
  /\ At(c, "send")
  /\ LET r     == upstream[File(c)]
         entry == req[c].entry
         answer(sendsDate, body) ==
           [req[c] EXCEPT !.pc = "recv", !.body = body,
                          !.entry = WithHeaders(entry, r, sendsDate)]
     IN  \/ /\ Unmodified(entry, r)
            /\ \E sendsDate \in BOOLEAN :
                 /\ sendsDate => "lm" \in UpstreamSends
                 /\ Becomes(c, answer(sendsDate, None))
         \/ /\ ~Unmodified(entry, r)
            /\ Becomes(c, answer("lm" \in UpstreamSends, RevBody(File(c), r)))
  /\ UNCHANGED <<environment, disk, caches, copy>>

(* The 200 has arrived in full: hand its body to the blocking write.          *)
ReceiveBody(c) ==
  /\ At(c, "recv") /\ req[c].body # None
  /\ Becomes(c, [req[c] EXCEPT !.pc = "create"])
  /\ UNCHANGED <<environment, disk, caches, copy>>

(* Mutant: a 304 that does not confirm the client's copy is asked for again.  *)
ReceiveNotModifiedRetrying(c) ==
  /\ At(c, "recv") /\ req[c].body = None
  /\ StoreMetadata(req[c].name, req[c].entry)
  /\ LET confirms == ConfirmsCopy(req[c].windowOk, req[c].entry, req[c].client)
     IN  IF confirms
         THEN /\ IndexNotModified(c, req[c].name, req[c].entry)
              /\ Becomes(c, None)
         ELSE Becomes(c, [req[c] EXCEPT !.pc = "send"]) /\ UNCHANGED copy
  /\ UNCHANGED <<environment, disk, memo>>

(* The 304 has arrived: store the entry, then confirm the client's copy or    *)
(* read the file back.                                                        *)
ReceiveNotModified(c) ==
  /\ At(c, "recv") /\ req[c].body = None
  /\ StoreMetadata(req[c].name, req[c].entry)
  /\ LET confirms == ConfirmsCopy(req[c].windowOk, req[c].entry, req[c].client)
     IN  \/ /\ confirms
            /\ IndexNotModified(c, req[c].name, req[c].entry)
            /\ Becomes(c, None)
         \/ /\ ~confirms
            /\ Becomes(c, [req[c] EXCEPT !.pc = "reread"])
            /\ UNCHANGED copy
  /\ UNCHANGED <<environment, disk, memo>>

(* The transfer fails at some point, or the body exceeds its limit.           *)
ReceiveFailure(c) ==
  /\ "upstream" \in Faults
  /\ At(c, "recv")
  /\ Becomes(c, [req[c] EXCEPT !.pc = "stale_read", !.entry = NoEntry,
                               !.body = None])
  /\ UNCHANGED <<environment, disk, caches, copy>>

(* Any other upstream status is forwarded and changes nothing.                *)
ForwardStatus(c) ==
  /\ "status" \in Faults
  /\ At(c, "recv")
  /\ Becomes(c, None)
  /\ UNCHANGED <<environment, disk, caches, copy>>

-----------------------------------------------------------------------------
(* cache_store_index_entry on the blocking pool: create (which truncates),    *)
(* write, set the modification time.  A failed call ends the job, and its     *)
(* failure is only logged.  The job outlives a handler that was dropped.      *)

(* Mutant: the downloaded body is moved into the write job, not cloned.       *)
AfterJobMovesBody(c) ==
  Becomes(c, IF req[c].gone THEN None
             ELSE [req[c] EXCEPT !.pc = "store", !.body = None])

AfterJob(c) ==
  Becomes(c, IF req[c].gone THEN None ELSE [req[c] EXCEPT !.pc = "store"])

CreateFile(c) ==
  /\ At(c, "create")
  /\ \/ /\ disk' = [disk EXCEPT ![File(c)] =
                      [body |-> Truncated, mtime |-> clock]]
        /\ Becomes(c, [req[c] EXCEPT !.pc = "write"])
     \/ /\ "disk" \in Faults
        /\ AfterJob(c)
        /\ UNCHANGED disk
  /\ UNCHANGED <<environment, caches, copy>>

(* The bodies a complete write may leave.  Another writer may have filled the *)
(* file since this one truncated it, and its tail can survive.                *)
Overwritten(old, new) ==
  {new} \cup
  (IF old.lines = {} \/ old.rev = new.rev THEN {}
   ELSE {[rev |-> None, lines |-> old.lines \cup new.lines,
          utf8 |-> old.utf8 /\ new.utf8]})

(* The bodies a write that fails half-way may leave.                          *)
PartlyWritten(old, new) ==
  {[rev |-> None, lines |-> s, utf8 |-> old.utf8 /\ new.utf8] :
     s \in SUBSET (old.lines \cup new.lines)}

WriteFile(c) ==
  /\ At(c, "write")
  /\ LET f   == File(c)
         old == disk[f].body
         new == req[c].body
         leaves(body) ==
           disk' = [disk EXCEPT ![f] = [body |-> body, mtime |-> clock]]
     IN  \/ /\ \E body \in Overwritten(old, new) : leaves(body)
            /\ \/ /\ req[c].entry.mtime # None
                  /\ Becomes(c, [req[c] EXCEPT !.pc = "touch"])
               \/ /\ req[c].entry.mtime = None
                  /\ AfterJob(c)
         \/ /\ "disk" \in Faults
            /\ \E body \in PartlyWritten(old, new) : leaves(body)
            /\ AfterJob(c)
  /\ UNCHANGED <<environment, caches, copy>>

(* Mutant: the file keeps the time it was written at.                         *)
TouchNothing(c) ==
  /\ At(c, "touch")
  /\ AfterJob(c)
  /\ UNCHANGED <<environment, disk, caches, copy>>

TouchFile(c) ==
  /\ At(c, "touch")
  /\ \/ disk' = [disk EXCEPT ![File(c)] =
                   [body |-> @.body, mtime |-> req[c].entry.mtime]]
     \/ "disk" \in Faults /\ UNCHANGED disk
  /\ AfterJob(c)
  /\ UNCHANGED <<environment, caches, copy>>

(* The write job has ended, well or badly: store the entry and answer from    *)
(* the downloaded body.                                                       *)
StoreRefreshed(c) ==
  /\ At(c, "store")
  /\ StoreMetadata(req[c].name, req[c].entry)
  /\ LET confirms == ConfirmsCopy(req[c].windowOk, req[c].entry, req[c].client)
     IN  \/ /\ confirms
            /\ IndexNotModified(c, req[c].name, req[c].entry)
            /\ Becomes(c, None)
         \/ /\ ~confirms
            /\ Becomes(c, Build(req[c], req[c].entry, req[c].body))
            /\ UNCHANGED copy
  /\ UNCHANGED <<environment, disk, memo>>

(* After a 304 from upstream the file is served, unless it is gone.           *)
ReadBack(c) ==
  /\ At(c, "reread")
  /\ \/ /\ disk[File(c)] # None
        /\ Becomes(c, Build(req[c], req[c].entry, disk[File(c)].body))
     \/ /\ disk[File(c)] = None
        /\ Becomes(c, [req[c] EXCEPT !.pc = "lost"])
  /\ UNCHANGED <<environment, disk, caches, copy>>

(* The file is lost: forget the entry and answer 503.                         *)
LostFile(c) ==
  /\ At(c, "lost")
  /\ metadata' = Remove(metadata, req[c].name)
  /\ expired' = expired \ {req[c].name}
  /\ Becomes(c, None)
  /\ UNCHANGED <<environment, disk, memo, copy>>

(* Upstream is unreachable: the file is served under the validators the       *)
(* client sent; without a file the answer is 502.                             *)
StaleRead(c) ==
  /\ At(c, "stale_read")
  /\ \/ /\ disk[File(c)] # None
        /\ Becomes(c, Build(req[c], req[c].client, disk[File(c)].body))
     \/ /\ disk[File(c)] = None
        /\ Becomes(c, None)
  /\ UNCHANGED <<environment, disk, caches, copy>>

-----------------------------------------------------------------------------
(* index_ok: the 200.                                                         *)

Bucket(cutoff) == cutoff \div BucketSecs

(* Mutants: a lookup that ignores the bucket; one that ignores the source.    *)
MemoHitAnyBucket(n, validator, bucket) ==
  memo[n] # None /\ memo[n].validator = validator

MemoHitAnySource(n, validator, bucket) ==
  memo[n] # None /\ memo[n].bucket = bucket

MemoHit(n, validator, bucket) ==
  /\ memo[n] # None
  /\ memo[n].validator = validator
  /\ memo[n].bucket = bucket

IndexOk(c) ==
  /\ At(c, "ok")
  /\ LET n      == req[c].name
         entry  == req[c].entry
         cutoff == CutoffFor(n)
         hit    == MemoHit(n, EntryValidator(entry), Bucket(cutoff))
     IN  \/ /\ cutoff = None
            /\ Holds(c, n, Served(entry, 0, req[c].body))
            /\ Becomes(c, None)
         \/ /\ cutoff # None /\ hit
            /\ Holds(c, n, Served(entry, ServeWindow(n), memo[n].body))
            /\ Becomes(c, None)
         \/ /\ cutoff # None /\ ~hit
            /\ Becomes(c, [req[c] EXCEPT !.pc = "filter", !.cutoff = cutoff])
            /\ UNCHANGED copy
  /\ UNCHANGED <<environment, disk, caches>>

(* The filter task is done: memoise its result and send it.                   *)
Filter(c) ==
  /\ At(c, "filter")
  /\ LET n        == req[c].name
         filtered == FilterIndex(req[c].body, req[c].cutoff)
     IN  /\ memo' = Insert(memo, n,
                           [validator |-> EntryValidator(req[c].entry),
                            bucket    |-> Bucket(req[c].cutoff),
                            body      |-> filtered], MemoMax)
         /\ Holds(c, n, Served(req[c].entry, ServeWindow(n), filtered))
  /\ Becomes(c, None)
  /\ UNCHANGED <<environment, disk, metadata, expired>>

(* A filter task that panics yields a 500, never a body.                      *)
FilterPanic(c) ==
  /\ "filter" \in Faults
  /\ At(c, "filter")
  /\ Becomes(c, None)
  /\ UNCHANGED <<environment, disk, caches, copy>>

-----------------------------------------------------------------------------
(* The surroundings.                                                          *)

(* Mutant: dropping the handler aborts its write between two system calls.    *)
CancelAbortsWrite(c) ==
  /\ "cancel" \in Faults
  /\ req[c] # None
  /\ Becomes(c, None)
  /\ UNCHANGED <<environment, disk, caches, copy>>

(* The client disconnects: its handler is dropped at the await it is at.  A   *)
(* write job already handed to the blocking pool runs to its end.             *)
Cancel(c) ==
  /\ "cancel" \in Faults
  /\ req[c] # None /\ ~req[c].gone
  /\ Becomes(c, IF req[c].pc \in WriteJob THEN [req[c] EXCEPT !.gone = TRUE]
                ELSE None)
  /\ UNCHANGED <<environment, disk, caches, copy>>

(* The time since an entry's last upstream check passes the TTL.              *)
Expire(n) ==
  /\ metadata[n] # None /\ n \notin expired
  /\ expired' = expired \cup {n}
  /\ UNCHANGED <<environment, disk, metadata, memo, req, copy>>

Publish(f) ==
  /\ upstream[f] < LastRev
  /\ RevDate[upstream[f] + 1] <= now
  /\ upstream' = [upstream EXCEPT ![f] = @ + 1]
  /\ UNCHANGED <<clock, now, cooldown, restarts, disk, caches, req, copy>>

Tick ==
  /\ clock < MaxTime
  /\ clock' = clock + 1
  /\ now' = IF clock' > now THEN clock' ELSE now
  /\ UNCHANGED <<cooldown, restarts, upstream, disk, caches, req, copy>>

(* The wall clock is set back, to the epoch at the earliest.                  *)
SetBack ==
  /\ "clock" \in Faults
  /\ clock' \in 0..MaxTime /\ clock' < clock
  /\ UNCHANGED <<now, cooldown, restarts, upstream, disk, caches, req, copy>>

(* Mutant: the memo of filtered bodies survives the restart.                  *)
RestartKeepsMemo ==
  /\ restarts < MaxRestarts
  /\ restarts' = restarts + 1
  /\ cooldown' \in Windows
  /\ metadata' = EmptyMap(Names)
  /\ expired' = {}
  /\ req' = [c \in Clients |-> None]
  /\ UNCHANGED <<clock, now, upstream, disk, memo, copy>>

(* The proxy stops at any point and starts again, perhaps with another        *)
(* window: memory and requests are gone, the files stay as the last system    *)
(* call left them, or go with the container that held them.                   *)
Restart ==
  /\ restarts < MaxRestarts
  /\ restarts' = restarts + 1
  /\ cooldown' \in Windows
  /\ metadata' = EmptyMap(Names)
  /\ expired' = {}
  /\ memo' = EmptyMap(Names)
  /\ req' = [c \in Clients |-> None]
  /\ \/ UNCHANGED disk
     \/ "wipe" \in Faults /\ disk' = EmptyMap(Files)
  /\ UNCHANGED <<clock, now, upstream, copy>>

-----------------------------------------------------------------------------
Init ==
  /\ clock = 0 /\ now = 0
  /\ cooldown \in Windows
  /\ restarts = 0
  /\ upstream = [f \in Files |-> 1]
  /\ disk = EmptyMap(Files)
  /\ metadata = EmptyMap(Names)
  /\ expired = {}
  /\ memo = EmptyMap(Names)
  /\ req = [c \in Clients |-> None]
  /\ copy = [c \in Clients |-> EmptyMap(Names)]

(* The steps of the request a client has in flight, when nothing fails.       *)
Progress(c) ==
  \/ WarmRead(c) \/ FindIndex(c) \/ UpstreamAnswer(c)
  \/ ReceiveBody(c) \/ ReceiveNotModified(c)
  \/ CreateFile(c) \/ WriteFile(c) \/ TouchFile(c) \/ StoreRefreshed(c)
  \/ ReadBack(c) \/ LostFile(c) \/ StaleRead(c)
  \/ IndexOk(c) \/ Filter(c)

(* Everything that happens while one process runs.                            *)
Operate ==
  \/ \E c \in Clients : \/ \E n \in Names :
                           \E h \in Conditions(copy[c][n]) : HandleIndex(c, n, h)
                        \/ Progress(c)
                        \/ ReceiveFailure(c) \/ ForwardStatus(c)
                        \/ FilterPanic(c) \/ Cancel(c)
  \/ \E n \in Names : Expire(n)
  \/ \E f \in Files : Publish(f)
  \/ Tick
  \/ SetBack

Next == Operate \/ Restart

Spec == Init /\ [][Next]_vars

(* Tasks that can run do run, time passes, and every client asks for every    *)
(* name again and again, with the best validator it holds.                    *)
Fairness ==
  /\ \A c \in Clients : WF_vars(Progress(c))
  /\ \A c \in Clients, n \in Names :
       SF_vars(HandleIndex(c, n, Preferred(copy[c][n])))
  /\ \A n \in Names : WF_vars(Expire(n))
  /\ WF_vars(Tick)

LiveSpec == Spec /\ Fairness

-----------------------------------------------------------------------------
(* Properties.                                                                *)

(* What a request has at a given await: the body an earlier one produced, the *)
(* file its job has truncated, a time to set, and, if it carries validators,  *)
(* a copy they came with.                                                     *)
PhaseOK(r, files, held) ==
  /\ r.pc \in WriteJob \cup {"store", "ok", "filter"} => r.body # None
  /\ r.pc \in {"write", "touch"} => files[FileOf[r.name]] # None
  /\ r.pc = "touch" => r.entry.mtime # None
  /\ r.client # NoEntry => held[r.name] # None

(* Every variable keeps its type, and every request is fit for its next step. *)
TypeOK ==
  /\ now \in 0..MaxTime /\ clock \in 0..now
  /\ cooldown \in Windows
  /\ restarts \in 0..MaxRestarts
  /\ upstream \in [Files -> Revs]
  /\ disk \in [Files -> IndexFile \cup {None}]
  /\ metadata \in [Names -> Entry \cup {None}]
  /\ expired \subseteq Names
  /\ memo \in [Names -> MemoEntry \cup {None}]
  /\ req \in [Clients -> Request \cup {None}]
  /\ copy \in [Clients -> [Names -> Copy \cup {None}]]
  /\ \A c \in Clients : req[c] # None => PhaseOK(req[c], disk, copy[c])

(* The age gate: whatever a client was last given or told to keep under a     *)
(* window shows no version younger than that window, whichever path answered  *)
(* (fresh body, file, memo, stale fallback or 304) and however the window     *)
(* changed across restarts.                                                   *)
NoTooNewVersion ==
  \A c \in Clients, n \in Names :
    copy[c][n] # None /\ copy[c][n].conf > 0
      => AgedUnder(copy[c][n].body, now, copy[c][n].conf)

(* The two in-memory caches never hold more names than their capacity.        *)
CachesBounded ==
  /\ Cardinality(Present(metadata)) <= MetadataMax
  /\ Cardinality(Present(memo)) <= MemoMax

AgedIn(f, body, cutoff) ==
  body.rev # None =>
    \A v \in RevLines[f][body.rev] :
      PubTime[v] = None \/ PubTime[v] + BucketSecs <= cutoff
        => v \in body.lines

AgedOut(body, cutoff) ==
  body.utf8 => \A v \in body.lines :
                 PubTime[v] # None => PubTime[v] < cutoff + BucketSecs

(* src/src/cache/memo.rs bounds what the bucketing costs: a body answered     *)
(* from the memo lacks no version of its revision that aged past the cutoff a *)
(* bucket ago, and, though the clock was set back since it was filtered, has  *)
(* none that is a bucket too new for the clock.                               *)
MemoJitterBounded ==
  [][\A c \in Clients :
       IndexOk(c) /\ req'[c] = None
         => LET n == req[c].name IN
              ServeWindow(n) > 0
                => /\ AgedIn(FileOf[n], copy'[c][n].body, CutoffFor(n))
                   /\ AgedOut(copy'[c][n].body, CutoffFor(n))]_vars

(* No answer carries an etag newer than its body: such a client would be told *)
(* 304 and never see the revision its etag names.                             *)
ValidatorNotAheadOfBody ==
  \A c \in Clients, n \in Names :
    copy[c][n] # None /\ copy[c][n].etag # None
      => copy[c][n].body.rev # None /\ copy[c][n].etag <= copy[c][n].body.rev

(* A refresh, however it ends, leaves a whole body in the index file: only a  *)
(* write that is still running may have the file truncated.                   *)
FilesWholeBetweenWrites ==
  \A f \in Files :
    \/ disk[f] = None \/ disk[f].body.rev # None
    \/ \E c \in Clients : At(c, "write") /\ File(c) = f

(* Changing or enabling the window reaches every client: again and again it   *)
(* holds a copy confirmed under the window in force, with nothing too new.    *)
StaleCopiesInvalidated ==
  \A c \in Clients, n \in Names :
    []<>(/\ copy[c][n] # None
         /\ copy[c][n].conf = ServeWindow(n)
         /\ ServeWindow(n) > 0
              => AgedUnder(copy[c][n].body, now, ServeWindow(n)))

(* Every request is answered if upstream answers, whatever it finds expired,  *)
(* evicted or changed on its way, though it be sent from the file to upstream *)
(* and back to the file: none is left without a next step.                    *)
RequestsEnd == \A c \in Clients : []<>(req[c] = None)

(* A client that keeps asking ends up with upstream's current revision.       *)
CopiesCatchUp ==
  \A c \in Clients, n \in Names :
    []<>(copy[c][n] # None /\ copy[c][n].body.rev = upstream[FileOf[n]])

(* A copy given or confirmed without a window holds no version of its         *)
(* revision back: turning the cooldown off, or exempting a crate, undoes the  *)
(* filtering of what clients had stored before.                               *)
NothingHeldBack ==
  \A c \in Clients, n \in Names :
    LET held == copy[c][n]
    IN  held # None /\ held.conf = 0 /\ held.body.rev # None
          => held.body.lines = RevLines[FileOf[n]][held.body.rev]

(* What src/src/cache/memo.rs says of the memo: a body tagged with a          *)
(* revision's validator is made from that revision or a later one, never from *)
(* something stale.                                                           *)
MemoNeverStale ==
  \A n \in Names :
    memo[n] # None /\ memo[n].validator[1] = "etag"
      => memo[n].body.rev # None /\ memo[n].validator[2] <= memo[n].body.rev

(* What src/src/cache/memo.rs says filtering through buckets costs, for a     *)
(* client that keeps asking: again and again its copy holds every version of  *)
(* its revision that is a bucket past the cutoff.                             *)
AgedVersionsReachClients ==
  \A c \in Clients, n \in Names :
    []<>(/\ copy[c][n] # None
         /\ ServeWindow(n) > 0
              => AgedIn(FileOf[n], copy[c][n].body, CutoffFor(n)))

-----------------------------------------------------------------------------
(* The abstract view of a copy: the lines a client can read in it.            *)

Shown(held) ==
  IF held = None THEN [lines |-> {}, under |-> 0]
  ELSE [lines |-> IF held.body.utf8 THEN held.body.lines ELSE {},
        under |-> held.conf]

View == [c \in Clients |-> [n \in Names |-> Shown(copy[c][n])]]

Gate == INSTANCE AgeGate WITH window <- cooldown, view <- View

(* The proxy with all its caches implements the age gate.                     *)
AgeGateSpec == Gate!Spec

-----------------------------------------------------------------------------
(* The inductive invariant behind the age gate, one predicate per place a     *)
(* body can be.                                                               *)

PublishedLines(f) == UNION {RevLines[f][r] : r \in 1..upstream[f]}

(* A body consists of lines upstream has published for the crate.             *)
FromUpstream(f, body) == body.lines \subseteq PublishedLines(f)

AgedFor(body, w) == AgedUnder(body, now, w)

FileInv(f) == disk[f] # None => FromUpstream(f, disk[f].body)

(* A memoised body is old enough for the window in force.                     *)
MemoInv(n) ==
  memo[n] # None => /\ FromUpstream(FileOf[n], memo[n].body)
                    /\ ServeWindow(n) > 0
                    /\ AgedFor(memo[n].body, ServeWindow(n))

(* A copy is old enough for the window it was last confirmed under, and for   *)
(* the one in its etag's marker.                                              *)
CopyInv(n, held) ==
  /\ FromUpstream(FileOf[n], held.body)
  /\ held.conf > 0 => AgedFor(held.body, held.conf)
  /\ held.win > 0 => AgedFor(held.body, held.win)

(* A request that may end in a 304 comes from a client that holds a copy, one *)
(* old enough for the window in force; a filter task works with a cutoff the  *)
(* clock has not moved back from.                                             *)
RequestInv(r, held) ==
  LET w == ServeWindow(r.name)
  IN  /\ r.body # None => FromUpstream(FileOf[r.name], r.body)
      /\ r.windowOk /\ w > 0 => held # None /\ AgedFor(held.body, w)
      /\ r.pc = "filter" => w > 0 /\ r.cutoff <= CutoffFrom(now, w)

AgeInv ==
  /\ \A f \in Files : FileInv(f)
  /\ \A n \in Names : MemoInv(n)
  /\ \A c \in Clients, n \in Names :
       copy[c][n] # None => CopyInv(n, copy[c][n])
  /\ \A c \in Clients :
       req[c] # None => RequestInv(req[c], copy[c][req[c].name])
=============================================================================
