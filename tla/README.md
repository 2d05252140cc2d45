# A model of chilled-crates

`chilled-crates` is a caching proxy for a crates.io-style registry.  It serves the sparse index
with a *cooldown*: versions younger than a configured window are hidden.  It also serves crate
files, optionally refusing those that are too young (`--restrict-downloads`).  This directory
holds TLA+ models of the parts of the program that keep state, the TLC runs that check them, and
proofs that what the runs check on small instances holds for every instance.

## The system

| Part (under `src/src/`) | State | Operations | Interacts with |
| --- | --- | --- | --- |
| Index route, `routes/index.rs` | one future per request, with the client's validators, `window_ok`, the entry and the body | `handle_index`, `forward_index`, `download_index_entry`, `index_ok` | all the caches, upstream, clients |
| Metadata cache, `cache/metadata.rs`, `cache/index_entry.rs` | `RwLock` of a map: requested name to etag, date, time of the last check; 8192 names | `store`, `fetch`, `invalidate`, expiry | index route |
| Memo, `cache/memo.rs` | `RwLock` of a map: requested name to (validator, cutoff bucket, filtered body); 8192 names | `get`, `put` | index route |
| Disk cache, `cache/file.rs` | index files (unfiltered, dated by Last-Modified) and crate files, by lower-cased name and by crate | store, fetch, find | both routes, from the blocking pool |
| Cooldown filter, `cooldown.rs` | none | `filter_index`, `cutoff_from`, `version_pubtime`, `parse_duration` | index route, download gate |
| Download route, `routes/download.rs` | one future per request | `handle_download`, the gate `download_old_enough`, `download_crate` | index files, crate files, upstream |
| Upstream fetch, `http/fetch.rs` | none | `read_capped` | both routes |
| HTTP dates, `http/httpdate.rs` | none | `fmt_http_date`, `parse_http_date` | entries, files |
| Configuration, `config/` | fixed for a process | `build`, `parse_overrides`, `cutoff_for` | both routes |
| Process, `lib.rs`, `server/` | the shared caches | start; it only stops by being killed | everything |
| Validation, `valid.rs` | none | `is_crate_name`, `is_crate_version` | request paths, metrics |
| Responses, `http/response.rs` | none | `crate_response`, `format_json_error` | both routes |
| Metrics, health, home, `routes/` | none | `scan_cached_crates` | crate files |

What is hard in it:

* **Interleaving.**  A handler awaits between reading the metadata, reading the file, asking
  upstream, writing the file, storing the metadata and filtering, and nothing is locked across an
  await.  Two requests for a crate overlap anywhere, and two spellings of a name share a file but
  not a metadata slot.
* **Atomicity.**  Files are truncated and written in place, then dated.  A reader, a crash or a
  failed call comes between.  A client that hangs up drops its handler, not the blocking job.
* **Stale state.**  A 304 is right only if the client's copy was filtered under the window in
  force, if the entry is the revision the client holds, and if the body kept anywhere (memo, file,
  client) is old enough *now*.
* **Restarts.**  Memory and requests go, files stay (or go with the container), clients keep what
  they stored, and the window may be another.
* **Time.**  Ages are judged by a wall clock that can be set back under everything judged before.
* **Text.**  The filter and the gate search JSON lines without parsing them; an etag carries the
  window in a marker; names, versions and messages are joined and taken apart again.
* **Liveness.**  New revisions, changed windows and aged versions must reach clients that ask.

What makes each part correct: the index route shows only published lines, none too young, on
every path; it withholds nothing where no window applies; clients catch up; etags do not run ahead
of bodies; the caches stay within capacity; files are whole unless being written; the download
gate fails closed yet lets ordinary clients through, and agrees with the index; dates are right on
every day; what is put into text comes back out of it.

## Modules

* `Cooldown` — the age filter as operators over a set of version lines with a publication time.
* `BoundedMap` — the clear-all-when-full maps behind the metadata cache and the memo.
* `AgeGate` — the abstract promise: a client is shown lines that were published and are older than
  the window in force, nothing else.  It has no caches.
* `IndexProxy` — the index route with all it shares, and its refinement of `AgeGate`.
* `Download` — extends `IndexProxy` with the download route: same clock, window, process, files.
* Pure algorithms, as operators: `Calendar` — the day/date conversions; `EtagMarker` — the window
  in an etag; `PubtimeScan` — the text searches of filter and gate; `Settings` — from the command
  line to a request's cutoff; `Paths` — request paths, validation, file names and what the metrics
  scan reads from them; `ErrorBody` — escaping.
* `Algorithms` — composes these; a state is a day of a calendar walked one day at a time, or one
  input of another algorithm, and each property compares the code's result with a reference.
* `MCIndexProxy`, `MCDownload`, `MCAlgorithms` — small instances.
* `IndexProxyProofs`, `WholenessProofs`, `CapacityProofs`, `ValidatorProofs`, `DownloadProofs` —
  theorems about the routes; `CalendarProofs`, `AlgorithmsProofs`, `TextProofs` — theorems about
  the algorithms.

### How `IndexProxy` corresponds to the code

A request is a record in `req[c]` whose `pc` names the await the handler is at; every action is
the stretch of code up to the next await.

| `pc` | waiting for | next action |
| --- | --- | --- |
| (none) | | `HandleIndex`: client validators, `window_ok`, metadata lookup; a 304 at once, or on |
| `warm_read` | `cache_read_index` of a fresh entry | `WarmRead` |
| `find` | `cache_find_index` | `FindIndex` |
| `send`, `recv` | upstream's headers, then body | `UpstreamAnswer`; `ReceiveBody`, `ReceiveNotModified`, `ReceiveFailure`, `ForwardStatus` |
| `create`, `write`, `touch` | the blocking write, one system call each | `CreateFile`, `WriteFile`, `TouchFile` |
| `store` | (the job is done) | `StoreRefreshed` |
| `reread`, `lost` | the file after a 304 | `ReadBack`, `LostFile` |
| `stale_read` | the file after a transport failure | `StaleRead` |
| `ok` | | `IndexOk`: cutoff and memo lookup |
| `filter` | the filter task | `Filter`, `FilterPanic` |

`metadata`, `memo` and `disk` are the caches; `expired` holds the names whose last upstream check
is older than the TTL (the monotonic clock is not related to the wall clock: any entry may expire
at any time).  `clock` is what the wall clock shows and what every cutoff is computed from;
`SetBack` sets it back to any earlier time.  `now` is the latest time it has shown.  Ages are
counted by `now`: a clock that is behind makes a cutoff earlier, never later, so that what was old
enough stays so.  The registry publishes by `now`.  `copy[c][n]` is what client `c` stores of name
`n`: the validators it was given, the body, and the window `conf` the proxy last sent or confirmed
it under; it is updated by a 200 and by a 304 the way an HTTP cache is.  `Cancel` drops a handler;
if its write job has started, the job runs on (`gone`).  `Restart` ends the process at any point,
so between any two system calls.

Abstractions.  A body is a revision, a set of version lines and whether it is UTF-8; a body that
is truncated, partly written or written over by two writers has no revision.  A write that fails
part of the way leaves whole lines, and the body counts as UTF-8; in the code the last line may be
cut, and if it is cut before its `pubtime` the filter passes it, but it is no JSON then and no
client reads a version in it.  A strong etag names one revision; a date may be that of several
(`RevDate` need not grow with every revision), though the instances give each its own.  The marker
in a filtered etag is a field of the etag; `EtagMarker` has it as text.  `cutoff_for` is read once
per action; in the code the two reads of the clock in one stretch may differ by a second, which
changes nothing as the window is what matters there.  A client has one request in flight per slot,
and its slot stays occupied until a job of its dropped request ends; a client that reconnects and
overlaps with its own abandoned write is the second client of the two-client runs. Body sizes, and
so oversized bodies, are the fault `upstream`.

### How `Algorithms` corresponds to the code

Each operator is the function of the same name (`PubtimeScan!FilterLines` is `filter_body`,
`Settings!CutoffAt` is `cutoff_for`).  Text is a sequence of the pieces the code tells apart: an
etag of quotes, the weak prefix, markers, digit runs and other text; a line of JSON strings,
punctuation and blanks; a path of segments; a message of characters that are escaped or not.  The
references are written from what the text means, not from how the code reads it: `Rendered` is the
line a registry writes for an entry, `JsonParse` is RFC 8259's reading of a string.

### How `Download` corresponds to the code

`HandleDownload` fixes the cutoff; `Admit` and `Refuse` are `download_old_enough` on the index
file at that moment; `ReadCrate` looks the crate file up; `FetchCrate` and `FetchError` are
`download_crate`; `CreateCrate` and `WriteCrate` are the two halves of `fs::write`, both on the
blocking pool; the answer then goes out from memory.  Every action of `IndexProxy` may come
between.  A received crate remembers the window it was gated under, 0 where no gate applied
(cooldown off, override, or no `--restrict-downloads`).

## Runs

Passing runs, with what each asks:

| Run | Instance | Question |
| --- | --- | --- |
| `index_interleaving` | 2 clients, hang-ups, one window, a body that is not UTF-8, clock 0..2 | does every await find what it needs (`TypeOK`), and does the handler implement `AgeGate` (`AgeGateSpec`)? |
| `index_restart` | 1 client, windows 0, 1, 2, a restart that may lose the files, every fault but a set-back clock, clock 0..2 | `NoTooNewVersion` with its invariant `AgeInv`, and its converse `NothingHeldBack` |
| `index_spellings` | 1 client, two spellings, capacity 1, windows 1 and 2, buckets of 2, clock 0..5 and set back at any point, failures and hang-ups | `NoTooNewVersion`, `CachesBounded`, `ValidatorNotAheadOfBody`, `FilesWholeBetweenWrites`, `MemoJitterBounded` |
| `liveness` | 1 client and 1 download of a crate named in mixed case, windows 1 and 2, a restart that keeps the files | `RequestsEnd`, `StaleCopiesInvalidated`, `CopiesCatchUp`, `DownloadsSucceed` |
| `download_gate` | 1 client, 1 download of the version that is new, windows 0 and 1, a restart that may lose the files, a clock that is set back | `DownloadsOldEnough`, its invariant `DownloadInv`, `DownloadTypeOK` |
| `download_overlap` | 2 downloads of an overridden crate named in mixed case, hang-ups, failed transfers, a crash and restart at any point | `CrateFilesWholeBetweenWrites`, `OnlyCrashesTearCrates`, and `NothingHeldBack` for the override |
| `algorithms` | every day of 1969 to 2401, and every input named under Bounds | `ConversionsAgree`, `HttpDateRoundTrip`, `ConfirmsOnlyThatCopy`, `ScanFindsPubtime`, `GateAgreesWithIndex`, `CooldownAsConfigured`, `PathsNameTheirCrate`, `JsonEscapeRoundTrip` |

Runs that show where the program departs from what its comments and README say:

| Run | What happens |
| --- | --- |
| `aging_in_unbounded` | A client that revalidates is told 304 while etag and window match, so it never sees versions that age in; `memo.rs` bounds the delay by an hour. |
| `window_change_without_file` | A restart with another window and an empty cache directory: upstream answers 304 to the client's own etag, there is no file, and the answer is 503 each time. |
| `memo_stale` | Two overlapping refreshes leave the old body in the file and the new entry in the metadata; the memo files the old lines under the new etag. |
| `crate_torn` | A crash while a crate file is truncated; the torn file is served to every later download. |
| `torn_index_refused` | A crash while the index file is truncated leaves it dated at the crash; upstream confirms that date for ever, and downloads of the crate are refused for ever. |

Six more departures follow from reading the models and have no run.  A version without a
`pubtime` is shown under every window and refused by the download gate under every window.  Once
the files are lost, a client whose etag is current is answered 304 without the index file coming
back, and the gate refuses it.  When an answer of upstream carries no `Last-Modified`, the
refreshed entry keeps the date of the one before (`routes/index.rs:274-280`), so that where no
window applies a client that sends this date may be told 304 for a body that has changed;
crates.io sends both headers.  Two revisions of a crate that upstream publishes within one second
share a date, and an answer may then confirm the body of the first with the etag of the second.  A
download that overlaps another of the same crate may read the file while it is truncated, and is
served what is there, without any crash.  While upstream fails, a client that sent no validators is
answered from the file under none, and the memo keeps the filtered body under the empty validator;
the next such answer within the bucket takes it from there though the file was refreshed in between,
where `memo.rs:45-47` says that stale output is never reused.

Three properties of the algorithms state what they leave out, because the code does not promise it
there.  An unfiltered etag of upstream's that itself ends in `.cd` and digits is taken for a
filtered one (`LooksMarked`).  A features key called `pubtime` ahead of the entry's own ends the
search, and the version is always shown (`KeyAhead`); the tests' entries have `features` first
(`tests/common/fixtures.rs:22`), so the comment that "for a well-formed crates.io entry the key is
always found" (`cooldown.rs:135-137`) is true of entries without such a feature.  The gate's search
for a version has no blanks in it, so a line with blanks after its colons is refused, not let pass.

### Bounds, and why they are enough

* **Crate and revisions.**  Two revisions of an entry, with a line without a pubtime, an old line
  and one that is new when revision 2 appears: what the properties tell apart is whether a line is
  too new now, was too new, or has no age, and whether a body is behind its etag.  One more
  revision would only repeat the second one.
* **Clock** (`MaxTime`, 1 to 5) and **windows** (0, 1, 2): a line crosses the cutoff of each
  window within the bound, except in `download_overlap`, which is not about ages.  With
  `BucketSecs` 2 and `MaxTime` 5 it also crosses the end of a bucket, so a bucket holds cutoffs on
  both sides of a line's time.
* **Clients.**  One where restarts and faults are explored, two where overlap is the question.
  The overlap of three is not checked; the age-gate theorems hold for any number.
* **Capacities** `MetadataMax`, `MemoMax` are 1, so the second spelling evicts the first.
* **Restarts** (`MaxRestarts` 1): one change of window, before or after every state.
* **Validators of upstream** (`UpstreamSends`): etag and date, as crates.io sends them, in the
  safety runs of the index; the etag alone in the runs with downloads, where the date only adds
  states, except `torn_index_refused`, which is about the date.
* **Downloaded versions.**  `download_gate` asks for the version that is new; versions without a
  pubtime are left to the theorem `DownloadGateHolds`.
* **Faults** a run may meet are listed in its configuration: failed transfers, other statuses,
  failed system calls, hang-ups, panicking filter tasks, lost files, a clock set back.  The clock
  is set back in `index_spellings`, where it can cross a bucket both ways, and in `download_gate`.
* **Symmetry** is used only in `index_interleaving` over clients and in `download_overlap` over
  downloads, whose identities no other constant mentions.  Both check safety alone: invariants, an
  action property in the second, and in the first a step-by-step refinement, each of which treats
  every client or download alike.
* **Liveness** has a client that is never overridden and windows 1 and 2 with an etag-only
  upstream, because elsewhere the properties do not hold: a crash that tears a dated index file
  (`torn_index_refused`), files that are lost (`window_change_without_file`), and the date kept
  from an earlier answer, above.
* **Calendar.**  The walk covers more than one 400-year era and both sides of the epoch and of
  the era boundary in 2400; times are days with a second of the day, at the seconds where a field
  carries.
* **Etags** of up to three pieces, text, markers and digits in any order, strong, weak or unquoted,
  sent under two windows or none, and confirmed against every other such etag: the last marker,
  one with no digits, and digits with no marker all occur.
* **Index lines.**  Two entries of a crate called like a key, with a dependency requirement that
  reads like either version, a feature that may be called `pubtime`, a pubtime that is missing, no
  time, or on either side of the cutoff, early or late in the line, with and without blanks.
* **Command lines.**  `MaxSecs`, the largest 64-bit number in the code, is 2^21 - 1 here, so that
  products stay within TLC's integers; the values lie on both sides of what fits, for every unit.
* **Paths.**  Names of one to five characters, so every case of the directory layout, and versions
  of one or two, both with dashes.
* **Messages** of up to three characters: one for each escape, and those the escapes are written
  with, so that a plain `n` stands behind a backslash.

Deadlock checking is off: the instances stop when clock, restarts and revisions are used up, and a
proxy nobody asks may rest.

### Fairness

`liveness` and the violations of liveness properties use `LiveSpec` and `DownloadLiveSpec`.  Weak
fairness of a request's own steps: tokio polls tasks that are ready and runs blocking jobs; it
also assumes that upstream answers, for there is no read timeout.  Weak fairness of the clock and
of expiry: time passes.  Strong fairness of new requests says that clients keep asking, with the
best validator they hold, as cargo does; strong, because a slot is free only between requests.  No
fairness is assumed of failures, restarts or upstream's publishing.

## Proofs

`tlapm` checks every theorem from the assumptions the modules name.  These bound no
constant: any set of clients, any windows, revisions and faults, any years, etags, index lines,
command lines, crates and messages.  `Names` is finite only for the capacity theorem.

* Of the routes: windows and times are numbers, the dates of later revisions are not earlier, and
  the absent value differs from every other.
* `CalendarAssumption`: the first year is 1 or later, its first day has its number, and a clock is
  a second of a day.
* `AlgorithmsAssumption`: text is told from numbers, windows in markers fit, letters have one lower
  case, and names and versions that are filed are within the length limit.
* `BodiesAssumption`: a string of an index body is no punctuation, a pubtime that is a time has a
  natural one, and the registry lists a version once.
* `JsonAssumption`: the two tables of escapes are JSON's, and no code of JSON's begins another.

What each theorem rests on:

* `TypeCorrect` proves `TypeOK`, which is inductive because it carries `PhaseOK`: the body, the
  file or the date a request's next step relies on is there, and a request with validators comes
  from a client with a copy.
* `AgeInvariant`, `AgeGateHolds`.  `NoTooNewVersion` is not inductive: a body reaches a client from
  a file, the memo, a request, or a copy confirmed by a 304.  `AgeInv` says of each place what makes
  it safe.  Memoised bodies are old enough for the window in force: the memo does not survive a
  restart, and what is old enough stays so as time passes.  Copies are old enough for the window
  they were confirmed under *and* for the one in their etag's marker.  A request whose `window_ok`
  is set comes from a client whose copy is old enough for the window in force: such a client sent a
  marker equal to it.  Files need only hold published lines, as they are filtered on the way out.
  There is one lemma per group of handler steps.
* `ImplementsAgeGate` shows that each step of `IndexProxy` is an answer, a publication, a tick or a
  reconfiguration of `AgeGate` under the mapping `View`, or a stutter, using `AgeInv` for answers.
* `CapacityHolds`: `Insert` keeps a map within a positive capacity, and every step inserts,
  removes or clears.
* `DownloadImplementsIndexProxy` maps every step of the composition to a step or a stutter of the
  index route, so that `TypeOK`, `AgeInv` and `NoTooNewVersion` hold beside downloads
  (`DownloadAgeGate`); `DownloadTypeCorrect`.
* `DownloadInvariant`, `DownloadGateHolds`: `DownloadInv` says that a download waiting at the gate
  has a cutoff no later than its window's by `now`, and that past the gate its crate is old enough
  and stays so.
* `WholeInvariant`, `NothingIsHeldBack`, `MemoJitterHolds`.  That nothing is withheld without a
  window is not inductive either: a client may come to such a copy by a 304.  `WholeInv` says that
  every file, request and copy that claims a revision has all its lines, copies only if they are
  held under no window or their validators say so (no marker, or a date, which filtered answers do
  not carry); and that a memoised body is within a bucket of what the filter makes of its revision
  for every cutoff of its bucket (`SameBucket`, `FilteredWhole`).  It uses `AgeInv` for the memo,
  which is filled only where a window applies.  `MemoJitterHolds` applies it to the answer.
* `CratesTornByCrashesOnly` has no assumptions of its own: with any number of connections, restarts
  and faults, the steps that leave a crate file torn under no writer (`LeftTorn`) are the death of
  the process and a failing write.  Every other step that truncates the file leaves its writer at
  the write, and a writer leaves it whole, whoever else had it open: all write the same bytes, and
  a dropped handler does not take its job with it.  `crate_torn` shows the first of the two steps; no
  run meets the second.
* `CrateFilesWhole` follows until one of these steps is taken: where the file system does not fail,
  a crate file is truncated only under a running write as long as the process has not been
  restarted.  `FilesAreWhole` says this of index files, for a process that is not restarted at all
  (`MaxRestarts = 0`), and needs clients to come one at a time as well: two refreshes of one crate
  may write over each other.  `FilesInv` adds that what a write job carries is a revision and that
  it fills a file that is empty.
* `DownloadsHoldNothingBack` carries `NothingHeldBack` and `MemoJitterBounded` over to the proxy
  with both routes.
* `ValidatorsFollowBodies` and `MemoFollowsBodies`, from `OrderInv`, which puts the revisions in an
  order: what metadata, client and request know of a crate is never newer than its file (once its
  write is over), nor the file than the registry; the date of a file is not newer than its body;
  validators of one entry name one revision; a memoised body is not older than its tag. They hold
  for a process that is not restarted, a file system that does what it is asked, clients that come
  one at a time, and an upstream that dates its answers and gives no two revisions of a crate one
  date (`Orderly`). Each of these is needed: TLC
  finds the first violated when one is dropped. Two clients leave an old body under a new etag
  (`memo_stale`); a crash or a failed call leaves a file that is torn or dated when it was written;
  and with an etag-only upstream the date of an earlier answer is kept, above, where no window
  applies.
* `ConversionsAreExact`, `HttpDatesSurvive`, from `WalkInv`: today is a date of the Gregorian
  calendar, and `days_from_civil` of it is the number of days walked.  That `civil_from_days` undoes
  it is arithmetic about eras, centuries and months, one lemma each.  `DatesAreExact` says the same
  of `Algorithms`.
* `CooldownIsAsWritten`: the checked product is the exact one where it fits, and the saturating
  subtraction is the largest of 0 and the exact difference.
* `PathsAreFaithful`: a file's name repeats the name of its directory, so that what follows it and
  one dash is the version, whatever dashes both have; the directories of an index entry come from
  the lowered name, which lowering again leaves as it is.
* `OnlyThatCopyIsConfirmed`: the last marker of a sent etag is the one the proxy put there, what is
  in front of it is the inside of upstream's etag, and quotes and weak prefix come off and go on
  again without touching either.
* `ScanIsExact`: everything the registry writes in front of an entry's own pubtime is `Quiet`,
  which is to say that no `pubtime` in it is followed by a colon and a value that could be taken
  for its own; quiet texts stay quiet when joined. `GateGoesByIndex`: the gate's search finds the
  line of its version and no other, for the same reason, and `FilterLines` keeps exactly the lines
  it should.
* `EscapesSurvive`: each escape stands in the text behind those of the characters before it, the
  parser can read nothing else there, and so it reads the rest of the message from there.

The filter loop, the escape loop and the parser are recursive functions, and what they compute is
shown by induction over the number of lines or characters.  The library's induction theorems take
an operator as a parameter, which the provers cannot instantiate; the proofs take the least number
for which the claim fails (`LeastNatural`) and derive a smaller one.

Only model-checked: the liveness properties, as fairness and `ENABLED` are beyond the prover, and
what the violated runs show.  Where a theorem has assumptions of its own, the passing run of its
invariant satisfies them; `MemoFollowsBodies` is about an invariant that a violated run refutes
without them.  As a client's slot stays busy until its abandoned write ends, what is proved of one
client at a time (`FilesAreWhole`, `ValidatorsFollowBodies`, `MemoFollowsBodies`) says nothing of a
client that comes back while its abandoned write still runs.

## Not modelled

* Tokenising: how a date's text splits into fields, an index line into strings, an etag into
  pieces.  What is done with the pieces is modelled.
* Routing, logging, status and header lines, configuration that nothing is computed from (URLs,
  directories, listening address, log level) and its resolution from environment and command line.
* Health, home, `config.json` and the counters of `/metrics`, which answer from constants; the
  metrics scan beside running downloads, which promises nothing of what it lists.
* Body sizes; transfers that never end (a request that takes no step is allowed in safety runs).
* A wall clock before the epoch, where the code neither filters nor gates.
* Mutants: operators marked "Mutant" in the modules are slips a change to the code could make; each
  is named in `PROJECT.json` with the property that catches it.  They are no part of the models.

## Plan

Done: the index route with its caches, the age gate, a clock that is set back, the download route
and its gate, capacities, what may not be withheld, whole files, the order of etags and bodies,
the pure algorithms, and a theorem for each of the invariants the runs check.  Left, in this order:

1. An abstract specification of the download gate, and the refinement of it as a theorem.
2. What two clients may rely on: which part of `OrderInv` survives an overlap, checked by two-client
   instances and then proved without the assumption that clients come one at a time.
3. Tokenising of dates, if `Calendar` is to cover `parse_http_date` and `parse_rfc3339z` whole.
