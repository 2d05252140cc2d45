----------------------------- MODULE EtagMarker -----------------------------
(* The marker in the etag of a filtered answer (src/src/routes/index.rs): how *)
(* it is put on, how it is taken off what a client sends back, and whether    *)
(* the two name the same copy.  An etag is a sequence of pieces: the weak     *)
(* prefix W/, a quote, the marker .cd, a run of digits (a number) or some     *)
(* other text.                                                                *)
EXTENDS Integers, Sequences, FiniteSetsExt

CONSTANTS
  None,      \* the absent value
  Weak,      \* W/
  Quote,     \* "
  Mark,      \* .cd
  MaxSecs    \* the largest u64

(* The text without a weak prefix and without the quotes around it.           *)
EtagInner(value) ==
  LET text == IF value # <<>> /\ Head(value) = Weak THEN Tail(value) ELSE value
      kept == {i \in DOMAIN text : text[i] # Quote}
  IN  IF kept = {} THEN <<>> ELSE SubSeq(text, Min(kept), Max(kept))

Quoted(text) == <<Quote>> \o text \o <<Quote>>

FilteredEtag(etag, secs) ==
  <<Weak>> \o Quoted(EtagInner(etag) \o <<Mark, secs>>)

(* Mutant: the text is cut at the first marker.                               *)
CutAtFirst(text) ==
  LET marks == {i \in DOMAIN text : text[i] = Mark}
  IN  IF marks = {} THEN 0 ELSE Min(marks)

(* Where the text is cut for its marker, 0 for nowhere: the last .cd, if      *)
(* digits and nothing else follow it.                                         *)
Cut(text) ==
  LET marks == {i \in DOMAIN text : text[i] = Mark}
      last  == Max(marks)
  IN  IF marks # {} /\ last + 1 = Len(text) /\ text[last + 1] \in Nat
      THEN last ELSE 0

UnmarkEtag(clientValue) ==
  LET inner == EtagInner(clientValue)
  IN  Quoted(IF Cut(inner) = 0 THEN inner ELSE SubSeq(inner, 1, Cut(inner) - 1))

(* The window in the marker; digits that do not fit in 64 bits are none.      *)
EtagWindow(clientValue) ==
  LET inner == EtagInner(clientValue)
  IN  IF Cut(inner) = 0 \/ inner[Len(inner)] > MaxSecs THEN None
      ELSE inner[Len(inner)]

(* The etag header of an answer served under a window, None for unfiltered.   *)
SentEtag(etag, window) ==
  IF window = None THEN etag ELSE FilteredEtag(etag, window)

(* A 304: the client's copy was filtered under the window served now, and the *)
(* etag it came with is the one the proxy holds.                              *)
Confirms(clientValue, etag, window) ==
  EtagWindow(clientValue) = window /\ UnmarkEtag(clientValue) = etag
=============================================================================
