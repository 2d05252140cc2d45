----------------------------- MODULE Algorithms -----------------------------
(* The pure algorithms the proxy rests on, each beside a reference it must    *)
(* agree with.  A state is a day of the calendar walk or one input of one of  *)
(* the others.                                                                *)
EXTENDS Calendar

CONSTANTS
  Error, Weak, Quote, Mark, Blank, MaxSecs, TimeOf, LowerCase, NameChars,
  LowerOf, MaxLen, Named, Control,
  Chars,        \* the characters of error texts
  JsonCodes,    \* RFC 8259: what may stand in a string, to the character it is
  Pieces,       \* what etags are made of
  Etags,        \* etags upstream may send
  MarkWindows,  \* windows in markers
  Words,        \* the strings in index bodies
  Bodies,       \* index bodies: a crate name and its entries
  Cutoffs,      \* cutoffs that bodies are filtered with
  Settings,     \* command lines
  Epochs,       \* what the clock may show, in seconds
  CratePaths,   \* crates that are asked for
  Messages      \* error texts

INSTANCE EtagMarker
INSTANCE PubtimeScan
INSTANCE Paths
INSTANCE ErrorBody
Start == INSTANCE Settings

(* Names and numbers are told apart; only the names of crates are filed; a    *)
(* letter that is lower case stays as it is.                                  *)
ASSUME AlgorithmsAssumption ==
  /\ MaxSecs \in Nat /\ MaxLen \in Nat
  /\ {None, Error, Weak, Quote, Mark} \cap Nat = {} /\ Quote \notin {Weak, Mark}
  /\ Etags \subseteq Seq(Pieces) /\ MarkWindows \subseteq 0..MaxSecs
  /\ Epochs \subseteq Nat
  /\ LowerOf \in [NameChars -> NameChars]
  /\ \A c \in NameChars : LowerOf[LowerOf[c]] = LowerOf[c]
  /\ \A crate \in CratePaths :
       /\ crate \in [name : Seq(NameChars), version : Seq(VersionChars)]
       /\ Len(crate.name) \in 1..MaxLen /\ Len(crate.version) \in 1..MaxLen

VARIABLE input   \* what is being computed on

Day == [kind |-> "day"]

Inputs ==
  {Day}
    \cup [kind : {"etag"}, etag : Etags, window : MarkWindows \cup {None}]
    \cup [kind : {"body"}, body : Bodies, cutoff : Cutoffs]
    \cup [kind : {"cli"}, cli : Settings]
    \cup [kind : {"crate"}, crate : CratePaths]
    \cup [kind : {"message"}, message : Messages]

AlgorithmsInit == Init /\ input \in Inputs

AlgorithmsNext == input = Day /\ Next /\ UNCHANGED input

AlgorithmsSpec ==
  AlgorithmsInit /\ [][AlgorithmsNext]_<<date, days, weekday, input>>

-----------------------------------------------------------------------------
(* References.                                                                *)

Comma == ","
Open  == "{"
Close == "}"

Punctuation == {":", "[", "]", Comma, Open, Close}

Entries ==
  [vers : Words, req : Words, feature : Words, pubtime : Words \cup {None},
   early : BOOLEAN, spaced : BOOLEAN]

(* A string is no punctuation, and the registry lists a version once.         *)
ASSUME BodiesAssumption ==
  /\ Blank \notin Words \cup Punctuation /\ None \notin Words \cup Punctuation
  /\ Words \cap Punctuation = {} /\ "pubtime" # Blank /\ "vers" # Blank
  /\ DOMAIN TimeOf \subseteq Words
  /\ Cutoffs \subseteq Nat /\ \A word \in DOMAIN TimeOf : TimeOf[word] \in Nat
  /\ Bodies \subseteq [name : Words, entries : Seq(Entries)]
  /\ \A body \in Bodies : \A i, j \in DOMAIN body.entries :
       body.entries[i].vers = body.entries[j].vers => i = j

(* The line of an entry as the registry writes it.  A crate, a dependency's   *)
(* requirement or a feature may be called like a key or a version.            *)
Field(entry, key, value) ==
  <<key>> \o (IF entry.spaced THEN <<":", Blank>> ELSE <<":">>) \o value \o <<Comma>>

Requirement(entry) == <<"[", Open>> \o Field(entry, "req", <<entry.req>>) \o <<Close, "]">>

Features(entry) ==
  <<Open>> \o Field(entry, entry.feature, <<"[", "pubtime", "]">>) \o <<Close>>

PubtimeField(entry) ==
  IF entry.pubtime = None THEN <<>> ELSE Field(entry, "pubtime", <<entry.pubtime>>)

Rendered(name, entry) ==
  (Field(entry, "name", <<name>>) \o Field(entry, "vers", <<entry.vers>>)
     \o Field(entry, "deps", Requirement(entry)))
  \o (IF entry.early
      THEN PubtimeField(entry) \o Field(entry, "features", Features(entry))
      ELSE Field(entry, "features", Features(entry)) \o PubtimeField(entry))

Lines(body) ==
  [i \in DOMAIN body.entries |-> Rendered(body.name, body.entries[i])]

(* The time an entry's own pubtime says.                                      *)
PublishedAt(entry) ==
  IF entry.pubtime \in DOMAIN TimeOf THEN TimeOf[entry.pubtime] ELSE None

(* A key named pubtime inside the features, ahead of the entry's own, ends    *)
(* the scan; what is claimed of the scan is claimed of other lines.           *)
KeyAhead(entry) == entry.feature = "pubtime" /\ ~entry.early

(* The tables of escapes are JSON's, and where a character or an escape       *)
(* stands in a text, no other does.                                           *)
ASSUME JsonAssumption ==
  /\ Messages \subseteq Seq(Chars) /\ DOMAIN JsonCodes \subseteq Seq(Chars)
  /\ \A code, other \in DOMAIN JsonCodes :
       /\ Len(code) > 0
       /\ Len(code) <= Len(other) /\ (\A k \in 1..Len(code) : code[k] = other[k])
            => code = other
  /\ \A c \in DOMAIN Named :
       LET code == <<"backslash", Named[c]>>
       IN  code \in DOMAIN JsonCodes /\ JsonCodes[code] = c
  /\ \A c \in DOMAIN Control :
       LET code == <<"backslash", "u">> \o Control[c]
       IN  code \in DOMAIN JsonCodes /\ JsonCodes[code] = c
  /\ \A c \in Chars \ (DOMAIN Named \cup DOMAIN Control) :
       <<c>> \in DOMAIN JsonCodes /\ JsonCodes[<<c>>] = c

CodesAt(text, i) ==
  {code \in DOMAIN JsonCodes :
     /\ i + Len(code) <= Len(text) + 1
     /\ \A k \in 1..Len(code) : text[i + k - 1] = code[k]}

CodeAt(text, i) == CHOOSE code \in CodesAt(text, i) : TRUE

(* The message a JSON parser reads. None marks the place where the text is no *)
(* JSON string.                                                               *)
JsonParse(text) ==
  LET parse[i \in 1..(Len(text) + 1)] ==
        IF i > Len(text) THEN <<>>
        ELSE IF CodesAt(text, i) = {} THEN <<None>>
        ELSE <<JsonCodes[CodeAt(text, i)]>> \o parse[i + Len(CodeAt(text, i))]
  IN  parse[1]

-----------------------------------------------------------------------------
(* Properties.                                                                *)

LooksMarked(etag) == Cut(EtagInner(etag)) # 0

(* The marker ties a client's copy to its window and its revision: whatever   *)
(* etag and window the proxy serves by the time the client comes back, the    *)
(* copy is confirmed only if both are those it was sent with, and is then     *)
(* confirmed whenever the etag is a strong one.  An unfiltered etag that      *)
(* itself ends like a marker is taken for a filtered one (routes/index.rs     *)
(* leaves it as it is), and nothing is claimed of it.                         *)
ConfirmsOnlyThatCopy ==
  input.kind = "etag" /\ ~(input.window = None /\ LooksMarked(input.etag)) =>
    \A etag \in Etags, window \in MarkWindows \cup {None} :
      LET sent == SentEtag(input.etag, input.window)
      IN  /\ Confirms(sent, etag, window)
               => window = input.window /\ EtagInner(etag) = EtagInner(input.etag)
          /\ (etag = input.etag /\ etag = Quoted(EtagInner(etag))
                /\ window = input.window)
               => Confirms(sent, etag, window)

(* The scan finds the time of every entry that has one, though crates,        *)
(* dependencies and features be called pubtime and with blanks after keys.    *)
ScanFindsPubtime ==
  input.kind = "body" =>
    \A i \in DOMAIN input.body.entries :
      LET entry == input.body.entries[i]
      IN  ~KeyAhead(entry)
            => LinePubtimeSecs(Lines(input.body)[i]) = PublishedAt(entry)

(* The download gate and the filtered index agree on every version: one that  *)
(* the gate would let pass is shown, and one that is shown with its time is   *)
(* let pass, unless blanks in its line keep the gate from finding it.         *)
GateAgreesWithIndex ==
  input.kind = "body" =>
    \A i \in DOMAIN input.body.entries :
      LET line  == Lines(input.body)[i]
          gate  == VersionPubtime(Lines(input.body), input.body.entries[i].vers)
          shown == line \in Range(FilterLines(Lines(input.body), input.cutoff))
      IN  /\ gate # None /\ gate <= input.cutoff => shown
          /\ shown /\ LinePubtimeSecs(line) # None /\ ~input.body.entries[i].spaced
               => gate # None /\ gate <= input.cutoff

(* A process that starts gates exactly the crates the operator did not list,  *)
(* in whatever case, and gates them by exactly the window that was written: a *)
(* window that cannot be represented stops the start, none wraps into a       *)
(* shorter one, and one that reaches back before the epoch hides everything   *)
(* with a time.                                                               *)
CooldownAsConfigured ==
  input.kind = "cli" =>
    LET cli    == input.cli
        config == Start!Build(cli)
        exact  == cli.cooldown.value * Start!UnitSecs[cli.cooldown.unit]
        listed(n) == \E m \in Range(cli.overrides) :
                       m # None /\ LowerCase[m] = LowerCase[n]
    IN  config # None =>
          /\ exact <= MaxSecs
          /\ \A n \in DOMAIN LowerCase, now \in Epochs :
               Start!CutoffAt(config, n, now) =
                 IF listed(n) \/ exact = 0 THEN None ELSE Max({0, now - exact})

(* Every crate and every index entry is asked for and filed under a path that *)
(* names it and no other, up to the case of index entries; the metrics scan   *)
(* reads the crate back from the file, though name and version have dashes.   *)
PathsNameTheirCrate ==
  input.kind = "crate" =>
    LET crate == input.crate
    IN  /\ TryFromDownloadUrl(ToDownloadUrl(crate)) = crate
        /\ Scanned(ToFilePath(crate)) = crate
        /\ TryFromIndexUrl(ToIndexUrl(crate.name)) = Lower(crate.name)
        /\ ToIndexUrl(Lower(crate.name)) = ToIndexUrl(crate.name)

(* The error body is JSON whatever the message, and says the message.         *)
JsonEscapeRoundTrip ==
  input.kind = "message" => JsonParse(JsonEscape(input.message)) = input.message
=============================================================================
