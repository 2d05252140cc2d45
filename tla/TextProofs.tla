----------------------------- MODULE TextProofs -----------------------------
(* Theorems about the texts the proxy reads and writes without a parser: the  *)
(* lines of an index body (src/src/cooldown.rs) and the body of an error      *)
(* (src/src/http/response.rs).                                                *)
EXTENDS AlgorithmsProofs

-----------------------------------------------------------------------------
(* The lines of an index body.                                                *)

Tokens ==
  Words \cup Punctuation
    \cup {"name", "vers", "deps", "req", "features", "pubtime", Blank}

(* Keys and punctuation are different tokens.                                 *)
LEMMA PunctuationIs ==
  /\ {":", "[", "]", Comma, Open, Close} = Punctuation
  /\ {"name", "vers", "deps", "req", "features", "pubtime", ":", "[", "]"}
       \cap {Comma, Open, Close} = {}
  /\ Comma # Open /\ Comma # Close
BY Zenon DEF Punctuation, Comma, Open, Close

(* A word is a token that is no punctuation, and a time is a number.          *)
LEMMA TokensAssumed ==
  /\ \A word \in Words : word \in Tokens /\ word \notin {":", "[", "]", Comma, Open, Close}
  /\ Blank \notin Words /\ Blank \notin {":", "[", "]", Comma, Open, Close, "pubtime", "vers"}
  /\ None \notin Words /\ None # ":"
  /\ DOMAIN TimeOf \subseteq Words /\ \A word \in DOMAIN TimeOf : TimeOf[word] \in Nat
  /\ Cutoffs \subseteq Nat /\ None \notin Nat
<1>1. /\ Blank \notin Words \cup Punctuation /\ None \notin Words \cup Punctuation
      /\ Words \cap Punctuation = {} /\ "pubtime" # Blank /\ "vers" # Blank
      /\ DOMAIN TimeOf \subseteq Words
      /\ Cutoffs \subseteq Nat /\ \A word \in DOMAIN TimeOf : TimeOf[word] \in Nat
  BY Zenon, BodiesAssumption
<1>2. None \notin Nat
  BY EtagsAssumed
<1> QED
  BY <1>1, <1>2 DEF Tokens, Punctuation

(* Keys and punctuation are tokens.                                           *)
LEMMA Keywords ==
  {":", "[", "]", Comma, Open, Close, "name", "vers", "deps", "req", "features",
   "pubtime", Blank} \subseteq Tokens
BY DEF Tokens, Punctuation

(* Nowhere in the text is the word a key with one of the values, whatever     *)
(* stands around the text.                                                    *)
Quiet(text, word, Values) ==
  /\ text \in Seq(Tokens)
  /\ \A i \in 1..Len(text) :
       text[i] = word =>
         /\ i < Len(text)
         /\ \/ text[i + 1] \notin {":", Blank}
            \/ i + 1 < Len(text) /\ text[i + 1] = ":" /\ text[i + 2] \notin Values

(* Texts that do not have the word as a key have none when joined.            *)
LEMMA QuietConcat ==
  ASSUME NEW word, NEW Values, NEW s, NEW t,
         Quiet(s, word, Values), Quiet(t, word, Values)
  PROVE  Quiet(s \o t, word, Values)
<1> DEFINE u == s \o t
<1>1. s \in Seq(Tokens) /\ t \in Seq(Tokens)
  BY DEF Quiet
<1>2. u \in Seq(Tokens) /\ IsConcat(u, s, t)
  BY <1>1, ConcatParts
<1> HIDE DEF u
<1>3. ASSUME NEW i \in 1..Len(u), u[i] = word
      PROVE  /\ i < Len(u)
             /\ \/ u[i + 1] \notin {":", Blank}
                \/ i + 1 < Len(u) /\ u[i + 1] = ":" /\ u[i + 2] \notin Values
  <2>1. CASE i <= Len(s)
    <3>1. /\ i \in 1..Len(s) /\ s[i] = word
          /\ \A j \in 1..Len(s) : u[j] = s[j]
      BY <1>2, <1>3, <2>1 DEF IsConcat
    <3>2. /\ i < Len(s)
          /\ \/ s[i + 1] \notin {":", Blank}
             \/ i + 1 < Len(s) /\ s[i + 1] = ":" /\ s[i + 2] \notin Values
      BY <3>1 DEF Quiet
    <3> QED
      BY <1>2, <3>1, <3>2 DEF IsConcat
  <2>2. CASE ~ (i <= Len(s))
    <3> DEFINE k == i - Len(s)
    <3>1. /\ k \in 1..Len(t) /\ Len(s) \in Nat /\ Len(t) \in Nat
          /\ Len(u) = Len(s) + Len(t) /\ i = Len(s) + k
          /\ \A j \in 1..Len(t) : u[Len(s) + j] = t[j]
      BY <1>2, <1>3, <2>2 DEF IsConcat
    <3> HIDE DEF k
    <3>2. t[k] = word
      BY <1>3, <3>1
    <3>3. /\ k < Len(t)
          /\ \/ t[k + 1] \notin {":", Blank}
             \/ k + 1 < Len(t) /\ t[k + 1] = ":" /\ t[k + 2] \notin Values
      BY <3>1, <3>2 DEF Quiet
    <3>4. i < Len(u) /\ i + 1 = Len(s) + (k + 1) /\ i + 2 = Len(s) + (k + 2)
          /\ (k + 1 < Len(t) => i + 1 < Len(u))
      BY <3>1, <3>3
    <3>5. u[i + 1] = t[k + 1]
      <4>1. k + 1 \in 1..Len(t)
        BY <3>1, <3>3
      <4>2. u[Len(s) + (k + 1)] = t[k + 1]
        BY <3>1, <4>1
      <4> QED
        BY <3>4, <4>2
    <3>6. ASSUME k + 1 < Len(t)  PROVE u[i + 2] = t[k + 2]
      <4>1. k + 2 \in 1..Len(t)
        BY <3>1, <3>6
      <4>2. u[Len(s) + (k + 2)] = t[k + 2]
        BY <3>1, <4>1
      <4> QED
        BY <3>4, <4>2
    <3> QED
      BY <3>3, <3>4, <3>5, <3>6
  <2> QED
    BY <2>1, <2>2
<1> QED
  BY <1>2, <1>3 DEF Quiet, u

(* A text without the word is quiet, and so are two words in a row.           *)
LEMMA QuietWithout ==
  ASSUME NEW word, NEW Values, NEW s \in Seq(Tokens),
         \A i \in 1..Len(s) : s[i] # word
  PROVE  Quiet(s, word, Values)
BY DEF Quiet

(* A word in value position is no key.                                        *)
LEMMA QuietPair ==
  ASSUME NEW word, word \notin {":", Comma, Blank}, NEW Values, NEW w \in Words
  PROVE  Quiet(<<w>> \o <<Comma>>, word, Values)
<1>1. w \in Tokens /\ Comma \in Tokens /\ Comma \notin {":", Blank}
  BY TokensAssumed, Keywords, PunctuationIs
<1>2. <<w>> \o <<Comma>> \in Seq(Tokens)
  BY <1>1
<1> QED
  BY <1>1, <1>2 DEF Quiet

-----------------------------------------------------------------------------
(* Fields.                                                                    *)

Opening(entry, key) ==
  <<key>> \o (IF entry.spaced THEN <<":", Blank>> ELSE <<":">>)

(* A field opens with its key and a colon.                                    *)
LEMMA OpeningIs ==
  ASSUME NEW entry \in Entries, NEW key \in Tokens
  PROVE  LET o == Opening(entry, key)
         IN  /\ o \in Seq(Tokens) /\ o[1] = key /\ o[2] = ":"
             /\ Len(o) = IF entry.spaced THEN 3 ELSE 2
             /\ entry.spaced => o[3] = Blank
BY Keywords DEF Opening

(* A field is its opening, its value and a comma.                             *)
LEMMA FieldIs ==
  ASSUME NEW entry \in Entries, NEW key \in Tokens, NEW value \in Seq(Tokens)
  PROVE  /\ Field(entry, key, value) = Opening(entry, key) \o (value \o <<Comma>>)
         /\ value \o <<Comma>> \in Seq(Tokens)
         /\ Field(entry, key, value) \in Seq(Tokens)
<1> DEFINE o == Opening(entry, key)
           comma == <<Comma>>
<1>1. o \in Seq(Tokens) /\ comma \in Seq(Tokens)
  BY OpeningIs, Keywords
<1>2. Field(entry, key, value) = o \o value \o comma
  BY Zenon DEF Field, Opening
<1> HIDE DEF o, comma
<1>3. o \o value \o comma = o \o (value \o comma)
  BY <1>1, ConcatAssociative
<1>4. value \o comma \in Seq(Tokens) /\ o \o (value \o comma) \in Seq(Tokens)
  BY <1>1
<1> QED
  BY <1>2, <1>3, <1>4 DEF o, comma

(* The opening of a field has no key but its own.                             *)
LEMMA QuietOpening ==
  ASSUME NEW word, word \notin {":", Blank}, NEW Values,
         NEW entry \in Entries, NEW key \in Tokens, key # word
  PROVE  Quiet(Opening(entry, key), word, Values)
<1> DEFINE o == Opening(entry, key)
<1>1. /\ o \in Seq(Tokens) /\ o[1] = key /\ o[2] = ":"
      /\ Len(o) = IF entry.spaced THEN 3 ELSE 2
      /\ entry.spaced => o[3] = Blank
  BY OpeningIs
<1> HIDE DEF o
<1>2. \A i \in 1..Len(o) : o[i] # word
  BY <1>1
<1> QED
  BY <1>1, <1>2, QuietWithout DEF o

(* A field with another key is quiet if its value is.                         *)
LEMMA QuietField ==
  ASSUME NEW word, word \notin {":", Comma, Blank}, NEW Values,
         NEW entry \in Entries, NEW key \in Tokens, key # word,
         NEW value \in Seq(Tokens), Quiet(value \o <<Comma>>, word, Values)
  PROVE  Quiet(Field(entry, key, value), word, Values)
<1>1. Quiet(Opening(entry, key), word, Values)
  BY QuietOpening
<1>2. Quiet(Opening(entry, key) \o (value \o <<Comma>>), word, Values)
  BY <1>1, QuietConcat
<1>3. Field(entry, key, value) = Opening(entry, key) \o (value \o <<Comma>>)
  BY FieldIs
<1> QED
  BY <1>2, <1>3

(* A field with a word for a value has no key but its own.                    *)
LEMMA QuietWordField ==
  ASSUME NEW word, word \notin {":", Comma, Blank}, NEW Values,
         NEW entry \in Entries, NEW key \in Tokens, key # word, NEW w \in Words
  PROVE  Quiet(Field(entry, key, <<w>>), word, Values)
<1>1. <<w>> \in Seq(Tokens)
  BY TokensAssumed
<1> QED
  BY <1>1, QuietPair, QuietField

(* A field has no key but its own and those in its value.                     *)
LEMMA QuietValueField ==
  ASSUME NEW word, word \notin {":", Comma, Blank}, NEW Values,
         NEW entry \in Entries, NEW key \in Tokens, key # word,
         NEW value, Quiet(value, word, Values)
  PROVE  Quiet(Field(entry, key, value), word, Values)
<1>1. value \in Seq(Tokens)
  BY DEF Quiet
<1>2. Quiet(<<Comma>>, word, Values)
  <2>1. <<Comma>> \in Seq(Tokens) /\ \A i \in 1..Len(<<Comma>>) : <<Comma>>[i] # word
    BY Keywords
  <2> QED
    BY <2>1, QuietWithout
<1> QED
  BY <1>1, <1>2, QuietConcat, QuietField

(* What follows the key of a field.                                           *)
IsField(f, entry, key, value) ==
  LET n == IF entry.spaced THEN 3 ELSE 2
  IN  /\ f \in Seq(Tokens) /\ Len(f) \in Nat /\ Len(f) = n + Len(value) + 1
      /\ f[1] = key /\ f[2] = ":"
      /\ entry.spaced => f[3] = Blank
      /\ f[n + 1] = value[1]
      /\ \A i \in 1..Len(value) : f[n + i] = value[i]
      /\ f[n + Len(value) + 1] = Comma

(* Where a field stands, its key, colon and value stand.                      *)
LEMMA FieldHead ==
  ASSUME NEW entry \in Entries, NEW key \in Tokens,
         NEW value \in Seq(Tokens), Len(value) > 0
  PROVE  IsField(Field(entry, key, value), entry, key, value)
<1> DEFINE f == Field(entry, key, value)
           o == Opening(entry, key)
           comma == <<Comma>>
           rest == value \o comma
           n == IF entry.spaced THEN 3 ELSE 2
<1>1. /\ o \in Seq(Tokens) /\ o[1] = key /\ o[2] = ":" /\ Len(o) = n
      /\ entry.spaced => o[3] = Blank
  BY OpeningIs
<1>2. f = o \o rest /\ rest \in Seq(Tokens)
  BY FieldIs
<1>3. comma \in Seq(Tokens) /\ Len(comma) = 1 /\ comma[1] = Comma
  BY Keywords
<1> HIDE DEF o, comma, f
<1>4. IsConcat(rest, value, comma)
  BY <1>3, ConcatParts
<1> HIDE DEF rest
<1>5. f \in Seq(Tokens) /\ IsConcat(f, o, rest)
  BY <1>1, <1>2, ConcatParts
<1>6. /\ n \in {2, 3} /\ Len(value) \in Nat /\ Len(rest) = Len(value) + 1
      /\ Len(f) = n + Len(rest)
      /\ \A i \in 1..n : f[i] = o[i]
      /\ \A i \in 1..Len(rest) : f[n + i] = rest[i]
      /\ \A i \in 1..Len(value) : rest[i] = value[i]
      /\ rest[Len(value) + 1] = Comma
  BY <1>1, <1>3, <1>4, <1>5 DEF IsConcat
<1>7. \A i \in 1..Len(value) : f[n + i] = value[i]
  BY <1>6
<1>8. f[n + (Len(value) + 1)] = Comma
  BY <1>6
<1>9. f[1] = key /\ f[2] = ":" /\ (entry.spaced => f[3] = Blank)
  BY <1>1, <1>6
<1> HIDE DEF n
<1>10. /\ f[n + 1] = value[1] /\ f[n + Len(value) + 1] = Comma
       /\ Len(f) \in Nat /\ Len(f) = n + Len(value) + 1
  <2>1. n + (Len(value) + 1) = n + Len(value) + 1
    BY <1>6
  <2> QED
    BY <1>6, <1>7, <1>8, <2>1
<1> QED
  BY <1>5, <1>7, <1>9, <1>10 DEF f, n, IsField

(* A field that has the word for its key is quiet if its value does not       *)
(* follow the colon or is none of the values.                                 *)
LEMMA QuietKeyField ==
  ASSUME NEW word, word \notin {":", Comma, Blank}, NEW Values, Blank \notin Values,
         NEW entry \in Entries, word \in Tokens,
         NEW value \in Seq(Tokens), Len(value) > 0,
         value[1] \notin Values, \A i \in 1..Len(value) : value[i] # word
  PROVE  Quiet(Field(entry, word, value), word, Values)
<1> DEFINE f == Field(entry, word, value)
           n == IF entry.spaced THEN 3 ELSE 2
<1>1. /\ f \in Seq(Tokens) /\ Len(f) \in Nat /\ Len(f) = n + Len(value) + 1
      /\ f[1] = word /\ f[2] = ":"
      /\ entry.spaced => f[3] = Blank
      /\ f[n + 1] = value[1]
      /\ \A i \in 1..Len(value) : f[n + i] = value[i]
      /\ f[n + Len(value) + 1] = Comma
  BY FieldHead DEF IsField
<1>2. Len(value) \in Nat \ {0} /\ n \in {2, 3} /\ (entry.spaced <=> n = 3)
  BY LenProperties
<1> HIDE DEF f, n
<1>3. f[3] \notin Values
  BY <1>1, <1>2
<1>4. ASSUME NEW i \in 1..Len(f), f[i] = word  PROVE i = 1
  <2>1. CASE i \in (n + 1)..(n + Len(value))
    <3>1. i - n \in 1..Len(value) /\ i = n + (i - n)
      BY <1>2, <2>1
    <3> QED
      BY <1>1, <1>4, <3>1
  <2>2. CASE i = n + Len(value) + 1
    BY <1>1, <1>4, <2>2
  <2>3. CASE i \in 2..n
    BY <1>1, <1>2, <1>4, <2>3
  <2>4. i = 1 \/ i \in 2..n \/ i \in (n + 1)..(n + Len(value)) \/ i = n + Len(value) + 1
    BY <1>1, <1>2
  <2> QED
    BY <2>1, <2>2, <2>3, <2>4
<1>5. 2 < Len(f) /\ f[1 + 1] = ":" /\ f[1 + 2] \notin Values
  BY <1>1, <1>2, <1>3
<1> QED
  BY <1>1, <1>4, <1>5 DEF Quiet, f

-----------------------------------------------------------------------------
(* The parts of a line.                                                       *)

EntryKeys == {"pubtime", "vers"}

(* The parts of an entry are words.                                           *)
LEMMA EntryIs ==
  ASSUME NEW entry \in Entries
  PROVE  /\ entry.vers \in Words /\ entry.req \in Words /\ entry.feature \in Words
         /\ entry.pubtime \in Words \cup {None}
         /\ entry.vers \in Tokens /\ entry.req \in Tokens /\ entry.feature \in Tokens
BY TokensAssumed DEF Entries

(* What is searched for is neither punctuation nor another key of the         *)
(* entry.                                                                     *)
LEMMA KeysAreNoPunctuation ==
  ASSUME NEW word \in EntryKeys
  PROVE  /\ word \in Tokens
         /\ word \notin {":", "[", "]", Comma, Open, Close, Blank}
         /\ word \notin {"name", "deps", "req", "features"}
<1>1. word \in {"pubtime", "vers"}
  BY DEF EntryKeys
<1> QED
  BY <1>1, TokensAssumed, PunctuationIs, Keywords

(* Dependencies have no key that is searched for.                             *)
LEMMA QuietRequirement ==
  ASSUME NEW word \in EntryKeys, NEW Values, NEW entry \in Entries
  PROVE  Quiet(Requirement(entry), word, Values)
<1> DEFINE open == <<"[", Open>>
           close == <<Close, "]">>
           req == Field(entry, "req", <<entry.req>>)
<1>1. Quiet(open, word, Values)
  <2>1. open \in Seq(Tokens) /\ \A i \in 1..Len(open) : open[i] # word
    BY Keywords, KeysAreNoPunctuation
  <2> QED
    BY <2>1, QuietWithout
<1>2. Quiet(close, word, Values)
  <2>1. close \in Seq(Tokens) /\ \A i \in 1..Len(close) : close[i] # word
    BY Keywords, KeysAreNoPunctuation
  <2> QED
    BY <2>1, QuietWithout
<1>3. Quiet(req, word, Values)
  <2>1. /\ word \notin {":", Comma, Blank} /\ "req" \in Tokens /\ "req" # word
        /\ entry.req \in Words
    BY Keywords, KeysAreNoPunctuation, EntryIs
  <2> QED
    BY <2>1, QuietWordField
<1> HIDE DEF open, close, req
<1>4. Quiet(open \o req \o close, word, Values)
  BY <1>1, <1>2, <1>3, QuietConcat
<1>5. Requirement(entry) = open \o req \o close
  BY Zenon DEF Requirement, open, req, close
<1> QED
  BY <1>4, <1>5

Enables == <<"[", "pubtime", "]">>

(* A feature enables a list of one thing.                                     *)
LEMMA EnablesIs ==
  /\ Enables \in Seq(Tokens) /\ Len(Enables) = 3
  /\ Enables[1] = "[" /\ Enables[2] = "pubtime" /\ Enables[3] = "]"
BY Keywords DEF Enables

(* What a feature enables is no key, even when it is called pubtime.          *)
LEMMA QuietEnables ==
  ASSUME NEW word \in EntryKeys, NEW Values
  PROVE  Quiet(Enables, word, Values)
<1>1. Blank # "]"
  BY TokensAssumed
<1> QED
  BY <1>1, EnablesIs, KeysAreNoPunctuation DEF Quiet

(* The features are quiet unless the word is the pubtime and one of them is   *)
(* called so.                                                                 *)
LEMMA QuietFeatures ==
  ASSUME NEW word \in EntryKeys, NEW Values, NEW entry \in Entries,
         entry.feature # word \/ (word = "vers" /\ Values \subseteq Words)
  PROVE  Quiet(Field(entry, "features", Features(entry)), word, Values)
<1> DEFINE open == <<Open>>
           close == <<Close>>
           feature == Field(entry, entry.feature, Enables)
<1>1. Quiet(open, word, Values)
  <2>1. open \in Seq(Tokens) /\ \A i \in 1..Len(open) : open[i] # word
    BY Keywords, KeysAreNoPunctuation
  <2> QED
    BY <2>1, QuietWithout
<1>2. Quiet(close, word, Values)
  <2>1. close \in Seq(Tokens) /\ \A i \in 1..Len(close) : close[i] # word
    BY Keywords, KeysAreNoPunctuation
  <2> QED
    BY <2>1, QuietWithout
<1>3. word \notin {":", Comma, Blank} /\ entry.feature \in Tokens
  BY KeysAreNoPunctuation, EntryIs
<1>4. Quiet(feature, word, Values)
  <2>1. CASE entry.feature # word
    BY <1>3, <2>1, QuietEnables, QuietValueField
  <2>2. CASE entry.feature = word /\ word = "vers" /\ Values \subseteq Words
    <3>1. /\ Blank \notin Values /\ Enables[1] \notin Values /\ Len(Enables) > 0
          /\ \A i \in 1..Len(Enables) : Enables[i] # word
      BY <2>2, EnablesIs, TokensAssumed
    <3> QED
      BY <1>3, <2>2, <3>1, EnablesIs, QuietKeyField
  <2> QED
    BY <2>1, <2>2
<1> HIDE DEF open, close, feature
<1>5. Quiet(open \o feature \o close, word, Values)
  BY <1>1, <1>2, <1>4, QuietConcat
<1>6. Features(entry) = open \o feature \o close
  BY Zenon DEF Features, open, close, feature, Enables
<1>7. "features" \in Tokens /\ "features" # word
  BY Keywords, KeysAreNoPunctuation
<1> QED
  BY <1>3, <1>5, <1>6, <1>7, QuietValueField

(* The fields in front of the pubtime have no pubtime among their keys.       *)
Before(name, entry) ==
  Field(entry, "name", <<name>>) \o Field(entry, "vers", <<entry.vers>>)
    \o Field(entry, "deps", Requirement(entry))

(* Nothing ahead of the features and the pubtime has the key pubtime.         *)
LEMMA QuietBefore ==
  ASSUME NEW name \in Words, NEW entry \in Entries
  PROVE  Quiet(Before(name, entry), "pubtime", Tokens)
<1> DEFINE word == "pubtime"
<1>1. word \in EntryKeys
  BY DEF EntryKeys
<1>2. /\ word \notin {":", Comma, Blank} /\ "name" # word /\ "vers" # word /\ "deps" # word
      /\ "name" \in Tokens /\ "vers" \in Tokens /\ "deps" \in Tokens
      /\ entry.vers \in Words
  BY <1>1, KeysAreNoPunctuation, Keywords, EntryIs
<1>3. Quiet(Field(entry, "name", <<name>>), word, Tokens)
  BY <1>2, QuietWordField
<1>4. Quiet(Field(entry, "vers", <<entry.vers>>), word, Tokens)
  BY <1>2, QuietWordField
<1>5. Quiet(Field(entry, "deps", Requirement(entry)), word, Tokens)
  BY <1>1, <1>2, QuietRequirement, QuietValueField
<1> QED
  BY <1>3, <1>4, <1>5, QuietConcat DEF Before

-----------------------------------------------------------------------------
(* The scan.                                                                  *)

(* Within a line, the token at a position is the one that stands there.       *)
LEMMA TokenAtIs ==
  ASSUME NEW line \in Seq(Tokens), NEW i \in 1..Len(line)
  PROVE  TokenAt(line, i) = line[i]
BY LenProperties DEF TokenAt

(* Trimming ends at the first token that is not blank.                        *)
LEMMA TrimStartIs ==
  ASSUME NEW line \in Seq(Tokens), NEW i \in Nat \ {0}, NEW j \in Nat,
         i <= j, j <= Len(line), line[j] # Blank,
         \A k \in i..(j - 1) : line[k] = Blank
  PROVE  TrimStart(line, i) = j
<1> DEFINE S == {k \in i..(Len(line) + 1) : TokenAt(line, k) # Blank}
<1>1. Len(line) \in Nat /\ DOMAIN line = 1..Len(line)
  BY LenProperties
<1>2. S \subseteq Int /\ j \in S
  BY <1>1, TokenAtIs
<1>3. ASSUME NEW k \in S  PROVE j <= k
  <2>1. SUFFICES ASSUME k < j  PROVE FALSE
    BY <1>2, <1>3
  <2>2. k \in i..(j - 1) /\ k \in 1..Len(line)
    BY <1>1, <1>3, <2>1
  <2> QED
    BY <1>3, <2>2, TokenAtIs
<1>4. TrimStart(line, i) = Min(S)
  BY DEF TrimStart
<1> HIDE DEF S
<1> QED
  BY <1>2, <1>3, <1>4, MinIs

(* A token that neither a colon nor a blank follows is no key.                *)
LEMMA QuietIsNoKey ==
  ASSUME NEW line \in Seq(Tokens), NEW i \in 1..Len(line), i < Len(line),
         line[i + 1] \notin {":", Blank}
  PROVE  ~ IsPubtimeKey(line, i)
<1> DEFINE j == i + 1
<1>1. Len(line) \in Nat
  BY LenProperties
<1>2. j \in Nat \ {0} /\ j <= Len(line) /\ line[j] # Blank /\ j \in 1..Len(line)
      /\ \A k \in j..(j - 1) : line[k] = Blank
  BY <1>1
<1>3. line[j] # ":"
  OBVIOUS
<1>4. IsPubtimeKey(line, i) => TokenAt(line, TrimStart(line, j)) = ":"
  BY DEF IsPubtimeKey
<1> HIDE DEF j
<1>5. TrimStart(line, j) = j
  BY <1>2, TrimStartIs
<1> QED
  BY <1>2, <1>3, <1>4, <1>5, TokenAtIs

(* The word pubtime with a colon behind it is the key.                        *)
LEMMA KeyIsKey ==
  ASSUME NEW line \in Seq(Tokens), NEW i \in 1..Len(line), i < Len(line),
         line[i] = "pubtime", line[i + 1] = ":"
  PROVE  IsPubtimeKey(line, i) /\ TrimStart(line, i + 1) = i + 1
<1> DEFINE j == i + 1
<1>1. Len(line) \in Nat /\ Blank # ":"
  BY LenProperties, TokensAssumed
<1>2. j \in Nat \ {0} /\ j <= Len(line) /\ line[j] # Blank /\ j \in 1..Len(line)
      /\ \A k \in j..(j - 1) : line[k] = Blank
  BY <1>1
<1>3. line[j] = ":"
  OBVIOUS
<1>4. TokenAt(line, TrimStart(line, j)) = ":" => IsPubtimeKey(line, i)
  BY DEF IsPubtimeKey
<1> HIDE DEF j
<1>5. TrimStart(line, j) = j
  BY <1>2, TrimStartIs
<1> QED
  BY <1>2, <1>3, <1>4, <1>5, TokenAtIs DEF j

(* A quiet line has no time.                                                  *)
LEMMA ScanOfQuiet ==
  ASSUME NEW line, Quiet(line, "pubtime", Tokens)
  PROVE  LinePubtimeSecs(line) = None
<1>1. /\ line \in Seq(Tokens) /\ Len(line) \in Nat /\ DOMAIN line = 1..Len(line)
      /\ \A i \in 1..Len(line) : line[i] \in Tokens
  BY LenProperties, ElementOfSeq DEF Quiet
<1>2. ASSUME NEW i \in 1..Len(line)  PROVE ~ IsPubtimeKey(line, i)
  <2>1. CASE line[i] # "pubtime"
    BY <2>1 DEF IsPubtimeKey
  <2>2. CASE line[i] = "pubtime"
    <3>1. /\ i < Len(line)
          /\ \/ line[i + 1] \notin {":", Blank}
             \/ i + 1 < Len(line) /\ line[i + 2] \notin Tokens
      BY <2>2 DEF Quiet
    <3>2. line[i + 1] \notin {":", Blank}
      BY <1>1, <3>1
    <3> QED
      BY <1>1, <3>1, <3>2, QuietIsNoKey
  <2> QED
    BY <2>1, <2>2
<1>3. {i \in DOMAIN line : IsPubtimeKey(line, i)} = {}
  BY <1>1, <1>2
<1> QED
  BY <1>3 DEF LinePubtimeSecs

(* After a quiet text, the scan stops at the first key and reads its value.   *)
LEMMA ScanStopsAtKey ==
  ASSUME NEW text, Quiet(text, "pubtime", Tokens),
         NEW rest \in Seq(Tokens), NEW n \in {2, 3}, n + 1 <= Len(rest),
         rest[1] = "pubtime", rest[2] = ":", n = 3 => rest[3] = Blank,
         rest[n + 1] # Blank
  PROVE  LinePubtimeSecs(text \o rest)
           = IF rest[n + 1] \in DOMAIN TimeOf THEN TimeOf[rest[n + 1]] ELSE None
<1> DEFINE line == text \o rest
           keys == {i \in DOMAIN line : IsPubtimeKey(line, i)}
           first == Len(text) + 1
           colon == first + 1
           last == Len(text) + (n + 1)
<1>1. text \in Seq(Tokens)
  BY DEF Quiet
<1>2. line \in Seq(Tokens) /\ IsConcat(line, text, rest)
  BY <1>1, ConcatParts
<1> HIDE DEF line
<1>3. /\ Len(text) \in Nat /\ Len(rest) \in Nat /\ Len(line) = Len(text) + Len(rest)
      /\ DOMAIN line = 1..Len(line)
      /\ \A i \in 1..Len(text) : line[i] = text[i] /\ text[i] \in Tokens
      /\ \A i \in 1..Len(rest) : line[Len(text) + i] = rest[i]
  BY <1>1, <1>2, LenProperties, ElementOfSeq DEF IsConcat
<1>4. /\ line[first] = "pubtime" /\ line[first + 1] = ":"
      /\ first \in 1..Len(line) /\ first < Len(line)
  <2>1. line[Len(text) + 1] = rest[1] /\ line[Len(text) + 2] = rest[2]
    BY <1>3
  <2> QED
    BY <1>3, <2>1
<1>5. IsPubtimeKey(line, first) /\ TrimStart(line, first + 1) = first + 1
  <2> HIDE DEF first
  <2> QED
    BY <1>2, <1>4, KeyIsKey
<1>6. ASSUME NEW i \in 1..Len(text)  PROVE ~ IsPubtimeKey(line, i)
  <2>1. CASE text[i] # "pubtime"
    BY <1>3, <2>1 DEF IsPubtimeKey
  <2>2. CASE text[i] = "pubtime"
    <3>1. /\ i < Len(text)
          /\ \/ text[i + 1] \notin {":", Blank}
             \/ i + 1 < Len(text) /\ text[i + 2] \notin Tokens
      BY <2>2 DEF Quiet
    <3>2. text[i + 1] \notin {":", Blank} /\ line[i + 1] = text[i + 1]
      BY <1>3, <3>1
    <3>3. i \in 1..Len(line) /\ i < Len(line)
      BY <1>3, <3>1
    <3> QED
      BY <1>2, <3>2, <3>3, QuietIsNoKey
  <2> QED
    BY <2>1, <2>2
<1>7. Min(keys) = first /\ keys # {}
  <2>1. first \in keys /\ keys \subseteq Int
    BY <1>3, <1>4, <1>5
  <2>2. ASSUME NEW i \in keys  PROVE first <= i
    <3>1. i \in 1..Len(line) /\ i \notin 1..Len(text)
      BY <1>3, <1>6
    <3> QED
      BY <1>3, <3>1
  <2> HIDE DEF keys, first
  <2> QED
    BY <2>1, <2>2, MinIs
<1>8. TrimStart(line, colon + 1) = last /\ TokenAt(line, last) = rest[n + 1]
  <2> DEFINE i == colon + 1
  <2>1. n + 1 \in 1..Len(rest) /\ (n = 3 => 3 \in 1..Len(rest))
    BY <1>3
  <2>2. line[last] = rest[n + 1] /\ (n = 3 => line[Len(text) + 3] = Blank)
    BY <1>3, <2>1
  <2>3. i \in Nat \ {0} /\ last \in Nat /\ i <= last /\ last <= Len(line)
        /\ last \in 1..Len(line)
    BY <1>3, <2>1
  <2>4. \A k \in i..(last - 1) : line[k] = Blank
    BY <1>3, <2>2
  <2> HIDE DEF i, last
  <2>5. TrimStart(line, i) = last
    BY <1>2, <2>2, <2>3, <2>4, TrimStartIs
  <2>6. TokenAt(line, last) = line[last]
    BY <1>2, <2>3, TokenAtIs
  <2> QED
    BY <2>2, <2>5, <2>6 DEF i
<1>9. LinePubtimeSecs(line)
        = LET value == TokenAt(line, TrimStart(line, TrimStart(line, Min(keys) + 1) + 1))
          IN  IF keys # {} /\ value \in DOMAIN TimeOf THEN TimeOf[value] ELSE None
  BY Zenon DEF LinePubtimeSecs
<1>10. TokenAt(line, TrimStart(line, TrimStart(line, Min(keys) + 1) + 1)) = rest[n + 1]
  <2> HIDE DEF keys, first, last
  <2> QED
    BY <1>5, <1>7, <1>8
<1> HIDE DEF keys
<1> QED
  BY <1>7, <1>9, <1>10 DEF line

-----------------------------------------------------------------------------
(* The time of an entry.                                                      *)

RenderedTail(entry) ==
  IF entry.early
  THEN PubtimeField(entry) \o Field(entry, "features", Features(entry))
  ELSE Field(entry, "features", Features(entry)) \o PubtimeField(entry)

(* A line is its part up to the dependencies and the rest.                    *)
LEMMA RenderedIs ==
  ASSUME NEW name, NEW entry
  PROVE  Rendered(name, entry) = Before(name, entry) \o RenderedTail(entry)
BY Zenon DEF Rendered, Before, RenderedTail

(* The field of the features is made of tokens.                               *)
LEMMA FeaturesAreTokens ==
  ASSUME NEW entry \in Entries
  PROVE  Field(entry, "features", Features(entry)) \in Seq(Tokens)
<1>1. Quiet(Field(entry, "features", Features(entry)), "vers", Words)
  BY QuietFeatures DEF EntryKeys
<1> QED
  BY <1>1 DEF Quiet

(* Where an entry has a time, its key is followed by it.                      *)
LEMMA PubtimeFieldIs ==
  ASSUME NEW entry \in Entries, entry.pubtime # None
  PROVE  LET f == PubtimeField(entry)
             n == IF entry.spaced THEN 3 ELSE 2
         IN  /\ f \in Seq(Tokens) /\ Len(f) \in Nat /\ Len(f) = n + 2
             /\ f[1] = "pubtime" /\ f[2] = ":" /\ (entry.spaced => f[3] = Blank)
             /\ f[n + 1] = entry.pubtime /\ entry.pubtime # Blank
<1> DEFINE value == <<entry.pubtime>>
<1>1. entry.pubtime \in Words /\ entry.pubtime # Blank /\ "pubtime" \in Tokens
  BY EntryIs, TokensAssumed, Keywords
<1>2. value \in Seq(Tokens) /\ Len(value) = 1 /\ value[1] = entry.pubtime
  BY <1>1, TokensAssumed
<1>3. PubtimeField(entry) = Field(entry, "pubtime", value)
  BY DEF PubtimeField
<1> HIDE DEF value
<1>4. Len(value) > 0
  BY <1>2
<1>5. IsField(PubtimeField(entry), entry, "pubtime", value)
  BY <1>1, <1>2, <1>3, <1>4, FieldHead
<1> QED
  BY <1>1, <1>2, <1>5 DEF IsField

(* A line whose pubtime field comes after a quiet text.                       *)
LEMMA ScanReadsField ==
  ASSUME NEW entry \in Entries, entry.pubtime # None,
         NEW text, Quiet(text, "pubtime", Tokens), NEW more \in Seq(Tokens)
  PROVE  LinePubtimeSecs(text \o (PubtimeField(entry) \o more)) = PublishedAt(entry)
<1> DEFINE f == PubtimeField(entry)
           rest == f \o more
           n == IF entry.spaced THEN 3 ELSE 2
<1>1. /\ f \in Seq(Tokens) /\ Len(f) \in Nat /\ Len(f) = n + 2
      /\ f[1] = "pubtime" /\ f[2] = ":" /\ (entry.spaced => f[3] = Blank)
      /\ f[n + 1] = entry.pubtime /\ entry.pubtime # Blank
  BY PubtimeFieldIs
<1>2. n \in {2, 3} /\ (entry.spaced <=> n = 3)
  OBVIOUS
<1> HIDE DEF f, n
<1>3. rest \in Seq(Tokens) /\ IsConcat(rest, f, more)
  BY <1>1, ConcatParts
<1> HIDE DEF rest
<1>4. /\ \A i \in 1..Len(f) : rest[i] = f[i]
      /\ Len(rest) = Len(f) + Len(more) /\ Len(more) \in Nat
  BY <1>3 DEF IsConcat
<1>5. /\ n + 1 <= Len(rest) /\ rest[1] = "pubtime" /\ rest[2] = ":"
      /\ (n = 3 => rest[3] = Blank)
      /\ rest[n + 1] = entry.pubtime
  BY <1>1, <1>2, <1>4
<1>6. LinePubtimeSecs(text \o rest)
        = IF rest[n + 1] \in DOMAIN TimeOf THEN TimeOf[rest[n + 1]] ELSE None
  BY <1>1, <1>2, <1>3, <1>5, ScanStopsAtKey
<1> QED
  BY <1>5, <1>6 DEF PublishedAt, rest, f

Associative(s, t, u) == s \o (t \o u) = (s \o t) \o u

(* Concatenation is associative.                                              *)
LEMMA Associated ==
  ASSUME NEW S, NEW s \in Seq(S), NEW t \in Seq(S), NEW u \in Seq(S)
  PROVE  Associative(s, t, u)
BY ConcatAssociative DEF Associative

(* Brackets around five parts may be moved.                                   *)
Reassociated(s, o, f, c, m) ==
  s \o (((o \o f) \o c) \o m) = (s \o o) \o (f \o (c \o m))

(* The parts of a line may be grouped around the field that is searched.      *)
LEMMA MoveBrackets ==
  ASSUME NEW S, NEW s \in Seq(S), NEW o \in Seq(S), NEW f \in Seq(S),
         NEW c \in Seq(S), NEW m \in Seq(S)
  PROVE  Reassociated(s, o, f, c, m)
<1> DEFINE of == o \o f
           cm == c \o m
           rest == f \o cm
<1>1. of \in Seq(S) /\ cm \in Seq(S)
  OBVIOUS
<1> HIDE DEF of, cm
<1>2. rest \in Seq(S)
  BY <1>1
<1>3. (of \o c) \o m = of \o cm
  <2>1. Associative(of, c, m)
    BY <1>1, Associated
  <2> QED
    BY <2>1, Zenon DEF Associative, cm
<1>4. of \o cm = o \o rest
  <2>1. Associative(o, f, cm)
    BY <1>1, Associated
  <2> QED
    BY <2>1, Zenon DEF Associative, of, rest
<1> HIDE DEF rest
<1>5. s \o (o \o rest) = (s \o o) \o rest
  BY <1>2, Associated DEF Associative
<1> QED
  BY <1>3, <1>4, <1>5, Zenon DEF Reassociated, of, cm, rest

(* A feature called pubtime is a key whose value is no time.                  *)
LEMMA FeatureIsNoTime ==
  ASSUME NEW entry \in Entries, entry.feature = "pubtime",
         NEW text, Quiet(text, "pubtime", Tokens)
  PROVE  LinePubtimeSecs(text \o Field(entry, "features", Features(entry))) = None
<1> DEFINE start == Opening(entry, "features")
           open == <<Open>>
           feature == Field(entry, "pubtime", Enables)
           close == <<Close>>
           comma == <<Comma>>
           rest == feature \o (close \o comma)
           n == IF entry.spaced THEN 3 ELSE 2
<1>1. /\ "features" \in Tokens /\ "features" # "pubtime" /\ "pubtime" \in Tokens
      /\ "pubtime" \in EntryKeys /\ "pubtime" \notin {":", Blank}
  BY Keywords, KeysAreNoPunctuation DEF EntryKeys
<1>2. Features(entry) = open \o feature \o close
  BY Zenon DEF Features, Enables
<1>3. /\ feature \in Seq(Tokens) /\ Len(feature) \in Nat /\ Len(feature) = n + 4
      /\ feature[1] = "pubtime" /\ feature[2] = ":" /\ (entry.spaced => feature[3] = Blank)
      /\ feature[n + 1] = "["
  <2>1. Len(Enables) > 0
    BY EnablesIs
  <2>2. IsField(feature, entry, "pubtime", Enables)
    BY <1>1, <2>1, EnablesIs, FieldHead
  <2> HIDE DEF feature
  <2> QED
    BY <2>2, EnablesIs DEF IsField
<1>4. /\ open \in Seq(Tokens) /\ close \in Seq(Tokens) /\ comma \in Seq(Tokens)
      /\ open \o feature \o close \in Seq(Tokens)
  BY <1>3, Keywords
<1>5. Quiet(open, "pubtime", Tokens)
  <2>1. open \in Seq(Tokens) /\ \A i \in 1..Len(open) : open[i] # "pubtime"
    BY <1>1, Keywords, KeysAreNoPunctuation
  <2> QED
    BY <2>1, QuietWithout
<1>6. Quiet(start, "pubtime", Tokens)
  BY <1>1, QuietOpening
<1>7. Field(entry, "features", Features(entry))
        = start \o ((open \o feature \o close) \o comma)
  <2> DEFINE value == Features(entry)
  <2>1. value \in Seq(Tokens)
    BY <1>2, <1>4
  <2> HIDE DEF value
  <2>2. Field(entry, "features", value) = Opening(entry, "features") \o (value \o <<Comma>>)
    BY <1>1, <2>1, FieldIs
  <2> QED
    BY <1>2, <2>2 DEF value
<1>8. n \in {2, 3} /\ (entry.spaced <=> n = 3)
  OBVIOUS
<1> HIDE DEF start, open, feature, close, comma, n
<1>9. start \in Seq(Tokens) /\ text \in Seq(Tokens)
  BY <1>6 DEF Quiet
<1>10. start \o ((open \o feature \o close) \o comma) = (start \o open) \o rest
  <2>1. Reassociated(start, open, feature, close, comma)
    BY <1>3, <1>4, <1>9, MoveBrackets
  <2> QED
    BY <2>1, Zenon DEF Reassociated
<1>11. rest \in Seq(Tokens) /\ IsConcat(rest, feature, close \o comma)
  BY <1>3, <1>4, ConcatParts
<1> HIDE DEF rest
<1>12. text \o ((start \o open) \o rest) = (text \o (start \o open)) \o rest
  <2>1. start \o open \in Seq(Tokens)
    BY <1>4, <1>9
  <2> QED
    BY <1>9, <1>11, <2>1, Associated DEF Associative
<1>13. Quiet(text \o (start \o open), "pubtime", Tokens)
  BY <1>5, <1>6, QuietConcat
<1>14. /\ n + 1 <= Len(rest) /\ rest[1] = "pubtime" /\ rest[2] = ":"
       /\ (n = 3 => rest[3] = Blank)
       /\ rest[n + 1] = "[" /\ "[" # Blank /\ "[" \notin DOMAIN TimeOf
  BY <1>3, <1>8, <1>11, TokensAssumed DEF IsConcat
<1>15. LinePubtimeSecs((text \o (start \o open)) \o rest)
        = IF rest[n + 1] \in DOMAIN TimeOf THEN TimeOf[rest[n + 1]] ELSE None
  BY <1>8, <1>11, <1>13, <1>14, ScanStopsAtKey
<1> QED
  BY <1>7, <1>10, <1>12, <1>14, <1>15

(* The time found in a line is that of its entry.                             *)
LEMMA ScanOfRendered ==
  ASSUME NEW name \in Words, NEW entry \in Entries, ~ KeyAhead(entry)
  PROVE  LinePubtimeSecs(Rendered(name, entry)) = PublishedAt(entry)
<1> DEFINE before == Before(name, entry)
           features == Field(entry, "features", Features(entry))
           pubtime == PubtimeField(entry)
<1>1. Quiet(before, "pubtime", Tokens) /\ features \in Seq(Tokens)
  BY QuietBefore, FeaturesAreTokens
<1>2. before \in Seq(Tokens)
  BY <1>1 DEF Quiet
<1>3. Rendered(name, entry)
        = before \o (IF entry.early THEN pubtime \o features ELSE features \o pubtime)
  BY RenderedIs DEF RenderedTail
<1>4. entry.feature = "pubtime" => entry.early
  BY DEF KeyAhead
<1>5. entry.feature # "pubtime" => Quiet(features, "pubtime", Tokens)
  BY QuietFeatures DEF EntryKeys
<1>6. entry.pubtime = None => pubtime = <<>> /\ PublishedAt(entry) = None
  BY TokensAssumed DEF PubtimeField, PublishedAt
<1>7. entry.pubtime # None => pubtime \in Seq(Tokens)
  BY PubtimeFieldIs
<1> HIDE DEF before, features
<1>8. CASE entry.pubtime = None
  <2>1. Rendered(name, entry) = before \o features
    BY <1>1, <1>3, <1>6, <1>8, ConcatEmptySeq
  <2>2. CASE entry.feature = "pubtime"
    BY <1>1, <1>6, <1>8, <2>1, <2>2, FeatureIsNoTime DEF features
  <2>3. CASE entry.feature # "pubtime"
    BY <1>1, <1>5, <1>6, <1>8, <2>1, <2>3, QuietConcat, ScanOfQuiet
  <2> QED
    BY <2>2, <2>3
<1>9. CASE entry.pubtime # None /\ entry.early
  BY <1>1, <1>3, <1>9, ScanReadsField
<1>10. CASE entry.pubtime # None /\ ~ entry.early
  <2>1. Quiet(before \o features, "pubtime", Tokens)
    BY <1>1, <1>4, <1>5, <1>10, QuietConcat
  <2>2. <<>> \in Seq(Tokens) /\ pubtime \o <<>> = pubtime
    BY <1>7, <1>10, ConcatEmptySeq
  <2>3. Rendered(name, entry) = (before \o features) \o (pubtime \o <<>>)
    BY <1>1, <1>2, <1>3, <1>7, <1>10, <2>2, ConcatAssociative
  <2> QED
    BY <1>10, <2>1, <2>2, <2>3, ScanReadsField
<1> QED
  BY <1>8, <1>9, <1>10

(* A body has a named crate and entries, and lists a version once.            *)
LEMMA BodiesAre ==
  ASSUME NEW body \in Bodies
  PROVE  /\ body.name \in Words /\ body.entries \in Seq(Entries)
         /\ Len(body.entries) \in Nat /\ DOMAIN body.entries = 1..Len(body.entries)
         /\ \A i \in DOMAIN body.entries : body.entries[i] \in Entries
         /\ \A i, j \in DOMAIN body.entries :
              body.entries[i].vers = body.entries[j].vers => i = j
<1>1. body \in [name : Words, entries : Seq(Entries)]
  BY Zenon, BodiesAssumption
<1>2. \A i, j \in DOMAIN body.entries :
        body.entries[i].vers = body.entries[j].vers => i = j
  BY Zenon, BodiesAssumption
<1>3. body.name \in Words /\ body.entries \in Seq(Entries)
  BY <1>1
<1> QED
  BY <1>2, <1>3, LenProperties, ElementOfSeq

(* The scan of an index line finds the time of every entry that has one.      *)
THEOREM ScanIsExact == AlgorithmsSpec => []ScanFindsPubtime
<1>1. ASSUME input \in Inputs  PROVE ScanFindsPubtime
  <2> SUFFICES
        ASSUME input.kind = "body", NEW i \in DOMAIN input.body.entries,
               ~ KeyAhead(input.body.entries[i])
        PROVE  LinePubtimeSecs(Lines(input.body)[i]) = PublishedAt(input.body.entries[i])
    BY DEF ScanFindsPubtime
  <2>1. input.body \in Bodies
    BY <1>1 DEF Inputs, Day
  <2>2. input.body.name \in Words /\ input.body.entries[i] \in Entries
    BY <2>1, BodiesAre
  <2>3. Lines(input.body)[i] = Rendered(input.body.name, input.body.entries[i])
    BY Zenon DEF Lines
  <2> QED
    BY <2>2, <2>3, ScanOfRendered
<1> QED
  BY <1>1, InputsStay, PTL

-----------------------------------------------------------------------------
(* The filter.                                                                *)

(* The loop's results, one for every number of lines read.                    *)
LoopOver(out, body, cutoff, n) ==
  out = [i \in 0..n |->
           IF i = 0 THEN <<>>
           ELSE IF KeepsLine(body[i], cutoff) THEN Append(out[i - 1], body[i]) ELSE out[i - 1]]

(* The filter loop computes a text for every number of lines, by induction.   *)
LEMMA LoopExists ==
  ASSUME NEW body, NEW cutoff, NEW n \in Nat
  PROVE  \E out : LoopOver(out, body, cutoff, n)
<1> DEFINE T == {m \in Nat : ~ \E out : LoopOver(out, body, cutoff, m)}
<1>1. SUFFICES ASSUME T # {}  PROVE FALSE
  OBVIOUS
<1>2. Min(T) \in T /\ \A m \in T : Min(T) <= m
  <2>1. T \subseteq Nat
    OBVIOUS
  <2> HIDE DEF T
  <2> QED
    BY <1>1, <2>1, LeastNatural
<1>3. PICK m \in T : \A k \in T : m <= k
  BY <1>2
<1>4. CASE m = 0
  <2> DEFINE out == [i \in 0..0 |-> <<>>]
  <2>1. LoopOver(out, body, cutoff, 0)
    BY DEF LoopOver
  <2> QED
    BY <1>3, <1>4, <2>1
<1>5. CASE m # 0
  <2> DEFINE k == m - 1
  <2>1. k \in Nat /\ k \notin T /\ m = k + 1
    BY <1>3, <1>5
  <2>2. PICK out : LoopOver(out, body, cutoff, k)
    BY <2>1
  <2> DEFINE last == IF KeepsLine(body[m], cutoff) THEN Append(out[k], body[m]) ELSE out[k]
             longer == [i \in 0..m |-> IF i = m THEN last ELSE out[i]]
  <2>3. LoopOver(longer, body, cutoff, m)
    <3> HIDE DEF k
    <3>1. ASSUME NEW i \in 0..m
          PROVE  longer[i] = IF i = 0 THEN <<>>
                             ELSE IF KeepsLine(body[i], cutoff) THEN Append(longer[i - 1], body[i])
                             ELSE longer[i - 1]
      <4>1. CASE i = m
        <5>1. i # 0 /\ i - 1 = k /\ k \in 0..m /\ k # m
          BY <2>1, <4>1
        <5> QED
          BY <4>1, <5>1
      <4>2. CASE i # m
        <5>1. i \in 0..k /\ (i # 0 => i - 1 \in 0..m /\ i - 1 # m)
          BY <2>1, <4>2
        <5>2. out[i] = IF i = 0 THEN <<>>
                       ELSE IF KeepsLine(body[i], cutoff) THEN Append(out[i - 1], body[i])
                       ELSE out[i - 1]
          BY <2>2, <5>1 DEF LoopOver
        <5> QED
          BY <4>2, <5>1, <5>2
      <4> QED
        BY <4>1, <4>2
    <3>2. longer = [i \in 0..m |-> longer[i]]
      OBVIOUS
    <3> HIDE DEF longer
    <3> QED
      BY <3>1, <3>2 DEF LoopOver
  <2> QED
    BY <1>3, <2>3
<1> QED
  BY <1>4, <1>5

(* What is in the body of the answer are the kept lines.                      *)
HoldsKept(text, S, body, cutoff, n) ==
  /\ text \in Seq(S)
  /\ \A line : line \in Range(text)
                <=> \E i \in 1..n : line = body[i] /\ KeepsLine(body[i], cutoff)

(* After a number of lines the loop holds those of them that are kept.        *)
LEMMA LoopKeeps ==
  ASSUME NEW S, NEW body \in Seq(S), NEW cutoff, NEW out,
         LoopOver(out, body, cutoff, Len(body)), NEW n \in 0..Len(body)
  PROVE  HoldsKept(out[n], S, body, cutoff, n)
<1> DEFINE Right(m) == HoldsKept(out[m], S, body, cutoff, m)
           T == {m \in 0..Len(body) : ~ Right(m)}
<1>1. SUFFICES ASSUME T # {}  PROVE FALSE
  OBVIOUS
<1>2. Len(body) \in Nat /\ \A i \in 1..Len(body) : body[i] \in S
  BY LenProperties, ElementOfSeq
<1>3. PICK m \in T : \A k \in T : m <= k
  <2>1. T \subseteq Nat
    BY <1>2
  <2> HIDE DEF T
  <2> QED
    BY <1>1, <2>1, LeastNatural
<1>4. CASE m = 0
  <2>1. out[0] = <<>>
    BY <1>2 DEF LoopOver
  <2>2. Right(0)
    BY <2>1 DEF Range, HoldsKept
  <2> QED
    BY <1>3, <1>4, <2>2
<1>5. CASE m # 0
  <2> DEFINE k == m - 1
  <2>1. k \in 0..Len(body) /\ k \notin T /\ m = k + 1 /\ m \in 1..Len(body)
    BY <1>2, <1>3, <1>5
  <2>2. Right(k)
    BY <2>1
  <2>3. out[m] = IF KeepsLine(body[m], cutoff) THEN Append(out[k], body[m]) ELSE out[k]
    <3>1. m \in 0..Len(body) /\ m # 0
      BY <1>2, <2>1
    <3> HIDE DEF T
    <3> QED
      BY <3>1 DEF LoopOver
  <2>4. body[m] \in S
    BY <1>2, <2>1
  <2> HIDE DEF k
  <2>5. out[m] \in Seq(S)
    BY <2>2, <2>3, <2>4 DEF HoldsKept
  <2>6. ASSUME NEW line
        PROVE  line \in Range(out[m])
                 <=> line \in Range(out[k]) \/ (line = body[m] /\ KeepsLine(body[m], cutoff))
    <3>1. CASE ~ KeepsLine(body[m], cutoff)
      BY <2>3, <3>1
    <3>2. CASE KeepsLine(body[m], cutoff)
      <4> DEFINE short == out[k]
                 last == body[m]
      <4>1. short \in Seq(S) /\ out[m] = Append(short, last)
        BY <2>2, <2>3, <3>2 DEF HoldsKept
      <4> HIDE DEF short, last
      <4>2. /\ Len(short) \in Nat /\ DOMAIN short = 1..Len(short)
            /\ DOMAIN out[m] = 1..(Len(short) + 1)
            /\ \A i \in 1..Len(short) : out[m][i] = short[i]
            /\ out[m][Len(short) + 1] = last
        BY <2>4, <4>1, LenProperties, AppendProperties DEF last
      <4>3. line \in Range(out[m]) => line \in Range(short) \/ line = last
        BY <4>2 DEF Range
      <4>4. line \in Range(short) \/ line = last => line \in Range(out[m])
        BY <4>2 DEF Range
      <4> QED
        BY <3>2, <4>3, <4>4 DEF short, last
    <3> QED
      BY <3>1, <3>2
  <2>7. ASSUME NEW line
        PROVE  (\E i \in 1..m : line = body[i] /\ KeepsLine(body[i], cutoff))
                 <=> \/ \E i \in 1..k : line = body[i] /\ KeepsLine(body[i], cutoff)
                     \/ line = body[m] /\ KeepsLine(body[m], cutoff)
    <3>1. 1..m = (1..k) \cup {m}
      BY <1>2, <2>1
    <3> QED
      BY <3>1
  <2>8. Right(m)
    BY <2>2, <2>5, <2>6, <2>7 DEF HoldsKept
  <2> QED
    BY <1>3, <2>8
<1> QED
  BY <1>4, <1>5

(* The filtered body has exactly the lines that are kept.                     *)
LEMMA FilterKeeps ==
  ASSUME NEW S, NEW body \in Seq(S), NEW cutoff, NEW line
  PROVE  line \in Range(FilterLines(body, cutoff))
           <=> \E i \in 1..Len(body) : line = body[i] /\ KeepsLine(body[i], cutoff)
<1> DEFINE n == Len(body)
           out == CHOOSE f : LoopOver(f, body, cutoff, n)
<1>1. n \in Nat
  BY LenProperties
<1>2. LoopOver(out, body, cutoff, n)
  <2>1. \E f : LoopOver(f, body, cutoff, n)
    BY <1>1, LoopExists
  <2> QED
    BY <2>1
<1>3. FilterLines(body, cutoff) = out[n]
  BY Zenon DEF FilterLines, LoopOver
<1> HIDE DEF out
<1>4. n \in 0..Len(body)
  BY <1>1
<1>5. HoldsKept(out[n], S, body, cutoff, n)
  BY <1>2, <1>4, LoopKeeps
<1> QED
  BY <1>3, <1>5 DEF HoldsKept

-----------------------------------------------------------------------------
(* The gate.                                                                  *)

(* A text that is quiet for a version does not name it.                       *)
LEMMA QuietNamesNothing ==
  ASSUME NEW version, NEW line, Quiet(line, "vers", {version})
  PROVE  ~ NamesVersion(line, version)
<1>1. line \in Seq(Tokens) /\ Len(line) \in Nat /\ DOMAIN line = 1..Len(line)
  BY LenProperties DEF Quiet
<1>2. ASSUME NEW i \in 1..Len(line), line[i] = "vers",
             TokenAt(line, i + 1) = ":", TokenAt(line, i + 2) = version
      PROVE  FALSE
  <2>1. /\ i < Len(line)
        /\ \/ line[i + 1] \notin {":", Blank}
           \/ i + 1 < Len(line) /\ line[i + 2] # version
    BY <1>2 DEF Quiet
  <2>2. TokenAt(line, i + 1) = line[i + 1]
    <3>1. i + 1 \in 1..Len(line)
      BY <1>1, <2>1
    <3> QED
      BY <1>1, <3>1, TokenAtIs
  <2>3. i + 1 < Len(line) => TokenAt(line, i + 2) = line[i + 2]
    <3>1. i + 1 < Len(line) => i + 2 \in 1..Len(line)
      BY <1>1
    <3> QED
      BY <1>1, <3>1, TokenAtIs
  <2> QED
    BY <1>2, <2>1, <2>2, <2>3
<1> QED
  BY <1>1, <1>2 DEF NamesVersion

(* A version field is quiet for every other version, and for its own if       *)
(* there is a blank after the colon.                                          *)
LEMMA QuietVersion ==
  ASSUME NEW entry \in Entries, NEW version \in Words,
         entry.spaced \/ version # entry.vers
  PROVE  Quiet(Field(entry, "vers", <<entry.vers>>), "vers", {version})
<1> DEFINE value == <<entry.vers>>
           f == Field(entry, "vers", value)
           n == IF entry.spaced THEN 3 ELSE 2
<1>1. /\ "vers" \in Tokens /\ "vers" # Comma /\ "vers" # ":" /\ "vers" # Blank
      /\ entry.vers \in Tokens /\ Comma \notin {":", Blank} /\ version # Blank
  BY Keywords, EntryIs, TokensAssumed, PunctuationIs
<1>2. value \in Seq(Tokens) /\ Len(value) = 1 /\ value[1] = entry.vers
  BY <1>1
<1>3. n \in {2, 3} /\ (entry.spaced <=> n = 3)
  OBVIOUS
<1> HIDE DEF value
<1>4. /\ f \in Seq(Tokens) /\ Len(f) \in Nat /\ Len(f) = n + 2
      /\ f[1] = "vers" /\ f[2] = ":" /\ (n = 3 => f[3] = Blank)
      /\ f[n + 1] = entry.vers /\ f[n + 2] = Comma
  <2>1. Len(value) > 0
    BY <1>2
  <2>2. IsField(f, entry, "vers", value)
    BY <1>1, <1>2, <2>1, FieldHead
  <2> HIDE DEF f
  <2> QED
    BY <1>2, <2>2 DEF IsField
<1> HIDE DEF f, n
<1>5. ASSUME NEW i \in 1..Len(f), f[i] = "vers"
      PROVE  /\ i < Len(f)
             /\ \/ f[i + 1] \notin {":", Blank}
                \/ i + 1 < Len(f) /\ f[i + 1] = ":" /\ f[i + 2] \notin {version}
  <2>1. CASE n = 2
    <3>1. i \in {1, 2, 3, 4} /\ version # entry.vers
      BY <1>3, <1>4, <2>1
    <3> QED
      BY <1>1, <1>4, <1>5, <2>1, <3>1
  <2>2. CASE n = 3
    <3>1. i \in {1, 2, 3, 4, 5}
      BY <1>4, <2>2
    <3> QED
      BY <1>1, <1>4, <1>5, <2>2, <3>1
  <2> QED
    BY <1>3, <2>1, <2>2
<1> QED
  BY <1>4, <1>5 DEF Quiet, f, value

(* The line of an entry names no other version than the entry's.              *)
LEMMA OthersUnnamed ==
  ASSUME NEW name \in Words, NEW entry \in Entries, NEW version \in Words,
         entry.spaced \/ version # entry.vers
  PROVE  ~ NamesVersion(Rendered(name, entry), version)
<1> DEFINE word == "vers"
           Values == {version}
           features == Field(entry, "features", Features(entry))
           pubtime == PubtimeField(entry)
<1>1. word \in EntryKeys /\ "pubtime" \in EntryKeys /\ Values \subseteq Words
  BY DEF EntryKeys
<1>2. /\ word \notin {":", Comma, Blank}
      /\ "name" # word /\ "deps" # word /\ "pubtime" # word
      /\ "name" \in Tokens /\ "deps" \in Tokens /\ "pubtime" \in Tokens
  BY <1>1, KeysAreNoPunctuation, Keywords
<1>3. Quiet(Field(entry, "name", <<name>>), word, Values)
  BY <1>2, QuietWordField
<1>4. Quiet(Field(entry, "vers", <<entry.vers>>), word, Values)
  BY QuietVersion
<1>5. Quiet(Field(entry, "deps", Requirement(entry)), word, Values)
  BY <1>1, <1>2, QuietRequirement, QuietValueField
<1>6. Quiet(Before(name, entry), word, Values)
  BY <1>3, <1>4, <1>5, QuietConcat DEF Before
<1>7. Quiet(features, word, Values)
  BY <1>1, QuietFeatures
<1>8. Quiet(pubtime, word, Values)
  <2>1. CASE entry.pubtime = None
    <3>1. pubtime = <<>>
      BY <2>1 DEF PubtimeField
    <3>2. <<>> \in Seq(Tokens) /\ \A i \in 1..Len(<<>>) : <<>>[i] # word
      OBVIOUS
    <3> QED
      BY <3>1, <3>2, QuietWithout
  <2>2. CASE entry.pubtime # None
    <3>1. entry.pubtime \in Words
      BY <2>2, EntryIs
    <3>2. pubtime = Field(entry, "pubtime", <<entry.pubtime>>)
      BY <2>2 DEF PubtimeField
    <3> QED
      BY <1>2, <3>1, <3>2, QuietWordField
  <2> QED
    BY <2>1, <2>2
<1> HIDE DEF features, pubtime, Values
<1>9. Quiet(RenderedTail(entry), word, Values)
  <2>1. Quiet(pubtime \o features, word, Values) /\ Quiet(features \o pubtime, word, Values)
    BY <1>7, <1>8, QuietConcat
  <2> QED
    BY <2>1 DEF RenderedTail, pubtime, features
<1>10. Quiet(Rendered(name, entry), word, Values)
  BY <1>6, <1>9, QuietConcat, RenderedIs
<1> QED
  BY <1>10, QuietNamesNothing DEF Values

(* The field of the pubtime is made of tokens, or empty.                      *)
LEMMA PubtimeIsText ==
  ASSUME NEW entry \in Entries
  PROVE  PubtimeField(entry) \in Seq(Tokens)
<1> DEFINE f == PubtimeField(entry)
<1>1. CASE entry.pubtime = None
  <2>1. f = <<>>
    BY <1>1 DEF PubtimeField
  <2> HIDE DEF f
  <2>2. f \in Seq(Tokens)
    BY <2>1
  <2> QED
    BY <2>2 DEF f
<1>2. CASE entry.pubtime # None
  BY <1>2, PubtimeFieldIs
<1> QED
  BY <1>1, <1>2

(* It names the entry's unless there are blanks.                              *)
LEMMA OwnIsNamed ==
  ASSUME NEW name \in Words, NEW entry \in Entries, ~ entry.spaced
  PROVE  NamesVersion(Rendered(name, entry), entry.vers)
<1> DEFINE a == Field(entry, "name", <<name>>)
           b == Field(entry, "vers", <<entry.vers>>)
           c == Field(entry, "deps", Requirement(entry))
           tail == RenderedTail(entry)
           ab == a \o b
           abc == ab \o c
           line == Rendered(name, entry)
           i == Len(a) + 1
<1>1. /\ "name" \in Tokens /\ "vers" \in Tokens /\ "deps" \in Tokens
      /\ "pubtime" \in EntryKeys /\ entry.vers \in Tokens /\ name \in Tokens
      /\ "pubtime" \in Tokens
  BY Keywords, EntryIs, TokensAssumed DEF EntryKeys
<1>2. /\ <<name>> \in Seq(Tokens) /\ <<entry.vers>> \in Seq(Tokens)
      /\ Requirement(entry) \in Seq(Tokens)
  <2>1. Quiet(Requirement(entry), "pubtime", Tokens)
    BY <1>1, QuietRequirement
  <2> QED
    BY <1>1, <2>1 DEF Quiet
<1>3. a \in Seq(Tokens) /\ b \in Seq(Tokens) /\ c \in Seq(Tokens)
  BY <1>1, <1>2, FieldIs
<1>4. tail \in Seq(Tokens)
  <2>1. Field(entry, "features", Features(entry)) \in Seq(Tokens)
    BY FeaturesAreTokens
  <2>2. PubtimeField(entry) \in Seq(Tokens)
    BY PubtimeIsText
  <2> QED
    BY <2>1, <2>2 DEF RenderedTail
<1>5. /\ Len(b) \in Nat /\ Len(b) = 4
      /\ b[1] = "vers" /\ b[2] = ":" /\ b[3] = entry.vers
  <2> DEFINE value == <<entry.vers>>
  <2>1. value \in Seq(Tokens) /\ Len(value) = 1 /\ value[1] = entry.vers /\ Len(value) > 0
    BY <1>1
  <2> HIDE DEF value
  <2>2. IsField(Field(entry, "vers", value), entry, "vers", value)
    BY <1>1, <2>1, FieldHead
  <2> QED
    BY <2>1, <2>2 DEF IsField, value
<1>6. line = abc \o tail
  BY RenderedIs, Zenon DEF Before
<1> HIDE DEF a, b, c, tail
<1>7. ab \in Seq(Tokens) /\ IsConcat(ab, a, b)
  BY <1>3, ConcatParts
<1> HIDE DEF ab
<1>8. abc \in Seq(Tokens) /\ IsConcat(abc, ab, c)
  BY <1>3, <1>7, ConcatParts
<1> HIDE DEF abc
<1>9. line \in Seq(Tokens) /\ IsConcat(line, abc, tail)
  BY <1>4, <1>6, <1>8, ConcatParts
<1> HIDE DEF line
<1>10. Len(a) \in Nat /\ Len(c) \in Nat /\ Len(tail) \in Nat
  BY <1>3, <1>4, LenProperties
<1>11. Len(ab) = Len(a) + 4 /\ ab[i] = "vers" /\ ab[i + 1] = ":" /\ ab[i + 2] = entry.vers
  <2>1. ab[Len(a) + 1] = b[1] /\ ab[Len(a) + 2] = b[2] /\ ab[Len(a) + 3] = b[3]
        /\ Len(ab) = Len(a) + 4
    BY <1>5, <1>7 DEF IsConcat
  <2> QED
    BY <1>5, <1>10, <2>1
<1>12. i \in 1..Len(ab) /\ i + 1 \in 1..Len(ab) /\ i + 2 \in 1..Len(ab)
  BY <1>10, <1>11
<1> HIDE DEF i
<1>13. /\ i \in 1..Len(abc) /\ i + 1 \in 1..Len(abc) /\ i + 2 \in 1..Len(abc)
       /\ abc[i] = "vers" /\ abc[i + 1] = ":" /\ abc[i + 2] = entry.vers
  BY <1>8, <1>10, <1>11, <1>12 DEF IsConcat
<1>14. /\ i \in 1..Len(line) /\ i + 1 \in 1..Len(line) /\ i + 2 \in 1..Len(line)
       /\ line[i] = "vers" /\ line[i + 1] = ":" /\ line[i + 2] = entry.vers
  BY <1>9, <1>10, <1>13 DEF IsConcat
<1>15. DOMAIN line = 1..Len(line)
  BY <1>9, LenProperties
<1>16. TokenAt(line, i + 1) = ":" /\ TokenAt(line, i + 2) = entry.vers
  BY <1>9, <1>14, TokenAtIs
<1> QED
  BY <1>14, <1>15, <1>16 DEF NamesVersion, line

(* A line is made of tokens.                                                  *)
LEMMA RenderedIsText ==
  ASSUME NEW name \in Words, NEW entry \in Entries
  PROVE  Rendered(name, entry) \in Seq(Tokens)
<1>1. Before(name, entry) \in Seq(Tokens)
  BY QuietBefore DEF Quiet
<1>2. Field(entry, "features", Features(entry)) \in Seq(Tokens)
  BY FeaturesAreTokens
<1>3. PubtimeField(entry) \in Seq(Tokens)
  BY PubtimeIsText
<1>4. RenderedTail(entry) \in Seq(Tokens)
  BY <1>2, <1>3 DEF RenderedTail
<1> DEFINE before == Before(name, entry)
           tail == RenderedTail(entry)
<1>5. Rendered(name, entry) = before \o tail
  BY RenderedIs
<1> HIDE DEF before, tail
<1>6. before \o tail \in Seq(Tokens)
  BY <1>1, <1>4 DEF before, tail
<1> QED
  BY <1>5, <1>6

(* A time is a number.                                                        *)
LEMMA TimesAreNatural ==
  ASSUME NEW line
  PROVE  LinePubtimeSecs(line) \in Nat \cup {None}
BY TokensAssumed DEF LinePubtimeSecs

(* The gate and the filtered index go by the same time.                       *)
THEOREM GateGoesByIndex == AlgorithmsSpec => []GateAgreesWithIndex
<1>1. ASSUME input \in Inputs  PROVE GateAgreesWithIndex
  <2> SUFFICES
        ASSUME input.kind = "body", NEW i \in DOMAIN input.body.entries
        PROVE  LET line  == Lines(input.body)[i]
                   gate  == VersionPubtime(Lines(input.body), input.body.entries[i].vers)
                   shown == line \in Range(FilterLines(Lines(input.body), input.cutoff))
               IN  /\ gate # None /\ gate <= input.cutoff => shown
                   /\ shown /\ LinePubtimeSecs(line) # None /\ ~input.body.entries[i].spaced
                        => gate # None /\ gate <= input.cutoff
    BY DEF GateAgreesWithIndex
  <2> DEFINE body == input.body
             name == body.name
             entries == body.entries
             lines == Lines(body)
             line == lines[i]
             vers == entries[i].vers
             gate == VersionPubtime(lines, vers)
             shown == line \in Range(FilterLines(lines, input.cutoff))
             named == {j \in DOMAIN lines : NamesVersion(lines[j], vers)}
  <2>1. body \in Bodies
    BY <1>1 DEF Inputs, Day
  <2>2. /\ name \in Words /\ Len(entries) \in Nat /\ DOMAIN entries = 1..Len(entries)
        /\ \A j \in DOMAIN entries : entries[j] \in Entries
        /\ \A j \in DOMAIN entries : entries[j].vers = vers => i = j
    BY <2>1, BodiesAre
  <2>3. /\ DOMAIN lines = 1..Len(entries)
        /\ \A j \in 1..Len(entries) : lines[j] = Rendered(name, entries[j])
    BY <2>2, Zenon DEF Lines
  <2>4. lines \in Seq(Seq(Tokens)) /\ Len(lines) = Len(entries)
    <3>1. lines = [j \in 1..Len(entries) |-> Rendered(name, entries[j])]
      BY <2>2, Zenon DEF Lines
    <3>2. \A j \in 1..Len(entries) : Rendered(name, entries[j]) \in Seq(Tokens)
      BY <2>2, RenderedIsText
    <3> HIDE DEF lines
    <3>3. lines \in [1..Len(entries) -> Seq(Tokens)]
      BY <3>1, <3>2
    <3> QED
      BY <2>2, <3>3, SeqDef, LenProperties
  <2> HIDE DEF lines
  <2>5. i \in 1..Len(lines) /\ vers \in Words /\ DOMAIN lines = 1..Len(lines)
    BY <2>2, <2>3, <2>4, EntryIs
  <2>6. \A j \in 1..Len(lines) : NamesVersion(lines[j], vers) <=> j = i /\ ~ entries[i].spaced
    <3> SUFFICES ASSUME NEW j \in 1..Len(lines)
                 PROVE  NamesVersion(lines[j], vers) <=> j = i /\ ~ entries[i].spaced
      OBVIOUS
    <3>1. entries[j] \in Entries /\ lines[j] = Rendered(name, entries[j])
          /\ (entries[j].vers = vers => i = j)
      BY <2>2, <2>3, <2>4
    <3>2. entries[j].spaced \/ vers # entries[j].vers => ~ NamesVersion(lines[j], vers)
      BY <2>2, <2>5, <3>1, OthersUnnamed
    <3>3. j = i /\ ~ entries[i].spaced => NamesVersion(lines[j], vers)
      BY <2>2, <3>1, OwnIsNamed
    <3> QED
      BY <3>1, <3>2, <3>3
  <2>7. gate = IF entries[i].spaced THEN None ELSE LinePubtimeSecs(line)
    <3>1. gate = IF named = {} THEN None ELSE LinePubtimeSecs(lines[Min(named)])
      BY DEF VersionPubtime
    <3>2. CASE entries[i].spaced
      BY <2>5, <2>6, <3>1, <3>2
    <3>3. CASE ~ entries[i].spaced
      <4>1. named = {i} /\ i \in Int
        BY <2>5, <2>6, <3>3
      <4>2. Min(named) = i
        <5> HIDE DEF named
        <5> QED
          BY <4>1, MinIs
      <4> QED
        BY <3>1, <3>3, <4>1, <4>2
    <3> QED
      BY <3>2, <3>3
  <2>8. shown <=> KeepsLine(line, input.cutoff)
    <3>1. shown <=> \E j \in 1..Len(lines) : line = lines[j] /\ KeepsLine(lines[j], input.cutoff)
      BY <2>4, FilterKeeps
    <3> QED
      BY <2>5, <3>1
  <2> QED
    BY <2>7, <2>8 DEF KeepsLine, lines
<1> QED
  BY <1>1, InputsStay, PTL

-----------------------------------------------------------------------------
(* Escapes.                                                                   *)

(* The escape of a character is a code that JSON reads as this character.     *)
LEMMA EscapeIsCode ==
  ASSUME NEW c \in Chars
  PROVE  /\ Escape(c) \in DOMAIN JsonCodes /\ JsonCodes[Escape(c)] = c
         /\ Escape(c) \in Seq(Chars) /\ Len(Escape(c)) \in Nat /\ Len(Escape(c)) > 0
<1>1. Escape(c) \in DOMAIN JsonCodes /\ JsonCodes[Escape(c)] = c
  <2>1. CASE c \in DOMAIN Named
    <3>1. Escape(c) = <<"backslash", Named[c]>>
      BY <2>1 DEF Escape
    <3> QED
      BY <2>1, <3>1, JsonAssumption
  <2>2. CASE c \in DOMAIN Control \ DOMAIN Named
    <3>1. Escape(c) = <<"backslash", "u">> \o Control[c]
      BY <2>2 DEF Escape
    <3> QED
      BY <2>2, <3>1, Zenon, JsonAssumption
  <2>3. CASE c \notin DOMAIN Named \cup DOMAIN Control
    <3>1. Escape(c) = <<c>>
      BY <2>3 DEF Escape
    <3> QED
      BY <2>3, <3>1, JsonAssumption
  <2> QED
    BY <2>1, <2>2, <2>3
<1> DEFINE code == Escape(c)
<1> HIDE DEF code
<1>2. code \in Seq(Chars) /\ Len(code) > 0
  <2>1. code \in DOMAIN JsonCodes
    BY <1>1 DEF code
  <2> QED
    BY <2>1, Zenon, JsonAssumption
<1>3. Len(code) \in Nat
  BY <1>2, LenProperties
<1> QED
  BY <1>1, <1>2, <1>3 DEF code

(* Where a code stands, no other does.                                        *)
LEMMA OneCodeAt ==
  ASSUME NEW text \in Seq(Chars), NEW i \in Nat, NEW code \in CodesAt(text, i)
  PROVE  CodeAt(text, i) = code
<1> DEFINE other == CodeAt(text, i)
<1>1. other \in CodesAt(text, i)
  BY DEF CodeAt
<1> HIDE DEF other
<1>2. /\ other \in DOMAIN JsonCodes /\ code \in DOMAIN JsonCodes
      /\ \A k \in 1..Len(code) : text[i + k - 1] = code[k]
      /\ \A k \in 1..Len(other) : text[i + k - 1] = other[k]
  BY <1>1 DEF CodesAt
<1>3. code \in Seq(Chars) /\ other \in Seq(Chars)
  BY <1>2, JsonAssumption
<1>4. Len(code) \in Nat /\ Len(other) \in Nat
  BY <1>3, LenProperties
<1>5. \A a, b \in DOMAIN JsonCodes :
        Len(a) <= Len(b) /\ (\A k \in 1..Len(a) : a[k] = b[k]) => a = b
  BY Zenon, JsonAssumption
<1>6. CASE Len(code) <= Len(other)
  <2>1. \A k \in 1..Len(code) : k \in 1..Len(other)
    BY <1>4, <1>6
  <2>2. \A k \in 1..Len(code) : code[k] = other[k]
    BY <1>2, <2>1
  <2> QED
    BY <1>2, <1>5, <1>6, <2>2 DEF other
<1>7. CASE Len(other) <= Len(code)
  <2>1. \A k \in 1..Len(other) : k \in 1..Len(code)
    BY <1>4, <1>7
  <2>2. \A k \in 1..Len(other) : other[k] = code[k]
    BY <1>2, <2>1
  <2> QED
    BY <1>2, <1>5, <1>7, <2>2 DEF other
<1> QED
  BY <1>4, <1>6, <1>7

(* The loop's results, one for every number of characters read.               *)
EscapesOver(out, message, n) ==
  out = [i \in 0..n |-> IF i = 0 THEN <<>> ELSE out[i - 1] \o Escape(message[i])]

(* The escape loop computes a text for every number of characters.            *)
LEMMA EscapesExist ==
  ASSUME NEW message, NEW n \in Nat
  PROVE  \E out : EscapesOver(out, message, n)
<1> DEFINE T == {m \in Nat : ~ \E out : EscapesOver(out, message, m)}
<1>1. SUFFICES ASSUME T # {}  PROVE FALSE
  OBVIOUS
<1>2. PICK m \in T : \A k \in T : m <= k
  <2>1. T \subseteq Nat
    OBVIOUS
  <2> HIDE DEF T
  <2> QED
    BY <1>1, <2>1, LeastNatural
<1>3. CASE m = 0
  <2> DEFINE out == [i \in 0..0 |-> <<>>]
  <2>1. EscapesOver(out, message, 0)
    BY DEF EscapesOver
  <2> QED
    BY <1>2, <1>3, <2>1
<1>4. CASE m # 0
  <2> DEFINE k == m - 1
  <2>1. k \in Nat /\ k \notin T /\ m = k + 1
    BY <1>2, <1>4
  <2>2. PICK out : EscapesOver(out, message, k)
    BY <2>1
  <2> DEFINE last == out[k] \o Escape(message[m])
             longer == [i \in 0..m |-> IF i = m THEN last ELSE out[i]]
  <2>3. EscapesOver(longer, message, m)
    <3> HIDE DEF k
    <3>1. ASSUME NEW i \in 0..m
          PROVE  longer[i] = IF i = 0 THEN <<>> ELSE longer[i - 1] \o Escape(message[i])
      <4>1. CASE i = m
        <5>1. i # 0 /\ i - 1 = k /\ k \in 0..m /\ k # m
          BY <2>1, <4>1
        <5> QED
          BY <4>1, <5>1
      <4>2. CASE i # m
        <5>1. i \in 0..k /\ (i # 0 => i - 1 \in 0..m /\ i - 1 # m)
          BY <2>1, <4>2
        <5>2. out[i] = IF i = 0 THEN <<>> ELSE out[i - 1] \o Escape(message[i])
          BY <2>2, <5>1 DEF EscapesOver
        <5> QED
          BY <4>2, <5>1, <5>2
      <4> QED
        BY <4>1, <4>2
    <3>2. longer = [i \in 0..m |-> longer[i]]
      OBVIOUS
    <3> HIDE DEF longer
    <3> QED
      BY <3>1, <3>2 DEF EscapesOver
  <2> QED
    BY <1>2, <2>3
<1> QED
  BY <1>3, <1>4

(* A longer result begins with a shorter one.                                 *)
BeginsWith(text, start) ==
  /\ Len(start) <= Len(text)
  /\ \A x \in 1..Len(start) : text[x] = start[x]

Grows(out, n) ==
  /\ out[n] \in Seq(Chars)
  /\ \A k \in 0..n : BeginsWith(out[n], out[k])

(* The loop only adds to what it has.                                         *)
LEMMA EscapesGrow ==
  ASSUME NEW message \in Seq(Chars), NEW out,
         EscapesOver(out, message, Len(message)), NEW n \in 0..Len(message)
  PROVE  Grows(out, n)
<1> DEFINE T == {m \in 0..Len(message) : ~ Grows(out, m)}
<1>1. SUFFICES ASSUME T # {}  PROVE FALSE
  OBVIOUS
<1>2. Len(message) \in Nat /\ \A i \in 1..Len(message) : message[i] \in Chars
  BY LenProperties, ElementOfSeq
<1>3. PICK m \in T : \A k \in T : m <= k
  <2>1. T \subseteq Nat
    BY <1>2
  <2> HIDE DEF T
  <2> QED
    BY <1>1, <2>1, LeastNatural
<1>4. CASE m = 0
  <2>1. out[0] = <<>>
    BY <1>2 DEF EscapesOver
  <2>2. out[0] \in Seq(Chars) /\ Len(out[0]) \in Nat
    BY <2>1
  <2>3. BeginsWith(out[0], out[0])
    BY <2>2 DEF BeginsWith
  <2>4. \A k \in 0..0 : k = 0
    OBVIOUS
  <2>5. Grows(out, 0)
    BY <2>2, <2>3, <2>4 DEF Grows
  <2> QED
    BY <1>3, <1>4, <2>5
<1>5. CASE m # 0
  <2> DEFINE k == m - 1
             code == Escape(message[m])
  <2>1. k \in 0..Len(message) /\ k \notin T /\ m = k + 1 /\ m \in 1..Len(message)
    BY <1>2, <1>3, <1>5
  <2>2. Grows(out, k)
    BY <2>1
  <2>3. out[m] = out[k] \o code
    <3>1. m \in 0..Len(message) /\ m # 0
      BY <1>2, <2>1
    <3> HIDE DEF T
    <3> QED
      BY <3>1 DEF EscapesOver
  <2>4. code \in Seq(Chars)
    BY <1>2, <2>1, EscapeIsCode
  <2> HIDE DEF k, code
  <2>5. out[k] \in Seq(Chars) /\ \A j \in 0..k : BeginsWith(out[k], out[j])
    BY <2>2 DEF Grows
  <2>6. out[m] \in Seq(Chars) /\ IsConcat(out[m], out[k], code)
    BY <2>3, <2>4, <2>5, ConcatParts
  <2>7. Len(out[k]) \in Nat /\ Len(code) \in Nat /\ Len(out[m]) \in Nat
    BY <2>4, <2>5, <2>6, LenProperties
  <2>8. BeginsWith(out[m], out[k])
    BY <2>6, <2>7 DEF IsConcat, BeginsWith
  <2>9. ASSUME NEW j \in 0..m  PROVE BeginsWith(out[m], out[j])
    <3>1. CASE j = m
      BY <2>7, <3>1 DEF BeginsWith
    <3>2. CASE j # m
      <4>1. j \in 0..k
        BY <2>1, <3>2
      <4>2. BeginsWith(out[k], out[j])
        BY <2>5, <4>1
      <4>3. Len(out[j]) <= Len(out[k]) /\ Len(out[k]) <= Len(out[m])
        BY <2>8, <4>2 DEF BeginsWith
      <4> DEFINE short == out[j]
                 middle == out[k]
                 long == out[m]
      <4>4. short \in Seq(Chars)
        <5>1. j \in 0..Len(message) /\ j \notin T
          BY <1>2, <1>3, <2>1, <4>1
        <5>2. Grows(out, j)
          BY <5>1
        <5> QED
          BY <5>2 DEF Grows
      <4>5. Len(short) \in Nat
        BY <4>4, LenProperties
      <4> HIDE DEF short, middle, long
      <4>6. Len(short) <= Len(middle) /\ Len(middle) <= Len(long)
            /\ Len(middle) \in Nat /\ Len(long) \in Nat
        BY <2>7, <4>3 DEF short, middle, long
      <4>7. BeginsWith(middle, short) /\ BeginsWith(long, middle)
        BY <2>8, <4>2 DEF short, middle, long
      <4>8. BeginsWith(long, short)
        BY <4>5, <4>6, <4>7 DEF BeginsWith
      <4> QED
        BY <4>8 DEF long, short
    <3> QED
      BY <3>1, <3>2
  <2>10. Grows(out, m)
    BY <2>6, <2>9 DEF Grows
  <2> QED
    BY <1>3, <2>10
<1> QED
  BY <1>4, <1>5

(* The parser's results, one for every place from some place on.              *)
ParsesFrom(parse, text, from) ==
  parse = [i \in from..(Len(text) + 1) |->
             IF i > Len(text) THEN <<>>
             ELSE IF CodesAt(text, i) = {} THEN <<None>>
             ELSE <<JsonCodes[CodeAt(text, i)]>> \o parse[i + Len(CodeAt(text, i))]]

(* A code that stands in a text ends within it.                               *)
LEMMA CodeFits ==
  ASSUME NEW text \in Seq(Chars), NEW i \in Nat, CodesAt(text, i) # {}
  PROVE  i + Len(CodeAt(text, i)) \in (i + 1)..(Len(text) + 1)
<1> DEFINE code == CodeAt(text, i)
<1>1. code \in CodesAt(text, i)
  BY DEF CodeAt
<1> HIDE DEF code
<1>2. code \in DOMAIN JsonCodes /\ i + Len(code) <= Len(text) + 1
  BY <1>1 DEF CodesAt
<1>3. code \in Seq(Chars) /\ Len(code) > 0
  BY <1>2, Zenon, JsonAssumption
<1>4. Len(code) \in Nat /\ Len(text) \in Nat
  BY <1>3, LenProperties
<1>5. i + Len(code) \in (i + 1)..(Len(text) + 1)
  BY <1>2, <1>3, <1>4
<1> QED
  BY <1>5 DEF code

(* The parser reads every end of a text, the shortest first.                  *)
LEMMA ParseExists ==
  ASSUME NEW text \in Seq(Chars), NEW n \in 0..Len(text)
  PROVE  \E parse : ParsesFrom(parse, text, Len(text) + 1 - n)
<1> DEFINE L == Len(text)
           Exists(m) == \E parse : ParsesFrom(parse, text, L + 1 - m)
           T == {m \in 0..L : ~ Exists(m)}
<1>1. SUFFICES ASSUME T # {}  PROVE FALSE
  OBVIOUS
<1>2. L \in Nat
  BY LenProperties
<1>3. PICK m \in T : \A k \in T : m <= k
  <2>1. T \subseteq Nat
    BY <1>2
  <2> HIDE DEF T
  <2> QED
    BY <1>1, <2>1, LeastNatural
<1>4. CASE m = 0
  <2> DEFINE parse == [i \in (L + 1)..(L + 1) |-> <<>>]
  <2>1. ASSUME NEW i \in (L + 1)..(L + 1)  PROVE i > L
    BY <1>2
  <2>2. ParsesFrom(parse, text, L + 1)
    BY <2>1 DEF ParsesFrom
  <2>3. L + 1 - 0 = L + 1
    BY <1>2
  <2>4. Exists(0)
    <3> HIDE DEF L, parse
    <3> QED
      BY <2>2, <2>3
  <2> QED
    BY <1>3, <1>4, <2>4
<1>5. CASE m # 0
  <2> DEFINE from == L + 1 - m
             later == L + 1 - (m - 1)
  <2>1. m - 1 \in 0..L /\ m - 1 \notin T /\ m \in 1..L
    <3>1. m \in 0..L
      BY <1>3
    <3> HIDE DEF T, L
    <3> QED
      BY <1>2, <1>3, <1>5, <3>1
  <2>2. /\ from \in 1..L /\ later \in 2..(L + 1) /\ later = from + 1
        /\ from \in Nat /\ from \in from..(L + 1) /\ ~ (from > L)
    BY <1>2, <2>1
  <2>3. PICK parse : ParsesFrom(parse, text, later)
    BY <2>1
  <2> DEFINE read == IF CodesAt(text, from) = {} THEN <<None>>
                     ELSE <<JsonCodes[CodeAt(text, from)]>>
                            \o parse[from + Len(CodeAt(text, from))]
             longer == [i \in from..(L + 1) |-> IF i = from THEN read ELSE parse[i]]
  <2> HIDE DEF from, later, T
  <2>4. ParsesFrom(longer, text, from)
    <3>1. ASSUME NEW i \in from..(L + 1)
          PROVE  longer[i] = IF i > L THEN <<>>
                             ELSE IF CodesAt(text, i) = {} THEN <<None>>
                             ELSE <<JsonCodes[CodeAt(text, i)]>>
                                    \o longer[i + Len(CodeAt(text, i))]
      <4> DEFINE next == i + Len(CodeAt(text, i))
      <4>1. i \in Nat
        BY <1>2, <2>2
      <4>2. CodesAt(text, i) # {} => next \in (i + 1)..(L + 1)
        BY <4>1, CodeFits
      <4> HIDE DEF next, L
      <4>3. CodesAt(text, i) # {} => longer[next] = parse[next]
        <5>1. CodesAt(text, i) # {} => next \in from..(L + 1) /\ next # from
          BY <1>2, <2>2, <4>1, <4>2
        <5> QED
          BY <5>1
      <4>4. CASE i = from
        BY <2>2, <4>3, <4>4 DEF next
      <4>5. CASE i # from
        <5>1. i \in later..(L + 1)
          BY <1>2, <2>2, <4>5
        <5>2. parse[i] = IF i > L THEN <<>>
                         ELSE IF CodesAt(text, i) = {} THEN <<None>>
                         ELSE <<JsonCodes[CodeAt(text, i)]>>
                                \o parse[i + Len(CodeAt(text, i))]
          BY <2>3, <5>1 DEF ParsesFrom, L
        <5> QED
          BY <4>3, <4>5, <5>2 DEF next
      <4> QED
        BY <4>4, <4>5
    <3>2. longer = [i \in from..(L + 1) |-> longer[i]]
      OBVIOUS
    <3> HIDE DEF longer
    <3> QED
      BY <3>1, <3>2 DEF ParsesFrom
  <2>5. Exists(m)
    BY <2>4 DEF from
  <2> QED
    BY <1>3, <2>5 DEF T
<1> QED
  BY <1>4, <1>5

(* From where the text has the character's code, the parser reads the         *)
(* character and goes on behind the code.                                     *)
LEMMA ParseStep ==
  ASSUME NEW text \in Seq(Chars), NEW parse, ParsesFrom(parse, text, 1),
         NEW i \in Nat \ {0}, NEW code \in CodesAt(text, i)
  PROVE  parse[i] = <<JsonCodes[code]>> \o parse[i + Len(code)]
<1>1. CodesAt(text, i) # {} /\ CodeAt(text, i) = code
  BY OneCodeAt
<1>2. i + Len(code) \in (i + 1)..(Len(text) + 1) /\ Len(text) \in Nat
  BY <1>1, CodeFits, LenProperties
<1>3. i \in 1..(Len(text) + 1) /\ ~ (i > Len(text))
  BY <1>2
<1> QED
  BY <1>1, <1>3 DEF ParsesFrom

(* Each character's code stands behind those of the characters before it.     *)
StandsBehind(out, text, code, k) ==
  LET i == Len(out[k - 1]) + 1
  IN  /\ i \in Nat \ {0} /\ code \in CodesAt(text, i)
      /\ i + Len(code) = Len(out[k]) + 1

(* In the escaped text every escape stands behind those of the characters     *)
(* before.                                                                    *)
LEMMA CodeStands ==
  ASSUME NEW message \in Seq(Chars), NEW out,
         EscapesOver(out, message, Len(message)), NEW k \in 1..Len(message)
  PROVE  StandsBehind(out, out[Len(message)], Escape(message[k]), k)
<1> DEFINE n == Len(message)
           short == out[k - 1]
           long == out[k]
           text == out[n]
           code == Escape(message[k])
           i == Len(short) + 1
<1>1. n \in Nat /\ message[k] \in Chars
  BY LenProperties, ElementOfSeq
<1>2. k \in 0..n /\ k - 1 \in 0..n /\ n \in 0..n /\ k # 0
  BY <1>1
<1>3. short \in Seq(Chars) /\ long \in Seq(Chars) /\ text \in Seq(Chars)
  <2>1. Grows(out, k) /\ Grows(out, k - 1) /\ Grows(out, n)
    BY <1>2, EscapesGrow
  <2> QED
    BY <2>1 DEF Grows
<1>4. BeginsWith(text, long)
  <2>1. Grows(out, n)
    BY <1>2, EscapesGrow
  <2> QED
    BY <1>2, <2>1 DEF Grows
<1>5. code \in DOMAIN JsonCodes /\ code \in Seq(Chars) /\ Len(code) \in Nat
  BY <1>1, EscapeIsCode
<1>6. long = short \o code
  BY <1>2 DEF EscapesOver
<1> HIDE DEF n, short, long, text, code
<1>7. IsConcat(long, short, code)
  BY <1>3, <1>5, <1>6, ConcatParts
<1>8. Len(short) \in Nat /\ Len(long) \in Nat /\ Len(text) \in Nat
  BY <1>3, LenProperties
<1>9. i + Len(code) = Len(long) + 1
  BY <1>5, <1>7, <1>8 DEF IsConcat
<1>10. i + Len(code) <= Len(text) + 1
  BY <1>4, <1>8, <1>9 DEF BeginsWith
<1>11. ASSUME NEW x \in 1..Len(code)  PROVE text[i + x - 1] = code[x]
  <2>1. i + x - 1 = Len(short) + x /\ Len(short) + x \in 1..Len(long)
    BY <1>5, <1>8, <1>9
  <2>2. long[Len(short) + x] = code[x]
    BY <1>7 DEF IsConcat
  <2>3. text[Len(short) + x] = long[Len(short) + x]
    BY <1>4, <2>1 DEF BeginsWith
  <2> QED
    BY <2>1, <2>2, <2>3
<1>12. code \in CodesAt(text, i)
  BY <1>5, <1>10, <1>11 DEF CodesAt
<1>13. i \in Nat \ {0}
  BY <1>8
<1>14. i \in Nat \ {0} /\ code \in CodesAt(text, i) /\ i + Len(code) = Len(long) + 1
  BY <1>9, <1>12, <1>13
<1> QED
  BY <1>14, Zenon DEF StandsBehind, n, short, long, text, code

(* What is read from the place of a character is the rest of the message.     *)
ReadsRest(read, message, k) ==
  /\ read \in Seq(Chars) /\ Len(read) = Len(message) - k
  /\ \A x \in 1..(Len(message) - k) : read[x] = message[k + x]

(* From the end of some escapes the parser reads the characters that are      *)
(* left.                                                                      *)
LEMMA ParseReadsRest ==
  ASSUME NEW message \in Seq(Chars), NEW out,
         EscapesOver(out, message, Len(message)),
         NEW parse, ParsesFrom(parse, out[Len(message)], 1), NEW d \in 0..Len(message)
  PROVE  ReadsRest(parse[Len(out[Len(message) - d]) + 1], message, Len(message) - d)
<1> DEFINE n == Len(message)
           text == out[n]
           Right(m) == ReadsRest(parse[Len(out[n - m]) + 1], message, n - m)
           T == {m \in 0..n : ~ Right(m)}
<1>1. SUFFICES ASSUME T # {}  PROVE FALSE
  OBVIOUS
<1>2. n \in Nat /\ \A i \in 1..n : message[i] \in Chars
  BY LenProperties, ElementOfSeq
<1>3. PICK m \in T : \A k \in T : m <= k
  <2>1. T \subseteq Nat
    BY <1>2
  <2> HIDE DEF T
  <2> QED
    BY <1>1, <2>1, LeastNatural
<1>4. text \in Seq(Chars) /\ Len(text) \in Nat
  <2>1. n \in 0..n
    BY <1>2
  <2>2. Grows(out, n)
    BY <2>1, EscapesGrow
  <2>3. text \in Seq(Chars)
    BY <2>2 DEF Grows
  <2> QED
    BY <2>3, LenProperties
<1>5. CASE m = 0
  <2>1. n - 0 = n
    BY <1>2
  <2>2. Len(text) + 1 \in 1..(Len(text) + 1) /\ Len(text) + 1 > Len(text)
    BY <1>4
  <2>3. parse[Len(text) + 1] = <<>>
    <3> HIDE DEF text
    <3>1. ParsesFrom(parse, text, 1)
      BY DEF text
    <3> QED
      BY <2>2, <3>1 DEF ParsesFrom
  <2>4. <<>> \in Seq(Chars) /\ Len(<<>>) = n - n /\ \A x \in 1..(n - n) : FALSE
    BY <1>2
  <2>5. ReadsRest(parse[Len(text) + 1], message, n)
    BY <2>3, <2>4 DEF ReadsRest
  <2>6. Right(0)
    <3> HIDE DEF n
    <3> QED
      BY <2>1, <2>5
  <2> QED
    BY <1>3, <1>5, <2>6
<1>6. CASE m # 0
  <2> DEFINE k == n - (m - 1)
             i == Len(out[n - m]) + 1
             code == Escape(message[k])
             rest == parse[i + Len(code)]
             read == parse[i]
             c == message[k]
  <2>1. m - 1 \in 0..n /\ m - 1 \notin T /\ k \in 1..n /\ k - 1 = n - m
    <3>1. m \in 0..n
      BY <1>3
    <3> HIDE DEF T, n
    <3> QED
      BY <1>2, <1>3, <1>6, <3>1
  <2>2. Right(m - 1)
    BY <2>1
  <2>3. i \in Nat \ {0} /\ code \in CodesAt(text, i) /\ i + Len(code) = Len(out[k]) + 1
    <3> HIDE DEF k, T
    <3>1. StandsBehind(out, text, code, k)
      BY <2>1, CodeStands
    <3> HIDE DEF text, code, n
    <3> QED
      BY <2>1, <3>1 DEF StandsBehind
  <2>4. JsonCodes[code] = c /\ c \in Chars
    BY <1>2, <2>1, EscapeIsCode
  <2>5. read = <<c>> \o rest
    <3> HIDE DEF text, code, i
    <3>1. ParsesFrom(parse, text, 1)
      BY DEF text
    <3>2. parse[i] = <<JsonCodes[code]>> \o parse[i + Len(code)]
      BY <1>4, <2>3, <3>1, ParseStep
    <3> QED
      BY <2>4, <3>2
  <2>6. ReadsRest(rest, message, k)
    <3> HIDE DEF T, i
    <3>1. ReadsRest(parse[Len(out[k]) + 1], message, k)
      BY <2>2
    <3> QED
      BY <2>3, <3>1
  <2> DEFINE one == <<c>>
  <2>7. one \in Seq(Chars) /\ Len(one) = 1 /\ one[1] = c
    BY <2>4
  <2>8. read = one \o rest /\ rest \in Seq(Chars)
    BY <2>5, <2>6 DEF ReadsRest
  <2> HIDE DEF T, one, read, rest, c, k, n, i, code
  <2>9. read \in Seq(Chars) /\ IsConcat(read, one, rest)
    BY <2>7, <2>8, ConcatParts
  <2>10. Len(rest) = n - k /\ \A x \in 1..(n - k) : rest[x] = message[k + x]
    BY <2>6 DEF ReadsRest, n
  <2>11. Len(read) = n - (k - 1)
    BY <1>2, <2>1, <2>7, <2>9, <2>10 DEF IsConcat
  <2>12. ASSUME NEW x \in 1..(n - (k - 1))  PROVE read[x] = message[(k - 1) + x]
    <3>1. CASE x = 1
      <4>1. (k - 1) + x = k /\ 1 \in 1..Len(one)
        BY <1>2, <2>1, <2>7, <3>1
      <4>2. read[1] = one[1]
        BY <2>9, <4>1 DEF IsConcat
      <4> QED
        BY <2>7, <3>1, <4>1, <4>2 DEF c
    <3>2. CASE x # 1
      <4>1. x - 1 \in 1..(n - k) /\ k + (x - 1) = (k - 1) + x /\ x = 1 + (x - 1)
        BY <1>2, <2>1, <3>2
      <4>2. read[Len(one) + (x - 1)] = rest[x - 1]
        BY <2>9, <2>10, <4>1 DEF IsConcat
      <4> QED
        BY <2>7, <2>10, <4>1, <4>2
    <3> QED
      BY <3>1, <3>2
  <2>13. ReadsRest(read, message, k - 1)
    BY <2>9, <2>11, <2>12 DEF ReadsRest, n
  <2>14. Right(m)
    BY <2>1, <2>13 DEF read, i
  <2> QED
    BY <1>3, <2>14 DEF T
<1> QED
  BY <1>5, <1>6

(* The error body says the message, whatever characters are in it.            *)
THEOREM EscapesSurvive == AlgorithmsSpec => []JsonEscapeRoundTrip
<1>1. ASSUME input \in Inputs  PROVE JsonEscapeRoundTrip
  <2> SUFFICES ASSUME input.kind = "message"
               PROVE  JsonParse(JsonEscape(input.message)) = input.message
    BY DEF JsonEscapeRoundTrip
  <2> DEFINE message == input.message
             n == Len(message)
             out == CHOOSE f : EscapesOver(f, message, n)
             text == out[n]
             parse == CHOOSE f : ParsesFrom(f, text, 1)
  <2>1. message \in Seq(Chars)
    <3>1. message \in Messages
      BY <1>1 DEF Inputs, Day
    <3> QED
      BY <3>1, JsonAssumption
  <2>2. n \in Nat
    BY <2>1, LenProperties
  <2>3. JsonEscape(message) = text
    BY Zenon DEF JsonEscape, EscapesOver
  <2>4. EscapesOver(out, message, n)
    <3>1. \E f : EscapesOver(f, message, n)
      BY <2>2, EscapesExist
    <3> QED
      BY <3>1
  <2> HIDE DEF message, out
  <2>5. text \in Seq(Chars) /\ Len(text) \in Nat
    <3>1. n \in 0..n
      BY <2>2
    <3>2. Grows(out, n)
      BY <2>1, <2>4, <3>1, EscapesGrow
    <3>3. text \in Seq(Chars)
      BY <3>2 DEF Grows
    <3> QED
      BY <3>3, LenProperties
  <2>6. ParsesFrom(parse, text, 1)
    <3> HIDE DEF text
    <3>1. Len(text) \in 0..Len(text) /\ Len(text) + 1 - Len(text) = 1
      BY <2>5
    <3>2. \E f : ParsesFrom(f, text, Len(text) + 1 - Len(text))
      BY <2>5, <3>1, ParseExists
    <3> QED
      BY <3>1, <3>2
  <2>7. JsonParse(text) = parse[1]
    BY Zenon DEF JsonParse, ParsesFrom
  <2> HIDE DEF parse
  <2>8. ReadsRest(parse[1], message, 0)
    <3>1. n \in 0..n /\ n - n = 0 /\ 0 \in 0..n
      BY <2>2
    <3>2. ReadsRest(parse[Len(out[n - n]) + 1], message, n - n)
      BY <2>1, <2>4, <2>6, <3>1, ParseReadsRest
    <3>3. out[0] = <<>>
      BY <2>4, <3>1 DEF EscapesOver
    <3>4. Len(out[0]) + 1 = 1
      BY <3>3
    <3> QED
      BY <3>1, <3>2, <3>4
  <2>9. parse[1] = message
    <3> DEFINE read == parse[1]
    <3>1. read \in Seq(Chars) /\ Len(read) = Len(message)
          /\ \A x \in 1..Len(message) : read[x] = message[x]
      BY <2>2, <2>8 DEF ReadsRest
    <3> HIDE DEF read
    <3>2. read = message
      BY <2>1, <3>1, SeqEqual
    <3> QED
      BY <3>2 DEF read
  <2> QED
    BY <2>3, <2>7, <2>9 DEF message
<1> QED
  BY <1>1, InputsStay, PTL
=============================================================================
