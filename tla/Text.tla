-------------------------------- MODULE Text --------------------------------
(***************************************************************************)
(* Text: file names and UTF-8, the string functions that other parts       *)
(* store and read back, string distances and the formatter.  A string is a *)
(* sequence of byte values.                                                *)
(***************************************************************************)
EXTENDS Integers, Sequences, FiniteSets, SequencesExt

CONSTANT WIDTH      \* bits of an integer, 64 in the code

ASSUME WidthAssumption == WIDTH \in 2..16

-----------------------------------------------------------------------------
(* UTF-8 text of src/ase/unicode.cc: file names consist of arbitrary bytes,   *)
(* the user interface of UTF-8, and names of events and parameters of NCName  *)
(* characters.  A string is a sequence of bytes without NUL, which is what    *)
(* c_str() ends with.                                                         *)

Surrogates == 55296..57343
Escapes == 61312..61439           \* private use, stands for the bytes 0x80..0xff
EscapeOf(byte) == 61312 - 128 + byte

ByteAt(s, i) == IF i <= Len(s) THEN s[i] ELSE 0
IsTrailing(byte) == byte \in 128..191

Width(c) == CASE c \in 192..223 -> 2
              [] c \in 224..239 -> 3
              [] c \in 240..247 -> 4
              [] OTHER -> 1

Low(b, bits) == b % 2^bits
Scalar(s, w) ==
  CASE w = 2 -> Low(s[1], 5) * 64 + Low(s[2], 6)
    [] w = 3 -> Low(s[1], 4) * 4096 + Low(s[2], 6) * 64 + Low(s[3], 6)
    [] w = 4 -> Low(s[1], 3) * 262144 + Low(s[2], 6) * 4096 + Low(s[3], 6) * 64 + Low(s[4], 6)

\* The first character of a nonempty s: a valid sequence, or one byte that is
\* taken for Latin-1 (mode 0 and 1) or escaped (mode 2 and 3).
RefusedSurrogates(mode, s) ==
  LET w == Width(s[1]) IN
  w = 1 \/ (\E k \in 2..w : ~IsTrailing(ByteAt(s, k))) \/ (w > 2 /\ mode >= 2 /\ Scalar(s, w) \in Surrogates)
Refused(mode, s) ==
  LET w == Width(s[1]) IN
  \/ w = 1
  \/ \E k \in 2..w : ~IsTrailing(ByteAt(s, k))
  \/ w > 2 /\ mode >= 2 /\ Scalar(s, w) \in Surrogates
  \/ w > 2 /\ mode >= 3 /\ Scalar(s, w) \in Escapes
utf8character(mode, s) ==
  IF Refused(mode, s)
  THEN [bytes |-> <<s[1]>>,
        unicode |-> IF mode >= 2 /\ s[1] >= 128 THEN EscapeOf(s[1]) ELSE s[1]]
  ELSE [bytes |-> SubSeq(s, 1, Width(s[1])), unicode |-> Scalar(s, Width(s[1]))]

Characters(mode, s) ==
  LET from[i \in 1..(Len(s) + 1)] ==
        IF i > Len(s) THEN <<>>
        ELSE LET c == utf8character(mode, SubSeq(s, i, Len(s)))
             IN  <<c>> \o from[i + Len(c.bytes)]
  IN  from[1]

\* The shortest encoding; what is no code point is left out.
Encoded(u) ==
  LET Trailing(n) == 128 + Low(u \div 64^n, 6) IN
  CASE u \in 0..127 -> <<u>>
    [] u \in 128..2047 -> <<192 + (u \div 64), Trailing(0)>>
    [] u \in 2048..65535 -> <<224 + (u \div 4096), Trailing(1), Trailing(0)>>
    [] u \in 65536..1114111 -> <<240 + (u \div 262144), Trailing(2), Trailing(1), Trailing(0)>>
    [] OTHER -> <<>>
utf8encode(codepoints) == FlattenSeq([i \in DOMAIN codepoints |-> Encoded(codepoints[i])])

utf8_to_unicode(s) == [i \in DOMAIN Characters(1, s) |-> Characters(1, s)[i].unicode]
utf8len(s) == Len(Characters(0, s))

MapCharacters(s, mode, Escaped(_)) ==
  FlattenSeq([i \in DOMAIN Characters(mode, s) |->
    LET c == Characters(mode, s)[i] IN IF c.unicode \in Escapes THEN Escaped(c.unicode) ELSE c.bytes])
encodefs(bytes) == MapCharacters(bytes, 3, Encoded)
decodefs(utf8) == MapCharacters(utf8, 1, LAMBDA u : <<u - EscapeOf(0)>>)
displayfs(utf8) == MapCharacters(utf8, 2, LAMBDA u : Encoded(u - EscapeOf(0)))

-----------------------------------------------------------------------------
(* Names that may be used in events, properties and XML.                     *)

Within(c, ranges) == \E r \in ranges : c >= r[1] /\ c <= r[2]
codepoint_is_namestartchar(c) ==
  Within(c, {<<65, 90>>, <<97, 122>>, <<95, 95>>, <<192, 214>>, <<216, 246>>, <<248, 767>>, <<880, 893>>,
             <<895, 8191>>, <<8204, 8205>>, <<8304, 8591>>, <<11264, 12271>>, <<12289, 55295>>,
             <<63744, 64975>>, <<65008, 65533>>, <<65536, 983039>>})
codepoint_is_ncname(c) ==
  codepoint_is_namestartchar(c) \/ Within(c, {<<45, 46>>, <<48, 57>>, <<183, 183>>, <<768, 879>>, <<8255, 8256>>})
string_is_ncname(s) == \A i \in DOMAIN utf8_to_unicode(s) : codepoint_is_ncname(utf8_to_unicode(s)[i])
string_to_ncname(s, substitute) ==
  LET chars == utf8_to_unicode(s)
      named == IF substitute # 0
               THEN [i \in DOMAIN chars |-> IF codepoint_is_ncname(chars[i]) THEN chars[i] ELSE substitute]
               ELSE SelectSeq(chars, codepoint_is_ncname)
  IN  utf8encode(IF named # <<>> /\ ~codepoint_is_namestartchar(named[1]) THEN <<95>> \o named ELSE named)

-----------------------------------------------------------------------------
\* A file name survives the trip to the user interface and back whatever bytes
\* it consists of, and text that decodes to code points is encoded as it was.
FilenameSurvives(bytes) == decodefs(encodefs(bytes)) = bytes

\* A converted name is accepted as the name of an event, begins like one, and
\* converting it again changes nothing.
NameSettled(bytes) ==
  \A substitute \in {0, 95} :
    LET name == string_to_ncname(bytes, substitute) IN
    /\ string_is_ncname(name)
    /\ name = <<>> \/ codepoint_is_namestartchar(utf8_to_unicode(name)[1])
    /\ string_to_ncname(name, substitute) = name

-----------------------------------------------------------------------------
(* The text functions of src/ase/strings.cc that other parts store and read   *)
(* back: quoting, URL encoding, splitting, identifiers, key=value lists,      *)
(* option lists and integers.  A string is a sequence of byte values.         *)

Digits == 48..57
Upper == 65..90
Lower == 97..122
Alnum == Digits \cup Upper \cup Lower
Whitespaces == {32} \cup 9..13
Quote == 34
Backslash == 92
NoLimit == 99       \* the default of maxn

tolower(c) == IF c \in Upper THEN c + 32 ELSE c
toupper(c) == IF c \in Lower THEN c - 32 ELSE c
string_tolower(s) == [i \in DOMAIN s |-> tolower(s[i])]
From(s, i) == SubSeq(s, i, Len(s))
StartsAt(s, i, part) == i + Len(part) - 1 <= Len(s) /\ SubSeq(s, i, i + Len(part) - 1) = part
Found(s, part) == {i \in DOMAIN s : StartsAt(s, i, part)}
MapText(s, Op(_)) == FlattenSeq([i \in DOMAIN s |-> Op(s[i])])

-----------------------------------------------------------------------------
(* Identifiers.                                                              *)

string_canonify(s, valid, substitute) == MapText(s, LAMBDA c : IF c \in valid THEN <<c>> ELSE substitute)
string_is_canonified(s, valid) == \A i \in DOMAIN s : s[i] \in valid
string_to_identifier(s) ==
  LET ident == string_canonify(string_tolower(s), Lower \cup Digits \cup {95}, <<95>>)
  IN  IF ident # <<>> /\ ident[1] <= 57 THEN <<95>> \o ident ELSE ident

\* Capitalize the first maxn words; the next one ends the conversion.
WordStarts(s) == {i \in DOMAIN s : s[i] \in Upper \cup Lower /\ (i = 1 \/ s[i - 1] \notin Upper \cup Lower)}
string_capitalize(s, maxn, rest_tolower) ==
  [i \in DOMAIN s |->
     CASE Cardinality({w \in WordStarts(s) : w <= i}) > maxn -> s[i]
       [] i \in WordStarts(s) -> toupper(s[i])
       [] OTHER -> IF rest_tolower THEN tolower(s[i]) ELSE s[i]]

-----------------------------------------------------------------------------
(* Splitting at the positions hits, each k characters long.                  *)

Split(s, hits, k, maxn, keepempty) ==
  LET Kept(acc, i) == i > acc.l \/ (keepempty /\ i = acc.l)
      Next(acc, i) ==
        IF i \notin hits \/ Len(acc.sv) >= maxn THEN acc
        ELSE [sv |-> IF Kept(acc, i) THEN Append(acc.sv, SubSeq(s, acc.l, i - 1)) ELSE acc.sv, l |-> i + k]
      parts == FoldLeft(Next, [sv |-> <<>>, l |-> 1], [i \in DOMAIN s |-> i])
  IN  IF Kept(parts, Len(s) + 1) THEN Append(parts.sv, From(s, parts.l)) ELSE parts.sv

string_whitesplit(s, maxn) == Split(s, {i \in DOMAIN s : s[i] \in Whitespaces}, 1, maxn, FALSE)
string_split(s, splitter, maxn) ==
  IF splitter = <<>> THEN string_whitesplit(s, maxn)
  ELSE Split(s, Found(s, splitter), Len(splitter), maxn, TRUE)
string_split_any(s, chars, maxn) ==
  IF chars # {} THEN Split(s, {i \in DOMAIN s : s[i] \in chars}, 1, maxn, TRUE)
  ELSE LET n == IF Len(s) <= maxn THEN Len(s) ELSE maxn
       IN  [i \in 1..n |-> <<s[i]>>] \o (IF n < Len(s) THEN <<From(s, n + 1)>> ELSE <<>>)
string_join(junctor, strvec) ==
  IF strvec = <<>> THEN <<>>
  ELSE FoldLeft(LAMBDA s, part : s \o junctor \o part, strvec[1], Tail(strvec))
string_vector_erase_empty(strvec) == SelectSeq(strvec, LAMBDA s : s # <<>>)

Visible(s) == {i \in DOMAIN s : s[i] \notin Whitespaces}
Least(S) == CHOOSE i \in S : \A j \in S : i <= j
Greatest(S) == CHOOSE i \in S : \A j \in S : i >= j
string_lstrip(s) == IF Visible(s) = {} THEN <<>> ELSE From(s, Least(Visible(s)))
string_rstrip(s) == IF Visible(s) = {} THEN <<>> ELSE SubSeq(s, 1, Greatest(Visible(s)))
string_strip(s) == IF Visible(s) = {} THEN <<>> ELSE SubSeq(s, Least(Visible(s)), Greatest(Visible(s)))

\* Each replacement continues the search behind the text it put in.
string_replace(s, marker, replacement, maxn) ==
  LET from[n \in 0..maxn, i \in 1..(Len(s) + 1)] ==
        LET next == {k \in Found(s, marker) : k >= i} IN
        IF n = 0 \/ next = {} THEN From(s, i)
        ELSE SubSeq(s, i, Least(next) - 1) \o replacement \o from[n - 1, Least(next) + Len(marker)]
  IN  from[maxn, 1]

-----------------------------------------------------------------------------
(* C strings in quotes, as written to configuration and script output.       *)

Letters == [c \in {7, 8, 9, 10, 11, 12, 13} |->
              CASE c = 7 -> 97 [] c = 8 -> 98 [] c = 9 -> 116 [] c = 10 -> 110
                [] c = 11 -> 118 [] c = 12 -> 102 [] c = 13 -> 114]
Octal(d) == <<48 + (d \div 64), 48 + ((d \div 8) % 8), 48 + (d % 8)>>
Escape(d) == <<Backslash>> \o Octal(d)
string_to_cescape(s) ==
  MapText(s, LAMBDA d : CASE d \in DOMAIN Letters -> <<Backslash, Letters[d]>>
                          [] d \in {Quote, Backslash} -> <<Backslash, d>>
                          [] d < 32 \/ d > 126 -> Escape(d)
                          [] OTHER -> <<d>>)
string_to_cquote(s) == <<Quote>> \o string_to_cescape(s) \o <<Quote>>

\* A backslash takes up to three octal digits or one character with it; text
\* without quotes, or with characters behind them, is returned as it is.
OctalDigits(s, i) ==
  LET is(k) == k \in DOMAIN s /\ s[k] \in 48..55
  IN  IF ~is(i) THEN 0 ELSE IF ~is(i + 1) THEN 1 ELSE IF ~is(i + 2) THEN 2 ELSE 3
OctalValue(digits) == FoldLeft(LAMBDA v, d : v * 8 + d - 48, 0, digits) % 256
string_from_cquote(s) ==
  LET qchar == s[1]
      text[i \in 2..(Len(s) + 4)] ==
        IF i > Len(s) \/ s[i] = qchar THEN [out |-> <<>>, end |-> i]
        ELSE LET n == OctalDigits(s, i + 1)
                 Then(c, k) == [text[k] EXCEPT !.out = <<c>> \o @]
             IN  CASE s[i] # Backslash -> Then(s[i], i + 1)
                   [] i = Len(s) -> text[i + 1]
                   [] n > 0 -> Then(OctalValue(SubSeq(s, i + 1, i + n)), i + 1 + n)
                   [] \E c \in DOMAIN Letters : Letters[c] = s[i + 1] ->
                        Then(CHOOSE c \in DOMAIN Letters : Letters[c] = s[i + 1], i + 2)
                   [] OTHER -> Then(s[i + 1], i + 2)
  IN  IF s # <<>> /\ s[1] \in {Quote, 39} /\ text[2].end = Len(s) THEN text[2].out ELSE s

-----------------------------------------------------------------------------
(* URL encoding.                                                             *)

HexDigit(v) == IF v < 10 THEN 48 + v ELSE 55 + v
HexDigits == Digits \cup 65..70 \cup 97..102
HexValue(c) == IF c \in Digits THEN c - 48 ELSE tolower(c) - 87
Unescaped == Alnum \cup {45, 46, 95, 126, 91, 93, 33, 40, 41, 42}
string_url_encode(s, form) ==
  MapText(s, LAMBDA c : CASE c \in Unescaped -> <<c>>
                          [] form /\ c = 32 -> <<43>>
                          [] OTHER -> <<37, HexDigit(c \div 16), HexDigit(c % 16)>>)
string_url_decode(s, form) ==
  LET isxdigit(i) == i \in DOMAIN s /\ s[i] \in HexDigits
      text[i \in 1..(Len(s) + 1)] ==
        CASE i > Len(s) -> <<>>
          [] i \in DOMAIN s /\ s[i] = 37 /\ isxdigit(i + 1) /\ isxdigit(i + 2) ->
               <<HexValue(s[i + 1]) * 16 + HexValue(s[i + 2])>> \o text[i + 3]
          [] OTHER -> <<IF form /\ s[i] = 43 THEN 32 ELSE s[i]>> \o text[i + 1]
  IN  text[1]

-----------------------------------------------------------------------------
(* Lists of key=value strings, in order of their first assignment.           *)

Equals == 61
EqualSigns(kv) == {i \in DOMAIN kv : kv[i] = Equals}
kvpair_key(kv) == IF EqualSigns(kv) = {} THEN kv ELSE SubSeq(kv, 1, Least(EqualSigns(kv)) - 1)
kvpair_value(kv) == IF EqualSigns(kv) = {} THEN <<>> ELSE From(kv, Least(EqualSigns(kv)) + 1)

HasKey(kv, key, casesensitive) ==
  LET Fold(s) == IF casesensitive THEN s ELSE string_tolower(s) IN
  Len(kv) > Len(key) /\ kv[Len(key) + 1] = Equals /\ Fold(SubSeq(kv, 1, Len(key))) = Fold(key)
HasPrefix(kv, key, casesensitive) == Len(kv) > Len(key) /\ SubSeq(kv, 1, Len(key)) = key
kvpairs_search(kvs, key, casesensitive) ==
  LET hits == {i \in DOMAIN kvs : HasKey(kvs[i], key, casesensitive)} IN IF hits = {} THEN 0 ELSE Least(hits)
kvpairs_fetch(kvs, key, casesensitive) ==
  LET i == kvpairs_search(kvs, key, casesensitive) IN IF i = 0 THEN <<>> ELSE From(kvs[i], Len(key) + 2)
kvpairs_assign(kvs, kv, casesensitive) ==
  LET i == kvpairs_search(kvs, kvpair_key(kv), casesensitive) IN
  CASE EqualSigns(kv) = {} \/ kvpair_key(kv) = <<>> -> kvs
    [] kvpair_value(kv) = <<>> -> IF i = 0 THEN kvs ELSE RemoveAt(kvs, i)
    [] OTHER -> IF i = 0 THEN Append(kvs, kv) ELSE [kvs EXCEPT ![i] = kv]

-----------------------------------------------------------------------------
(* Option lists like ASE_DEBUG, separated by colons: the last mention of a    *)
(* feature counts.  A denial "no-feature" is never found, its condition       *)
(* requires a character to be NUL and a separator.                           *)

Separators == {58, 59}
EndsOption(s, i) == i > Len(s) \/ s[i] \in Separators
find_option(s, feature, allowvalue) ==
  LET hits == {i \in Found(string_tolower(s), string_tolower(feature)) :
                 /\ EndsOption(s, i + Len(feature)) \/ (allowvalue /\ s[i + Len(feature)] = Equals)
                 /\ i = 1 \/ s[i - 1] \in Separators}
  IN  IF hits = {} THEN 0 ELSE Greatest(hits)
separator_strlen(s, i) == Least({k \in i..(Len(s) + 1) : EndsOption(s, k)}) - i

All == <<97, 108, 108>>
None == <<110, 111, 110, 101>>
string_option_find(s, feature, fallback) ==
  LET match == find_option(s, feature, TRUE)
      value == match + Len(feature) + 1
  IN  CASE s = <<>> \/ feature = <<>> -> fallback
        [] match > 0 -> IF EndsOption(s, value - 1) THEN <<49>>
                        ELSE SubSeq(s, value, value + separator_strlen(s, value) - 1)
        [] find_option(s, All, FALSE) > 0 -> <<49>>
        [] find_option(s, None, FALSE) > 0 -> <<48>>
        [] OTHER -> fallback

-----------------------------------------------------------------------------
(* Integers of WIDTH bits: strtoull() limits what it parses to the largest    *)
(* unsigned number.                                                           *)

Smallest(a, b) == IF a < b THEN a ELSE b
strtoull(s) ==
  LET n == IF \E i \in DOMAIN s : s[i] \notin Digits
           THEN Least({i \in DOMAIN s : s[i] \notin Digits}) - 1 ELSE Len(s)
  IN  FoldLeft(LAMBDA v, d : Smallest(v * 10 + d - 48, 2^WIDTH - 1), 0, SubSeq(s, 1, n))
string_from_uint(v) ==
  LET digits[n \in 0..v] == IF n < 10 THEN <<48 + n>> ELSE Append(digits[n \div 10], 48 + (n % 10)) IN digits[v]
string_from_int(v) == IF v < 0 THEN <<45>> \o string_from_uint(-v) ELSE string_from_uint(v)
string_to_int(s) ==
  LET p == string_lstrip(s)
      negate == p # <<>> /\ p[1] = 45
      result == strtoull(IF negate THEN Tail(p) ELSE p)
  IN  CASE result < 2^(WIDTH - 1) -> IF negate THEN -result ELSE result
        [] OTHER -> IF negate THEN -2^(WIDTH - 1) ELSE 2^(WIDTH - 1) - 1

-----------------------------------------------------------------------------
\* Whatever is quoted or encoded for a file, a script or a URL is read back as
\* it was.
QuotingReversible(s) ==
  /\ string_from_cquote(string_to_cquote(s)) = s
  /\ \A form \in BOOLEAN : string_url_decode(string_url_encode(s, form), form) = s

\* Splitting loses nothing but the splitter, for any limit, when no two
\* occurrences of the splitter overlap; replacing the splitter is splitting at
\* it and joining; words are what is left between whitespace.
SplitReversible(s) ==
  /\ \A splitter \in {<<44>>, <<44, 32>>} : \A maxn \in {1, 2, NoLimit} :
       /\ string_join(splitter, string_split(s, splitter, maxn)) = s
       /\ string_replace(s, splitter, <<33, 44>>, Len(s)) = string_join(<<33, 44>>, string_split(s, splitter, NoLimit))
  /\ string_whitesplit(s, NoLimit) = string_vector_erase_empty(string_split_any(s, Whitespaces, NoLimit))
  /\ string_lstrip(string_rstrip(s)) = string_strip(s)
  /\ string_strip(string_join(<<32>>, string_whitesplit(s, NoLimit))) = string_join(<<32>>, string_whitesplit(s, NoLimit))
  /\ LET ident == string_to_identifier(s) IN
     string_to_identifier(ident) = ident /\ string_to_identifier(string_capitalize(s, NoLimit, TRUE)) = ident

\* What is fetched from a key=value list is what was assigned last, whatever
\* was assigned to keys that begin alike, and no key is there twice.
KeysSeparate(assigns, casesensitive) ==
  LET kvs == FoldLeft(LAMBDA l, kv : kvpairs_assign(l, kv, casesensitive), <<>>, assigns)
      Same(a, b) == IF casesensitive THEN a = b ELSE string_tolower(a) = string_tolower(b)
      Assigned(key) == {i \in DOMAIN assigns : Same(kvpair_key(assigns[i]), key)}
  IN  /\ \A i \in DOMAIN assigns :
           LET key == kvpair_key(assigns[i])
           IN  kvpairs_fetch(kvs, key, casesensitive) = kvpair_value(assigns[Greatest(Assigned(key))])
      /\ \A i, j \in DOMAIN kvs : i # j => ~Same(kvpair_key(kvs[i]), kvpair_key(kvs[j]))

\* The last mention of a feature in an option list decides, features whose
\* names contain each other are kept apart, and all and none count only when
\* the feature is not mentioned.
OptionsSeparate(items, feature) ==
  LET mentions == {i \in DOMAIN items : string_tolower(kvpair_key(items[i])) = feature}
      Among(word) == \E i \in DOMAIN items : items[i] = word
  IN  string_option_find(string_join(<<58>>, items), feature, <<>>) =
        CASE mentions # {} ->
               LET last == items[Greatest(mentions)]
               IN  IF EqualSigns(last) = {} THEN <<49>> ELSE kvpair_value(last)
          [] Among(All) -> <<49>>
          [] Among(None) -> <<48>>
          [] OTHER -> <<>>

\* Every integer is read back from its text, and a larger one is limited to the
\* nearest.
IntegersReversible(v) ==
  string_to_int(string_from_int(v)) =
    CASE v >= 2^(WIDTH - 1) -> 2^(WIDTH - 1) - 1
      [] v < -2^(WIDTH - 1) -> -2^(WIDTH - 1)
      [] OTHER -> v

-----------------------------------------------------------------------------
(* The string distances of src/ase/levenshtein.cc, by which a parameter finds *)
(* the choice that resembles a text best.  Both remove what the strings have  *)
(* in common at their ends and exchange the strings so that the longer one    *)
(* comes first.  Costs: ci insertion, cd deletion, cs substitution, ct        *)
(* transposition of neighbours.                                               *)

MinOf(S) == CHOOSE x \in S : \A y \in S : x <= y
MaxOf(S) == CHOOSE x \in S : \A y \in S : x >= y
Shorter(a, b) == MinOf({Len(a), Len(b)})
CommonPrefix(a, b) == MaxOf({k \in 0..Shorter(a, b) : SubSeq(a, 1, k) = SubSeq(b, 1, k)})
Rest(s, k) == SubSeq(s, k + 1, Len(s))
\* a and b without their common prefix, then without the common suffix of that.
Differing(a, b) ==
  LET k == CommonPrefix(a, b)
      x == Rest(a, k)
      y == Rest(b, k)
      l == CommonPrefix(Reverse(x), Reverse(y))
  IN  <<SubSeq(x, 1, Len(x) - l), SubSeq(y, 1, Len(y) - l)>>

\* One row of the matrix: row1 and row2 are the rows of i - 1 and i - 2.
NextRow(a, b, i, row2, row1, ci, cd, cs, ct) ==
  LET Cell(row0, j) ==
        LET ue == a[i] # b[j]
            swapped == ue /\ i > 1 /\ j > 1 /\ a[i] = b[j - 1] /\ a[i - 1] = b[j]
        IN  Append(row0, MinOf({row1[j + 1] + cd, row0[j] + ci, row1[j] + (IF ue THEN cs ELSE 0)}
                               \cup (IF swapped THEN {row2[j - 1] + ct} ELSE {})))
  IN  FoldLeft(Cell, <<i * cd>>, [j \in DOMAIN b |-> j])

RowsOf(a, b, ci, cd, cs, ct) ==
  LET Shift(rows, i) == <<rows[2], NextRow(a, b, i, rows[1], rows[2], ci, cd, cs, ct)>>
      first == [j \in 1..(Len(b) + 1) |-> (j - 1) * ci]
  IN  FoldLeft(Shift, <<first, first>>, [i \in DOMAIN a |-> i])
Restricted(source, target, ci, cd, cs, ct) ==
  LET ab == Differing(source, target) IN
  CASE ab[1] = <<>> -> Len(ab[2]) * ci
    [] ab[2] = <<>> -> Len(ab[1]) * cd
    [] OTHER -> RowsOf(ab[1], ab[2], ci, cd, cs, ct)[2][Len(ab[2]) + 1]
damerau_levenshtein_restricted(source, target, ci, cd, cs, ct) ==
  IF Len(target) > Len(source) THEN Restricted(target, source, cd, ci, cs, ct)
  ELSE Restricted(source, target, ci, cd, cs, ct)

\* With edits between transposed characters: the last position before i where
\* p has the character s[j], and the last one before j where s has p[i].
LastBefore(s, k, c) == MaxOf({0} \cup {n \in 1..(k - 1) : s[n] = c})
Unrestricted(p, s, ci, cd, cs, ct) ==
  LET width == Len(s) + 1
      Cell(C, n) ==       \* cells in the order of the two loops
        LET i == n \div width
            j == n % width
            At(k, l) == C[k * width + l + 1]
            i_ == LastBefore(p, i, s[j])
            j_ == LastBefore(s, j, p[i])
        IN  Append(C, CASE i = 0 -> j * cd
                        [] j = 0 -> i * ci
                        [] OTHER ->
                             MinOf({At(i - 1, j) + ci, At(i, j - 1) + cd,
                                    At(i - 1, j - 1) + (IF p[i] = s[j] THEN 0 ELSE cs)}
                                   \cup (IF i_ > 0 /\ j_ > 0
                                         THEN {At(i_ - 1, j_ - 1) + (i - i_) - 1 + (j - j_) - 1 + ct} ELSE {})))
      cells == FoldLeft(Cell, <<>>, [n \in 1..((Len(p) + 1) * width) |-> n - 1])
  IN  cells[Len(cells)]
damerau_levenshtein_distance(source, target, ci, cd, cs, ct) ==
  LET ab == Differing(source, target)
      n == Len(ab[1])
      m == Len(ab[2])
  IN  CASE n = 0 -> m
        [] m = 0 -> n
        [] m <= n -> Unrestricted(ab[1], ab[2], ci, cd, cs, ct)
        [] OTHER -> Unrestricted(ab[2], ab[1], cd, ci, cs, ct)

-----------------------------------------------------------------------------
\* The cheapest way to turn a into b one character or transposition at a time,
\* no character being edited twice.
Cheapest(a, b, ci, cd, cs, ct) ==
  LET c[i \in 0..Len(a), j \in 0..Len(b)] ==
        MinOf((IF i = 0 /\ j = 0 THEN {0} ELSE {})
              \cup (IF i > 0 THEN {c[i - 1, j] + cd} ELSE {})
              \cup (IF j > 0 THEN {c[i, j - 1] + ci} ELSE {})
              \cup (IF i > 0 /\ j > 0 THEN {c[i - 1, j - 1] + (IF a[i] = b[j] THEN 0 ELSE cs)} ELSE {})
              \cup (IF i > 1 /\ j > 1 /\ a[i] = b[j - 1] /\ a[i - 1] = b[j] THEN {c[i - 2, j - 2] + ct} ELSE {}))
  IN  c[Len(a), Len(b)]

\* The restricted distance is the cheapest alignment, for unequal costs too,
\* although the strings are trimmed and exchanged before.
RestrictedIsCheapest(a, b) ==
  \A costs \in {<<1, 1, 1, 1>>, <<1, 2, 2, 1>>, <<3, 1, 2, 2>>} :
    damerau_levenshtein_restricted(a, b, costs[1], costs[2], costs[3], costs[4])
      = Cheapest(a, b, costs[1], costs[2], costs[3], costs[4])

Edits(s, chars) ==
  {SubSeq(s, 1, k - 1) \o Rest(s, k) : k \in DOMAIN s}
  \cup {SubSeq(s, 1, k) \o <<c>> \o Rest(s, k) : k \in 0..Len(s), c \in chars}
  \cup {[s EXCEPT ![k] = c] : k \in DOMAIN s, c \in chars}
  \cup {[s EXCEPT ![k] = s[k + 1], ![k + 1] = s[k]] : k \in 1..(Len(s) - 1)}

\* The other distance is the number of edits of a shortest path from a to b:
\* an edit of b changes it by one at most, and one of them decreases it.
DistanceCountsEdits(a, b, chars) ==
  LET d(x, y) == damerau_levenshtein_distance(x, y, 1, 1, 1, 1) IN
  /\ (d(a, b) = 0) = (a = b)
  /\ \A c \in Edits(b, chars) : d(a, c) \in (d(a, b) - 1)..(d(a, b) + 1)
  /\ a # b => \E c \in Edits(b, chars) : d(a, c) = d(a, b) - 1

-----------------------------------------------------------------------------
(* StringFormatter of src/ase/formatter.cc: how a format is parsed into        *)
(* directives, which arguments a directive refers to, and what is passed on to *)
(* asprintf().  Formats are sequences of character codes, p is a position in   *)
(* one; the character after the last is 0.  A rendered argument is a token.    *)

Percent == 37
Dollar == 36
Star == 42
Flags == {45, 43, 35, 48, 32, 39}                          \* -+#0 '
Modifiers == {104, 108, 76, 106, 122, 116, 113, 90}        \* hlLjztqZ
Integral == {100, 105, 111, 117, 88, 120}                  \* diouXx
Floating == {70, 102, 71, 103, 69, 101, 65, 97}            \* FfGgEeAa
Conversions == Integral \cup Floating \cup {99, 67, 115, 112, 109, Percent}
MaxNumber == 99                                            \* stands for 2147483647
FormatChar(format, p) == IF p \in DOMAIN format THEN format[p] ELSE 0

\* Numbers have no leading zero; p is 0 where there is none.
parse_unsigned_integer(format, p) ==
  LET end == Least({k \in p..(Len(format) + 1) : FormatChar(format, k) \notin Digits})
      value == FoldLeft(LAMBDA v, c : v * 10 + c - 48, 0, SubSeq(format, p, end - 1))
  IN  CASE end = p -> [p |-> 0, n |-> 0]
        [] FormatChar(format, p) = 48 -> IF end = p + 1 THEN [p |-> end, n |-> 0] ELSE [p |-> 0, n |-> 0]
        [] OTHER -> [p |-> end, n |-> value]
parse_positional(format, p) ==
  LET u == parse_unsigned_integer(format, p) IN
  IF u.p > 0 /\ FormatChar(format, u.p) = Dollar THEN [p |-> u.p + 1, n |-> u.n] ELSE [p |-> 0, n |-> 0]

\* Parsing goes on in steps; one that fails leaves an error, at which the others stop.
Fail(st, err) == [st EXCEPT !.err = err]
\* Flags are skipped with strchr(), which finds the terminating 0 as well: a
\* format that ends here is read beyond its end.
parse_flags(format, st) ==
  LET end == Least({k \in st.p..(Len(format) + 1) : FormatChar(format, k) \notin Flags}) IN
  CASE st.err # "" -> st
    [] st.err = "" /\ end > Len(format) -> Fail(st, "overread")
    [] OTHER -> [st EXCEPT !.p = end, !.flags = {format[k] : k \in st.p..(end - 1)}]
parse_value_index(format, st) ==
  LET a == parse_positional(format, st.p) IN
  CASE a.p = 0 -> st
    [] a.p > 0 /\ a.n \in 1..MaxNumber -> [st EXCEPT !.p = a.p, !.value_index = a.n]
    [] OTHER -> Fail(st, "invalid positional specification")
\* '*', '*' with a position, or a number; without any of them st stays.
Amount(format, st, seen(_), index, amount) ==
  LET star == FormatChar(format, st.p) = Star
      a == parse_positional(format, st.p + 1)
      u == parse_unsigned_integer(format, st.p)
  IN  CASE st.err # "" -> st
        [] star /\ a.p > 0 /\ a.n \in 1..MaxNumber -> seen([st EXCEPT !.p = a.p, ![index] = a.n])
        [] star /\ a.p > 0 /\ a.n \notin 1..MaxNumber -> Fail(st, "invalid positional specification")
        [] star /\ a.p = 0 -> seen([st EXCEPT !.p = @ + 1, ![index] = st.nextarg, !.nextarg = @ + 1])
        [] ~star /\ u.p > 0 -> IF u.n <= MaxNumber THEN seen([st EXCEPT !.p = u.p, ![amount] = u.n]) ELSE Fail(st, "invalid number")
        [] OTHER -> st
parse_width(format, st) == Amount(format, st, LAMBDA s : [s EXCEPT !.use_width = TRUE], "width_index", "field_width")
parse_precision(format, st) ==
  LET dot == st.err = "" /\ FormatChar(format, st.p) = 46
      st1 == IF dot THEN [st EXCEPT !.p = @ + 1, !.use_precision = TRUE] ELSE st
  IN  Amount(format, st1, LAMBDA s : s, "precision_index", "precision")
Conversion(format, st) ==
  LET c == FormatChar(format, st.p)
      takes == st.value_index = 0 /\ c \notin {109, Percent}
  IN  [st EXCEPT !.p = @ + 1, !.conversion = IF c = 67 THEN 99 ELSE c,
                 !.value_index = IF takes THEN st.nextarg ELSE @, !.nextarg = IF takes THEN @ + 1 ELSE @]
\* Modifiers are skipped with strchr(), too.
parse_conversion(format, st) ==
  LET end == Least({k \in st.p..(Len(format) + 1) : FormatChar(format, k) \notin Modifiers})
      st1 == [st EXCEPT !.p = end]
  IN  CASE st.err # "" -> st
        [] st.err = "" /\ end > Len(format) -> Fail(st, "overread")
        [] st.err = "" /\ end <= Len(format) /\ format[end] \notin Conversions -> Fail(st, "missing conversion specifier")
        [] OTHER -> Conversion(format, st1)
NoDirective == [p |-> 0, err |-> "", flags |-> {}, use_width |-> FALSE, width_index |-> 0, field_width |-> 0,
                use_precision |-> FALSE, precision_index |-> 0, precision |-> 0, value_index |-> 0, conversion |-> 0,
                nextarg |-> 0, start |-> 0]
parse_directive(format, p, nextarg) ==
  LET st0 == [NoDirective EXCEPT !.p = p + 1, !.nextarg = nextarg, !.start = p]
  IN  parse_conversion(format, parse_precision(format, parse_width(format, parse_flags(format, parse_value_index(format, st0)))))

upper_directive_count(format) ==
  LET Count(acc, k) ==
        CASE acc.skip -> [acc EXCEPT !.skip = FALSE]
          [] ~acc.skip /\ format[k] = Percent -> [n |-> acc.n + 1, skip |-> FormatChar(format, k + 1) = Percent]
          [] OTHER -> acc
  IN  FoldLeft(Count, [n |-> 0, skip |-> FALSE], [k \in DOMAIN format |-> k]).n
\* The directives of a format, up to the first that fails.
Directives(format) ==
  LET parse[p \in 1..(Len(format) + 1), nextarg \in 1..(2 * Len(format) + 1)] ==
        LET here == {k \in p..Len(format) : format[k] = Percent}
            Onward(dir) == <<dir>> \o (IF dir.err # "" THEN <<>> ELSE parse[dir.p, dir.nextarg])
        IN  IF here = {} THEN <<>> ELSE Onward(parse_directive(format, Least(here), nextarg))
  IN  parse[1, 1]

\* What asprintf() gets: width and precision, if any, come before the value.
\* Characters and pointers have no precision in the format that is built for
\* them, but it is passed nevertheless.
HasPrecision(dir) == dir.use_precision /\ dir.conversion \in {115, 109} \cup Integral \cup Floating
FormatArg(index, n) == [index |-> index, n |-> n]
render_arg(dir) ==
  LET width == IF dir.width_index = 0 THEN FormatArg(0, dir.field_width) ELSE FormatArg(dir.width_index, 0)
      precision == IF dir.precision_index = 0 THEN FormatArg(0, dir.precision) ELSE FormatArg(dir.precision_index, 0)
      passed == (IF dir.use_width THEN <<width>> ELSE <<>>) \o (IF dir.use_precision THEN <<precision>> ELSE <<>>)
                \o <<FormatArg(dir.value_index, 0)>>
      expected == (IF dir.use_width THEN 1 ELSE 0) + (IF HasPrecision(dir) THEN 1 ELSE 0) + 1
  IN  [value |-> passed[expected], options |-> SubSeq(passed, 1, expected - 1)]
render_directive(dir) == IF dir.conversion = Percent THEN <<[text |-> Percent]>> ELSE <<[text |-> 0, arg |-> render_arg(dir)]>>

FormatError(err) == [err |-> err, result |-> <<>>]
MaxArg(dirs) ==
  Greatest({0} \cup UNION {{dirs[i].value_index, dirs[i].width_index, dirs[i].precision_index} : i \in DOMAIN dirs}
           \cup {dirs[i].nextarg - 1 : i \in DOMAIN dirs})
Rendered(format, dirs, nargs) ==
  LET failed == dirs # <<>> /\ dirs[Len(dirs)].err # ""
      literal(a, b) == [k \in 1..(b - a) |-> [text |-> format[a + k - 1]]]
      End(i) == IF i = 0 THEN 1 ELSE dirs[i].p
      pieces == [i \in DOMAIN dirs |-> literal(End(i - 1), dirs[i].start) \o render_directive(dirs[i])]
  IN  CASE failed -> FormatError(dirs[Len(dirs)].err)
        [] ~failed /\ Len(dirs) >= 1 + upper_directive_count(format) -> FormatError("too many directives")
        [] ~failed /\ MaxArg(dirs) > nargs -> FormatError("too few arguments for format")
        [] ~failed /\ MaxArg(dirs) < nargs -> FormatError("too many arguments for format")
        [] OTHER -> [err |-> "", result |-> FlattenSeq(pieces) \o literal(End(Len(dirs)), Len(format) + 1)]
render_format(format, nargs) == Rendered(format, Directives(format), nargs)

-----------------------------------------------------------------------------
\* There is room for all directives; text outside of them is kept in order;
\* without positions every argument is used exactly once, in order, as width,
\* precision or value; and a precision of a character or a pointer is the only
\* case where another argument takes the place of the value.
FormatFaithful(format) ==
  \A dirs \in {Directives(format)} : \A n \in {MaxArg(dirs)} : \A out \in {render_format(format, n)} :
  LET literals == SelectSeq(out.result, LAMBDA t : t.text # 0)
      args == SelectSeq(out.result, LAMBDA t : t.text = 0)
      used == FlattenSeq([i \in DOMAIN args |-> Append(args[i].arg.options, args[i].arg.value)])
      indices == SelectSeq([i \in DOMAIN used |-> used[i].index], LAMBDA i : i > 0)
      plain == \A i \in DOMAIN dirs : ~(dirs[i].use_precision /\ ~HasPrecision(dirs[i]))
      typed == \A i \in DOMAIN dirs : dirs[i].precision_index > 0 => dirs[i].use_precision
  IN  /\ out.err # "too many directives"
      /\ out.err = "" =>
           /\ \A k \in DOMAIN format : k < (IF dirs = <<>> THEN Len(format) + 1 ELSE dirs[1].start) => literals[k].text = format[k]
           /\ Len(literals) = Len(format) - FoldLeft(LAMBDA s, d : s + d.p - d.start - (IF d.conversion = Percent THEN 1 ELSE 0), 0, dirs)
           /\ (/\ plain /\ typed /\ \A k \in DOMAIN format : format[k] # Dollar
               /\ \A i \in DOMAIN dirs : dirs[i].conversion \notin {109, Percent}) => indices = [k \in 1..n |-> k]

-----------------------------------------------------------------------------
(* The command line: parse_args() of src/ase/main.cc.  A word is             *)
(* [name, dash, eq]: it begins with a dash, eq is <<text>> for name=text.    *)

Toggles ==
  {"--fatal-warnings", "--g-fatal-warnings", "--disable-randomization", "--norc", "--log2file", "--check", "--js-api",
   "--class-tree", "--jsipc", "--jsbin", "--list-drivers", "--play-autostart"}
Valued == {"-M", "-P", "--embed", "-o", "-t"}
Endings == {"--rand64", "--list-tests", "-h", "--help", "--version"}
ArgEffects(name) ==
  CASE name \in {"--fatal-warnings", "--g-fatal-warnings"} -> {"fatal_warnings"}
    [] name \in {"--check", "--test"} -> {"CHECK_INTEGRITY_TESTS", "fatal_warnings"}
    [] name \in {"--play-autostart", "-t"} -> {"play_autostart"}
    [] name \in Valued \ {"-t"} -> {}
    [] OTHER -> {name}
MainConfig == [flags |-> {}, values |-> [o \in Valued |-> ""], tests |-> <<>>, args |-> <<>>, left |-> <<>>,
               sep |-> FALSE, taken |-> 0, end |-> ""]
\* Options that take a word are none without it.  The words that are used are
\* removed from argv, apart from a --test whose name is a word of its own.
parse_arg(config, argv, i) ==
  LET w == argv[i]
      is(names) == w.name \in names /\ w.eq = <<>>
      next == i < Len(argv)
      Toggled == [config EXCEPT !.flags = @ \cup ArgEffects(w.name)]
      Taking(c) == [c EXCEPT !.taken = i + 1]
  IN  CASE config.sep -> [config EXCEPT !.args = Append(@, w)]
        [] ~config.sep /\ is(Toggles) -> Toggled
        [] ~config.sep /\ is(Valued) /\ next -> Taking([Toggled EXCEPT !.values[w.name] = argv[i + 1].name])
        [] ~config.sep /\ w.name = "--test" ->
             IF w.eq = <<>> /\ next THEN Taking([Toggled EXCEPT !.tests = Append(@, argv[i + 1].name), !.left = Append(@, w)])
             ELSE [Toggled EXCEPT !.tests = @ \o w.eq]
        [] ~config.sep /\ (is(Endings) \/ (is({"--blake3"}) /\ next)) -> [config EXCEPT !.end = "exit"]
        [] ~config.sep /\ is({"--"}) -> [config EXCEPT !.sep = TRUE]
        [] ~config.sep /\ w.dash /\ ~is(Toggles \cup Endings \cup {"--"}) /\ w.name # "--test" /\ ~(next /\ is(Valued \cup {"--blake3"})) ->
             [config EXCEPT !.end = "fatal_error"]
        [] ~config.sep /\ ~w.dash -> [config EXCEPT !.args = Append(@, w)]
parse_args(argv) ==
  FoldLeft(LAMBDA config, i : IF config.end # "" \/ config.taken = i THEN config ELSE parse_arg(config, argv, i),
           MainConfig, [i \in DOMAIN argv |-> i])

\* Options mean the same wherever they stand, a later value replaces an earlier
\* one and is never taken for an option; what follows `--' is never one either,
\* and arguments keep their order.
ArgsFaithful(name, value, argv) ==
  LET option == [name |-> name, dash |-> TRUE, eq |-> <<>>]
      sep == [name |-> "--", dash |-> TRUE, eq |-> <<>>]
      plain(c) == [c EXCEPT !.taken = 0]
  IN  \A c \in {parse_args(argv)} :
        /\ name \in Toggles =>
             plain(parse_args(<<option>> \o argv)) = [plain(c) EXCEPT !.flags = @ \cup ArgEffects(name)]
        /\ name \in Valued =>
             plain(parse_args(<<option, value>> \o argv)) =
               [plain(c) EXCEPT !.flags = @ \cup ArgEffects(name), !.values[name] = IF @ = "" THEN value.name ELSE @]
        /\ c.end = "" /\ (argv = <<>> \/ Last(argv).name \notin Valued \cup {"--test", "--blake3"}) =>
             parse_args(argv \o <<sep, option, value>>).args = c.args \o (IF c.sep THEN <<sep>> ELSE <<>>) \o <<option, value>>
        /\ \A k \in DOMAIN c.left : c.left[k].name = "--test" /\ c.left[k].eq = <<>>
=============================================================================
