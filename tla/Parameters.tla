----------------------------- MODULE Parameters -----------------------------
(* Parameters of src/ase/parameter.cc: construction from a Param, hints,      *)
(* ranges and choices, how values are constrained, normalised and shown as    *)
(* text.  Numbers are integers in thousandths, hints are sequences of words,  *)
(* texts are sequences of character codes.                                    *)
EXTENDS Text

One == 1000
Hz == "Hz"
kHz == "kHz"
Number(n) == [type |-> "number", n |-> n, s |-> <<>>]
String(s) == [type |-> "string", n |-> 0, s |-> s]
NoRange == [min |-> 0, max |-> 0, step |-> 0]

-----------------------------------------------------------------------------
(* Construction                                                               *)

STANDARD == <<"r", "w", "S", "G">>
\* Options of "more" are added unless the hints have them already.
construct_hints(hints, more, pmin, pmax) ==
  LET Added(h, word, needed) == IF needed /\ word \notin ToSet(h) THEN Append(h, word) ELSE h
      h0 == IF hints = <<>> THEN STANDARD ELSE hints
      h1 == Added(h0, "bidir", pmax > 0 /\ pmax = -pmin)
      h2 == Added(h1, "range", pmin # pmax)
  IN  FoldLeft(LAMBDA h, word : Added(h, word, TRUE), h2, more)

\* The range of the C++ type of the initial value; wider types than the model's
\* integers have the range of the widest.
TypeRanges ==
  [bool |-> [min |-> 0, max |-> 1, step |-> 1], int8 |-> [min |-> -128, max |-> 127, step |-> 1],
   uint8 |-> [min |-> 0, max |-> 255, step |-> 1], int16 |-> [min |-> -32768, max |-> 32767, step |-> 1],
   uint16 |-> [min |-> 0, max |-> 65536, step |-> 1], double |-> [min |-> -1000000, max |-> 1000000, step |-> 0],
   text |-> [min |-> 0, max |-> 1000000, step |-> 1]]
minmaxstep_from_initialval(type) ==
  LET range == TypeRanges[type] IN [min |-> range.min * One, max |-> range.max * One, step |-> range.step * One]

\* A Param: type and value of its initial value, extras ("range", "choices" or
\* a function that lists choices), hints and unit.
Parameter(p) ==
  LET isfunc == p.extras.kind = "func"
      ischoice == isfunc \/ p.extras.kind = "choices"
      given == IF ischoice THEN NoRange ELSE p.extras.range
      bytype == ~ischoice /\ given.min = given.max
      more == (IF isfunc \/ p.initial.type = "string" THEN <<"text">> ELSE <<>>)
              \o (IF ischoice THEN <<"choice">> ELSE <<>>) \o (IF isfunc THEN <<"dynamic">> ELSE <<>>)
              \o (IF bytype /\ p.type = "bool" THEN <<"stepped">> ELSE <<>>)
  IN  [choices |-> IF ischoice THEN p.extras.choices ELSE <<>>,
       hasrange |-> ~ischoice,
       given |-> IF bytype THEN minmaxstep_from_initialval(p.type) ELSE given,
       initial |-> p.initial, unit |-> p.unit,
       hints |-> construct_hints(p.hints, more, given.min, given.max)]

has_hint(par, hint) == hint \in ToSet(par.hints)
is_choice(par) == has_hint(par, "choice")
is_text(par) == has_hint(par, "text")
\* A choice's range are its positions; without choices the range is undefined.
range(par) ==
  CASE par.hasrange -> par.given
    [] par.choices # <<>> -> [min |-> 0, max |-> (Len(par.choices) - 1) * One, step |-> One]
    [] OTHER -> NoRange
is_numeric(par) == ~is_text(par) /\ range(par).min # range(par).max

-----------------------------------------------------------------------------
(* Values                                                                     *)

normalize(par, val) ==     \* as a fraction <<dividend, divisor>>
  LET r == range(par) IN IF r.max = r.min THEN <<0, 1>> ELSE <<val - r.min, r.max - r.min>>
rescale(par, t) == LET r == range(par) IN r.min + (t[1] * (r.max - r.min)) \div t[2]

\* An exact match, or the first of the least distant choices; the distance is
\* relative to the longer of both texts.
Nearest(dist, longest) ==
  LET Nearer(i, k) == dist[i] * longest[k] < dist[k] * longest[i]
      Better(best, i) == IF longest[i] > 0 /\ (best = 0 \/ Nearer(i, best)) THEN i ELSE best
  IN  FoldLeft(Better, 0, [i \in DOMAIN dist |-> i])
match_choice(choices, text) ==
  LET ltext == string_tolower(text)
      exact == {i \in DOMAIN choices : choices[i] = text}
      dist == [i \in DOMAIN choices |-> damerau_levenshtein_restricted(string_tolower(choices[i]), ltext, 1, 1, 1, 1)]
      longest == [i \in DOMAIN choices |-> MaxOf({Len(choices[i]), Len(ltext)})]
  IN  IF exact # {} THEN Least(exact) - 1 ELSE MaxOf({0, Nearest(dist, longest) - 1})

\* mutant: rounds up, past the maximum
SteppedUp(r, val) == r.min + ((val - r.min + r.step - 1) \div r.step) * r.step
\* Rounds halfway cases down, then limits to the maximum again.
Stepped(r, val) ==
  LET t == (2 * (val - r.min) - r.step + 2 * r.step - 1) \div (2 * r.step)
      v == r.min + t * r.step
  IN  IF v > r.max THEN r.max ELSE v
Truncated(value) == IF value.n < 0 THEN -((-value.n) \div One) ELSE value.n \div One
\* string_to_double() of a shown text is the number before the unit.
Selected(par, value) ==
  LET i == Truncated(value) IN
  CASE value.type = "number" /\ i \in 0..(Len(par.choices) - 1) -> i
    [] value.type = "string" -> match_choice(par.choices, value.s)
    [] OTHER -> 0
dconstrain(par, value) ==
  LET r == range(par)
      low == IF value.n < r.min THEN r.min ELSE value.n
      val == IF low > r.max THEN r.max ELSE low
  IN  CASE is_choice(par) -> IF par.choices # <<>> THEN Selected(par, value) * One ELSE par.initial.n
        [] ~is_choice(par) /\ is_text(par) -> value.n
        [] OTHER -> CASE r.max = r.min -> r.min
                      [] r.step > 0 /\ has_hint(par, "stepped") -> Stepped(r, val)
                      [] OTHER -> val
constrain(par, value) ==
  CASE is_choice(par) -> IF par.choices # <<>> THEN String(par.choices[Selected(par, value) + 1]) ELSE par.initial
    [] ~is_choice(par) /\ is_text(par) -> [value EXCEPT !.type = "string"]
    [] OTHER -> Number(dconstrain(par, value))

\* Numbers are shown with at most two fractional digits; large frequencies in
\* kHz.  A shown number is [n, unit].
Abs(n) == IF n < 0 THEN -n ELSE n
Rounded(n, unit) ==
  LET half == ((2 * Abs(n) + unit) \div (2 * unit)) * unit IN IF n < 0 THEN -half ELSE half
Digit(n) == CASE Abs(n) < 10 * One -> One \div 100 [] Abs(n) < 100 * One -> One \div 10 [] OTHER -> One
value_to_text(par, value) ==
  LET large == par.unit = Hz /\ Abs(value.n) >= 1000 * One
      val == IF large THEN value.n \div 1000 ELSE value.n
  IN  CASE is_choice(par) -> [n |-> 0, unit |-> "", s |-> constrain(par, value).s]
        [] ~is_choice(par) /\ value.type = "string" -> [n |-> 0, unit |-> "", s |-> value.s]
        [] OTHER -> [n |-> Rounded(val, Digit(val)), unit |-> IF large THEN kHz ELSE par.unit, s |-> <<>>]
\* string_to_double() reads the number and leaves the unit alone.
value_from_text(par, text) ==
  CASE is_choice(par) -> Number(match_choice(par.choices, text.s) * One)
    [] ~is_choice(par) /\ is_text(par) -> constrain(par, [type |-> "string", n |-> text.n, s |-> text.s])
    [] OTHER -> constrain(par, Number(text.n))

-----------------------------------------------------------------------------
(* Short names, parameter_guess_nick(): words of the label, numbers separate. *)

IsDigit(c) == c \in Digits
IsAlnum(c) == c \in Alnum
Letter(w, i) == IF i \in 1..Len(w) THEN w[i] ELSE 0
Cut(w, i, n) == SubSeq(w, i, IF i + n - 1 < Len(w) THEN i + n - 1 ELSE Len(w))
spaced_nums(s) ==
  FlattenSeq([i \in DOMAIN s |->
    IF i > 1 /\ IsDigit(s[i]) /\ ~IsDigit(s[i - 1]) /\ s[i - 1] \notin Whitespaces THEN <<32, s[i]>> ELSE <<s[i]>>])
FirstOf(S) == IF S = {} THEN 0 ELSE Least(S)
search_first_digit(w) == FirstOf({i \in DOMAIN w : IsDigit(w[i])})
search_last_digits(w) ==
  FirstOf({i \in DOMAIN w : IsDigit(w[i]) /\ (~IsAlnum(Letter(w, i + 1)) \/ (IsDigit(Letter(w, i + 1)) /\ ~IsAlnum(Letter(w, i + 2))))})
words_of(s) == string_vector_erase_empty(string_split(string_canonify(s, Alnum \cup {95}, <<32>>), <<32>>, NoLimit))
Nick3(words) ==
  LET n == Len(words)
      w1 == words[1]
      w2 == words[2]
      lastw == words[n]
      d == search_first_digit(w1)
      e == search_last_digits(w2)
      late == {i \in 3..n : search_last_digits(words[i]) > 0}
      i == IF late = {} THEN 2 ELSE Greatest(late)
      f == IF late = {} THEN 0 ELSE search_last_digits(words[i])
  IN  CASE n = 1 ->
             (CASE d > 1 /\ IsDigit(Letter(w1, d + 1)) -> <<Cut(w1, 1, 1), Cut(w1, d, 2), <<>>>>
                [] d > 1 /\ ~IsDigit(Letter(w1, d + 1)) -> <<Cut(w1, 1, 2), Cut(w1, d, 1), <<>>>>
                [] OTHER -> <<Cut(w1, 1, 3), <<>>, <<>>>>)
        [] n = 2 ->
             (CASE e > 0 /\ IsDigit(Letter(w2, e + 1)) -> <<Cut(w1, 1, 1), Cut(w2, e, 2), <<>>>>
                [] e > 1 /\ ~IsDigit(Letter(w2, e + 1)) -> <<Cut(w1, 1, 1), Cut(w2, 1, 1), Cut(w2, e, 1)>>
                [] e = 1 /\ ~IsDigit(Letter(w2, e + 1)) -> <<Cut(w1, 1, 2), Cut(w2, e, 1), <<>>>>
                [] e = 0 /\ d > 1 -> <<Cut(w1, 1, 1), Cut(w1, d, 1), Cut(w2, 1, 1)>>
                [] e = 0 /\ d <= 1 /\ Len(w2) > 1 -> <<Cut(w1, 1, 1), Cut(w2, 1, 2), <<>>>>
                [] OTHER -> <<Cut(w1, 1, 2), Cut(w2, 1, 1), <<>>>>)
        [] n >= 3 ->
             (CASE f > 0 /\ IsDigit(Letter(words[i], f + 1)) -> <<Cut(w1, 1, 1), Cut(words[i], f, 2), <<>>>>
                [] f > 0 /\ ~IsDigit(Letter(words[i], f + 1)) /\ i < n ->
                     <<Cut(w1, 1, 1), Cut(words[i], f, 1), Cut(words[i + 1], 1, 1)>>
                [] f > 1 /\ ~IsDigit(Letter(words[i], f + 1)) /\ i = n ->
                     <<Cut(w1, 1, 1), Cut(words[i], 1, 1), Cut(words[i], f, 1)>>
                [] f = 1 /\ ~IsDigit(Letter(words[i], f + 1)) /\ i = n ->
                     <<Cut(w1, 1, 1), Cut(IF i >= 4 THEN words[i - 1] ELSE w2, 1, 1), Cut(words[i], f, 1)>>
                [] f = 0 /\ Len(lastw) >= 2 -> <<Cut(w1, 1, 1), Cut(lastw, 1, 2), <<>>>>
                [] OTHER -> <<Cut(w1, 1, 1), Cut(lastw, 1, 1), Cut(lastw, 1, 1)>>)
        [] OTHER -> <<<<>>, <<>>, <<>>>>
make_nick3(label) == Nick3(words_of(label))
Joined(abc) ==
  CASE abc[3] # <<>> -> Cut(abc[1], 1, 1) \o Cut(abc[2], 1, 1) \o Cut(abc[3], 1, 1)
    [] abc[3] = <<>> /\ abc[2] # <<>> -> Cut(abc[1], 1, 1) \o Cut(abc[2], 1, 2)
    [] OTHER -> Cut(abc[1], 1, 3)
parameter_guess_nick(label) == Joined(make_nick3(spaced_nums(label)))

-----------------------------------------------------------------------------
\* A constrained value is in range and stays as it is when it is constrained
\* again, as a value or as the text of a choice; normalising and rescaling, or
\* showing it and reading the text, lead back to it, but for the digits that
\* are not shown and for frequencies that are shown in kHz.
ValuesSettle(par, value) ==
  \A c \in {constrain(par, value)}, d \in {dconstrain(par, value)} :
    \A shown \in {value_to_text(par, c)} : \A back \in {value_from_text(par, shown)} :
      /\ constrain(par, c) = c
      /\ is_choice(par) => constrain(par, Number(d)) = c /\ constrain(par, back) = c
      /\ is_numeric(par) /\ ~is_choice(par) =>
           /\ d >= range(par).min /\ d <= range(par).max
           /\ range(par).max - range(par).min < 40 * One => rescale(par, normalize(par, d)) = d
           /\ shown.unit # kHz => value_to_text(par, back).n = shown.n \/ has_hint(par, "stepped")

\* "Set the current property value as a text String": a text that was shown for
\* a value sets about this value.
TextSetsValue(par, value) ==
  LET d == dconstrain(par, value) IN
  is_numeric(par) /\ ~is_choice(par) => Abs(value_from_text(par, value_to_text(par, Number(d))).n - d) <= Digit(d)

\* The short name of a label with letters has one to three characters, all of
\* them from the label, and begins with its first letter or digit.
NickAbbreviates(label) ==
  \A nick \in {parameter_guess_nick(label)}, words \in {words_of(label)} : words # <<>> =>
    /\ Len(nick) \in 1..3 /\ ToSet(nick) \subseteq ToSet(label)
    /\ nick[1] = words[1][1]
=============================================================================
