------------------------------ MODULE Storage -------------------------------
(***************************************************************************)
(* What is stored in files: paths and search paths, INI files, and the     *)
(* object trees of projects.                                               *)
(***************************************************************************)
EXTENDS Text

-----------------------------------------------------------------------------
(* File names and search paths of src/ase/path.cc on Unix, where the only     *)
(* directory separator is the slash and there are no drive letters.          *)

Slash == 47
Dot == 46
Tilde == 126
Colon == 58
SearchpathSeparators == {58, 59}
EndsWith(s, c) == s # <<>> /\ s[Len(s)] = c
BeginsWith(s, c) == s # <<>> /\ s[1] = c
Positions(s, c) == {i \in DOMAIN s : s[i] = c}

basename(path) == IF Positions(path, Slash) = {} THEN path ELSE From(path, Greatest(Positions(path, Slash)) + 1)
dir_terminate(path) == IF EndsWith(path, Slash) THEN path ELSE Append(path, Slash)
strip_slashes(path) ==
  IF path = <<>> THEN path
  ELSE SubSeq(path, 1, Greatest({1} \cup {i \in DOMAIN path : path[i] # Slash}))
isabs(path) == BeginsWith(path, Slash)

\* A slash takes a dot behind it along.
isroot(path) ==
  LET root[i \in 1..(Len(path) + 1)] ==
        CASE i > Len(path) -> TRUE
          [] i \in DOMAIN path /\ path[i] # Slash -> FALSE
          [] i < Len(path) /\ path[i] = Slash /\ path[i + 1] = Dot -> root[i + 2]
          [] OTHER -> root[i + 1]
  IN  isabs(path) /\ root[1]

isdirname(path) ==
  \/ path \in {<<Dot>>, <<Dot, Dot>>}
  \/ \E tail \in {<<Slash>>, <<Slash, Dot>>, <<Slash, Dot, Dot>>} :
       Len(path) >= Len(tail) /\ From(path, Len(path) - Len(tail) + 1) = tail

\* head and tail with exactly one joiner between them, unless one has several.
join_with(head, joiner, tail) ==
  CASE head = <<>> -> tail
    [] tail = <<>> -> head
    [] EndsWith(head, joiner) /\ BeginsWith(tail, joiner) -> head \o Tail(tail)
    [] EndsWith(head, joiner) \/ BeginsWith(tail, joiner) -> head \o tail
    [] OTHER -> head \o <<joiner>> \o tail
join(head, tail) == join_with(head, Slash, tail)
abspath(path, incwd, program_cwd, cwd) ==
  LET start == IF program_cwd # <<>> THEN program_cwd ELSE cwd IN
  CASE isabs(path) -> path
    [] incwd = <<>> -> join(start, path)
    [] OTHER -> IF isabs(join(incwd, path)) THEN join(incwd, path) ELSE join(start, join(incwd, path))

\* The dot is searched from the last slash or backslash on.
split_extension(path, lastdot) ==
  LET slash == Greatest({1} \cup Positions(path, Slash) \cup Positions(path, Backslash))
      dots == {i \in Positions(path, Dot) : i >= slash}
      dot == IF lastdot THEN Greatest(dots) ELSE Least(dots)
  IN  IF dots = {} THEN <<path, <<>>>> ELSE <<SubSeq(path, 1, dot - 1), From(path, dot)>>

\* home(user) is the home directory, empty if there is no such user.
expand_tilde(path, home(_)) ==
  LET end == Least(Positions(path, Slash) \cup {Len(path) + 1})
      userhome == home(SubSeq(path, 2, end - 1))
  IN  IF ~BeginsWith(path, Tilde) \/ userhome = <<>> THEN path ELSE join(userhome, From(path, end))
skip_root(path) ==
  LET names == {i \in DOMAIN path : path[i] # Slash} IN IF names = {} THEN <<>> ELSE From(path, Least(names))

\* The loop erases from dirs in place and steps i back over what it erased.
SimplifyStep(dirs, i) ==
  CASE dirs[i] \in {<<>>, <<Dot>>} -> [dirs |-> RemoveAt(dirs, i), i |-> i]
    [] dirs[i] = <<Dot, Dot>> /\ i = 1 -> [dirs |-> RemoveAt(dirs, 1), i |-> 1]
    [] dirs[i] = <<Dot, Dot>> -> [dirs |-> RemoveAt(RemoveAt(dirs, i), i - 1), i |-> i - 1]
    [] OTHER -> [dirs |-> dirs, i |-> i + 1]
simplify_abspath(path) ==
  LET dirs == string_split(path, <<Slash>>, NoLimit)
      Loop(acc, n) == IF acc.i > Len(acc.dirs) THEN acc ELSE SimplifyStep(acc.dirs, acc.i)
  IN  <<Slash>> \o string_join(<<Slash>>, FoldLeft(Loop, [dirs |-> dirs, i |-> 1], dirs).dirs)

-----------------------------------------------------------------------------
(* Search paths.                                                             *)

searchpath_split(searchpath) ==
  Split(searchpath, {i \in DOMAIN searchpath : searchpath[i] \in SearchpathSeparators}, 1, NoLimit, FALSE)
searchpath_join(head, tail) == join_with(head, Colon, tail)
\* An element that ends in a slash is a directory, its slash is optional in the
\* search path.  An empty element is never looked for: the loop would not end.
searchpath_contains(searchpath, element) ==
  LET dirsearch == EndsWith(element, Slash)
      needle == IF dirsearch /\ Len(element) > 1 THEN SubSeq(element, 1, Len(element) - 1) ELSE element
      Ends(i) == i > Len(searchpath) \/ searchpath[i] \in SearchpathSeparators
      Matches(pos) ==
        LET end == pos + Len(needle) IN
        /\ pos = 1 \/ searchpath[pos - 1] \in SearchpathSeparators
        /\ Ends(IF dirsearch /\ end <= Len(searchpath) /\ searchpath[end] = Slash THEN end + 1 ELSE end)
      find[pos \in 1..(Len(searchpath) + 1)] ==
        LET hits == {i \in Found(searchpath, needle) : i >= pos} IN
        hits # {} /\ (Matches(Least(hits)) \/ find[Least(hits) + Len(needle)])
  IN  find[1]
\* The first file that passes check().
searchpath_find(searchpath, file, check(_)) ==
  LET found == SelectSeq([i \in DOMAIN searchpath_split(searchpath) |-> join(searchpath_split(searchpath)[i], file)], check)
  IN  CASE isabs(file) -> IF check(file) THEN file ELSE <<>>
        [] found = <<>> -> <<>>
        [] OTHER -> found[1]
searchpath_list(searchpath, check(_)) == SelectSeq(searchpath_split(searchpath), check)
Products(elements, postfixes) ==
  FlattenSeq([i \in DOMAIN elements |-> [j \in DOMAIN postfixes |-> join(elements[i], postfixes[j])]])
searchpath_multiply(searchpath, postfixes) ==
  FoldLeft(searchpath_join, <<>>, Products(searchpath_split(searchpath), searchpath_split(postfixes)))
vpath_find(file, vpath, check(_)) ==
  LET here == searchpath_find(<<Dot>>, file, check)
      there == searchpath_find(vpath, file, check)
  IN  IF here # <<>> THEN here ELSE IF there # <<>> THEN there ELSE file

-----------------------------------------------------------------------------
(* What check() tells of a file: kind "none" if there is none, "link" for a    *)
(* symbolic link with the file it leads to in .target.                         *)

KindLetters == [f |-> "file", d |-> "dir", c |-> "char", b |-> "block", p |-> "pipe", S |-> "socket"]
errno_check_file(file, mode) ==
  LET follow == IF file.kind = "link" THEN file.target ELSE file
      check_link == mode \cap {"L", "h"} # {}
      access == mode \cap {"e", "r", "w", "x"}
      st == IF check_link THEN file ELSE follow
      kinds == {KindLetters[k] : k \in DOMAIN KindLetters \cap mode} \cup (IF check_link THEN {"link"} ELSE {})
  IN  CASE access # {} /\ follow.kind = "none" -> "ENOENT"
        [] ~(access \subseteq follow.access \cup {"e"}) -> "EACCES"
        [] mode \subseteq {"e", "r", "w"} -> "ok"
        [] st.kind = "none" -> "ENOENT"
        [] "z" \in mode /\ st.size # 0 -> "EFBIG"
        [] "s" \in mode /\ st.size = 0 -> "ENODATA"
        [] st.kind = "dir" /\ kinds \cap {"file", "link", "char", "block", "pipe"} # {} -> "EISDIR"
        [] kinds \ {st.kind} # {} -> "EKIND"       \* the errno differs with the kind
        [] "x" \in mode /\ "x" \notin st.access -> "EACCES"
        [] OTHER -> "ok"
check(file, mode) == mode # {} /\ errno_check_file(file, mode) = "ok"

-----------------------------------------------------------------------------
(* Files that are served over HTTP (src/ase/websocket.cc).  The server is       *)
(* [dir, aliases, ignores]; `ignores' are the URLs that .aseignore matches.     *)

http_dir(path, ignores) == [dir |-> path, aliases |-> <<>>, ignores |-> ignores]
\* Longer URLs come first, equal ones in the order they were added.
http_alias(server, webdir, path) ==
  LET longer == {k \in DOMAIN server.aliases : Len(server.aliases[k].url) >= Len(webdir)}
  IN  [server EXCEPT !.aliases = InsertAt(@, Cardinality(longer) + 1, [url |-> webdir, path |-> path])]
Below(path, dir) == path = dir \/ (Len(path) > Len(dir) /\ SubSeq(path, 1, Len(dir)) = dir /\ path[Len(dir) + 1] = Slash)
map_absurl(server, absurl) ==
  LET hits == {k \in DOMAIN server.aliases : Below(absurl, server.aliases[k].url)}
      alias == server.aliases[Least(hits)]
  IN  CASE server.dir = <<>> \/ absurl \in server.ignores -> <<>>
        [] server.dir # <<>> /\ absurl \notin server.ignores /\ hits = {} -> join(server.dir, absurl)
        [] OTHER -> IF absurl = alias.url THEN alias.path ELSE join(alias.path, From(absurl, Len(alias.url) + 1))
map_url(server, urlpath) == map_absurl(server, simplify_abspath(string_url_decode(urlpath, FALSE)))

\* types: the words of the lines of mime-types.hh, a type and its extensions.
mime_type(types, ext, utf8) ==
  LET lines == {k \in DOMAIN types : \E i \in 2..Len(types[k]) : types[k][i] = ext}
      type == IF lines = {} THEN "application/octet-stream" ELSE types[Greatest(lines)][1]
  IN  <<type>> \o (IF utf8 /\ type \in {"text/html", "text/markdown", "text/plain"} THEN <<"charset=utf-8">> ELSE <<>>)
\* `files' and `dirs' are the paths that Path::check() finds.
index_file(path, dirs) == IF path \in dirs THEN join(path, <<105>>) ELSE path
\* The extension is searched in the whole path.
serve_file(filepath, canzip, types, files) ==
  LET fp == filepath \in files
      fz == ~fp /\ canzip /\ filepath \o <<Dot, 122>> \in files
      dots == Positions(filepath, Dot)
      mimetype == mime_type(types, IF dots = {} THEN <<>> ELSE From(filepath, Greatest(dots) + 1), TRUE)
  IN  IF filepath = <<>> \/ (~fp /\ ~fz) THEN [status |-> 404, body |-> <<>>, type |-> <<"text/html", "charset=utf-8">>, forever |-> FALSE, gzip |-> FALSE]
      ELSE [status |-> 200, body |-> filepath \o (IF fz THEN <<Dot, 122>> ELSE <<>>), type |-> mimetype, forever |-> mimetype = <<"text/css">>, gzip |-> fz]
http_request(server, resource, canzip, types, files, dirs) ==
  serve_file(index_file(map_url(server, string_split(resource, <<63>>, NoLimit)[1]), dirs), canzip, types, files)

-----------------------------------------------------------------------------
\* A walk from the root: a name enters a directory, ".." leaves it.
Walk(path) ==
  FoldLeft(LAMBDA at, name : CASE name \in {<<>>, <<Dot>>} -> at
                               [] name = <<Dot, Dot>> -> IF at = <<>> THEN at ELSE SubSeq(at, 1, Len(at) - 1)
                               [] OTHER -> Append(at, name),
           <<>>, string_split(path, <<Slash>>, NoLimit))

\* A simplified path leads where the path leads and is the same for all paths
\* that lead there, only paths that stay at the root are the root, a path is
\* its extension behind the rest, and the extension is none of a directory's.
PathCanonical(path) ==
  LET simple == simplify_abspath(path) IN
  /\ Walk(simple) = Walk(path) /\ simplify_abspath(simple) = simple
  /\ Len(simple) = 1 \/ ~EndsWith(simple, Slash)
  /\ isroot(path) = (isabs(path) /\ \A i \in DOMAIN string_split(path, <<Slash>>, NoLimit) :
                                      string_split(path, <<Slash>>, NoLimit)[i] \in {<<>>, <<Dot>>})
  /\ \A lastdot \in BOOLEAN :
       LET parts == split_extension(path, lastdot)
       IN  parts[1] \o parts[2] = path /\ Positions(parts[2], Slash) = {}
  /\ Walk(join(<<Slash, 98>>, path)) = Walk(<<Slash, 98, Slash>> \o path)
  /\ Walk(strip_slashes(path)) = Walk(path) /\ Walk(<<Slash>> \o skip_root(path)) = Walk(path)
  /\ isdirname(path) => simplify_abspath(dir_terminate(path)) = simple

\* What is served lies below the directory of the longest alias that leads to
\* the URL (the first of equal ones), whatever way the URL takes; it is the file itself or
\* its compressed form; the answer does not depend on the order the aliases were added in.
HttpFaithful(first, second, resource, canzip, types, files, dirs) ==
  LET ignored == {<<Slash, 120>>}
      aliased(a, b) == http_alias(http_alias(http_dir(<<Slash, 119>>, ignored), a.url, a.path), b.url, b.path)
      request(a, b) == http_request(aliased(a, b), resource, canzip, types, files, dirs)
      leads(a, b, url) == Below(url, a.url) /\ (Below(url, b.url) => Len(a.url) >= Len(b.url))
      root(url) == CASE leads(first, second, url) -> first
                     [] leads(second, first, url) /\ ~leads(first, second, url) -> second
                     [] OTHER -> [path |-> <<Slash, 119>>, url |-> <<>>]
  IN  \A url \in {simplify_abspath(string_url_decode(string_split(resource, <<63>>, NoLimit)[1], FALSE))} :
      \A alias \in {root(url)}, answer \in {request(first, second)}, other \in {request(second, first)} :
      \A expected \in {simplify_abspath(alias.path \o From(url, Len(alias.url) + 1))} :
        /\ answer.status = 200 =>
             \A name \in {SubSeq(answer.body, 1, Len(answer.body) - (IF answer.gzip THEN 2 ELSE 0))} :
               /\ url \notin ignored /\ answer.body \in files /\ Below(name, alias.path) /\ (answer.gzip => canzip)
               /\ simplify_abspath(name) \in {expected, simplify_abspath(join(expected, <<105>>))}
        /\ expected \in files \ dirs /\ url \notin ignored => answer.status = 200
        /\ first.url # second.url => answer = other

\* An element is found in a search path if and only if it is one of the
\* elements it splits into, and a product has all combinations in order.
SearchpathFaithful(searchpath, element) ==
  LET dir == EndsWith(element, Slash)
      needle == IF dir /\ Len(element) > 1 THEN SubSeq(element, 1, Len(element) - 1) ELSE element
      parts == searchpath_split(searchpath)
  IN  /\ searchpath_contains(searchpath, element) =
           \E i \in DOMAIN parts : parts[i] = needle \/ (dir /\ parts[i] = Append(needle, Slash))
      /\ \A postfixes \in {<<97>>, <<97, Colon, 98>>} :
           searchpath_split(searchpath_multiply(searchpath, postfixes)) = Products(parts, searchpath_split(postfixes))

-----------------------------------------------------------------------------
(* INI files of src/ase/inifile.cc: the parser that reads user-dirs.dirs and  *)
(* the writer whose output it is said to parse.  Text is a sequence of bytes, *)
(* a position behind its end reads as the terminating NUL; 0 stands for a     *)
(* parser that failed.                                                        *)

Newline == 10
Return == 13
Comments == {35, 59}            \* # ;
Blanks == Whitespaces \ {Newline}
CharAt(s, i) == IF i \in DOMAIN s THEN s[i] ELSE 0
skip_whitespaces(s, i) == Least({k \in i..(Len(s) + 1) : CharAt(s, k) \notin Blanks})

\* The position behind the terminator, 0 if there is none.
scan_escaped(s, i, term) ==
  LET scan[k \in 1..(Len(s) + 1)] ==
        CASE k > Len(s) -> 0
          [] CharAt(s, k) = term -> k + 1
          [] CharAt(s, k) = Backslash /\ k < Len(s) -> scan[k + 2]
          [] OTHER -> scan[k + 1]
  IN  scan[i]

\* Text up to the end of the line, a comment or a character of term, with
\* quoted strings and without line continuations.
scan_value(s, start, term) ==
  LET scan[i \in 1..(Len(s) + 2)] ==
        LET c == CharAt(s, i)
            next == CharAt(s, i + 1)
            Then(text, k) == [scan[k] EXCEPT !.text = text \o @]
            close == scan_escaped(s, i + 1, c)
        IN  CASE i > Len(s) \/ c \in Comments \cup {Newline} -> [pos |-> i, text |-> <<>>]
              [] c = Backslash /\ next = Newline -> scan[i + 2]
              [] c = Backslash /\ next = Return /\ CharAt(s, i + 2) = Newline -> scan[i + 3]
              [] c = Backslash -> IF next = 0 THEN scan[i + 1] ELSE Then(<<c, next>>, i + 2)
              [] c \in {Quote, 39} -> IF close = 0 THEN [pos |-> 0, text |-> <<>>]
                                      ELSE Then(SubSeq(s, i, close - 1), close)
              [] c = Return -> IF next \in {0, Newline} THEN scan[i + 1] ELSE Then(<<32>>, i + 1)
              [] c \in term -> [pos |-> i, text |-> <<>>]
              [] OTHER -> Then(<<c>>, i + 1)
  IN  [scan[start] EXCEPT !.text = string_rstrip(@)]

EndOfLine(s, i) == Least({k \in i..(Len(s) + 1) : CharAt(s, k) \in {0, Newline}})
skip_line(s, i) == Smallest(EndOfLine(s, i) + 1, Len(s) + 1)
skip_commentline(s, i) == IF CharAt(s, skip_whitespaces(s, i)) \in Comments THEN skip_line(s, i) ELSE 0
skip_to_eol(s, i) ==
  LET k == IF CharAt(s, i) = Return THEN i + 1 ELSE i IN
  CASE CharAt(s, i) \in Comments -> skip_commentline(s, i)
    [] CharAt(s, k) = Newline -> k + 1
    [] CharAt(s, k) = 0 -> k
    [] OTHER -> 0

Failed == [pos |-> 0]
\* [ section ]
AfterName(s, name) ==
  LET close == skip_whitespaces(s, name.pos)
      end == skip_to_eol(s, skip_whitespaces(s, close + 1))
  IN  IF name.pos = 0 \/ CharAt(s, close) # 93 \/ end = 0 THEN Failed ELSE [pos |-> end, section |-> name.text]
parse_section(s, i) ==
  LET open == skip_whitespaces(s, i) IN
  IF CharAt(s, open) # 91 THEN Failed ELSE AfterName(s, scan_value(s, skip_whitespaces(s, open + 1), {91, 93}))
\* key [ locale ] = value, or with a colon
AfterValue(s, key, value) ==
  LET end == skip_to_eol(s, value.pos) IN
  IF value.pos = 0 \/ end = 0 THEN Failed ELSE [pos |-> end, value |-> value.text, key |-> key]
AfterEquals(s, key, equals) ==
  IF CharAt(s, equals) \notin {61, 58} THEN Failed ELSE AfterValue(s, key, scan_value(s, skip_whitespaces(s, equals + 1), {}))
AfterLocale(s, key, locale) ==
  LET close == skip_whitespaces(s, locale.pos)
      localized == IF locale.text = <<>> THEN key ELSE key \o <<91>> \o locale.text \o <<93>>
  IN  IF locale.pos = 0 \/ CharAt(s, close) # 93 THEN Failed ELSE AfterEquals(s, localized, skip_whitespaces(s, close + 1))
AfterKey(s, key) ==
  LET open == skip_whitespaces(s, key.pos) IN
  CASE key.pos = 0 -> Failed
    [] key.pos > 0 /\ CharAt(s, open) = 91 -> AfterLocale(s, key.text, scan_value(s, skip_whitespaces(s, open + 1), {91, 93}))
    [] OTHER -> AfterEquals(s, key.text, open)
parse_assignment(s, i) == AfterKey(s, scan_value(s, skip_whitespaces(s, i), {91, 93, 61, 58}))

\* [branch "devel.wip"] is the section branch.devel.wip.
SectionPath(name) ==
  IF Quote \notin ToSet(name) THEN name
  ELSE LET parts == string_whitesplit(name, NoLimit)
       IN  string_join(<<46>>, [k \in DOMAIN parts |->
             IF parts[k][1] = Quote THEN string_from_cquote(parts[k]) ELSE parts[k]])

\* The assignments in order, each with its section; lines that are neither
\* comment, section nor assignment are skipped.
ParsedLine(data, i) ==
  LET sec == parse_section(data, i) IN IF sec.pos # 0 THEN sec ELSE parse_assignment(data, i)
load_ini(data) ==
  LET lines[i \in 1..(Len(data) + 1)] ==
        LET Onward(line) == IF line.pos = 0 THEN lines[skip_line(data, i)] ELSE <<line>> \o lines[line.pos]
        IN  CASE i > Len(data) -> <<>>
              [] i \in DOMAIN data /\ skip_commentline(data, i) # 0 -> lines[skip_commentline(data, i)]
              [] OTHER -> Onward(ParsedLine(data, i))
      Invalid(section, key) == 61 \in ToSet(section) \/ 46 \in ToSet(key)
      Apply(acc, line) ==
        CASE "section" \in DOMAIN line -> [acc EXCEPT !.section = SectionPath(line.section)]
          [] Invalid(acc.section, line.key) -> acc
          [] OTHER -> [acc EXCEPT !.values = Append(@, [section |-> acc.section, key |-> line.key, value |-> line.value])]
  IN  FoldLeft(Apply, [section |-> <<>>, values |-> <<>>], lines[1]).values

attributes(values, section) ==
  LET mine == SelectSeq(values, LAMBDA v : v.section = section) IN [i \in DOMAIN mine |-> mine[i].key]
\* The value of section.key, the first one if it was assigned repeatedly.
raw_value(values, section, key) ==
  LET hits == {i \in DOMAIN values : values[i].section = section /\ values[i].key = key}
  IN  IF hits = {} THEN <<>> ELSE values[Least(hits)].value
cook_string(s) ==
  LET cook[i \in 1..(Len(s) + 2)] ==
        LET close == scan_escaped(s, i + 1, s[i])
            letters == {c \in DOMAIN Letters \ {7} : Letters[c] = CharAt(s, i + 1)}
        IN  CASE i > Len(s) -> <<>>
              [] CharAt(s, i) = Backslash ->
                   (IF i = Len(s) THEN <<>> ELSE IF letters = {} THEN <<s[i + 1]>> ELSE <<CHOOSE c \in letters : TRUE>>)
                   \o cook[i + 2]
              [] CharAt(s, i) \in {Quote, 39} ->
                   IF close # 0 THEN string_from_cquote(SubSeq(s, i + 1, close - 2)) \o cook[close]
                   ELSE <<CharAt(s, i + 1)>> \o cook[i + 2]
              [] OTHER -> <<s[i]>> \o cook[i + 1]
  IN  cook[1]
value_as_string(values, section, key) == cook_string(raw_value(values, section, key))

-----------------------------------------------------------------------------
(* IniWriter.                                                                *)

\* An assignment replaces the value that the same key has.
set(entries, section, key, value) ==
  LET hits == {i \in DOMAIN entries : entries[i].section = section /\ entries[i].key = key}
      entry == [section |-> section, key |-> key, value |-> value]
  IN  IF hits = {} THEN Append(entries, entry) ELSE [entries EXCEPT ![Least(hits)] = entry]

allowed_chars == Alnum \cup {60, 62, 44, 59, 46, 58, 45, 95, 126, 42, 47, 43, 94, 33, 36, 61, 63}
SectionName(name) ==
  LET dots == {i \in DOMAIN name : name[i] = 46} IN
  IF dots = {} THEN name
  ELSE SubSeq(name, 1, Least(dots) - 1) \o <<32>> \o string_to_cquote(From(name, Least(dots) + 1))
\* Sections in the order of their first assignment.
output(entries) ==
  LET firsts == SelectSeq([i \in DOMAIN entries |-> i],
                          LAMBDA i : \A k \in 1..(i - 1) : entries[k].section # entries[i].section)
      Written(v) == IF string_is_canonified(v, allowed_chars) THEN v ELSE string_to_cquote(v)
      Line(e) == <<9>> \o e.key \o <<32, 61, 32>> \o Written(e.value) \o <<Newline>>
      Block(i) == LET mine == SelectSeq(entries, LAMBDA e : e.section = entries[i].section)
                  IN  <<91>> \o SectionName(entries[i].section) \o <<93, Newline>>
                        \o FlattenSeq([k \in DOMAIN mine |-> Line(mine[k])])
  IN  FlattenSeq([n \in DOMAIN firsts |-> Block(firsts[n])])

-----------------------------------------------------------------------------
ReadBack(sets) ==
  load_ini(output(FoldLeft(LAMBDA e, s : set(e, s.section, s.key, s.value), <<>>, sets)))
Assigned(sets, s) ==
  LET hits == {i \in DOMAIN sets : sets[i].section = s.section /\ sets[i].key = s.key} IN sets[Greatest(hits)].value

\* "To parse the output of this class, refer to the IniFile class": every value
\* that was set last is read back.
IniReadsBack(sets) ==
  \A values \in {ReadBack(sets)} : \A i \in DOMAIN sets :
    value_as_string(values, sets[i].section, sets[i].key) = Assigned(sets, sets[i])

-----------------------------------------------------------------------------
(* Saving and loading object trees: Writ and WritNode of serialize.cc, records *)
(* of value.cc, and what gadgets, clips, device chains, tracks and projects    *)
(* store with them.  A value is [type, ...]; records keep the order of fields. *)

None0 == [type |-> "none"]
IntV(n) == [type |-> "int", n |-> n]
Str(s) == [type |-> "string", s |-> s]
Arr(items) == [type |-> "array", items |-> items]
Rec(fields) == [type |-> "record", fields |-> fields]
Field(name, value) == [name |-> name, value |-> value]
IsRec(v) == v.type = "record"
as_int(v) == IF v.type = "int" THEN v.n ELSE 0
as_string(v) == IF v.type = "string" THEN v.s ELSE <<>>
as_array(v) == IF v.type = "array" THEN v.items ELSE <<>>
as_record(v) == IF IsRec(v) THEN v.fields ELSE <<>>

-----------------------------------------------------------------------------
(* ValueR                                                                     *)

Named(rec, name) == {i \in DOMAIN rec.fields : rec.fields[i].name = name}
has(v, name) == IsRec(v) /\ Named(v, name) # {}
peek(v, name) == IF has(v, name) THEN v.fields[Least(Named(v, name))].value ELSE None0
\* valuep(): the first field of that name, or a new one at the end or in front.
Assign(rec, name, value, front) ==
  CASE Named(rec, name) # {} -> [rec EXCEPT !.fields[Least(Named(rec, name))].value = value]
    [] Named(rec, name) = {} /\ front -> Rec(<<Field(name, value)>> \o rec.fields)
    [] OTHER -> Rec(Append(rec.fields, Field(name, value)))
\* xs[name] & value and xs[name].push() in_save().
Put(rec, name, value) == Assign(rec, name, value, FALSE)
PutFront(rec, name, value) == Assign(rec, name, value, TRUE)
Push(rec, name, value) == Put(rec, name, Arr(Append(as_array(peek(rec, name)), value)))
\* Fields whose name is in names are removed.
filter(v, names) == IF IsRec(v) THEN Rec(SelectSeq(v.fields, LAMBDA f : f.name \notin names)) ELSE v
PutEach(rec, name, items) == FoldLeft(LAMBDA r, v : Push(r, name, v), rec, items)

-----------------------------------------------------------------------------
(* Links between objects.  Serializing a tree visits its objects in an order;  *)
(* a visit is [obj, link]: the object, and the object it links to or 0.        *)

FirstLinkId == 8001
NextId(links) == FirstLinkId + Cardinality({i \in DOMAIN links : links[i].id # 0})
Entries(links, sp) == {i \in DOMAIN links : links[i].sp = sp}
\* links_ after prepare_link(): the object has a record now.
prepare_link(links, sp) ==
  IF Entries(links, sp) # {} THEN [links EXCEPT ![Least(Entries(links, sp))].value = TRUE]
  ELSE Append(links, [sp |-> sp, value |-> TRUE, id |-> 0])
use_link(links, sp) ==
  IF Entries(links, sp) = {} THEN Append(links, [sp |-> sp, value |-> FALSE, id |-> NextId(links)])
  ELSE LET i == Least(Entries(links, sp)) IN IF links[i].id # 0 THEN links ELSE [links EXCEPT ![i].id = NextId(links)]
IdOf(links, sp) == IF Entries(links, sp) = {} THEN 0 ELSE links[Least(Entries(links, sp))].id
\* The stored visits: [obj, id, link]; ids are inserted into the records at the
\* end of saving, link fields hold the id they got while saving.
SaveLinks(visits) ==
  LET Visit(links, v) == LET l == prepare_link(links, v.obj) IN IF v.link = 0 THEN l ELSE use_link(l, v.link)
      links == FoldLeft(Visit, <<>>, visits)
  IN  [i \in DOMAIN visits |-> [obj |-> visits[i].obj, id |-> IdOf(links, visits[i].obj),
                                link |-> IF visits[i].link = 0 THEN 0 ELSE IdOf(links, visits[i].link)]]
\* Loading creates objects in the order of the records; pointers are assigned
\* at the end.
resolve_linkEarly(records, id) ==
  LET hits == {i \in 1..(Len(records) - 1) : records[i].id = id} IN IF hits = {} THEN 0 ELSE records[Least(hits)].obj
resolve_link(records, id) ==
  LET hits == {i \in DOMAIN records : records[i].id = id} IN IF hits = {} THEN 0 ELSE records[Least(hits)].obj
LoadLinks(records) ==
  [i \in DOMAIN records |-> [obj |-> records[i].obj, link |-> IF records[i].link = 0 THEN 0 ELSE resolve_link(records, records[i].link)]]

-----------------------------------------------------------------------------
(* Gadgets: a name, properties with hints, and data of the user interface.     *)

canonify_key(key) ==
  LET c == string_canonify(key, Alnum \cup {95, 46}, <<95>>) IN IF c # <<>> /\ c[1] = 46 THEN <<95>> \o c ELSE c
\* set_data(): data is a record; a key that is empty is refused.
set_data(data, key, value) == IF canonify_key(key) = <<>> THEN data ELSE Put(data, canonify_key(key), value)
get_data(data, key) == peek(data, canonify_key(key))
name_(name, fallback) == IF string_strip(name) = <<>> THEN fallback ELSE string_strip(name)

Storable(p) == {"S", "r"} \subseteq p.hints
Loadable(p) == {"S", "w"} \subseteq p.hints
\* A gadget: name (<<>> without one), fallback, props and data.
CurrentName(g) == name_(g.name, g.fallback)
Hidden(name) == name = <<>> \/ name[1] = 95
SaveGadget(g) ==
  LET x0 == IF CurrentName(g) # g.fallback THEN Put(Rec(<<>>), "name", Str(CurrentName(g))) ELSE Rec(<<>>)
      Prop(x, ident) == IF Storable(g.props[ident]) THEN Put(x, ident, g.props[ident].value) ELSE x
      x1 == FoldLeft(Prop, x0, SetToSeq(DOMAIN g.props))
      cdata == SelectSeq(g.data.fields, LAMBDA f : ~Hidden(f.name))
  IN  IF cdata = <<>> THEN x1 ELSE Put(x1, "custom_data", Rec(cdata))
LoadGadget(g, x) ==
  LET new == as_string(peek(x, "name"))
      cdata == as_record(peek(x, "custom_data"))
  IN  [g EXCEPT !.name = IF has(x, "name") /\ CurrentName(g) # new THEN new ELSE @,
                !.props = [ident \in DOMAIN @ |->
                  IF Loadable(@[ident]) /\ has(x, ident) THEN [@[ident] EXCEPT !.value = peek(x, ident)] ELSE @[ident]],
                !.data = FoldLeft(LAMBDA d, f : set_data(d, f.name, f.value), @, cdata)]

-----------------------------------------------------------------------------
(* Clips, tracks, device chains and projects                                   *)

PPQN == 4
Note(tick, duration, key) == [id |-> 0, selected |-> FALSE, tick |-> tick, duration |-> duration, key |-> key]
NoteRec(n) ==
  filter(Rec(<<Field("id", IntV(n.id)), Field("tick", IntV(n.tick)), Field("duration", IntV(n.duration)),
               Field("key", IntV(n.key)), Field("selected", IntV(1))>>), {"id", "selected"})
ByTick(notes) == SetToSortSeq(ToSet(notes), LAMBDA a, b : a.tick < b.tick \/ (a.tick = b.tick /\ a.id < b.id))
SaveClip(clip) == PutEach(Put(SaveGadget(clip.gadget), "ppq", IntV(PPQN)), "notes",
                          [i \in DOMAIN ByTick(clip.notes) |-> NoteRec(ByTick(clip.notes)[i])])
\* Ticks are rescaled to this program's resolution and rounded, ids are new.
Rescaled(t, ppq) == (2 * t * PPQN + ppq) \div (2 * ppq)
LoadClip(clip, x, nextid) ==
  LET ppq == as_int(peek(x, "ppq"))
      notes == as_array(peek(x, "notes"))
      Load(i) == [id |-> nextid + i, selected |-> FALSE, tick |-> Rescaled(as_int(peek(notes[i], "tick")), ppq),
                  duration |-> Rescaled(as_int(peek(notes[i], "duration")), ppq), key |-> as_int(peek(notes[i], "key"))]
  IN  [clip EXCEPT !.gadget = LoadGadget(@, x), !.notes = @ \o [i \in DOMAIN notes |-> Load(i)]]

\* A combo's devices: [uri, gadget]; a device is created from its URI.
SaveDevices(x, devices) ==
  PutEach(x, "devices", [i \in DOMAIN devices |-> PutFront(SaveGadget(devices[i].gadget), "Device.URI", Str(devices[i].uri))])
LoadDevices(x, create(_)) ==
  LET nodes == as_array(peek(x, "devices"))
      Insert(devices, node) ==
        LET uri == as_string(peek(node, "Device.URI")) IN
        IF uri = <<>> \/ create(uri) = {} THEN devices
        ELSE Append(devices, [uri |-> uri, gadget |-> LoadGadget(CHOOSE g \in create(uri) : TRUE, node)])
  IN  FoldLeft(Insert, <<>>, nodes)

needs_serialize(clip) == clip.notes # <<>>
SaveTrack(track) ==
  LET used == SelectSeq([i \in DOMAIN track.clips |-> i], LAMBDA i : needs_serialize(track.clips[i]))
      xs == PutEach(SaveGadget(track.gadget), "clips",
                    [k \in DOMAIN used |-> PutFront(SaveClip(track.clips[used[k]]), "clip-index", IntV(used[k] - 1))])
  IN  Put(xs, "chain", SaveDevices(Rec(<<>>), track.devices))
LoadTrack(track, x, create(_)) ==
  LET Load(t, xc) ==
        LET index == as_int(peek(xc, "clip-index")) IN
        IF index + 1 \in DOMAIN t.clips THEN [t EXCEPT !.clips[index + 1] = LoadClip(@, xc, 100)] ELSE t
      t1 == [track EXCEPT !.gadget = LoadGadget(@, x)]
      t2 == FoldLeft(Load, t1, as_array(peek(x, "clips")))
  IN  [t2 EXCEPT !.devices = LoadDevices(peek(x, "chain"), create)]

MaxClips == 2
EmptyGadget(fallback) == [name |-> <<>>, fallback |-> fallback, props |-> <<>>, data |-> Rec(<<>>)]
EmptyClip == [gadget |-> EmptyGadget(<<67>>), notes |-> <<>>]
TrackName(i) == <<84, 48 + i>>
NewTrack(fallback) == [gadget |-> EmptyGadget(fallback), clips |-> [i \in 1..MaxClips |-> EmptyClip], devices |-> <<>>]
MasterName == <<77>>
\* The master track is always the last one; new tracks go before it.
NewProject == [tracks |-> <<NewTrack(MasterName)>>]
create_track(project) ==
  LET n == Len(project.tracks)
  IN  [project EXCEPT !.tracks = InsertAt(@, n, NewTrack(TrackName(n)))]
SaveProject(project) ==
  LET n == Len(project.tracks)
      Mastered(i, x) == IF i = n THEN PutFront(x, "mastertrack", IntV(1)) ELSE x
  IN  PutEach(Rec(<<>>), "tracks", [i \in 1..n |-> Mastered(i, SaveTrack(project.tracks[i]))])
LoadProject(project, x, create(_)) ==
  LET Load(p, xc) ==
        LET q == IF as_int(peek(xc, "mastertrack")) # 0 THEN p ELSE create_track(p)
            i == IF as_int(peek(xc, "mastertrack")) # 0 THEN Len(q.tracks) ELSE Len(q.tracks) - 1
        IN  [q EXCEPT !.tracks[i] = LoadTrack(@, xc, create)]
  IN  FoldLeft(Load, project, as_array(peek(x, "tracks")))

-----------------------------------------------------------------------------
\* What a user sees of a gadget: data with hidden keys is not kept.
GadgetView(g) == [name |-> CurrentName(g), props |-> [i \in DOMAIN g.props |-> g.props[i].value],
                  data |-> {f \in ToSet(g.data.fields) : ~Hidden(f.name)}]
NoteView(n) == <<n.tick, n.duration, n.key>>
ClipView(c) == <<IF c.notes = <<>> THEN c.gadget.fallback ELSE CurrentName(c.gadget),
                 [i \in DOMAIN ByTick(c.notes) |-> NoteView(ByTick(c.notes)[i])]>>
TrackView(t) == [gadget |-> GadgetView(t.gadget), clips |-> [i \in DOMAIN t.clips |-> ClipView(t.clips[i])],
                 devices |-> [i \in DOMAIN t.devices |-> <<t.devices[i].uri, GadgetView(t.devices[i].gadget)>>]]
ProjectView(p) == [i \in DOMAIN p.tracks |-> TrackView(p.tracks[i])]

\* A project that is saved and loaded into a new one shows the same tracks,
\* clips, notes, devices, names and data, as far as the devices still exist.
ProjectReloads(project, create(_)) ==
  ProjectView(LoadProject(NewProject, SaveProject(project), create)) = ProjectView(project)

\* Objects that link to each other do so after loading: links to objects of
\* the tree, before or after the linking one, find them; others are dropped.
LinksResolve(visits) ==
  LoadLinks(SaveLinks(visits)) =
    [i \in DOMAIN visits |->
      [visits[i] EXCEPT !.link = IF \E k \in DOMAIN visits : visits[k].obj = visits[i].link THEN @ ELSE 0]]
=============================================================================
