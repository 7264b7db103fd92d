---------------------------- MODULE MCAlgorithms ----------------------------
(***************************************************************************)
(* The pure functions for TLC: the initial state names a family of         *)
(* functions, one step tries one argument of that family, and the          *)
(* invariants compare what the functions return with their references.     *)
(***************************************************************************)
EXTENDS Storage, Primitives, Parameters, JsonConvert, Streams

VARIABLE input    \* [alg, arg, tried]: the family and the argument it was tried with

Chosen(alg) == input.alg = alg /\ ~input.tried
Try(alg, arg) == input' = [alg |-> alg, arg |-> arg, tried |-> TRUE]
Tried(alg) == input.alg = alg /\ input.tried
Strings(chars, n) == UNION {[1..k -> chars] : k \in 0..n}
Families == {"filename", "text", "pairs", "options", "integer", "network", "events", "words", "path", "searchpath",
             "ini", "parameter", "label", "links", "project", "format", "json", "classes", "hash", "keccak",
             "random", "carry", "range", "merge", "clap", "ports", "resources", "blob", "descriptors",
             "wav", "opus", "flac", "zstd", "file", "signature", "args", "http", "devices"}
Init == \E alg \in Families : input = [alg |-> alg, arg |-> <<>>, tried |-> FALSE]

FilenameBytes == {47, 128, 142, 191, 192, 195, 224, 237, 238, 240, 248}
TryFilename == Chosen("filename") /\ \E s \in Strings(FilenameBytes, 4) : Try("filename", s)
TextBytes == {1, 7, 32, 34, 37, 43, 44, 55, 65, 92, 97, 200}
TryText == Chosen("text") /\ \E s \in Strings(TextBytes, 4) : Try("text", s)
Pairs == {<<97, 61>>, <<97, 61, 49>>, <<97, 97, 61, 50>>, <<65, 61, 61>>, <<98, 61, 97, 61, 51>>}
TryPairs == Chosen("pairs") /\ \E s \in Strings(Pairs, 3) : \E cs \in BOOLEAN : Try("pairs", <<s, cs>>)
Options == {<<97>>, <<97, 61>>, <<97, 61, 48>>, <<97, 97>>, <<65, 61, 50>>, <<98, 97, 61, 49>>,
            <<97, 61, 97>>, <<97, 108, 108>>, <<110, 111, 110, 101>>}
TryOptions == Chosen("options") /\ \E s \in Strings(Options, 3) : \E f \in {<<97>>, <<97, 97>>, <<98>>} : Try("options", <<s, f>>)
TryInteger == Chosen("integer") /\ \E v \in -300..300 : Try("integer", v)
\* The first comparators of a network are disjoint: it is enough to try inputs
\* that they leave as they are.
Presorted(bits) ==
  \A k \in 1..(Len(bits) \div 2) :
    LET pair == Networks[Len(bits)][k] IN bits[pair[1] + 1] <= bits[pair[2] + 1]
TryNetwork == Chosen("network") /\ \E n \in 2..16 : \E bits \in {v \in [1..n -> 0..1] : Presorted(v)} : Try("network", bits)
TryEvents == Chosen("events") /\ \E frames \in Strings(-1..2, 5) : Try("events", frames)
TryWords == Chosen("words") /\ \E a \in Strings({1, 2, 3}, 3), b \in Strings({1, 2, 3}, 3) : Try("words", <<a, b>>)
TryPath == Chosen("path") /\ \E s \in Strings({46, 47, 97}, 6) : Try("path", s)
TrySearchpath == Chosen("searchpath") /\ \E s \in Strings({47, 58, 59, 97}, 5) : \E e \in {<<97>>, <<47, 97>>, <<97, 47>>, <<47>>, <<97, 97>>} :
    Try("searchpath", <<s, e>>)
IniSets(values) ==
  [section : {<<115>>, <<115, 46, 116>>, <<115, 46, 116, 46, 117>>}, key : {<<107>>, <<107, 107>>}, value : values]
TryIni == Chosen("ini") /\ \E sets \in Strings(IniSets({<<>>, <<97>>, <<97, 61, 91>>, <<32, 35, 97>>}), 2) : Try("ini", sets)

Words == {<<65>>, <<97>>, <<97, 98>>, <<98, 99>>}
Extras ==
  [kind : {"range"}, range : {NoRange, [min |-> 0, max |-> 2000, step |-> 0], [min |-> -1000, max |-> 1000, step |-> 300],
                              [min |-> 0, max |-> 5000, step |-> 2000], [min |-> -20, max |-> 20000000, step |-> 0]}, choices : {<<>>}]
  \cup [kind : {"choices", "func"}, range : {NoRange}, choices : Strings(Words, 2)]
Params ==
  [type : {"bool", "int8", "double", "text"}, initial : {Number(0), String(<<97>>)}, unit : {"", Hz},
   hints : {<<>>, <<"r", "stepped">>}, extras : Extras]
Values == {Number(n) : n \in {-2500, -1000, -150, 0, 150, 500, 1000, 1500, 2999, 4999, 12346, 440000, 1234000, 20000000}}
          \cup {String(s) : s \in Words \cup {<<>>, <<98>>}}
TryParameter ==
  Chosen("parameter") /\ \E p \in Params, v \in Values :
    (p.type = "text" <=> p.initial.type = "string") /\ Try("parameter", <<p, v>>)
TryLabel == Chosen("label") /\ \E s \in Strings({32, 49, 50, 65, 98}, 6) : Try("label", s)

TryLinks ==
  Chosen("links") /\ \E n \in 1..4 : \E order \in {f \in [1..n -> 1..n] : \A i, k \in 1..n : f[i] = f[k] => i = k}, link \in [1..n -> 0..5] :
    Try("links", [i \in 1..n |-> [obj |-> order[i], link |-> link[i]]])
Keys == {<<97>>, <<46, 98>>, <<95, 97>>, <<97, 45>>}
Volume(hints, v) == [hints |-> hints, value |-> Str(v)]
Gadgets(fallback, values, keys) ==
  {[name |-> name, fallback |-> fallback, props |-> [volume |-> Volume({"S", "r", "w"}, v)],
    data |-> set_data(set_data(Rec(<<>>), k1, Str(<<1>>)), k2, Str(<<2>>))] :
     name \in {<<>>, <<32, 97>>, TrackName(1)}, v \in values, k1 \in keys, k2 \in keys}
Created(uri) == CASE uri = <<117>> -> {[EmptyGadget(<<85>>) EXCEPT !.props = [volume |-> Volume({"S", "r", "w"}, <<7>>)]]} [] OTHER -> {}
NoteLists == {<<>>, <<[Note(1, 2, 60) EXCEPT !.id = 3]>>, <<[Note(5, 2, 60) EXCEPT !.id = 2], [Note(1, 1, 61) EXCEPT !.id = 9]>>}
Clips == {[gadget |-> [EmptyGadget(<<67>>) EXCEPT !.name = name], notes |-> notes] : name \in {<<>>, <<97>>}, notes \in NoteLists}
Device(g) == [uri |-> <<117>>, gadget |-> g]
Devices == LET gs == Gadgets(<<85>>, {<<>>, <<5>>}, {<<97>>}) IN {<<>>} \cup {<<Device(g)>> : g \in gs}
             \cup {<<Device(g), Device(h)>> : g \in {x \in gs : x.name # <<>>}, h \in Created(<<117>>)}
TryProject ==
  Chosen("project") /\ \E n \in 0..2, c \in {<<x, y>> : x \in Clips, y \in {EmptyClip, CHOOSE z \in Clips : Len(z.notes) = 1}}, d \in Devices,
                          g \in Gadgets(<<>>, {<<>>}, Keys) :
    LET q == FoldLeft(LAMBDA p, k : create_track(p), NewProject, [k \in 1..n |-> k])
        t == [q.tracks[1] EXCEPT !.clips = c, !.devices = d, !.gadget = [g EXCEPT !.props = <<>>, !.fallback = q.tracks[1].gadget.fallback]]
    IN  Try("project", [q EXCEPT !.tracks[1] = t])

TryFormat == Chosen("format") /\ \E s \in Strings({37, 36, 42, 45, 46, 49, 50, 99, 100}, 5) : Try("format", s)

IntT == [k |-> "int"]
DoubleT == [k |-> "double"]
EnumT == [k |-> "enum", entries |-> <<<<<<"A", "_", "I", "N">>, 1>>, <<<<"A", "_", "O", "N">>, 2>>, <<<<"A", "_", "I">>, 3>>>>]
SmallValues(T) ==
  CASE T.k = "int" -> {Num(n) : n \in {-128, -1, 0, 127}} [] T.k = "uint" -> {Num(n) : n \in {0, 128, 255}}
    [] T.k = "bool" -> {Num(0), Num(1)} [] T.k = "double" -> {NaN, Num(-3), Num(0), Num(1)}
    [] T.k = "string" -> {[s |-> s] : s \in {<<>>, <<"1">>}} [] T.k = "enum" -> {Num(n) : n \in 0..4}
    [] T.k = "vector" -> {[v |-> v] : v \in Strings({Num(0), Num(3)}, 2)}
    [] T.k = "pair" -> {[v |-> <<Num(1), [s |-> <<"1">>]>>]}
Scalars == {IntT, [k |-> "uint"], [k |-> "bool"], DoubleT, [k |-> "string"], EnumT, [k |-> "vector", of |-> DoubleT],
            [k |-> "pair", first |-> IntT, second |-> [k |-> "string"]]}
TryJson ==
  Chosen("json") /\ \E S, T \in Scalars : \E x \in SmallValues(S), y \in SmallValues(T) : \E z \in Strings({x}, 2) :
    \/ Try("json", <<S, x>>)
    \/ Try("json", <<[k |-> "vector", of |-> S], [v |-> z]>>)
    \/ Try("json", <<[k |-> "struct", fields |-> [a |-> S, b |-> T]], [f |-> [a |-> x, b |-> y]]>>)
    \/ Try("json", <<[k |-> "pair", first |-> S, second |-> T], [v |-> <<x, y>>]>>)
Methods == {<<>>, [get |-> 0], [set |-> 1], [get |-> 0, set |-> 1]}
Lists(S) == {q \in Strings(S, 2) : \A i, k \in DOMAIN q : q[i] = q[k] => i = k}
TryClasses ==
  Chosen("classes") /\ \E b \in Lists({"A"}), c \in Lists({"A", "B"}), d \in Lists({"A", "B", "C"}), ma, mb, mc \in Methods :
    LET reg == [x \in {"A", "B", "C", "D"} |->
                 CASE x = "A" -> [bases |-> <<>>, methods |-> ma] [] x = "B" -> [bases |-> b, methods |-> mb]
                   [] x = "C" -> [bases |-> c, methods |-> mc] [] x = "D" -> [bases |-> d, methods |-> <<>>]]
    IN \E impl \in DOMAIN reg \cup {"X"} :
         \E declared \in IF impl = "X" THEN DOMAIN reg ELSE Derived(reg, impl) : Try("classes", <<reg, impl, declared>>)

Feeds(n) == Strings({{}, {0}, {7}}, n)
TryHash == Chosen("hash") /\ \E rate \in 2..3, a \in Strings({{}, {7}}, 4), b \in Feeds(1), n, k \in {0, 1, 4} : Try("hash", <<rate, a, b, n, k>>)
TryKeccak == Chosen("keccak") /\ \E W \in 1..2, n \in 1..3 : Try("keccak", <<W, n>>)
TryRandom == Chosen("random") /\ \E lanes \in {4}, nums \in 2..3, a \in Strings({{}, {0}}, 3), b \in Strings({{}, {0}}, 2), n \in {0, 1}, k \in {0, 1, 5} : Try("random", <<lanes, nums, a, b, n, k>>)
TryCarry == Chosen("carry") /\ \E A3 \in {5, 7}, s \in [1..3 -> {0, 3, 7}], c \in 0..7, k \in 0..5 :
              Try("carry", <<A3, <<s[1], s[2], s[3], c, 0>>, k>>)
TryRange == Chosen("range") /\ \E W \in 1..5, from \in {-5, 0, 3} : \E to \in from..(from + 2 ^ W - 1) : Try("range", <<W, from, to>>)

Queued(q, frames) == [k \in DOMAIN frames |-> [frame |-> frames[k], queue |-> q, id |-> k]]
Rising(n) == {f \in Strings({0, 1, 9}, n) : \A k \in 1..(Len(f) - 1) : f[k] <= f[k + 1]}
TryMerge == Chosen("merge") /\ \E a, b \in Rising(3), c \in Rising(1) : Try("merge", <<Queued(1, a), Queued(2, b), Queued(3, c)>>)
MidiEvents ==
  [type : {NOTE_ON, NOTE_OFF, AFTERTOUCH, CHANNEL_PRESSURE}, frame : {0}, channel : {15}, key : {127}, param : {0}, level : {0, 1, 3, 254}]
  \cup [type : {PITCH_BEND}, frame : {0}, channel : {0}, key : {0}, param : {0}, level : {-254, -2, -1, 0, 1, 2, 254}]
  \cup [type : {CONTROL_CHANGE, PROGRAM_CHANGE}, frame : {0}, channel : {1}, key : {0}, param : {1, 119, 120, 123, 127}, level : {254}]
TryClap ==
  Chosen("clap") /\ \E a, b \in MidiEvents, at \in {<<0, 0>>, <<0, 5>>, <<5, 0>>}, ids \in {<<>>, <<2>>, <<1, 2>>}, notes \in BOOLEAN :
    Try("clap", <<<<[a EXCEPT !.frame = at[1]]>>, <<[b EXCEPT !.frame = at[2]], [a EXCEPT !.frame = 9]>>,
                  <<[k \in DOMAIN ids |-> [param_id |-> ids[k], value |-> k]], <<[param_id |-> 2, value |-> 9]>>>>, {2}, notes>>)
AudioPorts ==
  [get : {TRUE}, valid : BOOLEAN, stereo : {TRUE}, main : BOOLEAN, channels : {2}]
  \cup [get : BOOLEAN, valid : {TRUE}, stereo : {FALSE}, main : {TRUE}, channels : {3}]
TryPorts ==
  Chosen("ports") /\ \E i \in Strings(AudioPorts, 2), o \in Strings(AudioPorts, 2), d, e \in {{}, {"clap"}, {"midi2"}} : Try("ports", <<i, o, d, e>>)
Resources == [id : {1, 2}, get : {TRUE}, fits : BOOLEAN, path : {"p", "q"}, digest : {"", "x"}]
TryResources ==
  Chosen("resources") /\ \E fs \in Strings(Resources, 2), p, q \in SUBSET {"p", "q"}, c \in {"x", "y"} :
    Try("resources", <<fs, [f \in p |-> IF f = "p" THEN "x" ELSE c], [f \in q |-> "z"]>>)
TryBlob == Chosen("blob") /\ \E saved \in BOOLEAN, bytes \in Strings({0, 7}, 4), failing \in 0..2 : Try("blob", <<saved, bytes, failing>>)
PluginFiles == [opens : BOOLEAN, plugins : Strings([id : {"", "a"}, compatible : BOOLEAN], 2)]
TryDescriptors == Chosen("descriptors") /\ \E files \in Strings(PluginFiles, 2) : Try("descriptors", files)

WriterEnds == {<<"delete">>, <<"close", "delete">>, <<"atquit", "delete">>, <<"close", "atquit", "delete">>, <<"atquit", "close", "delete">>}
TryWav ==
  Chosen("wav") /\ \E bits \in {8, 16, 24, 32}, channels \in 1..3, writes \in Strings(0..3, 2), ends \in WriterEnds, cap \in {8, 9} :
    Try("wav", <<bits, channels, writes, ends, cap>>)
TryOpus ==
  Chosen("opus") /\ \E size \in 1..3, failing \in {"none", "open", "arguments", "encoder", "header"}, writes \in Strings(0..3, 2),
                       ends \in WriterEnds, how \in Strings({"ok", "empty", "encode", "write"}, 2) :
    Try("opus", <<size, failing, writes, ends, how>>)
TryFlac ==
  Chosen("flac") /\ \E failing \in {"none", "arguments", "open", "fdopen", "encoder", "setup"}, writes \in Strings(0..1, 1), ends \in WriterEnds :
    Try("flac", <<failing, writes, ends>>)
BlockSizes == <<1, 3, 100>>     \* where the levels of compression change
TryZstd ==
  Chosen("zstd") /\ \E level \in 0..1, w \in {<<0>>, <<0, 1>>, <<0, 2>>, <<2, 2>>, <<3, 1>>, <<4>>, <<1, 1, 2>>}, room, len \in 1..3,
                       isize \in 1..4, bad \in 0..3 :
    Try("zstd", <<level, [i \in DOMAIN w |-> [k \in 1..w[i] |-> 10 * i + k]], room, isize, len, bad>>)
TryFile ==
  Chosen("file") /\ \E failing \in {"none", "open"}, bytes \in Strings({0, 1}, 3), results \in Strings({"EINTR", "error", "part"}, 3),
                       path \in {<<"a">>, <<".", "a">>, <<"b", ".", "a">>}, len \in 1..2 : Try("file", <<failing, bytes, results, path, len>>)
\* Contents with the parts of two signatures and some filling, cut anywhere.
Mixed(parts, others, fill, n) ==
  LET In(k) == {p \in parts : k > p[1] /\ k <= p[1] + Len(p[2])} \cup {p \in others : k > p[1] /\ k <= p[1] + Len(p[2])}
  IN  [k \in 1..n |-> IF In(k) = {} THEN fill ELSE LET p == CHOOSE p \in In(k) : p \in parts \/ In(k) \cap parts = {} IN p[2][k - p[1]]]
TrySignature ==
  LET signatures == UNION {Signatures[type] : type \in DOMAIN Signatures}
  IN  Chosen("signature") /\ \E s, t \in signatures, n \in 0..12, fill \in {0, 40} : Try("signature", Mixed(s, t, fill, n))

Word(name, dash, eq) == [name |-> name, dash |-> dash, eq |-> eq]
CommandWords ==
  {Word(name, TRUE, <<>>) : name \in {"--check", "--norc", "-o", "-t", "--test", "--version", "--", "-x"}}
  \cup {Word("--test", TRUE, <<"a">>), Word("a", FALSE, <<>>)}
TryArgs ==
  Chosen("args") /\ \E argv \in Strings(CommandWords, 3), name \in {"--check", "--norc", "-o", "-t"}, value \in {Word("b", FALSE, <<>>), Word("-o", TRUE, <<>>)} :
    Try("args", <<name, value, argv>>)

\* URLs of / . a x ? and %2e below one or two aliases.
UrlParts == {<<47>>, <<46, 46>>, <<97>>, <<120>>, <<63>>, <<37, 50, 101>>}
MimeTypes == <<<<"text/html", <<104>>, <<97>>>>, <<"text/css", <<99>>>>, <<"text/plain", <<97>>>>>>
Aliases(path) == {[url |-> u, path |-> path] : u \in {<<47, 97>>, <<47, 97, 47, 97>>, <<47, 98>>}}
Served == {{<<47, 112>>}, {<<47, 112, 47, 97>>, <<47, 119, 47, 105>>}, {<<47, 112, 46, 122>>, <<47, 119, 47, 120>>, <<47, 113, 47, 97, 47, 97>>}}
TryHttp ==
  Chosen("http") /\ \E parts \in Strings(UrlParts, 3), a \in Aliases(<<47, 112>>), b \in Aliases(<<47, 113>>), files \in Served, canzip \in BOOLEAN :
    Try("http", <<a, b, <<47>> \o FlattenSeq(parts), canzip, files>>)
\* All directories, and one with an index file of its own.
Dirs(files) ==
  {SubSeq(f, 1, k) : <<f, k>> \in {<<f, k>> \in (files \cup {<<47, 119, 47, 97, 47>>}) \X (1..5) : k < Len(f) /\ f[k + 1] = 47}}

Cards == [opens : {TRUE}, info : {TRUE}, mixer : {TRUE}, elems : {<<>>, <<[simple |-> TRUE, playback |-> 4, capture |-> 0]>>},
          devices : Strings([playback : BOOLEAN, capture : BOOLEAN, usb : BOOLEAN], 1)]
         \cup {[opens |-> opens, info |-> c, mixer |-> FALSE, elems |-> <<[simple |-> TRUE, playback |-> 0, capture |-> 1]>>,
               devices |-> <<[playback |-> TRUE, capture |-> c, usb |-> FALSE], [playback |-> TRUE, capture |-> TRUE, usb |-> TRUE]>>] : opens, c \in BOOLEAN}
JackPorts == {[device |-> d, known |-> TRUE, audio |-> TRUE, flags |-> f] : d \in {"s", "t"}, f \in {{"physical", "input"}, {"output"}}}
Sinks == [name : {"pulse"}, ioid : {"", "Input", "Output"}]
TryDevices ==
  Chosen("devices") /\ \E names \in {<<>>} \cup {<<s, s>> : s \in Sinks}, cards \in {<<c>> : c \in Cards} \cup {<<c, d>> : c, d \in {x \in Cards : Len(x.devices) # 1 \/ x.devices[1].playback}}, connected \in BOOLEAN,
                          broken \in {{}, {<<"alsa", "hw", 1, 1>>, <<"jack", "s">>}, {<<"alsa", "pulse">>, <<"jack", "t">>}} :
    \E ports \in IF connected THEN Lists(JackPorts) ELSE Strings(JackPorts, 1) : Try("devices", <<names, cards, connected, ports, broken>>)

Next ==
  \/ TryArgs \/ TryHttp \/ TryDevices
  \/ TryMerge \/ TryClap \/ TryPorts \/ TryResources \/ TryBlob \/ TryDescriptors
  \/ TryWav \/ TryOpus \/ TryFlac \/ TryZstd \/ TryFile \/ TrySignature
  \/ TryFilename \/ TryText \/ TryPairs \/ TryOptions \/ TryInteger \/ TryWords \/ TryFormat
  \/ TryPath \/ TrySearchpath \/ TryIni \/ TryLinks \/ TryProject
  \/ TryParameter \/ TryLabel
  \/ TryJson \/ TryClasses
  \/ TryNetwork \/ TryEvents \/ TryHash \/ TryKeccak \/ TryRandom \/ TryCarry \/ TryRange
Spec == Init /\ [][Next]_input

-----------------------------------------------------------------------------
(* Text that is encoded, quoted, joined or formatted comes back as it was: *)
(* file names of any bytes through encodefs() and decodefs(), strings      *)
(* through quoting, URL encoding and splitting, integers through their     *)
(* decimal form; names converted to NCNames are accepted as such; a lookup *)
(* of key=value pairs and options finds the entry of that very key; the    *)
(* distances that select a choice are the cheapest edits; each directive   *)
(* of a format takes the argument that printf() would; and an option of    *)
(* the command line means the same wherever it stands.                     *)
TextReturns ==
  /\ Tried("filename") => FilenameSurvives(input.arg) /\ NameSettled(input.arg)
  /\ Tried("text") => QuotingReversible(input.arg) /\ SplitReversible(input.arg)
  /\ Tried("pairs") => KeysSeparate(input.arg[1], input.arg[2])
  /\ Tried("options") => OptionsSeparate(input.arg[1], input.arg[2])
  /\ Tried("integer") => IntegersReversible(input.arg)
  /\ Tried("words") => /\ RestrictedIsCheapest(input.arg[1], input.arg[2])
                       /\ DistanceCountsEdits(input.arg[1], input.arg[2], {1, 2, 3})
  /\ Tried("format") => FormatFaithful(input.arg)
  /\ Tried("args") => ArgsFaithful(input.arg[1], input.arg[2], input.arg[3])

(* What is written to streams arrives: WAV headers tell what follows them,   *)
(* Opus packets and FLAC files are complete, compressed streams and archive  *)
(* members read back up to the end of a frame that begins a buffer, states   *)
(* and files of plugins are found again, and each file is closed once; each  *)
(* device is listed once and the best that opens is taken.                   *)
StreamsArrive ==
  LET a(i) == input.arg[i] IN
  /\ Tried("wav") => /\ WavWriteBounded(a(1), a(2), FoldLeft(LAMBDA x, y : x + y, 0, a(3)), a(5), 4096)
                     /\ a(1) = 32 => WavFaithful(a(1), a(2), a(3), a(4), a(5), 4096)
  /\ Tried("opus") => OpusFaithful(a(1), a(2), a(3), a(4), a(5))
  /\ Tried("flac") => FlacFaithful(a(1), a(2), a(3))
  /\ Tried("zstd") => ZstdFaithful(a(1), BlockSizes, a(2), a(3), a(4), a(5), a(6))
  /\ Tried("file") => FileWriteFaithful(a(1), a(2), a(3)) /\ MemberReads(a(2), a(1) = "none", a(4), a(5))
  /\ Tried("signature") => TypesExclusive(input.arg)
  /\ Tried("resources") => FilesResolve(a(1), a(2), a(3))
  /\ Tried("blob") => BlobFaithful(a(1), a(2), a(3))
  /\ Tried("descriptors") => DescriptorsFaithful(input.arg)
  /\ Tried("devices") => DevicesFaithful(a(1), a(2), a(3), a(4), a(5))

(* Text survives its conversions, streams arrive, and what is stored is     *)
(* found and loaded again: simplified paths name the same file and stay as  *)
(* they are, a search path contains exactly its elements, a URL is served   *)
(* from the directory of its longest alias, INI files read back, links      *)
(* between saved objects resolve to the objects they had, and a project     *)
(* that is saved and loaded equals the one before.                          *)
StorageFaithful ==
  /\ TextReturns
  /\ StreamsArrive
  /\ Tried("path") => PathCanonical(input.arg)
  /\ Tried("searchpath") => SearchpathFaithful(input.arg[1], input.arg[2])
  /\ Tried("http") => HttpFaithful(input.arg[1], input.arg[2], input.arg[3], input.arg[4], MimeTypes, input.arg[5], Dirs(input.arg[5]))
  /\ Tried("ini") => IniReadsBack(input.arg)
  /\ Tried("links") => LinksResolve(input.arg)
  /\ Tried("project") => ProjectReloads(input.arg, Created)

(* Parameter::constrain settles at once, whatever the range, the step, the *)
(* choices and the value are: the result is in range and constrains to     *)
(* itself, normalising and rescaling it gives it back, its text selects it *)
(* again; and a nick is an abbreviation of its label.                      *)
ParametersSettle ==
  /\ Tried("parameter") => ValuesSettle(Parameter(input.arg[1]), input.arg[2])
  /\ Tried("label") => NickAbbreviates(input.arg)

(* Parameters settle; values pass through JSON and back unchanged up to     *)
(* what the types cannot represent; and an object sent under a declared     *)
(* class arrives as its most derived registered one, for every inheritance  *)
(* graph of four classes.                                                   *)
ValuesFaithful ==
  /\ ParametersSettle
  /\ Tried("json") => ValueArrives(input.arg[1], input.arg[2])
  /\ Tried("classes") => /\ HandlesFaithful(input.arg[1], input.arg[2], input.arg[3])
                         /\ BasesFirst(input.arg[1], <<"D", "A", "C", "B">>)

(* The sorting networks sort (0-1 principle) and keep event streams in     *)
(* order, queues are merged into one stream in order, and a CLAP plugin    *)
(* hears the notes of it; its channels have buffers of their own; a digest *)
(* depends on all of its input and not on how it was fed; the Keccak       *)
(* permutation is injective; discarding numbers, and the jumps of the      *)
(* multiply-with-carry generator, equal drawing them; a random range is    *)
(* uniform.                                                                *)
PrimitivesFaithful ==
  /\ Tried("network") => NetworkSorts(input.arg)
  /\ Tried("events") => EventsOrdered(input.arg)
  /\ Tried("merge") => MergeFaithful(input.arg, 9)
  /\ Tried("clap") => ClapEventsFaithful(input.arg[1], input.arg[2], input.arg[3], input.arg[4], input.arg[5])
  /\ Tried("ports") => PortsFaithful(input.arg[1], input.arg[2], input.arg[3], input.arg[4])
  /\ Tried("hash") => DigestsFaithful(input.arg[1], input.arg[2], input.arg[3], input.arg[4], input.arg[5])
  /\ Tried("keccak") => PermutationInjective(input.arg[1], input.arg[2])
  /\ Tried("random") => DiscardSkips(input.arg[1], input.arg[2], input.arg[3], input.arg[4], input.arg[5], input.arg[6])
  /\ Tried("carry") => JumpsRight(8, input.arg[1], input.arg[2], input.arg[3])
  /\ Tried("range") => RangeUniform(input.arg[1], input.arg[2], input.arg[3])
=============================================================================
