------------------------------ MODULE Streams ------------------------------
(***************************************************************************)
(* Streams of events and of bytes: how queues of MIDI events are merged    *)
(* for a processor, how they reach a CLAP plugin, and the writers and      *)
(* readers of audio files, compressed files and archives.  Each object is  *)
(* a record, each method an operator that returns the next record.         *)
(***************************************************************************)
EXTENDS Integers, Sequences, FiniteSets, SequencesExt

-----------------------------------------------------------------------------
(* QueueMultiplexer (src/ase/queuemux.hh), by which a MidiEventReader merges *)
(* the events of a processor's inputs.  `ptrs' holds what is left of each    *)
(* queue that is not empty; n_queues is its length.                          *)

QueueMultiplexer_priority(e) == e.frame
Priorities(m) == [i \in DOMAIN m.ptrs |-> QueueMultiplexer_priority(m.ptrs[i][1])]

\* The first queue whose head comes first is current; the first queue of all if
\* every head has the greatest priority.  `next' is the least of the others.
seek(m, max) ==
  LET prio == Priorities(m)
      ahead == {i \in DOMAIN prio : prio[i] < max /\ \A k \in DOMAIN prio : prio[i] <= prio[k]}
      current == IF ahead = {} THEN 1 ELSE CHOOSE i \in ahead : \A k \in ahead : i <= k
      others == {prio[i] : i \in DOMAIN prio \ {current}} \cup {max}
  IN  IF m.ptrs = <<>> THEN m
      ELSE [m EXCEPT !.current = current, !.next = CHOOSE p \in others : \A q \in others : p <= q]

\* A null pointer is an empty queue here: both are skipped.
assign(queues, max) ==
  seek([ptrs |-> SelectSeq(queues, LAMBDA q : q # <<>>), current |-> 0, next |-> 0], max)
count_pending(m) == FoldLeft(LAMBDA c, q : c + Len(q), 0, m.ptrs)
more(m) == m.ptrs # <<>>
peek_event(m) == m.ptrs[m.current][1]

pop_event(m, max) ==
  LET rest == [m EXCEPT !.ptrs[m.current] = Tail(@)]
      n == Len(m.ptrs)
  IN  IF rest.ptrs[m.current] = <<>>      \* the last queue takes the place of an emptied one
      THEN seek([rest EXCEPT !.ptrs = SubSeq([@ EXCEPT ![m.current] = m.ptrs[n]], 1, n - 1)], max)
      ELSE IF QueueMultiplexer_priority(peek_event(rest)) > m.next THEN seek(rest, max) ELSE rest

\* What an Iter from begin() to end() visits.
MidiEventReader(queues, max) ==
  LET step(s, k) == IF more(s.mux) THEN [mux |-> pop_event(s.mux, max), read |-> Append(s.read, peek_event(s.mux))] ELSE s
      total == FoldLeft(LAMBDA c, q : c + Len(q), 0, queues)
  IN  FoldLeft(step, [mux |-> assign(queues, max), read |-> <<>>], [k \in 1..(total + 1) |-> k])

(* The events of all queues are read, each once and in the order of their   *)
(* frames; those of one queue stay in their order.                          *)
MergeFaithful(queues, max) ==
  LET end == MidiEventReader(queues, max)
      read == end.read
      of(q) == SelectSeq(read, LAMBDA e : e.queue = q)
  IN  /\ ~more(end.mux) /\ count_pending(end.mux) = 0
      /\ \A q \in DOMAIN queues : of(q) = queues[q]
      /\ Len(read) = count_pending(assign(queues, max))
      /\ \A i \in 1..(Len(read) - 1) : read[i].frame <= read[i + 1].frame

-----------------------------------------------------------------------------
(* WAV files (src/ase/wave.cc).  Numbers in a header are taken modulo M, which *)
(* is 2^32 in the code; `length' and `data' count bytes.                       *)

wav_header(n_bits, n_channels, sample_freq, n_samples, M) ==
  LET byte_per_sample == ((n_channels * n_bits) % M) \div 8
      n_data_bytes == (((n_samples * byte_per_sample + 1) % M) \div 2) * 2      \* round odd
      fmt == IF n_bits = 32 THEN 3 ELSE 1                                       \* 1=PCM, 3=FLOAT
      fmtsz == IF n_channels > 2 \/ fmt = 3 THEN 18 ELSE 16
      fact == IF fmt = 3 THEN <<n_samples>> ELSE <<>>
      chunks == 4 + (8 + fmtsz) + (IF fmt = 3 THEN 12 ELSE 0) + 8
  IN  [length |-> (chunks + n_data_bytes) % M, fmt |-> fmt, fmtsz |-> fmtsz, n_channels |-> n_channels,
       sample_freq |-> sample_freq, byte_per_second |-> (byte_per_sample * sample_freq) % M,
       byte_per_sample |-> byte_per_sample, n_bits |-> n_bits, fact |-> fact, data |-> n_data_bytes,
       size |-> 8 + chunks]

\* The sizes of the chunks that wav_write() hands to write(), in items of its
\* buffer: bytes for 8 and 24 bits, samples otherwise.  The buffer has room for
\* `cap' items; `peak' is the most that was ever in it.
wav_write(n_bits, n_channels, n_frames, cap) ==
  LET items == IF n_bits = 24 THEN 3 ELSE 1
      reserve == CASE n_bits = 8 -> 1 [] n_bits = 24 -> 4 [] OTHER -> 0
      n_samples == n_channels * n_frames
      pad == n_bits \in {8, 24} /\ n_channels % 2 = 1 /\ n_samples % 2 = 1
      put(b, n) ==
        LET fill == b.fill + items + (IF n = n_samples /\ pad THEN 1 ELSE 0)
            peak == IF fill > b.peak THEN fill ELSE b.peak
        IN  IF b.fill + items + reserve >= cap \/ n = n_samples
            THEN [chunks |-> Append(b.chunks, fill), fill |-> 0, peak |-> peak]
            ELSE [b EXCEPT !.fill = fill, !.peak = peak]
  IN  FoldLeft(put, [chunks |-> <<>>, fill |-> 0, peak |-> 0], [n \in 1..n_samples |-> n])
BytesPerItem(n_bits) == CASE n_bits \in {8, 24} -> 1 [] n_bits = 16 -> 2 [] n_bits = 32 -> 4
BytesOf(n_bits, chunks) == FoldLeft(LAMBDA c, n : c + n * BytesPerItem(n_bits), 0, chunks)

(* WavWriterImpl: `header' is what the file begins with, `data' the bytes     *)
(* behind it, `fd' whether it is open, `closed' how often it was closed.      *)
WavWriterImpl(M) == [fd |-> FALSE, n_bits |-> 0, n_channels |-> 0, sample_freq |-> 0, n_samples |-> 0,
                     header |-> <<>>, data |-> 0, closed |-> 0, ok |-> FALSE, M |-> M]
\* `failing' is the system call that fails, or "none".
wav_open(w, n_bits, n_channels, sample_freq, failing) ==
  CASE w.fd \/ failing = "open" -> [w EXCEPT !.ok = FALSE]
    [] failing = "lseek" -> [w EXCEPT !.ok = FALSE, !.closed = @ + 1]
    [] OTHER ->
       LET set == [w EXCEPT !.n_bits = n_bits, !.n_channels = n_channels, !.sample_freq = sample_freq, !.n_samples = 0]
       IN  IF failing = "write" THEN [set EXCEPT !.ok = FALSE, !.closed = @ + 1]
           ELSE [set EXCEPT !.ok = TRUE, !.fd = TRUE,
                            !.header = <<wav_header(n_bits, n_channels, sample_freq, w.M - 128, w.M)>>]
\* `bad' is the number of the write() that fails, or 0.
wav_writer_write(w, n_frames, cap, bad) ==
  LET chunks == wav_write(w.n_bits, w.n_channels, n_frames, cap).chunks
      written == IF bad \in DOMAIN chunks THEN SubSeq(chunks, 1, bad - 1) ELSE chunks
  IN  IF w.n_bits # 32 \/ ~w.fd \/ n_frames = 0 THEN [w EXCEPT !.ok = FALSE]
      ELSE [w EXCEPT !.n_samples = @ + n_frames * w.n_channels, !.data = @ + BytesOf(w.n_bits, written),
                     !.ok = written = chunks]
wav_close(w, failing) ==
  IF ~w.fd THEN [w EXCEPT !.ok = FALSE]
  ELSE LET header == wav_header(w.n_bits, w.n_channels, w.sample_freq, w.n_samples \div w.n_channels, w.M)
       IN  [w EXCEPT !.header = IF failing \in {"lseek", "write"} THEN @ ELSE <<header>>,
                     !.fd = FALSE, !.closed = @ + 1, !.ok = failing \notin {"write", "close"}]

\* Whatever asks for the end of a file: close(), the atquit handler, the destructor.
Ends == {"close", "atquit", "delete"}

(* The header tells what follows it, it has the size of the one written at     *)
(* first, the file is closed once, and no buffer overflows.                     *)
WavFaithful(n_bits, n_channels, writes, ends, cap, M) ==
  LET opened == wav_open(WavWriterImpl(M), n_bits, n_channels, 1, "none")
      written == FoldLeft(LAMBDA w, n : wav_writer_write(w, n, cap, 0), opened, writes)
      w == FoldLeft(LAMBDA v, e : wav_close(v, "none"), written, ends)
      last == w.header[1]
  IN  /\ last.data = w.data /\ last.length = last.size - 8 + w.data /\ last.size = opened.header[1].size
      /\ last.fact = <<w.n_samples \div n_channels>>
      /\ ~w.fd /\ w.closed = 1
WavWriteBounded(n_bits, n_channels, n_frames, cap, M) ==
  LET out == wav_write(n_bits, n_channels, n_frames, cap)
  IN  out.peak <= cap /\ BytesOf(n_bits, out.chunks) = wav_header(n_bits, n_channels, 1, n_frames, M).data

-----------------------------------------------------------------------------
(* Ogg files with Opus packets (src/ase/wave.cc).  A fragment of `size'       *)
(* frames is encoded as one packet; `filled' is bmark_ in frames.  The         *)
(* encoder and the file system are external: how[k] is what becomes of the      *)
(* fragment k, "ok", "empty" (no packet), "encode" or "write" (an error).       *)

OpusWriter == [fd |-> FALSE, enc |-> FALSE, size |-> 0, filled |-> 0, eos |-> FALSE, granulepos |-> 0,
               packetno |-> 0, packets |-> <<>>, fragments |-> 0, closed |-> 0, ok |-> FALSE]
close_fd(o) == [o EXCEPT !.fd = FALSE, !.closed = @ + (IF o.fd THEN 1 ELSE 0)]
write_packet(o, granulepos, e_o_s) ==
  [o EXCEPT !.packets = Append(@, [granulepos |-> granulepos, e_o_s |-> e_o_s, packetno |-> o.packetno]), !.packetno = @ + 1]
\* The packets OpusHead and OpusTags.
opus_write_header(o) == write_packet(write_packet(o, 0, FALSE), 0, FALSE)
opus_create(failing) == [OpusWriter EXCEPT !.fd = failing # "open", !.ok = failing # "open"]
\* `failing' is "arguments" (an assertion), "encoder" (opus_encoder_create), or
\* "header" (a setting of the encoder, or a packet of the header).
opus_setup_encoder(o, size, failing) ==
  CASE failing = "arguments" -> [o EXCEPT !.ok = FALSE]
    [] failing = "encoder" -> [close_fd(o) EXCEPT !.ok = FALSE]
    [] failing = "header" -> [close_fd(o) EXCEPT !.ok = FALSE, !.enc = TRUE, !.size = size]
    [] OTHER -> opus_write_header([o EXCEPT !.enc = TRUE, !.size = size])

\* A full buffer is encoded; an error closes the file.
OpusFragment(o, how) ==
  LET k == o.fragments + 1
      full == [o EXCEPT !.filled = 0, !.granulepos = @ + o.size, !.fragments = k]
      result == IF k \in DOMAIN how THEN how[k] ELSE "ok"
  IN  CASE result = "encode" -> [close_fd(full) EXCEPT !.ok = FALSE]
        [] result = "write" -> [close_fd(full) EXCEPT !.ok = FALSE, !.packetno = @ + 1]
        [] result = "empty" -> full
        [] OTHER -> write_packet(full, full.granulepos, o.eos)
RECURSIVE OpusFrames(_, _, _)
OpusFrames(o, n, how) ==
  LET l == IF n < o.size - o.filled THEN n ELSE o.size - o.filled
      put == [o EXCEPT !.filled = @ + l]
  IN  CASE n = 0 \/ ~o.fd -> o
        [] put.filled = o.size -> OpusFrames(OpusFragment(put, how), n - l, how)
        [] OTHER -> put
write_opus(o, n_frames, how) ==
  CASE ~o.fd -> [o EXCEPT !.ok = FALSE]
    [] n_frames = 0 -> o
    [] ~o.enc -> [o EXCEPT !.ok = FALSE]
    [] OTHER -> OpusFrames([o EXCEPT !.ok = TRUE], n_frames, how)
\* Errors are collected by &= from FALSE on, so none is ever reported.
finish_and_close(o, flush, how) ==
  CASE ~o.fd -> [o EXCEPT !.ok = FALSE]
    [] flush /\ o.enc -> [close_fd(write_opus([o EXCEPT !.eos = TRUE], o.size - o.filled, how)) EXCEPT !.ok = TRUE]
    [] OTHER -> [close_fd(o) EXCEPT !.ok = TRUE]

(* Packets are numbered and stamped without a gap; the last one ends the       *)
(* stream, covers all that was written and not more than a fragment beyond;    *)
(* after an error there is none; the file is closed once, whatever happens.     *)
OpusFaithful(size, failing, writes, ends, how) ==
  LET set == opus_setup_encoder(opus_create(failing), size, failing)
      written == FoldLeft(LAMBDA o, n : write_opus(o, n, how), set, writes)
      o == FoldLeft(LAMBDA p, e : finish_and_close(p, TRUE, how), written, ends)
      total == FoldLeft(LAMBDA c, n : c + n, 0, writes)
      n == Len(o.packets)
      audio == {k \in DOMAIN o.packets : k > 2}
  IN  /\ ~o.fd /\ o.closed = (IF failing = "open" THEN 0 ELSE 1)
      /\ \A k \in DOMAIN o.packets : o.packets[k].packetno = k - 1 /\ (o.packets[k].e_o_s => k = n)
      /\ \A k \in audio : "empty" \notin {how[i] : i \in DOMAIN how} => o.packets[k].granulepos = size * (k - 2)
      /\ failing = "none" /\ {how[k] : k \in DOMAIN how} \subseteq {"ok"} =>
           /\ n > 2 /\ o.packets[n].e_o_s
           /\ total < o.packets[n].granulepos /\ o.packets[n].granulepos <= total + size

-----------------------------------------------------------------------------
(* FLAC files (src/ase/wave.cc).  The encoder owns the file once it exists and *)
(* closes it when it is deleted; `asserted' counts failed assertions.          *)

FlacWriter == [enc |-> FALSE, file |-> FALSE, metadata |-> FALSE, frames |-> 0, closed |-> 0, asserted |-> 0, ok |-> FALSE]
close_file(f) == [f EXCEPT !.file = FALSE, !.closed = @ + (IF f.file THEN 1 ELSE 0)]
cleanup(f) == [(IF f.enc THEN close_file(f) ELSE f) EXCEPT !.enc = FALSE, !.metadata = FALSE]
\* `failing' is "arguments", "open", "fdopen", "encoder", "setup" or "none".
flac_create(f, failing) ==
  CASE failing = "arguments" \/ f.enc -> [f EXCEPT !.asserted = @ + 1, !.ok = FALSE]
    [] failing = "open" -> [f EXCEPT !.ok = FALSE]
    [] failing \in {"fdopen", "encoder"} -> [close_file([f EXCEPT !.file = TRUE]) EXCEPT !.ok = FALSE]
    [] failing = "setup" -> [cleanup([f EXCEPT !.file = TRUE, !.enc = TRUE, !.metadata = TRUE]) EXCEPT !.ok = FALSE]
    [] OTHER -> [f EXCEPT !.file = TRUE, !.enc = TRUE, !.metadata = TRUE, !.ok = TRUE]
flac_write(f, n_frames) == IF ~f.enc \/ n_frames = 0 THEN [f EXCEPT !.ok = FALSE] ELSE [f EXCEPT !.frames = @ + n_frames, !.ok = TRUE]
flac_close(f) ==
  IF ~f.enc THEN [f EXCEPT !.asserted = @ + 1, !.ok = FALSE]
  ELSE [cleanup(f) EXCEPT !.ok = TRUE]
\* The atquit handler asks for an encoder first, the destructor does not.
flac_end(f, end) == IF end = "atquit" /\ ~f.enc THEN f ELSE flac_close(f)

(* The file is closed once and nothing is left, in whatever order a file is     *)
(* ended; an assertion fails only for a destroyed writer that was closed        *)
(* before or never created.                                                     *)
FlacFaithful(failing, writes, ends) ==
  LET f == FoldLeft(flac_write, flac_create(FlacWriter, failing), writes)
      g == FoldLeft(flac_end, f, ends)
      late == {k \in DOMAIN ends : ends[k] # "atquit" /\ (k > 1 \/ failing # "none")}
  IN  /\ ~g.file /\ ~g.enc /\ ~g.metadata
      /\ g.closed = (IF failing \in {"arguments", "open"} THEN 0 ELSE 1)
      /\ g.asserted = Cardinality(late) + (IF failing = "arguments" THEN 1 ELSE 0)

-----------------------------------------------------------------------------
(* Compressed streams (src/ase/compress.cc).  The library is external: a frame *)
(* is Begin, the bytes (natural numbers), and End with the checksum; an        *)
(* encoder takes and hands out as much as there is room for, a decoder stops    *)
(* at the end of a frame.                                                      *)

Begin == -1
End == -2
Bytes(s) == SelectSeq(s, LAMBDA b : b >= 0)
Prefix(s, n) == SubSeq(s, 1, IF n < Len(s) THEN n ELSE Len(s))
Behind(s, n) == SubSeq(s, n + 1, Len(s))

NewEncoder == [frame |-> FALSE, ending |-> FALSE, pending |-> <<>>]
\* A frame that is ending is flushed before anything else is taken.
ZSTD_compressStream2(c, input, end, room) ==
  LET taken == IF c.ending THEN <<>> ELSE Prefix(input, room)
      more_ == IF c.ending THEN <<>>
               ELSE (IF ~c.frame /\ (taken # <<>> \/ end) THEN <<Begin>> ELSE <<>>) \o taken \o (IF end THEN <<End>> ELSE <<>>)
      all == c.pending \o more_
      left == Behind(all, room)
      ends == c.ending \/ end
  IN  [c |-> [frame |-> (c.frame \/ taken # <<>>) /\ ~ends, ending |-> ends /\ left # <<>>, pending |-> left],
       pos |-> Len(taken), out |-> Prefix(all, room), ret |-> IF ends THEN Len(left) ELSE 0]
ZSTD_decompressStream(frame, input, len) ==
  LET fits(n) == Len(Bytes(Prefix(input, n))) <= len /\ \A i \in 1..(n - 1) : input[i] # End
      n == CHOOSE k \in 0..Len(input) : fits(k) /\ \A l \in 0..Len(input) : fits(l) => l <= k
      used == Prefix(input, n)
  IN  [frame |-> IF n = 0 THEN frame ELSE used[n] # End, input |-> Behind(input, n), out |-> Bytes(used)]

(* StreamWriterZStd.  `sizes' are the sizes of zstd_adaptive_level, of which    *)
(* the last one is never exceeded; a frame ends where the level changes.  `bad' *)
(* is the number of the write() to the file that fails, or 0.                   *)
StreamWriterZStd(level, sizes) ==
  [ostream |-> TRUE, file |-> <<>>, writes |-> 0, c |-> NewEncoder, itotal |-> 0,
   zal |-> IF level = 0 THEN Len(sizes) ELSE 1, last_block |-> FALSE, failed |-> FALSE, ret |-> 0]
\* The level changes before it takes more than its size.
LevelChanges(w, pos, sizes) == ~w.last_block /\ w.itotal + pos > sizes[w.zal]
\* The output z of the compressor goes to the file; the frame ended if `changes'.
PutBlock(w, z, changes, bad) ==
  LET k == w.writes + (IF z.out = <<>> THEN 0 ELSE 1)
      failed == k = bad /\ z.out # <<>>
  IN  [w EXCEPT !.zal = IF changes THEN @ + 1 ELSE @, !.c = z.c, !.writes = k, !.failed = failed,
                !.file = IF failed THEN @ ELSE @ \o z.out, !.ret = z.ret]
RECURSIVE zstd_write(_, _, _, _, _, _), zstd_continue(_, _, _, _, _, _)
zstd_write(w, buffer, pos, sizes, room, bad) ==
  IF LevelChanges(w, pos, sizes)
  THEN zstd_continue(PutBlock(w, ZSTD_compressStream2(w.c, <<>>, TRUE, room), TRUE, bad), buffer, pos, sizes, room, bad)
  ELSE LET z == ZSTD_compressStream2(w.c, Behind(buffer, pos), w.last_block, room)
       IN  zstd_continue(PutBlock(w, z, FALSE, bad), buffer, pos + z.pos, sizes, room, bad)
zstd_continue(w, buffer, pos, sizes, room, bad) ==
  CASE w.failed -> w
    [] (IF w.last_block THEN w.ret = 0 ELSE pos = Len(buffer)) -> [w EXCEPT !.itotal = @ + pos]
    [] OTHER -> zstd_write(w, buffer, pos, sizes, room, bad)
zstd_writer_write(w, buffer, sizes, room, bad) ==
  IF ~w.ostream THEN [w EXCEPT !.failed = TRUE] ELSE zstd_write(w, buffer, 0, sizes, room, bad)
\* write (nullptr, 0) returns 0 at once or fails, and does not repeat.
zstd_writer_close(w, sizes, room, bad) ==
  IF w.ostream THEN [zstd_write([w EXCEPT !.last_block = TRUE], <<>>, 0, sizes, room, bad) EXCEPT !.ostream = FALSE] ELSE w

(* StreamReaderFile, StreamReaderZipMember: `rest' is what was not read yet.    *)
file_open(bytes) == [open |-> TRUE, rest |-> bytes]
file_read(r, len) == IF r.open THEN [r |-> [r EXCEPT !.rest = Behind(@, len)], out |-> Prefix(r.rest, len)] ELSE [r |-> r, out |-> <<>>]
file_close(r) == [r |-> [r EXCEPT !.open = FALSE], ok |-> r.open]
\* An entry is closed with the first read that returns nothing.
entry_read(r, len) ==
  LET n == file_read(r, len) IN IF n.out # <<>> THEN n ELSE [n EXCEPT !.r.open = FALSE]

(* StreamReaderZStd: `input' is what is left in ibuffer_, which has room for    *)
(* isize bytes; without istream_ there is nothing to read or to close.          *)
StreamReaderZStd(istream) == [istream |-> istream, has |-> TRUE, input |-> <<>>, frame |-> FALSE, dctx |-> TRUE]
zstd_done(z) == [z |-> [z EXCEPT !.has = FALSE], out |-> <<>>]
zstd_decompress(z, len) ==
  LET d == ZSTD_decompressStream(z.frame, z.input, len)
  IN  [z |-> [z EXCEPT !.frame = d.frame, !.input = d.input], out |-> d.out]
RECURSIVE zstd_refill(_, _, _)
zstd_refill(z, len, isize) ==
  IF z.input # <<>> \/ ~z.has THEN zstd_done(z)                 \* takes bytes left over for an error
  ELSE LET l == entry_read(z.istream, isize)
           d == zstd_decompress([z EXCEPT !.istream = l.r, !.input = l.out], len)
       IN  CASE l.out = <<>> -> zstd_done([z EXCEPT !.istream = l.r])
             [] d.out # <<>> -> d
             [] OTHER -> zstd_refill(d.z, len, isize)
zstd_read(z, len, isize) ==
  IF z.input = <<>> THEN zstd_refill(z, len, isize)
  ELSE LET d == zstd_decompress(z, len) IN IF d.out # <<>> THEN d ELSE zstd_refill(d.z, len, isize)
zstd_close(z) ==
  IF ~z.has THEN [z |-> z, ok |-> FALSE]
  ELSE [z |-> [z EXCEPT !.has = FALSE, !.istream = file_close(@).r, !.input = <<>>, !.dctx = FALSE], ok |-> file_close(z.istream).ok]
RECURSIVE zstd_read_all(_, _, _)
zstd_read_all(z, len, isize) ==
  LET d == zstd_read(z, len, isize) IN IF d.out = <<>> THEN <<>> ELSE d.out \o zstd_read_all(d.z, len, isize)

\* A read of the file begins with the end of a frame and goes on behind it.
EndSplit(file, isize) == \E k \in 1..(Len(file) - 1) : k % isize = 1 /\ file[k] = End

(* What was written is in the file, in complete frames, and reads back, unless  *)
(* the end of a frame is the first thing in a buffer: then it is cut off        *)
(* there.  After a failing write the file has a prefix of it.                   *)
ZstdArrives(w, read, all, marks, isize) ==
  /\ ~w.ostream
  /\ \A k \in DOMAIN marks : marks[k] = (IF k % 2 = 1 THEN Begin ELSE End)
  /\ read = Prefix(all, Len(read))
  /\ ~w.failed => Bytes(w.file) = all /\ Last(w.file) = End /\ (~EndSplit(w.file, isize) => read = all)
ZstdReads(w, writes, len, isize) ==
  ZstdArrives(w, zstd_read_all(StreamReaderZStd(file_open(w.file)), len, isize), FlattenSeq(writes), SelectSeq(w.file, LAMBDA b : b < 0), isize)
ZstdFaithful(level, sizes, writes, room, isize, len, bad) ==
  LET put(w, b) == IF w.failed THEN w ELSE zstd_writer_write(w, b, sizes, room, bad)
      close(w) == zstd_writer_close(w, sizes, room, IF w.failed THEN w.writes + 1 ELSE bad)
  IN  ZstdReads(close(FoldLeft(put, StreamWriterZStd(level, sizes), writes)), writes, len, isize)

-----------------------------------------------------------------------------
(* Files and archive members (src/ase/storage.cc).                             *)

(* FileStreamWriter: `results' are what the write() calls return, "EINTR",      *)
(* "error", or the number of bytes that were written; then all is written.      *)
FileStreamWriter(failing) == [fd |-> failing # "open", data |-> <<>>, closed |-> 0, ok |-> failing # "open"]
RECURSIVE file_put(_, _, _)
file_put(w, bytes, results) ==
  CASE bytes = <<>> -> [w EXCEPT !.ok = TRUE]
    [] results = <<>> -> [w EXCEPT !.ok = TRUE, !.data = @ \o bytes]
    [] Head(results) = "EINTR" -> file_put(w, bytes, Tail(results))
    [] Head(results) = "error" -> [w EXCEPT !.ok = FALSE]
    [] Head(results) = "part" -> file_put([w EXCEPT !.data = Append(@, bytes[1])], Tail(bytes), Tail(results))
file_write(w, bytes, results) == IF w.fd THEN file_put(w, bytes, results) ELSE [w EXCEPT !.ok = FALSE]
file_writer_close(w) == [w EXCEPT !.fd = FALSE, !.closed = @ + (IF w.fd THEN 1 ELSE 0), !.ok = TRUE]

(* All of a successful write() is in the file once, in order, and the file is    *)
(* closed once.                                                                *)
FileWriteFaithful(failing, bytes, results) ==
  LET w == file_write(FileStreamWriter(failing), bytes, results)
      v == file_writer_close(file_writer_close(w))
  IN  /\ w.data = Prefix(bytes, Len(w.data)) /\ (w.ok => w.data = bytes)
      /\ ~v.fd /\ v.closed = (IF failing = "open" THEN 0 ELSE 1)

(* The types of files that are told by their first bytes: parts of the          *)
(* contents and where they are, counted from 0.                                 *)
Signatures ==
  [aiff |-> {{<<0, <<70, 79, 82, 77>>>>, <<8, <<65, 73, 70, 70>>>>}}, wav |-> {{<<0, <<82, 73, 70, 70>>>>, <<8, <<87, 65, 86, 69>>>>}},
   midi |-> {{<<0, <<77, 84, 104, 100>>>>}}, pdf |-> {{<<0, <<37, 80, 68, 70, 45>>>>}},
   zstd |-> {{<<0, <<40, 181, 47, 253>>>>}}, lz4 |-> {{<<0, <<4, 34, 77, 24>>>>}},
   zip |-> {{<<0, <<80, 75, n, n + 1>>>>} : n \in {3, 5, 7}}, arj |-> {{<<0, <<96, 234>>>>}},
   isz |-> {{<<0, <<73, 115, 90, 33>>>>}}, ogg |-> {{<<0, <<79, 103, 103, 83>>>>}},
   avi |-> {{<<0, <<82, 73, 70, 70>>>>, <<8, <<65, 86, 73, 32>>>>}}, gz |-> {{<<0, <<31, 139>>>>}},
   xz |-> {{<<0, <<253, 55, 122, 88, 90, 0>>>>}}, png |-> {{<<0, <<137, 80, 78, 71, 13, 10, 26, 10>>>>}},
   jpg |-> {{<<0, <<255, 216, 255, n>>>>} : n \in {219, 224, 238, 225}}]
HasPart(input, part) == Prefix(Behind(input, part[1]), Len(part[2])) = part[2]
is_type(type, input) == \E signature \in Signatures[type] : \A part \in signature : HasPart(input, part)
is_compressed(input) == \E type \in DOMAIN Signatures \ {"aiff", "wav", "midi", "pdf"} : is_type(type, input)
\* substr (8, 4) throws if the contents end before.
SubstrThrows(input) == HasPart(input, <<0, <<82, 73, 70, 70>>>>) /\ Len(input) < 8
(* No contents are of two types.                                               *)
TypesExclusive(input) ==
  /\ \A t, u \in DOMAIN Signatures : is_type(t, input) /\ is_type(u, input) => t = u
  /\ is_compressed(input) => ~SubstrThrows(input)

(* An archive is a set of members [path, zst, bytes]; zst tells a name that     *)
(* ends in .zst, whose bytes are compressed frames.                             *)
NormalizedPath(path) == SelectSeq(path, LAMBDA e : e # ".")
open_entry(archive, path, zst) == {m \in archive : m.path = NormalizedPath(path) /\ m.zst = zst}
stream_reader_zip_member(archive, path, auto_zstd) ==
  LET plain == open_entry(archive, path, FALSE)
      zstd == open_entry(archive, path, TRUE)
  IN  CASE plain # {} -> [kind |-> "zip", r |-> file_open((CHOOSE m \in plain : TRUE).bytes)]
        [] plain = {} /\ auto_zstd /\ zstd # {} ->
             [kind |-> "zstd", r |-> StreamReaderZStd(file_open((CHOOSE m \in zstd : TRUE).bytes))]
        [] OTHER -> [kind |-> "none"]
RECURSIVE entry_read_all(_, _)
entry_read_all(r, len) == LET n == entry_read(r, len) IN IF n.out = <<>> THEN <<>> ELSE n.out \o entry_read_all(n.r, len)

(* A member is found by its name, compressed or not, however the name is        *)
(* written, and all of its bytes are read.                                      *)
MemberReads(contents, zst, path, len) ==
  LET stored == IF zst THEN <<Begin>> \o contents \o <<End>> ELSE contents
      archive == {[path |-> NormalizedPath(path), zst |-> zst, bytes |-> stored], [path |-> <<"other">>, zst |-> FALSE, bytes |-> <<0>>]}
      reader == stream_reader_zip_member(archive, path, TRUE)
  IN  /\ reader.kind = (IF zst THEN "zstd" ELSE "zip")
      /\ stored = entry_read_all(IF zst THEN reader.r.istream ELSE reader.r, len)
      /\ (stream_reader_zip_member(archive, path, FALSE).kind = "none" <=> zst)
      /\ stream_reader_zip_member(archive, <<"missing">>, TRUE).kind = "none"

-----------------------------------------------------------------------------
(* What a CLAP plugin gets to see (src/ase/clapplugin.cc).  Levels of events,  *)
(* velocities, pressures and bends, are counted in 1/254, so that 127 steps     *)
(* and their halves are told apart.                                             *)

NOTE_OFF == 128
NOTE_ON == 144
AFTERTOUCH == 160
CONTROL_CHANGE == 176
PROGRAM_CHANGE == 192
CHANNEL_PRESSURE == 208
PITCH_BEND == 224
ALL_NOTES_OFF == 123
MidiMessage(e) == IF e.type = CONTROL_CHANGE /\ e.param \in 120..127 THEN e.param ELSE e.type

midi_event_input(oproc, render_events) == MidiEventReader(<<oproc, render_events>>, 4096).read
setup_midi1(e, status, b1, b2) == <<[kind |-> "midi", frame |-> e.frame, data |-> <<status + e.channel, b1, b2>>]>>
setup_evnote(e, kind, note) == <<[kind |-> kind, frame |-> e.frame, data |-> note]>>
Scaled(level, steps) == IF level < 0 THEN 0 - (-level * steps) \div 254 ELSE (level * steps) \div 254
SevenBits(level) == IF Scaled(level, 127) < 127 THEN Scaled(level, 127) ELSE 127
\* Everything else, ALL_SOUND_OFF and program changes among it, is left out.
ClapEvents(e, as_clapnotes) ==
  LET message == MidiMessage(e)
      note == <<e.channel, e.key, e.param, e.level>>
      i16 == 8192 + Scaled(e.level, IF e.level < 0 THEN 8192 ELSE 8191)
  IN  CASE message = AFTERTOUCH /\ as_clapnotes -> setup_evnote(e, "expression", note)
        [] message = NOTE_ON /\ as_clapnotes -> setup_evnote(e, "note_on", note)
        [] message = NOTE_OFF /\ as_clapnotes -> setup_evnote(e, "note_off", note)
        [] message \in {NOTE_ON, NOTE_OFF, AFTERTOUCH} -> setup_midi1(e, e.type, e.key, SevenBits(e.level))
        [] message = ALL_NOTES_OFF /\ as_clapnotes -> setup_evnote(e, "choke", <<-1, -1, -1, 0>>)
        [] message = ALL_NOTES_OFF -> setup_midi1(e, 176, 123, 0)
        [] message = CONTROL_CHANGE -> setup_midi1(e, 176, e.param, e.level \div 2)
        [] message = CHANNEL_PRESSURE -> setup_midi1(e, 208, SevenBits(e.level), 0)
        [] message = PITCH_BEND -> setup_midi1(e, 224, i16 % 128, (i16 \div 128) % 128)
        [] OTHER -> <<>>
convert_clap_events(evinput, as_clapnotes) ==
  FoldLeft(LAMBDA out, e : out \o ClapEvents(e, as_clapnotes), <<>>, evinput)
\* Updates of parameters that the plugin does not have are skipped.
convert_param_updates(updates, known) ==
  LET found == SelectSeq(updates, LAMBDA u : u.param_id \in known)
  IN  [k \in DOMAIN found |-> [kind |-> "param", frame |-> 0, data |-> <<found[k].param_id, found[k].value>>]]
input_events_size(enqueued, events) == FoldLeft(LAMBDA n, list : n + Len(list), Len(events), enqueued)
input_events_get(enqueued, events, index) ==
  LET before[k \in 0..Len(enqueued)] == IF k = 0 THEN 0 ELSE before[k - 1] + Len(enqueued[k])
      lists == {k \in DOMAIN enqueued : before[k - 1] <= index /\ index < before[k]}
  IN  IF lists # {} THEN LET k == CHOOSE l \in lists : TRUE IN enqueued[k][index - before[k - 1] + 1]
      ELSE events[index - before[Len(enqueued)] + 1]

\* What a plugin of either dialect makes of an event: a key that is pressed
\* without velocity is released.
Heard(c) ==
  LET status == c.data[1] - (c.data[1] % 16)
  IN  CASE c.kind = "note_on" -> <<NOTE_ON, c.data[1], c.data[2]>>
        [] c.kind = "note_off" -> <<NOTE_OFF, c.data[1], c.data[2]>>
        [] c.kind = "midi" /\ status = NOTE_ON /\ c.data[3] = 0 -> <<NOTE_OFF, c.data[1] % 16, c.data[2]>>
        [] c.kind = "midi" /\ status \in {NOTE_ON, NOTE_OFF} -> <<status, c.data[1] % 16, c.data[2]>>
        [] OTHER -> <<>>
Bend(c) == c.data[2] + 128 * c.data[3]

(* A plugin gets parameters first, then all events it understands, in the order *)
(* of their frames; messages are well formed; every note is pressed and          *)
(* released by the plugin as it was sent, in either dialect, apart from notes    *)
(* softer than 1/127 that a MIDI plugin takes for released; bends keep their     *)
(* order, and the middle and both ends are exact.                                 *)
InputOrdered(input) ==
  /\ \A i \in 1..(Len(input) - 1) : input[i].frame <= input[i + 1].frame
  /\ \A i, k \in DOMAIN input : input[i].kind = "param" /\ input[k].kind # "param" => i < k
WellFormed(data) == data[1] \in 128..239 /\ data[2] \in 0..127 /\ data[3] \in 0..127
NotesHeard(sent, heard, as_clapnotes) ==
  /\ Len(heard) = Len(sent)
  /\ \A k \in DOMAIN sent : LET e == sent[k] IN
       /\ Heard(heard[k]) = <<IF ~as_clapnotes /\ e.level < 2 THEN NOTE_OFF ELSE e.type, e.channel, e.key>>
       /\ heard[k].frame = e.frame
BendsHeard(sent, heard) ==
  /\ Len(heard) = Len(sent)
  /\ \A i, k \in DOMAIN sent : sent[i].level <= sent[k].level => Bend(heard[i]) <= Bend(heard[k])
  /\ \A k \in DOMAIN sent : CASE sent[k].level = -254 -> Bend(heard[k]) = 0 [] sent[k].level = 0 -> Bend(heard[k]) = 8192
                             [] sent[k].level = 254 -> Bend(heard[k]) = 16383 [] OTHER -> TRUE
EventsHeard(read, events, enqueued, as_clapnotes) ==
  /\ InputOrdered([k \in 1..input_events_size(enqueued, events) |-> input_events_get(enqueued, events, k - 1)])
  /\ Len(events) <= Len(read)
  /\ \A k \in DOMAIN events : events[k].kind = "midi" => WellFormed(events[k].data)
  /\ NotesHeard(SelectSeq(read, LAMBDA e : e.type \in {NOTE_ON, NOTE_OFF}), SelectSeq(events, LAMBDA c : Heard(c) # <<>>), as_clapnotes)
  /\ BendsHeard(SelectSeq(read, LAMBDA e : e.type = PITCH_BEND),
                SelectSeq(events, LAMBDA c : c.kind = "midi" /\ c.data[1] >= PITCH_BEND))
Converted(read, updates, known, as_clapnotes) ==
  EventsHeard(read, convert_clap_events(read, as_clapnotes),
              [k \in DOMAIN updates |-> convert_param_updates(updates[k], known)], as_clapnotes)
ClapEventsFaithful(oproc, render_events, updates, known, as_clapnotes) ==
  Converted(midi_event_input(oproc, render_events), updates, known, as_clapnotes)

(* Audio ports [get, valid, stereo, main, channels]: get() succeeds, the id is   *)
(* a valid one.  A port of which nothing is known has no channels.              *)
Channels(ports) == FoldLeft(LAMBDA n, p : IF p.get THEN n + p.channels ELSE n, 0, ports)
\* Buffers from the end of data32ptrs_ on: [count, first] for each port.
ChannelPointers(start, ports) ==
  FoldLeft(LAMBDA acc, p : IF p.get /\ p.valid THEN [left |-> acc.left - p.channels, buffers |-> Append(acc.buffers, [count |-> p.channels, first |-> acc.left - p.channels])]
                           ELSE [acc EXCEPT !.buffers = Append(@, [count |-> 0, first |-> 0])],
           [left |-> start, buffers |-> <<>>], ports)
get_port_infos(iports, oports) ==
  LET total_channels == Channels(iports) + Channels(oports)
      inputs == ChannelPointers(total_channels, iports)
      outputs == ChannelPointers(inputs.left, oports)
  IN  [data32ptrs |-> total_channels, audio_inputs |-> inputs.buffers, audio_outputs |-> outputs.buffers, left |-> outputs.left]
\* The first main and side inputs that are stereo, but the last such outputs.
clap_initialize(iports, oports, input_dialect, output_dialect) ==
  LET stereo(ports, main) == {k \in DOMAIN ports : ports[k].get /\ ports[k].stereo /\ ports[k].channels = 2 /\ ports[k].main = main}
      first(s) == {k \in s : \A l \in s : k <= l}
      last(s) == {k \in s : \A l \in s : l <= k}
      imain == first(stereo(iports, TRUE))
      omain == last(stereo(oports, TRUE))
      event_input == input_dialect \cap {"clap", "midi"} # {}
      event_output == output_dialect \cap {"clap", "midi"} # {}
  IN  [imain |-> imain, iside |-> first(stereo(iports, FALSE)), omain |-> omain, oside |-> last(stereo(oports, FALSE)),
       event_output |-> event_output, event_input |-> event_input \/ (~event_output /\ imain = {} /\ omain = {})]

(* No two channels of a plugin share a pointer, none lies outside of the array,  *)
(* and none is left over unless a plugin reports an invalid id; the ports that   *)
(* are connected are stereo ones; the processor has some inputs or outputs.      *)
PortsFaithful(iports, oports, input_dialect, output_dialect) ==
  LET infos == get_port_infos(iports, oports)
      buffers == infos.audio_inputs \o infos.audio_outputs
      used(b) == b.first..(b.first + b.count - 1)
      buses == clap_initialize(iports, oports, input_dialect, output_dialect)
  IN  /\ \A k \in DOMAIN buffers : used(buffers[k]) \subseteq 0..(infos.data32ptrs - 1)
      /\ \A i, k \in DOMAIN buffers : i # k => used(buffers[i]) \cap used(buffers[k]) = {}
      /\ infos.left = 0 <=> \A p \in ToSet(iports \o oports) : p.get /\ p.channels > 0 => p.valid
      /\ \A k \in buses.imain \cup buses.iside : infos.audio_inputs[k].count = 2 \/ ~iports[k].valid
      /\ \A k \in buses.omain \cup buses.oside : infos.audio_outputs[k].count = 2 \/ ~oports[k].valid
      /\ buses.imain \cap buses.iside = {} /\ Cardinality(buses.omain) <= 1
      /\ buses.event_input \/ buses.event_output \/ buses.imain # {} \/ buses.omain # {}

(* Files of a plugin [id, get, fits, path, digest]; `disk' maps the paths that   *)
(* can be read to their contents, of which a hash is a model of its own; digest   *)
(* is "" if the plugin computes none.                                            *)
writer_collect(disk, path) == [hash |-> disk[path], stored |-> disk[path]]
collect_files(files, disk) ==
  LET readable == SelectSeq(files, LAMBDA f : f.get /\ f.fits /\ f.path \in DOMAIN disk)
  IN  [k \in DOMAIN readable |-> [id |-> readable[k].id, hash |-> writer_collect(disk, readable[k].path).hash]]
\* `stored' are the hashes of the files in the project.
resolve_file_references(files, disk, loader_hashes, stored) ==
  LET missing == SelectSeq(files, LAMBDA f : f.get /\ f.fits /\ f.path \notin DOMAIN disk)
      cached(f) == SelectSeq(loader_hashes, LAMBDA h : h.id = f.id)
      hash(f) == IF f.digest # "" THEN f.digest ELSE IF cached(f) # <<>> THEN cached(f)[1].hash ELSE ""
      found == SelectSeq(missing, LAMBDA f : hash(f) \in stored)
  IN  [k \in DOMAIN found |-> [id |-> found[k].id, content |-> hash(found[k])]]

(* A file that was there when a project was saved is found again when it is      *)
(* loaded elsewhere, with the contents it had, unless two files have one id;      *)
(* files that exist are left alone.                                               *)
FilesResolve(files, disk, later) ==
  LET hashes == collect_files(files, disk)
      updates == resolve_file_references(files, later, hashes, {hashes[k].hash : k \in DOMAIN hashes})
      of(id) == {k \in DOMAIN files : files[k].id = id}
  IN  /\ \A k \in DOMAIN files : LET f == files[k] IN
           f.get /\ f.fits /\ f.path \in DOMAIN disk /\ f.digest \in {"", disk[f.path]} /\ of(f.id) = {k} =>
             (f.path \notin DOMAIN later <=> [id |-> f.id, content |-> disk[f.path]] \in ToSet(updates))
      /\ \A u \in ToSet(updates) : \E k \in of(u.id) : files[k].path \notin DOMAIN later

(* save_state(): a blob is kept and named if the plugin wrote it and it is not    *)
(* empty; without a state extension the values of all parameters are stored.      *)
NoState == [param_values |-> <<>>, state_blob |-> <<>>, files |-> {}]
SavedBlob(w, saved) ==
  IF saved /\ ~w.failed /\ w.file # <<>> THEN [NoState EXCEPT !.state_blob = w.file, !.files = {"clap"}] ELSE NoState
\* A plugin tells of a write that failed: then `saved' is FALSE, too.
save_blob(w, saved, bad) == SavedBlob(zstd_writer_close(w, <<9>>, 2, bad), saved /\ ~w.failed)
save_state(plugin_state, params, saved, bytes, failing) ==
  IF plugin_state THEN save_blob(zstd_writer_write(StreamWriterZStd(0, <<9>>), bytes, <<9>>, 2, failing), saved, failing)
  ELSE [NoState EXCEPT !.param_values = SelectSeq(params, LAMBDA p : p.id # -1)]

(* What is named is in the project, complete, and is what the plugin wrote.        *)
BlobComplete(s, saved, bytes, failing) ==
  IF s.files = {} THEN ~saved \/ failing # 0 ELSE saved /\ Bytes(s.state_blob) = bytes /\ Last(s.state_blob) = End
BlobFaithful(saved, bytes, failing) == BlobComplete(save_state(TRUE, <<>>, saved, bytes, failing), saved, bytes, failing)

(* Plugin files: a sequence of [opens, plugins], a plugin being [id, compatible]. *)
(* `open' counts handles, `leaked' those without a descriptor.                    *)
add_descriptor(acc, file) ==
  LET usable == SelectSeq(file.plugins, LAMBDA p : p.id # "" /\ p.compatible)
  IN  IF ~file.opens THEN acc
      ELSE [acc EXCEPT !.infos = @ \o usable, !.handles = @ + 1, !.leaked = @ + (IF usable = <<>> THEN 1 ELSE 0)]
collect_descriptors(acc, files) == IF acc.infos = <<>> THEN FoldLeft(add_descriptor, acc, files) ELSE acc
(* Only compatible plugins are listed; once one is found, files are not opened    *)
(* again, and until then every call opens, and keeps, those it can open.          *)
DescriptorsFaithful(files) ==
  LET once == collect_descriptors([infos |-> <<>>, handles |-> 0, leaked |-> 0], files)
      twice == collect_descriptors(once, files)
  IN  /\ \A p \in ToSet(once.infos) : p.compatible /\ \E f \in ToSet(files) : f.opens /\ p \in ToSet(f.plugins)
      /\ once.infos # <<>> => twice = once
      /\ once.infos = <<>> => twice.leaked = 2 * once.leaked /\ once.leaked = once.handles

-----------------------------------------------------------------------------
(* Devices: what the drivers list, and the order in which `auto' tries them.    *)
(* Priorities are [class, card, dev], lower ones come first; a bonus bit that   *)
(* is cleared in the class is subtracted.                                       *)

SURROUND == 8
HEADSET == 4
RECORDER == 2
JACK == 31
ALSA_USB == 47
ALSA_KERN == 63
PULSE == 95
PSEUDO == 118
PAUTO == 121

\* A mixer element is [simple, playback, capture], the channels that have a
\* volume.  A mixer that cannot be opened gives no hints.
mixer_info(opens, elems) ==
  LET simple == SelectSeq(elems, LAMBDA e : e.simple)
      seen(playback, capture) == Len(SelectSeq(simple, LAMBDA e : (e.playback > 0) = playback /\ (e.capture > 0) = capture))
      some(P(_)) == \E k \in DOMAIN simple : P(simple[k])
      inputs == seen(TRUE, TRUE) + seen(FALSE, TRUE)
      outputs == seen(TRUE, FALSE)
      hint(name, given) == IF given THEN {name} ELSE {}
  IN  IF ~opens THEN {}
      ELSE hint("surround", some(LAMBDA e : e.playback > 2)) \cup hint("headset", outputs = 1 /\ inputs = 1)
           \cup hint("recorder", outputs + seen(TRUE, TRUE) = 0 /\ inputs >= 1) \cup hint("multi-track", some(LAMBDA e : e.capture > 2))

Priority(class, card, dev) == [class |-> class, card |-> card, dev |-> dev]
Bonus(hints) == (IF "surround" \in hints THEN SURROUND ELSE 0) + (IF "headset" \in hints THEN HEADSET ELSE 0)
                + (IF "recorder" \in hints THEN RECORDER ELSE 0)
\* The sound server's `names' with their directions, and cards [opens, info,
\* mixer, elems, devices] with devices [playback, capture, usb].
list_alsa_drivers(names, cards) ==
  LET pulse == SelectSeq(names, LAMBDA n : n.name = "pulse")
      virtual == [k \in DOMAIN pulse |->
        [devid |-> <<"pulse">>, readonly |-> pulse[k].ioid = "Input", writeonly |-> pulse[k].ioid = "Output", priority |-> Priority(PULSE, 0, 0)]]
      entry(c, d) ==
        [devid |-> <<"hw", c, d>>, readonly |-> ~cards[c].devices[d].playback, writeonly |-> ~cards[c].devices[d].capture,
         priority |-> Priority((IF cards[c].devices[d].usb THEN ALSA_USB ELSE ALSA_KERN) - Bonus(mixer_info(cards[c].mixer, cards[c].elems)), c - 1, d - 1)]
      usable(c) == SelectSeq([d \in DOMAIN cards[c].devices |-> d], LAMBDA d : cards[c].devices[d].playback \/ cards[c].devices[d].capture)
      listed(c) == IF cards[c].opens /\ cards[c].info THEN [k \in DOMAIN usable(c) |-> entry(c, usable(c)[k])] ELSE <<>>
  IN  virtual \o FlattenSeq([c \in DOMAIN cards |-> listed(c)])

\* JACK ports [device, known, audio, flags]: the first device with a physical
\* input is the default one.
query_jack_devices(ports) ==
  LET audio == SelectSeq(ports, LAMBDA p : p.known /\ p.audio)
      count(device, flag) == Len(SelectSeq(audio, LAMBDA p : p.device = device /\ flag \in p.flags))
      physical == SelectSeq(audio, LAMBDA p : {"physical", "input"} \subseteq p.flags)
  IN  [device \in {audio[k].device : k \in DOMAIN audio} |->
        [input_ports |-> count(device, "input"), output_ports |-> count(device, "output"),
         default_device |-> physical # <<>> /\ physical[1].device = device]]
list_jack_drivers(connected, ports) ==
  LET devices == query_jack_devices(IF connected THEN ports ELSE <<>>)
      shown == {d \in DOMAIN devices : devices[d].default_device /\ devices[d].input_ports + devices[d].output_ports > 0}
  IN  [k \in 1..Cardinality(shown) |-> [devid |-> <<SetToSeq(shown)[k]>>, readonly |-> FALSE, writeonly |-> FALSE, priority |-> Priority(JACK, 0, 0)]]

Before(a, b) ==
  LET p == a.priority  q == b.priority
  IN  p.class < q.class \/ (p.class = q.class /\ (p.card < q.card \/ (p.card = q.card /\ p.dev < q.dev)))
\* Each of `lists' is [id, entries].
list_drivers(pseudos, lists) ==
  LET named(l) == [k \in DOMAIN l.entries |-> [l.entries[k] EXCEPT !.devid = <<l.id>> \o @]]
  IN  SortSeq(pseudos \o FlattenSeq([k \in DOMAIN lists |-> named(lists[k])]), Before)
\* `opening' has the [devid, mode] that can be opened; a name is that of a listed device.
PcmDriver_open(devid, entries, desired, required, opening) ==
  LET candidates == IF devid = <<"auto">> THEN SelectSeq(entries, LAMBDA e : e.priority.class < PSEUDO /\ e.priority.dev = 0)
                    ELSE SelectSeq(entries, LAMBDA e : e.devid = devid)
      modes(e) == SelectSeq(<<desired, required>>, LAMBDA m : [devid |-> e.devid, mode |-> m] \in opening)
      works == SelectSeq(candidates, LAMBDA e : modes(e) # <<>>)
  IN  IF works = <<>> THEN <<>> ELSE <<works[1].devid, modes(works[1])[1]>>
\* The preferences list the devices again when the list is empty or half a second old.
pref_list_choices(cache, now, entries) ==
  IF cache.choices = <<>> \/ now > cache.age + 500 THEN [choices |-> entries, age |-> now] ELSE cache

(* Every device of a card that works is listed once, and can play or record;   *)
(* those of a bus that is preferred come first, then those of a mixer with      *)
(* more hints, then those of an earlier card; the only JACK device comes        *)
(* before all.  `auto' takes the first primary device that opens, and in both   *)
(* directions if that is possible, and a name means that device and no other.   *)
(* The choices that are shown are at most half a second old.                    *)
DevicesFaithful(names, cards, connected, ports, broken) ==
  LET pseudo == [devid |-> <<"auto">>, readonly |-> FALSE, writeonly |-> FALSE, priority |-> Priority(PAUTO, 0, 0)]
      opens(e, mode) == e.devid \notin broken /\ (mode = "w" => ~e.readonly) /\ (mode = "rw" => ~e.readonly /\ ~e.writeonly)
      usb(e) == cards[e.devid[3]].devices[e.devid[4]].usb
      hints(e) == mixer_info(cards[e.devid[3]].mixer, cards[e.devid[3]].elems) \ {"multi-track"}
      Opening(entries) == UNION {{[devid |-> e.devid, mode |-> m] : m \in {x \in {"rw", "w"} : opens(e, x)}} : e \in ToSet(entries)}
      Earlier(e, f) == e.devid[3] < f.devid[3] \/ (e.devid[3] = f.devid[3] /\ e.devid[4] < f.devid[4])
  IN  \A entries \in {list_drivers(<<pseudo>>, <<[id |-> "alsa", entries |-> list_alsa_drivers(names, cards)],
                                                   [id |-> "jack", entries |-> list_jack_drivers(connected, ports)]>>)} :
      \A auto \in {PcmDriver_open(<<"auto">>, entries, "rw", "w", Opening(entries))} :
        /\ \A i, k \in DOMAIN entries : i < k =>
             LET e == entries[i]  f == entries[k] IN
             /\ e.devid[1] = "jack" \/ f.devid[1] # "jack"
             /\ e.devid = f.devid => e.devid = <<"alsa", "pulse">>
             /\ Len(e.devid) = 4 /\ Len(f.devid) = 4 =>
                  \/ usb(e) /\ ~usb(f)
                  \/ usb(e) = usb(f) /\ ~(hints(e) \subseteq hints(f) /\ hints(e) # hints(f)) /\ (hints(e) = hints(f) => Earlier(e, f))
        /\ \A e \in ToSet(entries) : ~(e.readonly /\ e.writeonly)
        /\ Cardinality({e \in ToSet(entries) : e.devid[1] = "jack"}) <= 1
        /\ {e.devid : e \in {x \in ToSet(entries) : Len(x.devid) = 4}} =
             {<<"alsa", "hw", c, d>> : <<c, d>> \in {<<c, d>> \in (DOMAIN cards) \X (1..2) :
                cards[c].opens /\ cards[c].info /\ d \in DOMAIN cards[c].devices /\ (cards[c].devices[d].playback \/ cards[c].devices[d].capture)}}
        /\ \A k \in DOMAIN entries :
             opens(entries[k], "w") /\ entries[k].devid # <<"auto">> /\ (Len(entries[k].devid) = 4 => entries[k].devid[4] = 1) =>
               \E i \in 1..k : auto = <<entries[i].devid, IF opens(entries[i], "rw") THEN "rw" ELSE "w">>
        /\ auto # <<>> => auto[1] # <<"auto">> /\ (Len(auto[1]) = 4 => auto[1][4] = 1)
        /\ \A e \in ToSet(entries) \ {pseudo} : PcmDriver_open(e.devid, entries, "rw", "w", Opening(entries)) \in {<<>>, <<e.devid, "rw">>, <<e.devid, "w">>}
        /\ \A age, now \in {1, 400, 800} : age <= now =>
             LET shown == pref_list_choices(pref_list_choices([choices |-> <<>>, age |-> 0], age, <<pseudo>>), now, entries)
             IN  shown.choices = entries \/ now - age <= 500
=============================================================================
