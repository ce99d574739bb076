--------------------------------- MODULE Io ---------------------------------
(***************************************************************************)
(* The reader and writer traits (io/src/lib.rs): read_exact, read_to_limit *)
(* through Take, fill_buf and consume, and write_all, over slices,         *)
(* cursors, vectors, sinks and streams of the standard library (external), *)
(* which may deliver fewer bytes than asked for, be interrupted, or fail.  *)
(* A step is one turn of a loop: one call of the wrapped read or write.    *)
(***************************************************************************)
EXTENDS Integers, Sequences, FiniteSetsExt

CONSTANTS
    Source,             \* the bytes behind the reader
    BufSizes,           \* lengths of the buffers given to read_exact
    Limits,             \* limits of Take
    ChunkLen,           \* the 64 bytes of the chunk of read_to_end, scaled
    SliceLen,           \* the length of the slice written to
    Offers,             \* the buffers given to write_all
    MaxOut              \* bound: bytes accepted by a writer

Octet == 0..255

ASSUME IoAssumption ==
    /\ ChunkLen \in Nat \ {0} /\ SliceLen \in Nat /\ MaxOut \in Nat
    /\ BufSizes \subseteq Nat /\ Limits \subseteq Nat
    /\ Source \in Seq(Octet) /\ Offers \subseteq Seq(Octet)

VARIABLES
    reader,             \* [kind, inner, pos]: a slice or stream shrinks, a cursor moves
    take,               \* the Take around it: << >> or <<remaining>>
    call,               \* the call that runs, or the last one that returned
    writer,             \* [kind, out, room]
    past                \* history: bytes delivered before this call, and where Take must stop

io_vars == <<reader, take, call, writer, past>>

\* Kinds of error: io/src/error.rs has more, told apart from these only by name.
ErrorKind == {"UnexpectedEof", "Interrupted", "Other"}
Faults == {<<kind, 0>> : kind \in ErrorKind \ {"UnexpectedEof"}}

FirstOf(s, n) == SubSeq(s, 1, n)
From(s, n) == SubSeq(s, n + 1, Len(s))
Rest(r) == From(r.inner, r.pos)

\* `n` bytes are taken from the reader.
advance(n) == IF reader.kind = "cursor" THEN [reader EXCEPT !.pos = @ + n]
              ELSE [reader EXCEPT !.inner = From(@, n)]

\* What a read into a buffer of `len` bytes may return.
Answers(len) ==
    LET most == Min({len, Len(Rest(reader))})
    IN IF reader.kind # "stream" THEN {<<"Ok", most>>}
       ELSE {<<"Ok", n>> : n \in Min({1, most})..most} \cup Faults

\* What a write of `len` bytes may return.
Accepts(len) ==
    CASE writer.kind = "vec" -> {<<"Ok", len>>}
      [] writer.kind = "slice" -> {<<"Ok", Min({len, writer.room})>>}
      [] OTHER -> {<<"Ok", n>> : n \in 0..len} \cup Faults

Returned == call.ret # "Running"
Started(op, want, buf) ==
    [op |-> op, want |-> want, buf |-> buf, chunk |-> [i \in 1..ChunkLen |-> 0],
     before |-> writer.out, ret |-> "Running"]

IoInit ==
    /\ reader \in {[kind |-> k, inner |-> Source, pos |-> 0] : k \in {"slice", "cursor", "stream"}}
    /\ writer \in {[kind |-> k, out |-> << >>, room |-> SliceLen] : k \in {"vec", "slice", "stream", "sink"}}
    /\ take = << >>
    /\ call = [op |-> "none", want |-> 0, buf |-> << >>, chunk |-> [i \in 1..ChunkLen |-> 0],
               before |-> << >>, ret |-> "Ok"]
    /\ past = [got |-> << >>, stop |-> 0]

\* The bytes of the call that returned join the history.
Settled == IF call.op = "write_all" THEN past.got ELSE past.got \o call.buf

read_exact ==
    /\ Returned
    /\ \E n \in BufSizes :
        call' = [Started("read_exact", n, << >>) EXCEPT !.ret = IF n = 0 THEN "Ok" ELSE "Running"]
    /\ past' = [past EXCEPT !.got = Settled]
    /\ UNCHANGED <<reader, take, writer>>

\* Read::take, and read_to_limit, which takes and reads to the end.
Take ==
    /\ Returned /\ take = << >>
    /\ \E limit \in Limits, whole \in BOOLEAN :
        /\ take' = <<limit>>
        /\ past' = [got |-> Settled, stop |-> Len(Settled) + limit]
        /\ call' = IF whole THEN Started("read_to_end", 0, << >>)
                   ELSE [Started("none", 0, << >>) EXCEPT !.ret = "Ok"]
    /\ UNCHANGED <<reader, writer>>

read_to_end ==
    /\ Returned /\ take # << >>
    /\ call' = Started("read_to_end", 0, << >>)
    /\ past' = [past EXCEPT !.got = Settled]
    /\ UNCHANGED <<reader, take, writer>>

\* The Take goes out of scope.
DropTake ==
    /\ Returned /\ take # << >>
    /\ take' = << >>
    /\ call' = [Started("none", 0, << >>) EXCEPT !.ret = "Ok"]
    /\ past' = [past EXCEPT !.got = Settled]
    /\ UNCHANGED <<reader, writer>>

\* fill_buf, then consume of some of what it returned.
Peek(stop) == FirstOf(Rest(reader), IF take = << >> THEN stop ELSE Min({stop, take[1]}))
fill_and_consume ==
    /\ Returned
    /\ \E stop \in IF reader.kind = "stream" THEN 0..Len(Rest(reader)) ELSE {Len(Rest(reader))} :
        \E amount \in 0..Len(Peek(stop)) :
            /\ call' = [Started("consume", amount, FirstOf(Peek(stop), amount)) EXCEPT !.ret = "Ok"]
            /\ reader' = advance(amount)
            /\ take' = [i \in DOMAIN take |-> take[i] - amount]
    /\ past' = [past EXCEPT !.got = Settled]
    /\ UNCHANGED writer

\* The room in the buffer of the running call, within the Take.
Wanted == IF call.op = "read_exact" THEN call.want - Len(call.buf) ELSE ChunkLen
TakeLen(len) == IF take = << >> THEN len ELSE Min({len, take[1]})

\* The chunk after a read of `bytes`; it keeps what earlier reads left behind them.
Overwrite(chunk, bytes) == [i \in DOMAIN chunk |-> IF i <= Len(bytes) THEN bytes[i] ELSE chunk[i]]

\* Mutant: the whole chunk is kept, with what an earlier read left in it.
extend_from_slice_Whole(chunk, n) == chunk

extend_from_slice(chunk, n) == FirstOf(chunk, n)

\* Mutant: an empty read is retried like an interrupted one.
ReadDone_Spins(n, bytes) ==
    IF n = 0 THEN call
    ELSE IF call.op = "read_exact"
    THEN [call EXCEPT !.buf = @ \o bytes, !.ret = IF n = Wanted THEN "Ok" ELSE "Running"]
    ELSE [call EXCEPT !.chunk = Overwrite(@, bytes), !.buf = @ \o bytes]

ReadDone(n, bytes) ==
    CASE call.op = "read_exact" /\ n = 0 -> [call EXCEPT !.ret = "UnexpectedEof"]
      [] call.op = "read_exact" /\ n > 0 ->
            [call EXCEPT !.buf = @ \o bytes, !.ret = IF n = Wanted THEN "Ok" ELSE "Running"]
      [] call.op = "read_to_end" /\ n = 0 -> [call EXCEPT !.ret = "Ok"]
      [] OTHER -> [call EXCEPT !.chunk = Overwrite(@, bytes),
                               !.buf = @ \o extend_from_slice(Overwrite(call.chunk, bytes), n)]

\* One turn of the loop of read_exact or of read_to_end.
ReadTurn ==
    /\ ~Returned /\ call.op \in {"read_exact", "read_to_end"}
    /\ \E answer \in Answers(TakeLen(Wanted)) :
        CASE answer[1] = "Ok" ->
                /\ call' = ReadDone(answer[2], FirstOf(Rest(reader), answer[2]))
                /\ reader' = advance(answer[2])
                /\ take' = [i \in DOMAIN take |-> take[i] - answer[2]]
          [] answer[1] = "Interrupted" -> UNCHANGED <<call, reader, take>>
          [] OTHER -> call' = [call EXCEPT !.ret = answer[1]] /\ UNCHANGED <<reader, take>>
    /\ UNCHANGED <<writer, past>>

\* A sink accepts everything at once and keeps nothing.
write_all ==
    /\ Returned
    /\ \E buf \in Offers :
        /\ Len(writer.out) + Len(buf) <= MaxOut
        /\ call' = [Started("write_all", Len(buf), buf) EXCEPT
                        !.ret = IF buf = << >> \/ writer.kind = "sink" THEN "Ok" ELSE "Running"]
    /\ past' = [past EXCEPT !.got = Settled]
    /\ UNCHANGED <<reader, take, writer>>

\* One turn of the loop of write_all; `want` bytes are left of the buffer.
Unwritten == From(call.buf, Len(call.buf) - call.want)
WriteTurn ==
    /\ ~Returned /\ call.op = "write_all"
    /\ \E answer \in Accepts(call.want) :
        CASE answer = <<"Ok", 0>> -> call' = [call EXCEPT !.ret = "UnexpectedEof"] /\ UNCHANGED writer
          [] answer[1] = "Ok" /\ answer[2] > 0 ->
                /\ call' = [call EXCEPT !.want = @ - answer[2],
                                        !.ret = IF call.want = answer[2] THEN "Ok" ELSE "Running"]
                /\ writer' = [writer EXCEPT !.out = @ \o FirstOf(Unwritten, answer[2]),
                                            !.room = IF writer.kind = "slice" THEN @ - answer[2] ELSE @]
          [] answer[1] = "Interrupted" -> UNCHANGED <<call, writer>>
          [] OTHER -> call' = [call EXCEPT !.ret = answer[1]] /\ UNCHANGED writer
    /\ UNCHANGED <<reader, take, past>>

IoNext == \/ read_exact \/ Take \/ read_to_end \/ DropTake \/ fill_and_consume
          \/ ReadTurn \/ write_all \/ WriteTurn

(***************************************************************************)
(* Properties.                                                             *)
(***************************************************************************)
\* The end of the source or of the Take.
AtEnd == Rest(reader) = << >> \/ (take # << >> /\ take[1] = 0)

\* The default methods of Read and Write (io/src/lib.rs) neither lose, repeat nor
\* reorder bytes, however the wrapped reader splits them and however often it is
\* interrupted: what the calls delivered and what is left in the reader make up the
\* source; read_exact succeeds only with a full buffer and reports an early end only
\* at the end of the source or of the Take; read_to_end succeeds only there; a Take
\* never passes its limit; and write_all has written a prefix of its buffer, all of
\* it exactly when it succeeds.
StreamsExact ==
    /\ Settled \o Rest(reader) = Source
    /\ take # << >> => Len(Settled) + take[1] = past.stop
    /\ call.op = "read_exact" =>
        /\ call.ret = "Ok" <=> Len(call.buf) = call.want
        /\ call.ret = "UnexpectedEof" => AtEnd
    /\ (call.op = "read_to_end" /\ call.ret = "Ok") => AtEnd
    /\ (call.op = "write_all" /\ writer.kind # "sink") =>
        /\ writer.out = call.before \o FirstOf(call.buf, Len(call.buf) - call.want)
        /\ call.ret = "Ok" <=> call.want = 0

\* Every read_exact, read_to_end and write_all returns, provided the wrapped reader or
\* writer is not interrupted for ever: each turn of the loops of io/src/lib.rs brings
\* them closer to an end.
CallsReturn == call.ret = "Running" ~> call.ret # "Running"
=============================================================================
