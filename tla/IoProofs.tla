------------------------------ MODULE IoProofs ------------------------------
(***************************************************************************)
(* Proofs about Io: for every source, every size of buffer, limit and      *)
(* chunk, and every way the wrapped reader or writer splits, interrupts or *)
(* fails a call, bytes are neither lost, repeated nor reordered.           *)
(***************************************************************************)
EXTENDS Io, TLAPS

-----------------------------------------------------------------------------
(* Beginnings and ends of sequences of bytes *)

\* The smaller of two numbers (Ord::min in Take::read and Take::fill_buf).
LEMMA MinPair ==
    ASSUME NEW a \in Nat, NEW b \in Nat
    PROVE  /\ Min({a, b}) = IF a <= b THEN a ELSE b
           /\ Min({a, b}) \in Nat /\ Min({a, b}) <= a /\ Min({a, b}) <= b
<1>1. \E x \in {a, b} : \A y \in {a, b} : x <= y
  OBVIOUS
<1>2. Min({a, b}) \in {a, b} /\ \A y \in {a, b} : Min({a, b}) <= y
  BY <1>1 DEF Min
<1> QED
  BY <1>2

\* The first n bytes and the others.
LEMMA FirstFrom ==
    ASSUME NEW s \in Seq(Octet), NEW n \in Nat, n <= Len(s)
    PROVE  /\ FirstOf(s, n) \in Seq(Octet) /\ Len(FirstOf(s, n)) = n
           /\ \A i \in 1 .. n : FirstOf(s, n)[i] = s[i]
           /\ From(s, n) \in Seq(Octet) /\ Len(From(s, n)) = Len(s) - n
           /\ \A i \in 1 .. Len(s) - n : From(s, n)[i] = s[n + i]
<1> DEFINE B == Octet
<1> HIDE DEF B
<1>1. s \in Seq(B) /\ Len(s) \in Nat
  BY DEF B
<1>2. \A i \in 1 .. Len(s) : s[i] \in B
  BY <1>1
<1>3. /\ SubSeq(s, 1, n) \in Seq(B) /\ Len(SubSeq(s, 1, n)) = n
      /\ \A i \in 1 .. n : SubSeq(s, 1, n)[i] = s[i]
  <2>1. \A i \in 1 .. n : s[i] \in B
    BY <1>1, <1>2
  <2>2. /\ SubSeq(s, 1, n) \in Seq(B) /\ Len(SubSeq(s, 1, n)) = IF 1 <= n THEN n - 1 + 1 ELSE 0
        /\ \A i \in 1 .. n - 1 + 1 : SubSeq(s, 1, n)[i] = s[1 + i - 1]
    BY <1>1, <2>1
  <2> QED
    BY <2>2
<1>4. /\ SubSeq(s, n + 1, Len(s)) \in Seq(B) /\ Len(SubSeq(s, n + 1, Len(s))) = Len(s) - n
      /\ \A i \in 1 .. Len(s) - n : SubSeq(s, n + 1, Len(s))[i] = s[n + i]
  <2>1. \A i \in n + 1 .. Len(s) : s[i] \in B
    BY <1>1, <1>2
  <2>2. /\ SubSeq(s, n + 1, Len(s)) \in Seq(B)
        /\ Len(SubSeq(s, n + 1, Len(s))) = IF n + 1 <= Len(s) THEN Len(s) - (n + 1) + 1 ELSE 0
        /\ \A i \in 1 .. Len(s) - (n + 1) + 1 : SubSeq(s, n + 1, Len(s))[i] = s[(n + 1) + i - 1]
    BY <1>1, <2>1
  <2> QED
    BY <1>1, <2>2
<1> QED
  BY <1>3, <1>4 DEF FirstOf, From, B

\* Concatenation, byte by byte.
LEMMA Joined ==
    ASSUME NEW s \in Seq(Octet), NEW t \in Seq(Octet)
    PROVE  /\ s \o t \in Seq(Octet) /\ Len(s \o t) = Len(s) + Len(t)
           /\ \A i \in 1 .. Len(s) + Len(t) : (s \o t)[i] = IF i <= Len(s) THEN s[i] ELSE t[i - Len(s)]
<1> DEFINE B == Octet
<1> HIDE DEF B
<1>1. s \in Seq(B) /\ t \in Seq(B)
  BY DEF B
<1>2. /\ s \o t \in Seq(B) /\ Len(s \o t) = Len(s) + Len(t)
      /\ \A i \in 1 .. Len(s) + Len(t) : (s \o t)[i] = IF i <= Len(s) THEN s[i] ELSE t[i - Len(s)]
  BY <1>1
<1> QED
  BY <1>2 DEF B

\* Sequences of bytes with the same bytes are the same.
LEMMA SameBytes ==
    ASSUME NEW s \in Seq(Octet), NEW t \in Seq(Octet), Len(s) = Len(t), \A i \in 1 .. Len(s) : s[i] = t[i]
    PROVE  s = t
OBVIOUS

\* Bytes delivered in three pieces.
LEMMA JoinedAgain ==
    ASSUME NEW s \in Seq(Octet), NEW t \in Seq(Octet), NEW u \in Seq(Octet)
    PROVE  (s \o t) \o u = s \o (t \o u)
<1> DEFINE B == Octet
<1> HIDE DEF B
<1>1. s \in Seq(B) /\ t \in Seq(B) /\ u \in Seq(B)
  BY DEF B
<1> QED
  BY <1>1

\* The first n bytes before the others make up the whole.
LEMMA FirstBeforeRest ==
    ASSUME NEW s \in Seq(Octet), NEW n \in Nat, n <= Len(s)
    PROVE  FirstOf(s, n) \o From(s, n) = s
<1> DEFINE a == FirstOf(s, n)
           b == From(s, n)
<1>1. /\ a \in Seq(Octet) /\ Len(a) = n /\ \A i \in 1 .. n : a[i] = s[i]
      /\ b \in Seq(Octet) /\ Len(b) = Len(s) - n /\ \A i \in 1 .. Len(s) - n : b[i] = s[n + i]
      /\ Len(s) \in Nat
  BY FirstFrom
<1> HIDE DEF a, b
<1>2. /\ a \o b \in Seq(Octet) /\ Len(a \o b) = Len(a) + Len(b)
      /\ \A i \in 1 .. Len(a) + Len(b) : (a \o b)[i] = IF i <= Len(a) THEN a[i] ELSE b[i - Len(a)]
  BY <1>1, Joined
<1>3. \A i \in 1 .. Len(s) : (a \o b)[i] = s[i]
  <2> SUFFICES ASSUME NEW i \in 1 .. Len(s) PROVE (a \o b)[i] = s[i]
    BY Zenon
  <2>1. CASE i <= n
    BY <1>1, <1>2, <2>1
  <2>2. CASE i > n
    <3>1. i - n \in 1 .. Len(s) - n /\ n + (i - n) = i
      BY <1>1, <2>2
    <3>2. b[i - n] = s[i]
      BY <1>1, <3>1
    <3> QED
      BY <1>1, <1>2, <2>2, <3>2
  <2> QED
    BY <1>1, <2>1, <2>2
<1>4. Len(a \o b) = Len(s)
  BY <1>1, <1>2
<1>5. a \o b = s
  BY <1>2, <1>3, <1>4, SameBytes, Zenon
<1> QED
  BY <1>5 DEF a, b

\* Skipping twice.
LEMMA FromFrom ==
    ASSUME NEW s \in Seq(Octet), NEW n \in Nat, NEW k \in Nat, n + k <= Len(s)
    PROVE  From(From(s, n), k) = From(s, n + k)
<1>1. Len(s) \in Nat /\ n <= Len(s)
  OBVIOUS
<1> DEFINE a == From(s, n)
<1>2. a \in Seq(Octet) /\ Len(a) = Len(s) - n /\ \A i \in 1 .. Len(s) - n : a[i] = s[n + i]
  BY <1>1, FirstFrom, Zenon
<1> HIDE DEF a
<1> DEFINE b == From(a, k)
           c == From(s, n + k)
<1>3. b \in Seq(Octet) /\ Len(b) = Len(a) - k /\ \A i \in 1 .. Len(a) - k : b[i] = a[k + i]
  <2>1. k <= Len(a)
    BY <1>1, <1>2
  <2> QED
    BY SMTT(30), <1>2, <2>1, FirstFrom
<1>4. c \in Seq(Octet) /\ Len(c) = Len(s) - (n + k) /\ \A i \in 1 .. Len(s) - (n + k) : c[i] = s[n + k + i]
  <2> DEFINE m == n + k
  <2>1. m \in Nat /\ m <= Len(s)
    OBVIOUS
  <2> HIDE DEF m
  <2>2. From(s, m) \in Seq(Octet) /\ Len(From(s, m)) = Len(s) - m /\ \A i \in 1 .. Len(s) - m : From(s, m)[i] = s[m + i]
    BY <2>1, FirstFrom, Zenon
  <2> QED
    BY <2>2 DEF m
<1> HIDE DEF b, c
<1>5. Len(b) = Len(c)
  BY <1>1, <1>2, <1>3, <1>4
<1>6. \A i \in 1 .. Len(b) : b[i] = c[i]
  <2> SUFFICES ASSUME NEW i \in 1 .. Len(b) PROVE b[i] = c[i]
    OBVIOUS
  <2>1. i \in 1 .. Len(a) - k /\ i \in 1 .. Len(s) - (n + k) /\ k + i \in 1 .. Len(s) - n
    BY <1>1, <1>2, <1>3
  <2>2. b[i] = a[k + i] /\ a[k + i] = s[n + (k + i)] /\ c[i] = s[n + k + i]
    BY <1>2, <1>3, <1>4, <2>1
  <2>3. n + (k + i) = n + k + i
    BY <2>1
  <2> QED
    BY <2>2, <2>3
<1>7. b = c
  BY <1>3, <1>4, <1>5, <1>6, SameBytes
<1> QED
  BY <1>7 DEF a, b, c

\* The next k bytes after the first n.
LEMMA FirstThenNext ==
    ASSUME NEW s \in Seq(Octet), NEW n \in Nat, NEW k \in Nat, n + k <= Len(s)
    PROVE  FirstOf(s, n) \o FirstOf(From(s, n), k) = FirstOf(s, n + k)
<1>1. Len(s) \in Nat /\ n <= Len(s)
  OBVIOUS
<1> DEFINE a == FirstOf(s, n)
           f == From(s, n)
           c == FirstOf(s, n + k)
<1>2. /\ a \in Seq(Octet) /\ Len(a) = n /\ \A i \in 1 .. n : a[i] = s[i]
      /\ f \in Seq(Octet) /\ Len(f) = Len(s) - n /\ \A i \in 1 .. Len(s) - n : f[i] = s[n + i]
  BY <1>1, FirstFrom, Zenon
<1>3. c \in Seq(Octet) /\ Len(c) = n + k /\ \A i \in 1 .. n + k : c[i] = s[i]
  <2> DEFINE m == n + k
  <2>1. m \in Nat /\ m <= Len(s)
    OBVIOUS
  <2> HIDE DEF m
  <2>2. FirstOf(s, m) \in Seq(Octet) /\ Len(FirstOf(s, m)) = m /\ \A i \in 1 .. m : FirstOf(s, m)[i] = s[i]
    BY <2>1, FirstFrom, Zenon
  <2> QED
    BY <2>2 DEF m
<1> HIDE DEF a, f, c
<1> DEFINE b == FirstOf(f, k)
<1>4. b \in Seq(Octet) /\ Len(b) = k /\ \A i \in 1 .. k : b[i] = f[i]
  <2>1. k <= Len(f)
    BY <1>1, <1>2
  <2> QED
    BY SMTT(30), <1>2, <2>1, FirstFrom
<1> HIDE DEF b
<1>5. /\ a \o b \in Seq(Octet) /\ Len(a \o b) = Len(a) + Len(b)
      /\ \A i \in 1 .. Len(a) + Len(b) : (a \o b)[i] = IF i <= Len(a) THEN a[i] ELSE b[i - Len(a)]
  BY <1>2, <1>4, Joined, Zenon
<1>6. \A i \in 1 .. n + k : (a \o b)[i] = c[i]
  <2> SUFFICES ASSUME NEW i \in 1 .. n + k PROVE (a \o b)[i] = c[i]
    BY Zenon
  <2>1. CASE i <= n
    BY <1>2, <1>3, <1>4, <1>5, <2>1
  <2>2. CASE i > n
    <3>1. i - n \in 1 .. k /\ i - n \in 1 .. Len(s) - n /\ n + (i - n) = i
      BY <1>1, <2>2
    <3>2. b[i - n] = s[i]
      BY <1>2, <1>4, <3>1
    <3> QED
      BY <1>2, <1>3, <1>4, <1>5, <2>2, <3>2
  <2>3. i <= n \/ i > n
    OBVIOUS
  <2> QED
    BY <2>1, <2>2, <2>3, Zenon
<1>7. Len(a \o b) = Len(c) /\ Len(a \o b) = n + k
  BY <1>2, <1>3, <1>4, <1>5
<1>8. a \o b = c
  BY SMTT(30), <1>3, <1>5, <1>6, <1>7, SameBytes
<1> QED
  BY <1>8 DEF a, b, c, f

\* What extend_from_slice takes from the chunk is what the read left in it: the
\* bytes of earlier reads behind them stay out.
LEMMA ChunkHoldsRead ==
    ASSUME NEW chunk \in Seq(Octet), NEW bytes \in Seq(Octet), Len(bytes) <= Len(chunk)
    PROVE  /\ Overwrite(chunk, bytes) \in Seq(Octet) /\ Len(Overwrite(chunk, bytes)) = Len(chunk)
           /\ extend_from_slice(Overwrite(chunk, bytes), Len(bytes)) = bytes
<1> DEFINE o == Overwrite(chunk, bytes)
<1>1. Len(chunk) \in Nat /\ Len(bytes) \in Nat /\ DOMAIN chunk = 1 .. Len(chunk)
  OBVIOUS
<1>2. \A i \in 1 .. Len(chunk) : (IF i <= Len(bytes) THEN bytes[i] ELSE chunk[i]) \in Octet
  <2> SUFFICES ASSUME NEW i \in 1 .. Len(chunk)
               PROVE  (IF i <= Len(bytes) THEN bytes[i] ELSE chunk[i]) \in Octet
    OBVIOUS
  <2>1. chunk[i] \in Octet /\ (i <= Len(bytes) => bytes[i] \in Octet)
    BY <1>1
  <2> QED
    BY <2>1
<1>3. o \in Seq(Octet) /\ Len(o) = Len(chunk) /\ \A i \in 1 .. Len(bytes) : o[i] = bytes[i]
  BY <1>1, <1>2 DEF Overwrite
<1> HIDE DEF o
<1> DEFINE f == FirstOf(o, Len(bytes))
<1>4. f \in Seq(Octet) /\ Len(f) = Len(bytes) /\ \A i \in 1 .. Len(bytes) : f[i] = o[i]
  BY <1>1, <1>3, FirstFrom
<1> HIDE DEF f
<1>5. f = bytes
  BY <1>3, <1>4, SameBytes, Zenon
<1> QED
  BY <1>3, <1>5 DEF o, f, extend_from_slice

-----------------------------------------------------------------------------
(* The inductive invariant *)

Readers == {r \in [kind : {"slice", "cursor", "stream"}, inner : Seq(Octet), pos : Nat] :
                r.pos <= Len(r.inner) /\ (r.kind # "cursor" => r.pos = 0)}

CallRecords ==
    [op : {"none", "read_exact", "read_to_end", "consume", "write_all"}, want : Nat,
     buf : Seq(Octet), chunk : Seq(Octet), before : Seq(Octet), ret : {"Running", "Ok"} \cup ErrorKind]

IoTypeOK ==
    /\ reader \in Readers
    /\ take \in Seq(Nat) /\ Len(take) <= 1
    /\ call \in CallRecords
    /\ Len(call.chunk) = ChunkLen
    /\ writer \in [kind : {"vec", "slice", "stream", "sink"}, out : Seq(Octet), room : Nat]
    /\ past \in [got : Seq(Octet), stop : Nat]

\* A running call has more to do: StreamsExact alone does not say so.
IoIInv ==
    /\ IoTypeOK /\ StreamsExact
    /\ call.op = "read_exact" => Len(call.buf) <= call.want
    /\ call.op = "write_all" => call.want <= Len(call.buf)
    /\ (call.op = "write_all" /\ ~Returned) => call.want > 0 /\ writer.kind # "sink"

\* Taking n bytes leaves the reader with the others.
LEMMA AdvanceRest ==
    ASSUME reader \in Readers, NEW n \in Nat, n <= Len(Rest(reader))
    PROVE  advance(n) \in Readers /\ Rest(advance(n)) = From(Rest(reader), n)
<1> DEFINE s == reader.inner
           p == reader.pos
<1>1. s \in Seq(Octet) /\ p \in Nat /\ p <= Len(s) /\ Len(s) \in Nat
  BY DEF Readers
<1>2. Rest(reader) = From(s, p) /\ Len(From(s, p)) = Len(s) - p
  BY <1>1, FirstFrom, Zenon DEF Rest
<1>3. p + n <= Len(s) /\ n <= Len(s)
  BY <1>1, <1>2
<1>4. CASE reader.kind = "cursor"
  <2>1. advance(n) = [reader EXCEPT !.pos = p + n]
    BY <1>4 DEF advance
  <2>2. advance(n) \in Readers /\ advance(n).inner = s /\ advance(n).pos = p + n
    BY <1>1, <1>3, <1>4, <2>1 DEF Readers
  <2>3. From(From(s, p), n) = From(s, p + n)
    BY <1>1, <1>3, FromFrom
  <2> QED
    BY <1>2, <2>2, <2>3 DEF Rest
<1>5. CASE reader.kind # "cursor"
  <2>1. advance(n) = [reader EXCEPT !.inner = From(s, n)]
    BY <1>5 DEF advance
  <2>2. From(s, n) \in Seq(Octet) /\ Len(From(s, n)) = Len(s) - n /\ p = 0
    BY <1>1, <1>3, <1>5, FirstFrom DEF Readers
  <2>3. advance(n) \in Readers /\ advance(n).inner = From(s, n) /\ advance(n).pos = 0
    <3> DEFINE f == From(s, n)
    <3>1. f \in Seq(Octet) /\ Len(f) \in Nat /\ advance(n) = [reader EXCEPT !.inner = f]
      BY <2>1, <2>2
    <3> HIDE DEF f
    <3>2. advance(n).inner = f /\ advance(n).pos = 0
      BY <2>2, <3>1 DEF Readers
    <3>3. advance(n) \in Readers
      BY <1>5, <2>2, <3>1 DEF Readers
    <3> QED
      BY <3>2, <3>3 DEF f
  <2>4. From(From(s, n), 0) = From(s, n) /\ From(From(s, 0), n) = From(s, n)
    BY <1>1, <1>3, FromFrom
  <2> QED
    BY <1>2, <2>2, <2>3, <2>4 DEF Rest
<1> QED
  BY <1>4, <1>5

\* What was delivered and what is left are sequences of bytes.
LEMMA SettledType == IoTypeOK => Settled \in Seq(Octet) /\ Rest(reader) \in Seq(Octet)
<1> SUFFICES ASSUME IoTypeOK PROVE Settled \in Seq(Octet) /\ Rest(reader) \in Seq(Octet)
  OBVIOUS
<1>1. past.got \in Seq(Octet) /\ call.buf \in Seq(Octet)
  BY DEF IoTypeOK, CallRecords
<1>2. Settled \in Seq(Octet)
  BY <1>1, Joined DEF Settled
<1>3. reader.inner \in Seq(Octet) /\ reader.pos \in Nat /\ reader.pos <= Len(reader.inner)
  BY DEF IoTypeOK, Readers
<1> QED
  BY <1>2, <1>3, FirstFrom DEF Rest

\* A new reader holds the whole source, a new writer nothing.
LEMMA InitIo == IoInit => IoIInv
<1> SUFFICES ASSUME IoInit PROVE IoIInv
  OBVIOUS
<1>1. reader \in Readers /\ reader.inner = Source /\ reader.pos = 0
  BY IoAssumption DEF IoInit, Readers
<1>2. [i \in 1 .. ChunkLen |-> 0] \in Seq(Octet) /\ Len([i \in 1 .. ChunkLen |-> 0]) = ChunkLen
  BY IoAssumption DEF Octet
<1>3. << >> \in Seq(Octet) /\ << >> \in Seq(Nat)
  OBVIOUS
<1>4. IoTypeOK
  <2> DEFINE zeros == [i \in 1 .. ChunkLen |-> 0]
  <2>1. zeros \in Seq(Octet) /\ Len(zeros) = ChunkLen
    BY <1>2, Zenon
  <2>2. call = [op |-> "none", want |-> 0, buf |-> << >>, chunk |-> zeros, before |-> << >>, ret |-> "Ok"]
    BY DEF IoInit
  <2> HIDE DEF zeros
  <2>3. /\ call \in CallRecords
        /\ Len(call.chunk) = ChunkLen
    BY <1>3, <2>1, <2>2 DEF CallRecords
  <2>4. writer \in [kind : {"vec", "slice", "stream", "sink"}, out : Seq(Octet), room : Nat]
    <3>1. PICK k \in {"vec", "slice", "stream", "sink"} : writer = [kind |-> k, out |-> << >>, room |-> SliceLen]
      BY DEF IoInit
    <3> QED
      BY <1>3, <3>1, IoAssumption
  <2>5. /\ past \in [got : Seq(Octet), stop : Nat]
        /\ take \in Seq(Nat) /\ Len(take) <= 1
    BY <1>3 DEF IoInit
  <2> QED
    BY <1>1, <2>3, <2>4, <2>5 DEF IoTypeOK
<1>5. Settled = << >> \o << >>
  BY DEF IoInit, Settled
<1>6. Rest(reader) = Source
  <2>1. Source \in Seq(Octet)
    BY IoAssumption
  <2>2. SubSeq(Source, 1, Len(Source)) = Source
    BY <2>1
  <2> QED
    BY <1>1, <2>2 DEF Rest, From
<1>7. Settled \o Rest(reader) = Source
  BY <1>5, <1>6, IoAssumption
<1> QED
  BY <1>4, <1>7 DEF IoInit, IoIInv, StreamsExact

\* A call begins: the bytes of the last one join the history.
Begins ==
    /\ past'.got = Settled /\ past' \in [got : Seq(Octet), stop : Nat]
    /\ call'.op = "write_all" \/ call'.buf = << >>
    /\ UNCHANGED <<reader, writer>>

\* A call that begins neither takes nor loses bytes.
LEMMA BeginsSettled ==
    ASSUME IoIInv, Begins, call' \in CallRecords
    PROVE  Settled' = Settled /\ (Settled \o Rest(reader) = Source)' /\ Rest(reader)' = Rest(reader)
<1>1. Settled \in Seq(Octet)
  BY SettledType DEF IoIInv
<1>2. Settled' = Settled
  <2>1. CASE call'.op = "write_all"
    BY <2>1 DEF Begins, Settled
  <2>2. CASE call'.op # "write_all"
    <3>1. Settled' = Settled \o << >>
      BY <2>2, Zenon DEF Begins, Settled
    <3> QED
      BY <1>1, <3>1
  <2> QED
    BY <2>1, <2>2
<1>3. Rest(reader)' = Rest(reader)
  BY DEF Begins, Rest
<1>4. Settled \o Rest(reader) = Source
  BY DEF IoIInv, StreamsExact
<1> QED
  BY <1>2, <1>3, <1>4

\* The record of a call that begins.
LEMMA StartedType ==
    ASSUME IoTypeOK, NEW op \in {"none", "read_exact", "read_to_end", "consume", "write_all"},
           NEW want \in Nat, NEW buf \in Seq(Octet)
    PROVE  /\ Started(op, want, buf) \in CallRecords
           /\ Len(Started(op, want, buf).chunk) = ChunkLen
           /\ Started(op, want, buf).op = op /\ Started(op, want, buf).want = want
           /\ Started(op, want, buf).buf = buf /\ Started(op, want, buf).before = writer.out
           /\ Started(op, want, buf).ret = "Running"
<1> DEFINE zeros == [i \in 1 .. ChunkLen |-> 0]
<1>1. zeros \in Seq(Octet) /\ Len(zeros) = ChunkLen
  BY IoAssumption DEF Octet
<1>2. Started(op, want, buf) =
         [op |-> op, want |-> want, buf |-> buf, chunk |-> zeros, before |-> writer.out, ret |-> "Running"]
  BY DEF Started
<1>3. writer.out \in Seq(Octet)
  BY DEF IoTypeOK
<1> HIDE DEF zeros
<1> QED
  BY <1>1, <1>2, <1>3 DEF CallRecords

\* The record of a call that begins with an empty buffer.
LEMMA StartedEmpty ==
    ASSUME IoTypeOK, NEW op \in {"none", "read_exact", "read_to_end"}, NEW want \in Nat
    PROVE  LET c == Started(op, want, << >>)
           IN  /\ c \in CallRecords /\ Len(c.chunk) = ChunkLen
               /\ c.op = op /\ c.want = want /\ c.buf = << >> /\ c.ret = "Running"
<1> DEFINE empty == << >>
<1>1. empty \in Seq(Octet)
  OBVIOUS
<1> HIDE DEF empty
<1>2. LET c == Started(op, want, empty)
      IN  c \in CallRecords /\ Len(c.chunk) = ChunkLen /\ c.op = op /\ c.want = want /\ c.buf = empty /\ c.ret = "Running"
  BY <1>1, StartedType
<1> QED
  BY <1>2 DEF empty

\* The same call, returned at once.
LEMMA ReturnedRecord ==
    ASSUME NEW c \in CallRecords, NEW ret \in {"Running", "Ok"} \cup ErrorKind,
           NEW d, d = [c EXCEPT !.ret = ret]
    PROVE  /\ d \in CallRecords /\ d.chunk = c.chunk /\ d.op = c.op /\ d.want = c.want
           /\ d.buf = c.buf /\ d.before = c.before /\ d.ret = ret
  BY DEF CallRecords

-----------------------------------------------------------------------------
(* Calls that begin *)

\* read_exact begins; with an empty buffer it returns at once.
LEMMA ReadExactBegins == IoIInv /\ read_exact => IoIInv'
<1> SUFFICES ASSUME IoIInv, read_exact PROVE IoIInv'
  OBVIOUS
<1>1. PICK n \in BufSizes :
         call' = [Started("read_exact", n, << >>) EXCEPT !.ret = IF n = 0 THEN "Ok" ELSE "Running"]
  BY DEF read_exact
<1>2. n \in Nat /\ << >> \in Seq(Octet) /\ IoTypeOK
  BY IoAssumption DEF IoIInv
<1>3. /\ call' \in CallRecords /\ Len(call'.chunk) = ChunkLen
      /\ call'.op = "read_exact" /\ call'.want = n /\ call'.buf = << >>
      /\ call'.ret = IF n = 0 THEN "Ok" ELSE "Running"
  <2> DEFINE c == Started("read_exact", n, << >>)
             ret == IF n = 0 THEN "Ok" ELSE "Running"
  <2>1. c \in CallRecords /\ Len(c.chunk) = ChunkLen /\ c.op = "read_exact" /\ c.want = n /\ c.buf = << >>
    BY <1>2, StartedEmpty
  <2>2. call' = [c EXCEPT !.ret = ret] /\ ret \in {"Running", "Ok"}
    BY <1>1
  <2> HIDE DEF c, ret
  <2>3. /\ call' \in CallRecords /\ Len(call'.chunk) = ChunkLen
        /\ call'.op = "read_exact" /\ call'.want = n /\ call'.buf = << >> /\ call'.ret = ret
    BY SMTT(30), <2>1, <2>2, ReturnedRecord
  <2> QED
    BY <2>3 DEF ret
<1>4. Settled \in Seq(Octet) /\ past' \in [got : Seq(Octet), stop : Nat] /\ past'.got = Settled /\ past'.stop = past.stop
  BY <1>2, SettledType DEF read_exact, IoTypeOK
<1>5. UNCHANGED <<reader, take, writer>>
  BY DEF read_exact
<1>6. IoTypeOK'
  BY <1>2, <1>3, <1>4, <1>5 DEF IoTypeOK
<1>7. Settled' = Settled /\ (Settled \o Rest(reader) = Source)'
  BY <1>3, <1>4, <1>5, BeginsSettled DEF Begins
<1>8. Len(call'.buf) = 0
  BY <1>3
<1> QED
  BY <1>2, <1>3, <1>4, <1>5, <1>6, <1>7, <1>8 DEF IoIInv, StreamsExact, Returned

\* Read::take, alone or within read_to_limit: the limit counts from here.
LEMMA TakeBegins == IoIInv /\ Take => IoIInv'
<1> SUFFICES ASSUME IoIInv, Take PROVE IoIInv'
  OBVIOUS
<1>1. PICK limit \in Limits, whole \in BOOLEAN :
         /\ take' = <<limit>>
         /\ past' = [got |-> Settled, stop |-> Len(Settled) + limit]
         /\ call' = IF whole THEN Started("read_to_end", 0, << >>)
                    ELSE [Started("none", 0, << >>) EXCEPT !.ret = "Ok"]
  BY DEF Take
<1>2. limit \in Nat /\ << >> \in Seq(Octet) /\ IoTypeOK
  BY IoAssumption DEF IoIInv
<1>3. /\ call' \in CallRecords /\ Len(call'.chunk) = ChunkLen /\ call'.buf = << >>
      /\ call'.op = "none" \/ (call'.op = "read_to_end" /\ call'.ret = "Running")
  <2> DEFINE c == Started("none", 0, << >>)
             d == Started("read_to_end", 0, << >>)
  <2>1. c \in CallRecords /\ Len(c.chunk) = ChunkLen /\ c.op = "none" /\ c.buf = << >>
    BY <1>2, StartedEmpty
  <2>2. d \in CallRecords /\ Len(d.chunk) = ChunkLen /\ d.op = "read_to_end" /\ d.buf = << >> /\ d.ret = "Running"
    BY <1>2, StartedEmpty
  <2>3. call' = IF whole THEN d ELSE [c EXCEPT !.ret = "Ok"]
    BY <1>1
  <2> HIDE DEF c, d
  <2> QED
    BY Zenon, <2>1, <2>2, <2>3 DEF CallRecords
<1>4. Settled \in Seq(Octet) /\ Len(Settled) \in Nat
  BY <1>2, SettledType
<1>5. past' \in [got : Seq(Octet), stop : Nat] /\ past'.got = Settled /\ past'.stop = Len(Settled) + limit
  BY <1>1, <1>2, <1>4
<1>6. UNCHANGED <<reader, writer>>
  BY DEF Take
<1>7. take' \in Seq(Nat) /\ Len(take') <= 1 /\ take'[1] = limit
  BY <1>1, <1>2
<1>8. IoTypeOK'
  BY <1>2, <1>3, <1>5, <1>6, <1>7 DEF IoTypeOK
<1>9. Settled' = Settled /\ (Settled \o Rest(reader) = Source)'
  BY <1>3, <1>5, <1>6, BeginsSettled DEF Begins
<1> QED
  BY <1>3, <1>5, <1>7, <1>8, <1>9, Zenon DEF IoIInv, StreamsExact

\* Take::read_to_end begins.
LEMMA ReadToEndBegins == IoIInv /\ read_to_end => IoIInv'
<1> SUFFICES ASSUME IoIInv, read_to_end PROVE IoIInv'
  OBVIOUS
<1>1. << >> \in Seq(Octet) /\ IoTypeOK /\ call' = Started("read_to_end", 0, << >>)
  BY DEF IoIInv, read_to_end
<1>2. /\ call' \in CallRecords /\ Len(call'.chunk) = ChunkLen /\ call'.buf = << >>
      /\ call'.op = "read_to_end" /\ call'.ret = "Running"
  BY <1>1, StartedEmpty
<1>3. Settled \in Seq(Octet) /\ past' \in [got : Seq(Octet), stop : Nat] /\ past'.got = Settled /\ past'.stop = past.stop
  BY <1>1, SettledType DEF read_to_end, IoTypeOK
<1>4. UNCHANGED <<reader, take, writer>>
  BY DEF read_to_end
<1>5. IoTypeOK'
  BY <1>1, <1>2, <1>3, <1>4 DEF IoTypeOK
<1>6. Settled' = Settled /\ (Settled \o Rest(reader) = Source)'
  BY <1>2, <1>3, <1>4, BeginsSettled DEF Begins
<1> QED
  BY <1>2, <1>3, <1>4, <1>5, <1>6 DEF IoIInv, StreamsExact

\* The Take goes out of scope.
LEMMA DropTakeEnds == IoIInv /\ DropTake => IoIInv'
<1> SUFFICES ASSUME IoIInv, DropTake PROVE IoIInv'
  OBVIOUS
<1>1. << >> \in Seq(Octet) /\ IoTypeOK /\ call' = [Started("none", 0, << >>) EXCEPT !.ret = "Ok"]
  BY DEF IoIInv, DropTake
<1>2. /\ call' \in CallRecords /\ Len(call'.chunk) = ChunkLen /\ call'.buf = << >>
      /\ call'.op = "none"
  <2> DEFINE c == Started("none", 0, << >>)
  <2>1. c \in CallRecords /\ Len(c.chunk) = ChunkLen /\ c.op = "none" /\ c.buf = << >>
    BY <1>1, StartedEmpty
  <2>2. call' = [c EXCEPT !.ret = "Ok"]
    BY <1>1
  <2> HIDE DEF c
  <2> QED
    BY <2>1, <2>2 DEF CallRecords
<1>3. Settled \in Seq(Octet) /\ past' \in [got : Seq(Octet), stop : Nat] /\ past'.got = Settled
  BY SMTT(30), <1>1, SettledType DEF DropTake, IoTypeOK
<1>4. UNCHANGED <<reader, writer>> /\ take' = << >>
  BY DEF DropTake
<1>5. IoTypeOK'
  BY <1>1, <1>2, <1>3, <1>4 DEF IoTypeOK
<1>6. Settled' = Settled /\ (Settled \o Rest(reader) = Source)'
  BY <1>2, <1>3, <1>4, BeginsSettled DEF Begins
<1> QED
  BY <1>2, <1>4, <1>5, <1>6 DEF IoIInv, StreamsExact

\* write_all begins; a sink, or an empty buffer, ends it at once.
LEMMA WriteAllBegins == IoIInv /\ write_all => IoIInv'
<1> SUFFICES ASSUME IoIInv, write_all PROVE IoIInv'
  OBVIOUS
<1>1. PICK buf \in Offers :
         call' = [Started("write_all", Len(buf), buf) EXCEPT
                      !.ret = IF buf = << >> \/ writer.kind = "sink" THEN "Ok" ELSE "Running"]
  BY Zenon DEF write_all
<1>2. buf \in Seq(Octet) /\ Len(buf) \in Nat /\ (buf = << >> <=> Len(buf) = 0) /\ IoTypeOK
  BY IoAssumption DEF IoIInv
<1>3. /\ call' \in CallRecords /\ Len(call'.chunk) = ChunkLen /\ call'.buf = buf
      /\ call'.op = "write_all" /\ call'.want = Len(buf) /\ call'.before = writer.out
      /\ call'.ret = IF buf = << >> \/ writer.kind = "sink" THEN "Ok" ELSE "Running"
  BY <1>1, <1>2, StartedType DEF CallRecords
<1>4. Settled \in Seq(Octet) /\ past' \in [got : Seq(Octet), stop : Nat] /\ past'.got = Settled /\ past'.stop = past.stop
  BY <1>2, SettledType, Zenon DEF write_all, IoTypeOK
<1>5. UNCHANGED <<reader, take, writer>>
  BY DEF write_all
<1>6. IoTypeOK'
  BY <1>2, <1>3, <1>4, <1>5 DEF IoTypeOK
<1>7. Settled' = Settled /\ (Settled \o Rest(reader) = Source)'
  BY <1>3, <1>4, <1>5, BeginsSettled DEF Begins
<1>8. writer'.out = call'.before \o FirstOf(call'.buf, Len(call'.buf) - call'.want)
  <2>1. Len(buf) - Len(buf) = 0 /\ FirstOf(buf, 0) \in Seq(Octet) /\ Len(FirstOf(buf, 0)) = 0
    BY <1>2, FirstFrom
  <2>2. FirstOf(buf, 0) = << >>
    BY <2>1
  <2>3. writer.out \in Seq(Octet)
    BY <1>2 DEF IoTypeOK
  <2>4. writer.out \o << >> = writer.out
    BY <2>3
  <2> QED
    BY <1>3, <1>5, <2>1, <2>2, <2>4, Zenon
<1> QED
  BY SMTT(30), <1>2, <1>3, <1>4, <1>5, <1>6, <1>7, <1>8 DEF IoIInv, StreamsExact, Returned

-----------------------------------------------------------------------------
(* Bytes that move *)

\* Take counts down by what was read (Take::read and Take::consume).
TakeAfter(n) == [i \in DOMAIN take |-> take[i] - n]

\* The count never goes below zero.
LEMMA TakeCounts ==
    ASSUME take \in Seq(Nat), Len(take) <= 1, NEW n \in Nat, take # << >> => n <= take[1]
    PROVE  /\ TakeAfter(n) \in Seq(Nat) /\ Len(TakeAfter(n)) <= 1
           /\ TakeAfter(n) # << >> <=> take # << >>
           /\ take # << >> => TakeAfter(n)[1] = take[1] - n
<1>1. Len(take) \in Nat /\ DOMAIN take = 1 .. Len(take) /\ (take # << >> => Len(take) = 1)
  <2>1. take # << >> => Len(take) \in Nat \ {0}
    OBVIOUS
  <2>2. Len(take) \in Nat /\ DOMAIN take = 1 .. Len(take)
    OBVIOUS
  <2> QED
    BY <2>1, <2>2
<1>2. CASE take = << >>
  <2>1. TakeAfter(n) = << >>
    BY <1>2 DEF TakeAfter
  <2> QED
    BY <1>2, <2>1
<1>3. CASE take # << >>
  <2>1. DOMAIN take = 1 .. 1 /\ take[1] \in Nat /\ take[1] - n \in Nat
    BY <1>1, <1>3
  <2>2. TakeAfter(n) = [i \in 1 .. 1 |-> take[i] - n]
    BY <2>1 DEF TakeAfter
  <2>3. \A i \in 1 .. 1 : take[i] - n \in Nat
    BY <2>1
  <2>4. TakeAfter(n) \in Seq(Nat) /\ Len(TakeAfter(n)) = 1 /\ TakeAfter(n)[1] = take[1] - n
    BY <2>2, <2>3
  <2> QED
    BY <1>3, <2>4
<1> QED
  BY <1>2, <1>3

\* The first bytes of the first bytes.
LEMMA FirstOfFirst ==
    ASSUME NEW s \in Seq(Octet), NEW n \in Nat, NEW k \in Nat, k <= n, n <= Len(s)
    PROVE  FirstOf(FirstOf(s, n), k) = FirstOf(s, k)
<1> DEFINE a == FirstOf(s, n)
           c == FirstOf(s, k)
<1>1. a \in Seq(Octet) /\ Len(a) = n /\ (\A i \in 1 .. n : a[i] = s[i]) /\ Len(s) \in Nat /\ k <= Len(s)
  BY FirstFrom
<1>2. c \in Seq(Octet) /\ Len(c) = k /\ \A i \in 1 .. k : c[i] = s[i]
  BY <1>1, FirstFrom
<1> HIDE DEF a, c
<1> DEFINE b == FirstOf(a, k)
<1>3. b \in Seq(Octet) /\ Len(b) = k /\ \A i \in 1 .. k : b[i] = a[i]
  BY <1>1, FirstFrom, Zenon
<1> HIDE DEF b
<1>4. \A i \in 1 .. k : b[i] = c[i]
  BY <1>1, <1>2, <1>3
<1>5. b = c
  BY <1>2, <1>3, <1>4, SameBytes
<1> QED
  BY <1>5 DEF a, b, c

\* Bytes moved from the reader to the caller are still all there.
LEMMA Moved ==
    ASSUME NEW got \in Seq(Octet), NEW rest \in Seq(Octet), NEW n \in Nat, n <= Len(rest)
    PROVE  /\ got \o FirstOf(rest, n) \in Seq(Octet) /\ Len(got \o FirstOf(rest, n)) = Len(got) + n
           /\ (got \o FirstOf(rest, n)) \o From(rest, n) = got \o rest
<1> DEFINE a == FirstOf(rest, n)
           b == From(rest, n)
<1>1. a \in Seq(Octet) /\ Len(a) = n /\ b \in Seq(Octet) /\ a \o b = rest
  BY FirstFrom, FirstBeforeRest
<1> HIDE DEF a, b
<1>2. got \o a \in Seq(Octet) /\ Len(got \o a) = Len(got) + n
  BY <1>1, Joined, Zenon
<1>3. (got \o a) \o b = got \o (a \o b)
  BY ZenonT(30), <1>1, JoinedAgain
<1> QED
  BY <1>1, <1>2, <1>3 DEF a, b

\* fill_buf and consume, within the Take.
LEMMA ConsumeMoves == IoIInv /\ fill_and_consume => IoIInv'
<1> SUFFICES ASSUME IoIInv, fill_and_consume PROVE IoIInv'
  OBVIOUS
<1> DEFINE rest == Rest(reader)
<1>1. IoTypeOK /\ Settled \in Seq(Octet) /\ rest \in Seq(Octet) /\ Len(rest) \in Nat /\ Len(Settled) \in Nat
  BY SettledType DEF IoIInv
<1>2. PICK stop \in IF reader.kind = "stream" THEN 0 .. Len(Rest(reader)) ELSE {Len(Rest(reader))} :
         \E amount \in 0 .. Len(Peek(stop)) :
            /\ call' = [Started("consume", amount, FirstOf(Peek(stop), amount)) EXCEPT !.ret = "Ok"]
            /\ reader' = advance(amount)
            /\ take' = TakeAfter(amount)
  BY Zenon DEF fill_and_consume, TakeAfter
<1>3. PICK amount \in 0 .. Len(Peek(stop)) :
         /\ call' = [Started("consume", amount, FirstOf(Peek(stop), amount)) EXCEPT !.ret = "Ok"]
         /\ reader' = advance(amount)
         /\ take' = TakeAfter(amount)
  BY <1>2, Zenon
<1>4. stop \in 0 .. Len(rest)
  BY <1>1, <1>2
<1> DEFINE top == IF take = << >> THEN stop ELSE Min({stop, take[1]})
<1>5. take \in Seq(Nat) /\ Len(take) <= 1 /\ (take # << >> => take[1] \in Nat)
  BY <1>1 DEF IoTypeOK
<1>6. top \in Nat /\ top <= Len(rest) /\ (take # << >> => top <= take[1]) /\ Peek(stop) = FirstOf(rest, top)
  <2>1. CASE take = << >>
    BY <1>1, <1>4, <2>1 DEF Peek
  <2>2. CASE take # << >>
    <3>1. Min({stop, take[1]}) \in Nat /\ Min({stop, take[1]}) <= stop /\ Min({stop, take[1]}) <= take[1]
      BY <1>5, <1>4, <2>2, MinPair
    <3> QED
      BY <1>1, <1>4, <2>2, <3>1 DEF Peek
  <2> QED
    BY <2>1, <2>2
<1> HIDE DEF top, rest
<1>7. amount \in Nat /\ amount <= top /\ amount <= Len(rest) /\ (take # << >> => amount <= take[1])
  <2>1. Len(Peek(stop)) = top
    BY <1>1, <1>6, FirstFrom
  <2> QED
    BY <1>1, <1>5, <1>6, <2>1
<1> DEFINE bytes == FirstOf(rest, amount)
<1>8. FirstOf(Peek(stop), amount) = bytes /\ bytes \in Seq(Octet)
  BY <1>1, <1>6, <1>7, FirstOfFirst, FirstFrom
<1>9. /\ Settled \o bytes \in Seq(Octet) /\ Len(Settled \o bytes) = Len(Settled) + amount
      /\ (Settled \o bytes) \o From(rest, amount) = Settled \o rest
  BY <1>1, <1>7, Moved, Zenon
<1> HIDE DEF bytes
<1>10. call' \in CallRecords /\ Len(call'.chunk) = ChunkLen /\ call'.op = "consume" /\ call'.buf = bytes
  <2> DEFINE c == Started("consume", amount, bytes)
  <2>1. IoTypeOK /\ amount \in Nat /\ bytes \in Seq(Octet)
    BY <1>1, <1>7, <1>8
  <2>2. c \in CallRecords /\ Len(c.chunk) = ChunkLen /\ c.op = "consume" /\ c.buf = bytes
    BY <2>1, StartedType
  <2>3. call' = [c EXCEPT !.ret = "Ok"]
    BY <1>3, <1>8
  <2> HIDE DEF c
  <2> QED
    BY SMTT(30), <2>2, <2>3 DEF CallRecords
<1>11. reader' \in Readers /\ Rest(reader)' = From(rest, amount)
  <2>1. advance(amount) \in Readers /\ Rest(advance(amount)) = From(rest, amount)
    BY <1>1, <1>7, AdvanceRest DEF IoTypeOK, rest
  <2> QED
    BY <1>3, <2>1 DEF Rest
<1>12. past' \in [got : Seq(Octet), stop : Nat] /\ past'.got = Settled /\ past'.stop = past.stop
  BY Zenon, <1>1 DEF fill_and_consume, IoTypeOK
<1>13. /\ take' \in Seq(Nat) /\ Len(take') <= 1
       /\ take' # << >> => take # << >> /\ take'[1] = take[1] - amount
  BY <1>3, <1>5, <1>7, TakeCounts
<1>14. Settled' = Settled \o bytes
  BY <1>10, <1>12 DEF Settled
<1>15. IoTypeOK'
  BY <1>1, <1>10, <1>11, <1>12, <1>13 DEF IoTypeOK, fill_and_consume
<1>16. (Settled \o Rest(reader) = Source)'
  BY <1>9, <1>11, <1>14 DEF IoIInv, StreamsExact, rest
<1>17. take' # << >> => Len(Settled') + take'[1] = past'.stop
  <2> SUFFICES ASSUME take' # << >> PROVE Len(Settled') + take'[1] = past'.stop
    OBVIOUS
  <2>1. Len(Settled) + take[1] = past.stop /\ take'[1] = take[1] - amount /\ take[1] \in Nat
    BY <1>5, <1>13 DEF IoIInv, StreamsExact
  <2> QED
    BY SMTT(30), <1>1, <1>7, <1>9, <1>12, <1>14, <2>1
<1> QED
  BY <1>10, <1>15, <1>16, <1>17 DEF IoIInv, StreamsExact

\* What one read of the wrapped reader may answer.
LEMMA ReadAnswers ==
    ASSUME NEW len \in Nat, Rest(reader) \in Seq(Octet), NEW answer \in Answers(len)
    PROVE  \/ /\ answer[1] = "Ok" /\ answer[2] \in Nat
              /\ answer[2] <= len /\ answer[2] <= Len(Rest(reader))
              /\ answer[2] = 0 => len = 0 \/ Len(Rest(reader)) = 0
           \/ answer[1] \in {"Interrupted", "Other"}
<1> DEFINE most == Min({len, Len(Rest(reader))})
<1>1. Len(Rest(reader)) \in Nat
  OBVIOUS
<1>2. /\ most \in Nat /\ most <= len /\ most <= Len(Rest(reader))
      /\ most = 0 => len = 0 \/ Len(Rest(reader)) = 0
  BY <1>1, MinPair
<1>3. CASE reader.kind # "stream"
  <2>1. answer = <<"Ok", most>>
    BY <1>3 DEF Answers
  <2> HIDE DEF most
  <2> QED
    BY <1>2, <2>1
<1>4. CASE reader.kind = "stream" /\ answer \notin Faults
  <2>1. PICK n \in Min({1, most}) .. most : answer = <<"Ok", n>>
    <3>1. Answers(len) = {<<"Ok", n>> : n \in Min({1, most}) .. most} \cup Faults
      BY <1>4 DEF Answers
    <3> HIDE DEF most
    <3> QED
      BY <1>4, <3>1, Zenon
  <2> HIDE DEF most
  <2>2. Min({1, most}) = IF 1 <= most THEN 1 ELSE most
    BY <1>2, MinPair
  <2>3. n \in Nat /\ n <= most /\ (n = 0 => most = 0)
    BY <1>2, <2>1, <2>2
  <2> QED
    BY <1>1, <1>2, <2>1, <2>3
<1>5. CASE answer \in Faults
  BY SMTT(30), <1>5 DEF Faults, ErrorKind
<1> QED
  BY <1>3, <1>4, <1>5

\* One turn of a loop of reads delivers the next bytes, or ends the call.
LEMMA ReadDelivers ==
    ASSUME IoTypeOK, call.op \in {"read_exact", "read_to_end"}, call.ret = "Running",
           call.op = "read_exact" => Len(call.buf) < call.want,
           NEW rest \in Seq(Octet), NEW n \in Nat, n <= Wanted, n <= Len(rest)
    PROVE  LET c == ReadDone(n, FirstOf(rest, n))
           IN  /\ c \in CallRecords /\ Len(c.chunk) = ChunkLen
               /\ c.op = call.op /\ c.want = call.want
               /\ c.buf = call.buf \o FirstOf(rest, n) /\ Len(c.buf) = Len(call.buf) + n
               /\ call.op = "read_exact" =>
                     /\ Len(c.buf) <= c.want /\ (c.ret = "Ok" <=> Len(c.buf) = c.want)
                     /\ c.ret = "UnexpectedEof" => n = 0
               /\ call.op = "read_to_end" /\ c.ret = "Ok" => n = 0
<1> DEFINE bytes == FirstOf(rest, n)
<1>1. bytes \in Seq(Octet) /\ Len(bytes) = n
  BY FirstFrom
<1> HIDE DEF bytes
<1>2. /\ call \in CallRecords /\ call.buf \in Seq(Octet) /\ Len(call.buf) \in Nat /\ call.want \in Nat
      /\ call.chunk \in Seq(Octet) /\ Len(call.chunk) = ChunkLen
  BY DEF IoTypeOK, CallRecords
<1> DEFINE buf2 == call.buf \o bytes
<1>3. buf2 \in Seq(Octet) /\ Len(buf2) = Len(call.buf) + n
  BY <1>1, <1>2, Joined, Zenon
<1>4. n = 0 => buf2 = call.buf
  <2>1. n = 0 => bytes = << >>
    BY <1>1
  <2> QED
    BY <1>2, <2>1
<1> HIDE DEF buf2
<1> DEFINE c == ReadDone(n, bytes)
<1>5. CASE n = 0
  <2> DEFINE ret == IF call.op = "read_exact" THEN "UnexpectedEof" ELSE "Ok"
  <2>1. c = [call EXCEPT !.ret = ret]
    BY <1>5 DEF ReadDone
  <2>2. ret \in {"Running", "Ok"} \cup ErrorKind
    BY DEF ErrorKind
  <2> HIDE DEF c
  <2>3. /\ c \in CallRecords /\ c.chunk = call.chunk /\ c.op = call.op /\ c.want = call.want
        /\ c.buf = call.buf /\ c.ret = ret
    <3> HIDE DEF ret
    <3> QED
      BY <1>2, <2>1, <2>2, Zenon DEF CallRecords
  <2>4. call.op = "read_exact" => ret = "UnexpectedEof" /\ Len(call.buf) < call.want
    OBVIOUS
  <2> HIDE DEF ret
  <2>5. /\ c \in CallRecords /\ Len(c.chunk) = ChunkLen /\ c.op = call.op /\ c.want = call.want
        /\ c.buf = buf2 /\ Len(c.buf) = Len(call.buf) + n
        /\ call.op = "read_exact" =>
              /\ Len(c.buf) <= c.want /\ (c.ret = "Ok" <=> Len(c.buf) = c.want)
              /\ c.ret = "UnexpectedEof" => n = 0
        /\ call.op = "read_to_end" /\ c.ret = "Ok" => n = 0
    BY <1>2, <1>3, <1>4, <1>5, <2>3, <2>4
  <2> QED
    BY <2>5, Zenon DEF c, buf2, bytes
<1>6. CASE n > 0 /\ call.op = "read_exact"
  <2> DEFINE ret == IF n = Wanted THEN "Ok" ELSE "Running"
  <2>1. c = [call EXCEPT !.buf = buf2, !.ret = ret]
    BY <1>6 DEF ReadDone, buf2
  <2>2. Wanted = call.want - Len(call.buf)
    BY <1>6 DEF Wanted
  <2> HIDE DEF c
  <2>3. /\ c \in CallRecords /\ c.chunk = call.chunk /\ c.op = call.op /\ c.want = call.want
        /\ c.buf = buf2 /\ c.ret = ret
    BY <1>2, <1>3, <2>1, Zenon DEF CallRecords
  <2>4. Len(buf2) <= call.want /\ (n = Wanted <=> Len(buf2) = call.want)
    <3> DEFINE old == Len(call.buf)
               new == Len(buf2)
               want == call.want
    <3>1. old \in Nat /\ want \in Nat /\ new = old + n /\ Wanted = want - old /\ n <= want - old
      BY <1>2, <1>3, <2>2
    <3> HIDE DEF old, new, want
    <3>2. new <= want /\ (n = want - old <=> new = want)
      BY <3>1
    <3> QED
      BY <3>1, <3>2 DEF new, want
  <2> QED
    BY <1>2, <1>3, <1>6, <2>3, <2>4 DEF c, buf2, bytes
<1>7. CASE n > 0 /\ call.op = "read_to_end"
  <2> DEFINE o == Overwrite(call.chunk, bytes)
  <2>1. n <= ChunkLen
    BY <1>7 DEF Wanted
  <2>2. o \in Seq(Octet) /\ Len(o) = ChunkLen /\ extend_from_slice(o, n) = bytes
    BY <1>1, <1>2, <2>1, ChunkHoldsRead
  <2>3. c = [call EXCEPT !.chunk = o, !.buf = call.buf \o extend_from_slice(o, n)]
    BY <1>7 DEF ReadDone
  <2> HIDE DEF c, o
  <2>4. c = [call EXCEPT !.chunk = o, !.buf = buf2]
    BY <2>2, <2>3 DEF buf2
  <2>5. /\ c \in CallRecords /\ c.chunk = o /\ c.op = call.op /\ c.want = call.want
        /\ c.buf = buf2 /\ c.ret = "Running"
    BY <1>2, <1>3, <2>2, <2>4, Zenon DEF CallRecords
  <2> QED
    BY <1>2, <1>3, <1>7, <2>2, <2>5 DEF c, buf2, bytes
<1> QED
  BY SMTT(30), <1>5, <1>6, <1>7

\* One turn of the loop of read_exact or read_to_end.
LEMMA ReadTurnMoves == IoIInv /\ ReadTurn => IoIInv'
<1> SUFFICES ASSUME IoIInv, ReadTurn PROVE IoIInv'
  OBVIOUS
<1> DEFINE rest == Rest(reader)
           len == TakeLen(Wanted)
<1>1. /\ IoTypeOK /\ Settled \in Seq(Octet) /\ rest \in Seq(Octet) /\ Len(rest) \in Nat /\ Len(Settled) \in Nat
      /\ call.op \in {"read_exact", "read_to_end"} /\ call.ret = "Running"
  BY SettledType DEF IoIInv, ReadTurn, Returned
<1>2. /\ call \in CallRecords /\ call.buf \in Seq(Octet) /\ Len(call.buf) \in Nat /\ call.want \in Nat
      /\ take \in Seq(Nat) /\ Len(take) <= 1 /\ (take # << >> => take[1] \in Nat)
      /\ past.got \in Seq(Octet)
  BY SMTT(30), <1>1 DEF IoTypeOK, CallRecords
<1>3. call.op = "read_exact" => Len(call.buf) < call.want
  BY <1>1, <1>2 DEF IoIInv, StreamsExact
<1>4. Wanted \in Nat /\ Wanted > 0
  BY <1>1, <1>2, <1>3, IoAssumption DEF Wanted
<1>5. len \in Nat /\ len <= Wanted /\ (take # << >> => len <= take[1]) /\ (len = 0 => take # << >> /\ take[1] = 0)
  <2>1. CASE take = << >>
    BY <1>4, <2>1 DEF TakeLen
  <2>2. CASE take # << >>
    <3>1. len = Min({Wanted, take[1]})
      BY <2>2 DEF TakeLen
    <3> QED
      BY <1>2, <1>4, <2>2, <3>1, MinPair
  <2> QED
    BY <2>1, <2>2
<1> HIDE DEF len
<1>6. PICK answer \in Answers(len) :
         CASE answer[1] = "Ok" ->
                 /\ call' = ReadDone(answer[2], FirstOf(Rest(reader), answer[2]))
                 /\ reader' = advance(answer[2])
                 /\ take' = TakeAfter(answer[2])
           [] answer[1] = "Interrupted" -> UNCHANGED <<call, reader, take>>
           [] OTHER -> call' = [call EXCEPT !.ret = answer[1]] /\ UNCHANGED <<reader, take>>
  BY Zenon DEF ReadTurn, len, TakeAfter
<1>7. UNCHANGED <<writer, past>>
  BY DEF ReadTurn
<1>8. \/ /\ answer[1] = "Ok" /\ answer[2] \in Nat
         /\ answer[2] <= len /\ answer[2] <= Len(rest)
         /\ answer[2] = 0 => len = 0 \/ Len(rest) = 0
      \/ answer[1] \in {"Interrupted", "Other"}
  BY <1>1, <1>5, ReadAnswers
<1>9. CASE answer[1] = "Interrupted"
  <2>1. UNCHANGED <<reader, take, call, writer, past>>
    BY <1>6, <1>7, <1>9
  <2> QED
    BY ZenonT(30), <2>1 DEF IoIInv, IoTypeOK, StreamsExact, Settled, Returned, AtEnd
<1>10. CASE answer[1] = "Other"
  <2>1. call' = [call EXCEPT !.ret = "Other"] /\ UNCHANGED <<reader, take, writer, past>>
    BY <1>6, <1>7, <1>10
  <2>2. /\ call' \in CallRecords /\ call'.chunk = call.chunk /\ call'.op = call.op /\ call'.want = call.want
        /\ call'.buf = call.buf /\ call'.before = call.before /\ call'.ret = "Other"
    <3>1. "Other" \in ErrorKind
      BY DEF ErrorKind
    <3> QED
      BY <1>2, <2>1, <3>1, Zenon DEF CallRecords
  <2>3. IoTypeOK'
    BY <1>1, <2>1, <2>2 DEF IoTypeOK
  <2>4. Settled' = Settled /\ Rest(reader)' = Rest(reader)
    BY <2>1, <2>2 DEF Settled
  <2> QED
    BY <1>1, <1>3, <2>1, <2>2, <2>3, <2>4, Zenon DEF IoIInv, StreamsExact, Returned
<1>11. CASE answer[1] = "Ok"
  <2> DEFINE n == answer[2]
             bytes == FirstOf(rest, n)
  <2>1. n \in Nat /\ n <= len /\ n <= Len(rest) /\ (n = 0 => len = 0 \/ Len(rest) = 0)
    BY <1>8, <1>11
  <2>2. call' = ReadDone(n, bytes) /\ reader' = advance(n) /\ take' = TakeAfter(n)
    BY <1>6, <1>11
  <2>3. n <= Wanted /\ (take # << >> => n <= take[1])
    BY <1>2, <1>4, <1>5, <2>1
  <2> HIDE DEF n
  <2>4. /\ call' \in CallRecords /\ Len(call'.chunk) = ChunkLen
        /\ call'.op = call.op /\ call'.want = call.want /\ call'.buf = call.buf \o bytes
        /\ call.op = "read_exact" =>
              /\ Len(call'.buf) <= call'.want /\ (call'.ret = "Ok" <=> Len(call'.buf) = call'.want)
              /\ call'.ret = "UnexpectedEof" => n = 0
        /\ call.op = "read_to_end" /\ call'.ret = "Ok" => n = 0
    BY ZenonT(30), <1>1, <1>3, <2>1, <2>2, <2>3, ReadDelivers
  <2>5. reader' \in Readers /\ Rest(reader)' = From(rest, n)
    <3>1. advance(n) \in Readers /\ Rest(advance(n)) = From(rest, n)
      BY <1>1, <2>1, AdvanceRest DEF IoTypeOK
    <3> QED
      BY <2>2, <3>1 DEF Rest
  <2>6. /\ take' \in Seq(Nat) /\ Len(take') <= 1 /\ (take' # << >> <=> take # << >>)
        /\ take # << >> => take'[1] = take[1] - n
    BY <1>2, <2>1, <2>2, <2>3, TakeCounts
  <2> HIDE DEF rest
  <2>7. /\ bytes \in Seq(Octet) /\ Len(Settled \o bytes) = Len(Settled) + n
        /\ (Settled \o bytes) \o From(rest, n) = Settled \o rest
    <3>1. bytes \in Seq(Octet)
      BY <1>1, <2>1, FirstFrom
    <3>2. Settled \in Seq(Octet) /\ rest \in Seq(Octet) /\ n \in Nat /\ n <= Len(rest)
      BY <1>1, <2>1
    <3> HIDE DEF bytes
    <3>3. /\ Len(Settled \o FirstOf(rest, n)) = Len(Settled) + n
          /\ (Settled \o FirstOf(rest, n)) \o From(rest, n) = Settled \o rest
      BY <3>2, Moved, Zenon
    <3> QED
      BY <3>1, <3>3 DEF bytes
  <2> HIDE DEF bytes
  <2>8. Settled' = Settled \o bytes
    <3>1. Settled = past.got \o call.buf /\ Settled' = past.got \o (call.buf \o bytes)
      BY ZenonT(30), <1>1, <1>7, <2>4 DEF Settled
    <3> QED
      BY <1>2, <2>7, <3>1, JoinedAgain, Zenon
  <2>9. IoTypeOK'
    BY <1>1, <1>7, <2>4, <2>5, <2>6 DEF IoTypeOK
  <2>10. (Settled \o Rest(reader) = Source)'
    BY <2>5, <2>7, <2>8, Zenon DEF IoIInv, StreamsExact, rest
  <2>11. take' # << >> => Len(Settled') + take'[1] = past'.stop
    <3> SUFFICES ASSUME take' # << >> PROVE Len(Settled') + take'[1] = past'.stop
      OBVIOUS
    <3>1. Len(Settled) + take[1] = past.stop /\ take'[1] = take[1] - n /\ take[1] \in Nat
      BY <1>2, <2>6 DEF IoIInv, StreamsExact
    <3> QED
      BY <1>1, <1>7, <2>1, <2>7, <2>8, <3>1
  <2>12. n = 0 => AtEnd'
    <3> SUFFICES ASSUME n = 0 PROVE AtEnd'
      OBVIOUS
    <3>1. CASE len = 0
      BY <1>5, <2>6, <3>1 DEF AtEnd
    <3>2. CASE Len(rest) = 0
      <4>1. From(rest, n) \in Seq(Octet) /\ Len(From(rest, n)) = 0
        BY <1>1, <3>2, FirstFrom
      <4>2. From(rest, n) = << >>
        BY <4>1
      <4> QED
        BY <2>5, <4>2 DEF AtEnd
    <3> QED
      BY <2>1, <3>1, <3>2
  <2> QED
    BY <1>1, <2>4, <2>9, <2>10, <2>11, <2>12, Zenon DEF IoIInv, StreamsExact
<1> QED
  BY <1>8, <1>9, <1>10, <1>11

\* One turn of the loop of write_all.
LEMMA WriteTurnMoves == IoIInv /\ WriteTurn => IoIInv'
<1> SUFFICES ASSUME IoIInv, WriteTurn PROVE IoIInv'
  OBVIOUS
<1>1. /\ IoTypeOK /\ call.op = "write_all" /\ call.ret = "Running" /\ UNCHANGED <<reader, take, past>>
      /\ call.want > 0 /\ writer.kind # "sink" /\ call.want <= Len(call.buf)
      /\ writer.out = call.before \o FirstOf(call.buf, Len(call.buf) - call.want)
  BY Zenon DEF IoIInv, StreamsExact, WriteTurn, Returned
<1>2. /\ call \in CallRecords /\ call.buf \in Seq(Octet) /\ Len(call.buf) \in Nat /\ call.want \in Nat
      /\ call.before \in Seq(Octet)
      /\ writer \in [kind : {"vec", "slice", "stream", "sink"}, out : Seq(Octet), room : Nat]
  BY <1>1 DEF IoTypeOK, CallRecords
<1>3. PICK answer \in Accepts(call.want) :
        CASE answer = <<"Ok", 0>> -> call' = [call EXCEPT !.ret = "UnexpectedEof"] /\ UNCHANGED writer
          [] answer[1] = "Ok" /\ answer[2] > 0 ->
                /\ call' = [call EXCEPT !.want = @ - answer[2],
                                        !.ret = IF call.want = answer[2] THEN "Ok" ELSE "Running"]
                /\ writer' = [writer EXCEPT !.out = @ \o FirstOf(Unwritten, answer[2]),
                                            !.room = IF writer.kind = "slice" THEN @ - answer[2] ELSE @]
          [] answer[1] = "Interrupted" -> UNCHANGED <<call, writer>>
          [] OTHER -> call' = [call EXCEPT !.ret = answer[1]] /\ UNCHANGED writer
  BY Zenon DEF WriteTurn
<1>4. \/ /\ answer = <<"Ok", answer[2]>> /\ answer[1] = "Ok" /\ answer[2] \in Nat /\ answer[2] <= call.want
         /\ writer.kind = "slice" => answer[2] <= writer.room
      \/ answer[1] \in {"Interrupted", "Other"}
  <2>1. CASE writer.kind = "vec"
    BY <1>2, <2>1 DEF Accepts
  <2>2. CASE writer.kind = "slice"
    <3>1. answer = <<"Ok", Min({call.want, writer.room})>>
      BY <2>2 DEF Accepts
    <3> QED
      BY <1>2, <3>1, MinPair, Zenon
  <2>3. CASE writer.kind = "stream"
    BY <1>2, <2>3 DEF Accepts, Faults, ErrorKind
  <2> QED
    BY <1>1, <1>2, <2>1, <2>2, <2>3
\* A call that ends, or goes on, without having written.
<1>5. ASSUME NEW ret \in {"Running"} \cup ErrorKind, call' = [call EXCEPT !.ret = ret], UNCHANGED writer
      PROVE  IoIInv'
  <2>1. /\ call' \in CallRecords /\ call'.chunk = call.chunk /\ call'.op = call.op /\ call'.want = call.want
        /\ call'.buf = call.buf /\ call'.before = call.before /\ call'.ret = ret /\ ret # "Ok"
    <3>1. ret \in {"Running", "Ok"} \cup ErrorKind /\ ret # "Ok" /\ call \in CallRecords
      BY <1>2, <1>5 DEF ErrorKind
    <3> QED
      BY <1>5, <3>1, ReturnedRecord
  <2>2. IoTypeOK'
    BY SMTT(30), <1>1, <1>5, <2>1 DEF IoTypeOK
  <2>3. Settled' = Settled /\ Rest(reader)' = Rest(reader)
    BY <1>1, <2>1 DEF Settled
  <2> QED
    BY <1>1, <1>2, <1>5, <2>1, <2>2, <2>3, Zenon DEF IoIInv, StreamsExact, Returned
<1>6. CASE answer = <<"Ok", 0>>
  <2>1. call' = [call EXCEPT !.ret = "UnexpectedEof"] /\ UNCHANGED writer
    BY <1>3, <1>6
  <2> QED
    BY <1>5, <2>1 DEF ErrorKind
<1>7. CASE answer[1] = "Interrupted"
  <2>1. UNCHANGED <<call, writer>>
    BY <1>3, <1>7
  <2>2. call' = [call EXCEPT !.ret = "Running"]
    BY <1>1, <1>2, <2>1 DEF CallRecords
  <2> QED
    BY <1>5, <2>1, <2>2, Zenon
<1>8. CASE answer[1] = "Other"
  <2>1. call' = [call EXCEPT !.ret = "Other"] /\ UNCHANGED writer
    BY SMTT(30), <1>3, <1>8
  <2> QED
    BY <1>5, <2>1 DEF ErrorKind
<1>9. CASE answer[1] = "Ok" /\ answer[2] > 0 /\ answer[2] \in Nat /\ answer[2] <= call.want
           /\ (writer.kind = "slice" => answer[2] <= writer.room)
  <2> DEFINE n == answer[2]
             done == Len(call.buf) - call.want
             ret == IF call.want = n THEN "Ok" ELSE "Running"
             room == IF writer.kind = "slice" THEN writer.room - n ELSE writer.room
             bytes == FirstOf(Unwritten, n)
  <2>1. /\ call' = [call EXCEPT !.want = call.want - n, !.ret = ret]
        /\ writer' = [writer EXCEPT !.out = writer.out \o bytes, !.room = room]
    BY <1>3, <1>9
  <2>2. n \in Nat /\ n > 0 /\ n <= call.want /\ call.want - n \in Nat /\ room \in Nat
    BY <1>2, <1>9
  <2>3. done \in Nat /\ done + n <= Len(call.buf) /\ done <= Len(call.buf) /\ done + n = Len(call.buf) - (call.want - n)
    BY SMTT(30), <1>1, <1>2, <2>2
  <2> HIDE DEF n, done, room, ret
  <2>4. Unwritten \in Seq(Octet) /\ Len(Unwritten) = Len(call.buf) - done /\ Unwritten = From(call.buf, done)
    BY <1>2, <2>3, FirstFrom, Zenon DEF Unwritten, done
  <2>5. bytes \in Seq(Octet)
    <3>1. n <= Len(Unwritten)
      BY <1>2, <2>2, <2>3, <2>4
    <3> QED
      BY <2>2, <2>4, <3>1, FirstFrom
  <2>6. FirstOf(call.buf, done) \o bytes = FirstOf(call.buf, done + n)
    <3>1. /\ call.buf \in Seq(Octet) /\ done \in Nat /\ n \in Nat /\ done + n <= Len(call.buf)
          /\ bytes = FirstOf(From(call.buf, done), n)
      BY <1>2, <2>2, <2>3, <2>4
    <3> HIDE DEF bytes
    <3> QED
      BY <3>1, FirstThenNext, Zenon
  <2> HIDE DEF bytes
  <2>7. writer.out \o bytes = call.before \o FirstOf(call.buf, done + n) /\ writer.out \o bytes \in Seq(Octet)
    <3> DEFINE first == FirstOf(call.buf, done)
    <3>1. first \in Seq(Octet) /\ writer.out = call.before \o first /\ writer.out \in Seq(Octet)
      BY <1>1, <1>2, <2>3, FirstFrom DEF done
    <3> HIDE DEF first
    <3>2. (call.before \o first) \o bytes = call.before \o (first \o bytes)
      BY ZenonT(30), <1>2, <2>5, <3>1, JoinedAgain
    <3>3. writer.out \o bytes \in Seq(Octet)
      BY <2>5, <3>1, Joined
    <3> QED
      BY SMTT(30), <2>6, <3>1, <3>2, <3>3 DEF first
  <2> DEFINE out == writer.out \o bytes
  <2> HIDE DEF out
  <2>8. /\ writer' \in [kind : {"vec", "slice", "stream", "sink"}, out : Seq(Octet), room : Nat]
        /\ writer'.out = out /\ writer'.kind = writer.kind
    <3>1. writer' = [writer EXCEPT !.out = out, !.room = room] /\ out \in Seq(Octet)
      BY <2>1, <2>7 DEF out
    <3> QED
      BY <1>2, <2>2, <3>1, Zenon
  <2>9. /\ call' \in CallRecords /\ call'.chunk = call.chunk /\ call'.op = call.op /\ call'.want = call.want - n
        /\ call'.buf = call.buf /\ call'.before = call.before /\ call'.ret = ret
    <3>1. ret \in {"Running", "Ok"}
      BY DEF ret
    <3> QED
      BY <1>2, <2>1, <2>2, <3>1, Zenon DEF CallRecords
  <2>10. IoTypeOK'
    BY SMTT(30), <1>1, <2>8, <2>9 DEF IoTypeOK
  <2>11. Settled' = Settled /\ Rest(reader)' = Rest(reader)
    BY <1>1, <2>9 DEF Settled
  <2>12. writer'.out = call'.before \o FirstOf(call'.buf, Len(call'.buf) - call'.want)
    BY <2>3, <2>7, <2>8, <2>9, Zenon DEF out
  <2>13. /\ call'.ret = "Ok" <=> call'.want = 0
         /\ call'.want <= Len(call'.buf)
         /\ call'.ret = "Running" => call'.want > 0
    BY <1>1, <1>2, <2>2, <2>9 DEF ret
  <2> QED
    BY <1>1, <2>8, <2>9, <2>10, <2>11, <2>12, <2>13 DEF IoIInv, StreamsExact, Returned
<1> QED
  BY <1>4, <1>6, <1>7, <1>8, <1>9

\* Every step keeps the invariant.
LEMMA NextIo == IoIInv /\ [IoNext]_io_vars => IoIInv'
<1> SUFFICES ASSUME IoIInv, [IoNext]_io_vars PROVE IoIInv'
  OBVIOUS
<1>1. CASE UNCHANGED io_vars
  BY <1>1, Zenon DEF io_vars, IoIInv, IoTypeOK, StreamsExact, Settled, Returned, AtEnd
<1> QED
  BY <1>1, ReadExactBegins, TakeBegins, ReadToEndBegins, DropTakeEnds, WriteAllBegins,
     ConsumeMoves, ReadTurnMoves, WriteTurnMoves DEF IoNext

\* Bytes go through the readers and writers of the io crate once, in order and
\* within the limit of a Take, whatever calls are made, however the wrapped
\* reader or writer splits them, and wherever it is interrupted or fails: for
\* every source, and every size of buffer, chunk, limit and slice.
THEOREM StreamsAreExact == IoInit /\ [][IoNext]_io_vars => []StreamsExact
<1>1. IoIInv => StreamsExact
  BY DEF IoIInv
<1> QED
  BY InitIo, NextIo, <1>1, PTL
=============================================================================
