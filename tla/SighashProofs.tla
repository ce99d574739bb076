--------------------------- MODULE SighashProofs ---------------------------
(***************************************************************************)
(* Proofs about Sighash: for every transaction, every set of calls that    *)
(* name the outputs really spent, and every order of calls and witnesses,  *)
(* the caches of a SighashCache cannot be seen in its answers, an answer   *)
(* commits to exactly what its sighash type says, and no answer for one    *)
(* input serves another.                                                   *)
(***************************************************************************)
EXTENDS Sighash, TLAPS

-----------------------------------------------------------------------------
(* Sequences *)

\* What a sequence is: its elements, its length and its domain.
LEMMA SeqParts ==
    ASSUME NEW S, NEW s \in Seq(S)
    PROVE  Len(s) \in Nat /\ DOMAIN s = 1 .. Len(s) /\ \A i \in 1 .. Len(s) : s[i] \in S
OBVIOUS

\* A sequence with one element replaced.
LEMMA SeqExcept ==
    ASSUME NEW S, NEW s \in Seq(S), NEW i \in 1 .. Len(s), NEW e \in S
    PROVE  /\ [s EXCEPT ![i] = e] \in Seq(S) /\ Len([s EXCEPT ![i] = e]) = Len(s)
           /\ \A k \in 1 .. Len(s) : [s EXCEPT ![i] = e][k] = IF k = i THEN e ELSE s[k]
OBVIOUS

\* A sequence with one element more.
LEMMA SeqAppend ==
    ASSUME NEW S, NEW s \in Seq(S), NEW e \in S
    PROVE  /\ Append(s, e) \in Seq(S) /\ Len(Append(s, e)) = Len(s) + 1
           /\ \A i \in 1 .. Len(s) : Append(s, e)[i] = s[i]
OBVIOUS

\* The caller names the outputs really spent whenever it gives as many as there
\* are inputs.
Honest ==
    \A c \in Calls : c.kind = "taproot" /\ c.prevouts.one = 0
        /\ Len(c.prevouts.outs) = Len(Tx.input) => c.prevouts.outs = Spent

\* t is the transaction but for the witnesses.
SameTx(t) ==
    /\ t \in Transactions
    /\ t.version = Tx.version /\ t.lock_time = Tx.lock_time /\ t.output = Tx.output
    /\ Len(t.input) = Len(Tx.input)
    /\ \A j \in DOMAIN Tx.input : /\ t.input[j].previous_output = Tx.input[j].previous_output
                                  /\ t.input[j].sequence = Tx.input[j].sequence

\* The caches hold what Tx and Spent give.
Current(cs) ==
    /\ cs \in [common : {None, Some(CommonCache(Tx))},
               segwit : {None, Some(SegwitCache(CommonCache(Tx)))},
               taproot : {None, Some(TaprootCache(Spent))}]
    /\ cs.segwit # None => cs.common # None

\* An absent value is not a present one.
LEMMA SomeIsNotNone == \A v : Some(v) # None /\ Some(v)[1] = v
  BY DEF Some, None

\* get_or_insert_with keeps a cache that holds the value it would compute.
LEMMA GetOrInsertValue ==
  ASSUME NEW v, NEW cache \in {None, Some(v)}
  PROVE  GetOrInsert(cache, v) = Some(v)
  BY DEF GetOrInsert

\* Transactions that differ in witnesses have the same common hashes.
LEMMA SameCommonCache ==
  ASSUME NEW t, SameTx(t)
  PROVE  CommonCache(t) = CommonCache(Tx) /\ DOMAIN t.input = DOMAIN Tx.input
  <1>1. DOMAIN t.input = DOMAIN Tx.input
    BY TxAssumption DEF SameTx, Transactions
  <1>2. QED
    BY <1>1, Zenon DEF SameTx, CommonCache

\* Writing a witness leaves the rest of the transaction alone.
LEMMA WitnessOnly ==
  ASSUME SameTx(tx), NEW j \in DOMAIN Tx.input, NEW w \in Witnesses, SetWitness(j, w)
  PROVE  SameTx(tx')
  <1>1. DOMAIN tx.input = DOMAIN Tx.input
    BY SameCommonCache
  <1> DEFINE TxIns == [previous_output : Int, sequence : Int, script_sig : Seq(Int), witness : Seq(Int)]
             in == tx.input
             out == [in EXCEPT ![j].witness = w]
  <1>2. in \in Seq(TxIns) /\ w \in Seq(Int) /\ j \in DOMAIN in
    BY <1>1, TxAssumption DEF SameTx, Transactions
  <1>3. tx'.input = out /\ tx'.version = tx.version /\ tx'.lock_time = tx.lock_time
        /\ tx'.output = tx.output /\ DOMAIN tx' = DOMAIN tx
    BY TxAssumption DEF SameTx, Transactions, SetWitness
  <1> DEFINE e == [in[j] EXCEPT !.witness = w]
  <1>a. j \in 1 .. Len(in) /\ DOMAIN in = 1 .. Len(in)
    <2> HIDE DEF TxIns, in
    <2> QED
      BY <1>2
  <1>b. in[j] \in TxIns
    <2> HIDE DEF TxIns, in
    <2> QED
      BY <1>2, <1>a, SeqParts
  <1>4. e \in TxIns /\ e.previous_output = in[j].previous_output /\ e.sequence = in[j].sequence
    <2> HIDE DEF in
    <2> QED
      BY <1>b, <1>2, Zenon
  <1>5. out = [in EXCEPT ![j] = e]
    OBVIOUS
  <1>6. out \in Seq(TxIns) /\ Len(out) = Len(in) /\ \A k \in DOMAIN in : out[k] = IF k = j THEN e ELSE in[k]
    <2> HIDE DEF e, out, TxIns, in
    <2>1. /\ [in EXCEPT ![j] = e] \in Seq(TxIns)
          /\ Len([in EXCEPT ![j] = e]) = Len(in)
          /\ \A k \in 1 .. Len(in) : [in EXCEPT ![j] = e][k] = IF k = j THEN e ELSE in[k]
      BY <1>2, <1>a, <1>4, SeqExcept
    <2> QED
      BY <2>1, <1>5, <1>a
  <1>7. tx' \in Transactions
    <2>1. tx' = [version |-> tx.version, lock_time |-> tx.lock_time, output |-> tx.output, input |-> out]
      BY TxAssumption, Zenon DEF SameTx, Transactions, SetWitness
    <2>2. QED
      BY <2>1, <1>6, Zenon DEF SameTx, Transactions
  <1>8. QED
    <2> HIDE DEF e, out
    <2> QED
      BY ZenonT(30), <1>1, <1>3, <1>4, <1>6, <1>7 DEF SameTx

\* What the calls read of a transaction is the same for one with other witnesses.
LEMMA SameAnswer ==
  ASSUME NEW t, SameTx(t), NEW c, NEW cs
  PROVE  CachesAfter(t, c, cs) = CachesAfter(Tx, c, cs) /\ Answer(t, c, cs) = Answer(Tx, c, cs)
  <1>1. CommonCache(t) = CommonCache(Tx) /\ DOMAIN t.input = DOMAIN Tx.input
    BY SameCommonCache
  <1>2. t.version = Tx.version /\ t.lock_time = Tx.lock_time /\ t.output = Tx.output
        /\ Len(t.input) = Len(Tx.input)
    BY DEF SameTx
  <1>3. SizeError(t, c) = SizeError(Tx, c) /\ TaprootError(t, c) = TaprootError(Tx, c)
        /\ SegwitError(t, c) = SegwitError(Tx, c)
    BY <1>1, <1>2 DEF SizeError, TaprootError, SegwitError
  <1>4. CachesAfter(t, c, cs) = CachesAfter(Tx, c, cs)
    BY <1>1, <1>3 DEF CachesAfter, TaprootCaches, SegwitCaches, WithCommon, WithSegwit
  <1> DEFINE after == CachesAfter(Tx, c, cs)
  <1>5. ASSUME c.kind = "taproot", TaprootError(Tx, c) = "ok"
        PROVE  TaprootHash(t, c, after) = TaprootHash(Tx, c, after)
    <2>1. AnyoneCanPay(c.ty) => c.i \in DOMAIN Tx.input
      BY <1>5 DEF TaprootError
    <2>2. QED
      BY <2>1, <1>2 DEF TaprootHash, SameTx
  <1>6. ASSUME c.kind \in {"p2wpkh", "p2wsh"}, SegwitError(Tx, c) = "ok"
        PROVE  SegwitHash(t, c, after) = SegwitHash(Tx, c, after)
    <2>1. c.i \in DOMAIN Tx.input
      BY <1>6 DEF SegwitError
    <2>2. QED
      BY <2>1, <1>2 DEF SegwitHash, SameTx
  <1>7. ASSUME c.i \in DOMAIN Tx.input
        PROVE  LegacyHash(t, c) = LegacyHash(Tx, c)
    <2>1. \A ty : LegacyInputs(t, c, ty) = LegacyInputs(Tx, c, ty)
      BY ZenonT(30), <1>7, <1>1 DEF LegacyInputs, SameTx
    <2>2. \A ty : LegacyOutputs(t, c, ty) = LegacyOutputs(Tx, c, ty)
      BY <1>2 DEF LegacyOutputs
    <2>3. QED
      BY <2>1, <2>2, <1>2 DEF LegacyHash, SingleBug
  <1>8. Answer(t, c, cs) = Answer(Tx, c, cs)
    <2> HIDE DEF after
    <2>1. CASE c.kind = "taproot"
      BY <2>1, <1>3, <1>4, <1>5 DEF Answer, after
    <2>2. CASE c.kind \in {"p2wpkh", "p2wsh"}
      BY <2>2, <1>3, <1>4, <1>6 DEF Answer, after
    <2>3. CASE c.kind \notin {"taproot", "p2wpkh", "p2wsh"}
      BY <2>3, <1>1, <1>7 DEF Answer
    <2>4. QED
      BY <2>1, <2>2, <2>3
  <1>9. QED
    BY <1>4, <1>8

\* A taproot hash that is not refused and signs all inputs has the caches it
\* reads, and they are the right ones; so has one that signs all outputs.
LEMMA TaprootReads ==
  ASSUME Honest, NEW c \in Calls, c.kind = "taproot", NEW cs, Current(cs)
  PROVE  LET after == TaprootCaches(Tx, c, cs)
         IN  /\ Current(after)
             /\ TaprootError(Tx, c) = "ok" /\ ~AnyoneCanPay(c.ty) =>
                    after.common = Some(CommonCache(Tx)) /\ after.taproot = Some(TaprootCache(Spent))
             /\ TaprootError(Tx, c) = "ok" /\ Base(c.ty) \notin {"None", "Single"} =>
                    after.common = Some(CommonCache(Tx))
  <1>1. WithCommon(Tx, cs) = [cs EXCEPT !.common = Some(CommonCache(Tx))]
    BY GetOrInsertValue DEF Current, WithCommon
  <1>2. Current(WithCommon(Tx, cs))
    BY <1>1, SomeIsNotNone DEF Current
  <1>3. ~SizeError(Tx, c) /\ ~AnyoneCanPay(c.ty) /\ ~KindError(c) => c.prevouts.outs = Spent
    BY DEF Honest, SizeError, KindError
  <1>4. \A ds : Current(ds) =>
           LET filled == [ds EXCEPT !.taproot = GetOrInsert(@, TaprootCache(Spent))]
           IN  Current(filled) /\ filled.common = ds.common /\ filled.taproot = Some(TaprootCache(Spent))
    BY GetOrInsertValue DEF Current
  <1>5. TaprootError(Tx, c) = "ok" => ~SizeError(Tx, c) /\ ~KindError(c)
    BY DEF TaprootError
  <1>6. WithCommon(Tx, cs).common = Some(CommonCache(Tx))
    BY <1>1 DEF Current
  <1>7. CASE SizeError(Tx, c) \/ AnyoneCanPay(c.ty) \/ KindError(c)
    <2>1. TaprootCaches(Tx, c, cs) \in {cs, WithCommon(Tx, cs)}
      BY <1>7 DEF TaprootCaches
    <2>2. ~SizeError(Tx, c) /\ Base(c.ty) \notin {"None", "Single"} => TaprootCaches(Tx, c, cs) = WithCommon(Tx, cs)
      BY <1>7 DEF TaprootCaches
    <2>3. TaprootError(Tx, c) = "ok" => AnyoneCanPay(c.ty)
      BY <1>5, <1>7
    <2>4. QED
      BY <1>2, <1>5, <1>6, <2>1, <2>2, <2>3
  <1>8. CASE ~SizeError(Tx, c) /\ ~AnyoneCanPay(c.ty) /\ ~KindError(c)
    <2>1. TaprootCaches(Tx, c, cs) = [WithCommon(Tx, cs) EXCEPT !.taproot = GetOrInsert(@, TaprootCache(Spent))]
      BY <1>3, <1>8 DEF TaprootCaches
    <2>2. QED
      BY <1>2, <1>4, <1>6, <2>1
  <1>9. QED
    BY <1>7, <1>8

\* The same for a version 0 hash.
LEMMA SegwitReads ==
  ASSUME NEW c, NEW cs, Current(cs)
  PROVE  LET after == SegwitCaches(Tx, c, cs)
         IN  /\ Current(after)
             /\ SegwitError(Tx, c) = "ok" /\ (~AnyoneCanPay(c.ty) \/ Base(c.ty) \notin {"None", "Single"}) =>
                    after.segwit = Some(SegwitCache(CommonCache(Tx)))
  <1>1. GetOrInsert(cs.common, CommonCache(Tx)) = Some(CommonCache(Tx))
    BY GetOrInsertValue DEF Current
  <1>2. Current(WithSegwit(Tx, cs)) /\ WithSegwit(Tx, cs).segwit = Some(SegwitCache(CommonCache(Tx)))
    BY <1>1, SomeIsNotNone, Zenon DEF Current, WithSegwit
  <1>3. QED
    BY <1>2 DEF SegwitCaches

\* Empty caches are current.
LEMMA NoCachesCurrent == Current(NoCaches)
  BY DEF Current, NoCaches

\* Any two states of the caches that are current give the same answer.
LEMMA CachesUnseen ==
  ASSUME Honest, NEW c \in Calls, NEW cs, Current(cs)
  PROVE  Current(CachesAfter(Tx, c, cs)) /\ Answer(Tx, c, cs) = Answer(Tx, c, NoCaches)
  <1>1. CASE c.kind = "taproot"
    <2> DEFINE a == TaprootCaches(Tx, c, cs)
               b == TaprootCaches(Tx, c, NoCaches)
    <2>1. /\ Current(a)
          /\ TaprootError(Tx, c) = "ok" /\ ~AnyoneCanPay(c.ty) =>
                a.common = Some(CommonCache(Tx)) /\ a.taproot = Some(TaprootCache(Spent))
          /\ TaprootError(Tx, c) = "ok" /\ Base(c.ty) \notin {"None", "Single"} =>
                a.common = Some(CommonCache(Tx))
      BY <1>1, TaprootReads
    <2>2. /\ TaprootError(Tx, c) = "ok" /\ ~AnyoneCanPay(c.ty) =>
                b.common = Some(CommonCache(Tx)) /\ b.taproot = Some(TaprootCache(Spent))
          /\ TaprootError(Tx, c) = "ok" /\ Base(c.ty) \notin {"None", "Single"} =>
                b.common = Some(CommonCache(Tx))
      BY <1>1, TaprootReads, NoCachesCurrent
    <2>3. CachesAfter(Tx, c, cs) = a /\ CachesAfter(Tx, c, NoCaches) = b
      BY <1>1 DEF CachesAfter
    <2> HIDE DEF a, b
    <2>4. TaprootError(Tx, c) = "ok" => TaprootHash(Tx, c, a) = TaprootHash(Tx, c, b)
      BY <2>1, <2>2 DEF TaprootHash
    <2>5. QED
      BY <1>1, <2>1, <2>3, <2>4 DEF Answer
  <1>2. CASE c.kind \in {"p2wpkh", "p2wsh"}
    <2> DEFINE a == SegwitCaches(Tx, c, cs)
               b == SegwitCaches(Tx, c, NoCaches)
    <2>1. /\ Current(a)
          /\ SegwitError(Tx, c) = "ok" /\ (~AnyoneCanPay(c.ty) \/ Base(c.ty) \notin {"None", "Single"}) =>
                a.segwit = Some(SegwitCache(CommonCache(Tx)))
      BY SegwitReads
    <2>2. SegwitError(Tx, c) = "ok" /\ (~AnyoneCanPay(c.ty) \/ Base(c.ty) \notin {"None", "Single"}) =>
             b.segwit = Some(SegwitCache(CommonCache(Tx)))
      BY SegwitReads, NoCachesCurrent
    <2>3. CachesAfter(Tx, c, cs) = a /\ CachesAfter(Tx, c, NoCaches) = b
      BY <1>2 DEF CachesAfter
    <2> HIDE DEF a, b
    <2>4. SegwitError(Tx, c) = "ok" => SegwitHash(Tx, c, a) = SegwitHash(Tx, c, b)
      BY <2>1, <2>2 DEF SegwitHash
    <2>5. QED
      BY <1>2, <2>1, <2>3, <2>4 DEF Answer
  <1>3. CASE c.kind \notin {"taproot", "p2wpkh", "p2wsh"}
    BY <1>3 DEF CachesAfter, Answer
  <1>4. QED
    BY <1>1, <1>2, <1>3

\* The caches are current and the transaction is Tx but for its witnesses.
IInv == SameTx(tx) /\ Current(Caches) /\ Transparent

\* The answers of a SighashCache are those of a new one: whatever was asked for
\* before, in whatever order and with whatever errors, and whatever witness_mut
\* wrote.  For every transaction and every set of calls.
THEOREM CachesAreTransparent == Honest => (Spec => []Transparent /\ []CachesCurrent)
  <1> SUFFICES ASSUME Honest PROVE Spec => []Transparent /\ []CachesCurrent
    OBVIOUS
  <1>1. Init => IInv
    BY TxAssumption DEF Init, IInv, SameTx, Current, Caches, Transparent
  <1>2. IInv /\ [Next]_vars => IInv'
    <2> SUFFICES ASSUME IInv, [Next]_vars PROVE IInv'
      OBVIOUS
    <2>1. ASSUME NEW c \in Calls, Ask(c) PROVE IInv'
      <3>1. CachesAfter(tx, c, Caches) = CachesAfter(Tx, c, Caches) /\ Answer(tx, c, Caches) = Answer(Tx, c, Caches)
        BY SameAnswer DEF IInv
      <3>2. Current(CachesAfter(Tx, c, Caches)) /\ Answer(Tx, c, Caches) = Answer(Tx, c, NoCaches)
        BY CachesUnseen DEF IInv
      <3>3. Caches' = CachesAfter(Tx, c, Caches)
        BY <2>1, <3>1, <3>2 DEF Ask, Caches, Current
      <3>4. Transparent'
        BY <2>1, <3>1, <3>2 DEF Ask, Transparent
      <3>5. QED
        BY <2>1, <3>2, <3>3, <3>4 DEF Ask, IInv
    <2>2. ASSUME NEW j \in DOMAIN Tx.input, NEW w \in Witnesses, SetWitness(j, w) PROVE IInv'
      <3>1. SameTx(tx')
        BY <2>2, WitnessOnly DEF IInv
      <3>2. QED
        BY <2>2, <3>1 DEF SetWitness, IInv, Caches, Transparent
    <2>3. CASE UNCHANGED vars
      BY <2>3 DEF vars, IInv, Caches, Transparent
    <2>4. QED
      BY <2>1, <2>2, <2>3 DEF Next
  <1>3. IInv => Transparent /\ CachesCurrent
    BY DEF IInv, Current, Caches, CachesCurrent
  <1>4. QED
    BY <1>1, <1>2, <1>3, PTL DEF Spec

-----------------------------------------------------------------------------
(* What is signed.  A hash is compared for Tx and for Tx with one part        *)
(* changed, so the parts of a changed transaction come first.                 *)

TxIns == [previous_output : Int, sequence : Int, script_sig : Seq(Int), witness : Seq(Int)]

\* The parts of t that differ from those of Tx are those that f changes at j.
Differs(t, f, j) ==
    /\ (t.version = Tx.version) <=> f # "version"
    /\ (t.lock_time = Tx.lock_time) <=> f # "lock_time"
    /\ DOMAIN t.input = IF f = "add_input" THEN 1 .. Len(Tx.input) + 1 ELSE 1 .. Len(Tx.input)
    /\ DOMAIN t.output = IF f = "add_output" THEN 1 .. Len(Tx.output) + 1 ELSE 1 .. Len(Tx.output)
    /\ Len(t.input) = IF f = "add_input" THEN Len(Tx.input) + 1 ELSE Len(Tx.input)
    /\ \A i \in 1 .. Len(Tx.input) :
          /\ (t.input[i].previous_output = Tx.input[i].previous_output)
                <=> ~(f = "previous_output" /\ i = j)
          /\ (t.input[i].sequence = Tx.input[i].sequence) <=> ~(f = "sequence" /\ i = j)
    /\ \A i \in 1 .. Len(Tx.output) : (t.output[i] = Tx.output[i]) <=> ~(f = "output" /\ i = j)
    /\ (t.output = Tx.output) <=> f \notin {"add_output", "output"}
    /\ f = "output" => j \in 1 .. Len(Tx.output)
    /\ f \in {"previous_output", "sequence"} => j \in 1 .. Len(Tx.input)

\* The parts of Tx.
LEMMA PartsOfTx ==
  /\ Tx.input \in Seq(TxIns) /\ Tx.output \in Seq(Int)
  /\ Len(Tx.input) \in Nat /\ DOMAIN Tx.input = 1 .. Len(Tx.input)
  /\ Len(Tx.output) \in Nat /\ DOMAIN Tx.output = 1 .. Len(Tx.output)
  /\ \A j \in 1 .. Len(Tx.input) : Tx.input[j] \in TxIns
  /\ DOMAIN Tx = {"version", "lock_time", "input", "output"}
  <1>1. Tx.input \in Seq(TxIns) /\ Tx.output \in Seq(Int) /\ DOMAIN Tx = {"version", "lock_time", "input", "output"}
    BY TxAssumption DEF Transactions, TxIns
  <1>2. QED
    <2> HIDE DEF TxIns
    <2> QED
      BY <1>1, SeqParts

\* Writing one field of an input leaves everything else.
LEMMA InputChanged ==
  ASSUME NEW j \in 1 .. Len(Tx.input), NEW e,
         NEW t, t = [Tx EXCEPT !.input[j] = e]
  PROVE  /\ t.version = Tx.version /\ t.lock_time = Tx.lock_time /\ t.output = Tx.output
         /\ t.input = [Tx.input EXCEPT ![j] = e]
         /\ DOMAIN t.input = 1 .. Len(Tx.input) /\ Len(t.input) = Len(Tx.input)
         /\ \A i \in 1 .. Len(Tx.input) : t.input[i] = IF i = j THEN e ELSE Tx.input[i]
  <1>1. /\ t.version = Tx.version /\ t.lock_time = Tx.lock_time /\ t.output = Tx.output
        /\ t.input = [Tx.input EXCEPT ![j] = e]
    BY PartsOfTx
  <1>2. DOMAIN t.input = 1 .. Len(Tx.input) /\ \A i \in 1 .. Len(Tx.input) : t.input[i] = IF i = j THEN e ELSE Tx.input[i]
    BY <1>1, PartsOfTx
  <1>3. Len(t.input) = Len(Tx.input)
    BY <1>2, PartsOfTx
  <1>4. QED
    BY <1>1, <1>2, <1>3

\* Changed(ch) differs from Tx in the part that ch names and in no other.
LEMMA ChangedParts ==
  ASSUME NEW ch \in Changes
  PROVE  Differs(Changed(ch), ch[1], ch[2])
  <1> DEFINE f == ch[1]
             j == ch[2]
             t == Changed(ch)
  <1>1. \/ f \in {"version", "lock_time", "add_input", "add_output"} /\ j = 0
        \/ f \in {"previous_output", "sequence", "script_sig", "witness"} /\ j \in 1 .. Len(Tx.input)
        \/ f = "output" /\ j \in 1 .. Len(Tx.output)
    BY PartsOfTx DEF Changes
  <1>2. CASE f = "version"
    <2>1. t = [Tx EXCEPT !.version = Fresh]
      BY <1>2 DEF Changed
    <2>2. QED
      BY <2>1, <1>2, PartsOfTx, FreshAssumption DEF Differs
  <1>3. CASE f = "lock_time"
    <2>1. t = [Tx EXCEPT !.lock_time = Fresh]
      BY <1>3 DEF Changed
    <2>2. QED
      BY <2>1, <1>3, PartsOfTx, FreshAssumption DEF Differs
  <1>4. CASE f = "add_input"
    <2> DEFINE e == [previous_output |-> Fresh, sequence |-> Fresh, script_sig |-> None, witness |-> None]
    <2>1. t = [Tx EXCEPT !.input = Append(Tx.input, e)]
      BY <1>4 DEF Changed
    <2>2. t.input = Append(Tx.input, e) /\ t.version = Tx.version /\ t.lock_time = Tx.lock_time /\ t.output = Tx.output
      BY <2>1, PartsOfTx
    <2> HIDE DEF e
    <2>3. /\ DOMAIN t.input = 1 .. Len(Tx.input) + 1 /\ Len(t.input) = Len(Tx.input) + 1
          /\ \A i \in 1 .. Len(Tx.input) : t.input[i] = Tx.input[i]
      BY <2>2, PartsOfTx
    <2>4. QED
      BY <2>2, <2>3, <1>4, PartsOfTx DEF Differs
  <1>5. CASE f = "add_output"
    <2>1. t = [Tx EXCEPT !.output = Append(Tx.output, Fresh)]
      BY <1>5 DEF Changed
    <2>2. t.output = Append(Tx.output, Fresh) /\ t.version = Tx.version /\ t.lock_time = Tx.lock_time /\ t.input = Tx.input
      BY <2>1, PartsOfTx
    <2>3. /\ DOMAIN t.output = 1 .. Len(Tx.output) + 1
          /\ \A i \in 1 .. Len(Tx.output) : t.output[i] = Tx.output[i]
      BY <2>2, PartsOfTx
    <2>4. t.output # Tx.output
      <3>1. Len(Tx.output) + 1 \in DOMAIN t.output /\ Len(Tx.output) + 1 \notin DOMAIN Tx.output
        BY <2>3, PartsOfTx
      <3>2. QED
        BY <3>1
    <2>5. QED
      BY <2>2, <2>3, <2>4, <1>5, PartsOfTx DEF Differs
  <1>6. CASE f = "output"
    <2>1. t = [Tx EXCEPT !.output = [Tx.output EXCEPT ![j] = Fresh]]
      BY <1>6 DEF Changed
    <2>2. t.output = [Tx.output EXCEPT ![j] = Fresh] /\ t.version = Tx.version /\ t.lock_time = Tx.lock_time /\ t.input = Tx.input
      BY <2>1, PartsOfTx
    <2>3. t.output[j] = Fresh /\ Tx.output[j] # Fresh
      BY <2>2, <1>1, <1>6, PartsOfTx, FreshAssumption
    <2>4. QED
      BY <2>2, <2>3, <1>1, <1>6, PartsOfTx, FreshAssumption DEF Differs
  <1>7. CASE f \in {"previous_output", "sequence", "script_sig", "witness"}
    <2> DEFINE e == CASE f = "previous_output" -> [Tx.input[j] EXCEPT !.previous_output = Fresh]
                      [] f = "sequence" -> [Tx.input[j] EXCEPT !.sequence = Fresh]
                      [] f = "script_sig" -> [Tx.input[j] EXCEPT !.script_sig = <<Fresh>>]
                      [] OTHER -> [Tx.input[j] EXCEPT !.witness = <<Fresh>>]
    <2>1. t = [Tx EXCEPT !.input[j] = e]
      BY <1>7, Zenon DEF Changed
    <2>2. j \in 1 .. Len(Tx.input)
      BY <1>1, <1>7
    <2>3. /\ (e.previous_output = Tx.input[j].previous_output) <=> f # "previous_output"
          /\ (e.sequence = Tx.input[j].sequence) <=> f # "sequence"
      BY <1>7, <2>2, PartsOfTx, FreshAssumption, Zenon DEF TxIns
    <2> HIDE DEF e, f, j, t
    <2>4. /\ t.version = Tx.version /\ t.lock_time = Tx.lock_time /\ t.output = Tx.output
          /\ DOMAIN t.input = 1 .. Len(Tx.input) /\ Len(t.input) = Len(Tx.input)
          /\ \A i \in 1 .. Len(Tx.input) : t.input[i] = IF i = j THEN e ELSE Tx.input[i]
      BY <2>1, <2>2, InputChanged
    <2>5. Differs(t, f, j)
      BY <2>2, <2>3, <2>4, <1>7, PartsOfTx DEF Differs
    <2>6. QED
      BY <2>5 DEF t, f, j
  <1>8. QED
    BY <1>1, <1>2, <1>3, <1>4, <1>5, <1>6, <1>7

\* The flag and the type without it.
LEMMA TypeParts ==
  ASSUME NEW ty \in EcdsaTypes \cup {"Default"}
  PROVE  /\ AnyoneCanPay(ty) \in BOOLEAN
         /\ Base(ty) \in {"All", "None", "Single", "Default"}
         /\ ty \in EcdsaTypes => Base(ty) # "Default"
  BY DEF EcdsaTypes, AnyoneCanPay, Base

\* from_consensus gives a type that an ECDSA signature may have.
LEMMA ConsensusType ==
  ASSUME NEW n \in Nat
  PROVE  /\ from_consensus(n) \in EcdsaTypes
         /\ AnyoneCanPay(from_consensus(n)) <=> (n \div 128) % 2 = 1
         /\ (Base(from_consensus(n)) = "None") <=> (n % 32 = 2)
         /\ (Base(from_consensus(n)) = "Single") <=> (n % 32 = 3)
  <1> DEFINE flag == (n \div 128) % 2 = 1
             low == n % 32
  <1>1. from_consensus(n) = CASE low = 2 /\ ~flag -> "None"
                              [] low = 3 /\ ~flag -> "Single"
                              [] low = 2 /\ flag -> "NonePlusAnyoneCanPay"
                              [] low = 3 /\ flag -> "SinglePlusAnyoneCanPay"
                              [] low \notin {2, 3} /\ flag -> "AllPlusAnyoneCanPay"
                              [] OTHER -> "All"
    BY DEF from_consensus
  <1> HIDE DEF flag, low
  <1>2. from_consensus(n) = IF low = 2 THEN (IF flag THEN "NonePlusAnyoneCanPay" ELSE "None")
                            ELSE IF low = 3 THEN (IF flag THEN "SinglePlusAnyoneCanPay" ELSE "Single")
                            ELSE IF flag THEN "AllPlusAnyoneCanPay" ELSE "All"
    BY <1>1
  <1>3. /\ from_consensus(n) \in EcdsaTypes
        /\ AnyoneCanPay(from_consensus(n)) <=> flag
        /\ (Base(from_consensus(n)) = "None") <=> low = 2
        /\ (Base(from_consensus(n)) = "Single") <=> low = 3
    BY <1>2 DEF EcdsaTypes, AnyoneCanPay, Base
  <1>4. QED
    BY <1>3 DEF flag, low

\* The previous outputs, and the sequences, of all inputs of t are those of Tx
\* unless one is changed or an input is added; so are the outputs.
LEMMA WholeParts ==
  ASSUME NEW t, NEW f, NEW j, Differs(t, f, j)
  PROVE  /\ (CommonCache(t).prevouts = CommonCache(Tx).prevouts) <=> f \notin {"add_input", "previous_output"}
         /\ (CommonCache(t).sequences = CommonCache(Tx).sequences) <=> f \notin {"add_input", "sequence"}
         /\ (t.output = Tx.output) <=> f \notin {"add_output", "output"}
  <1> USE PartsOfTx
  <1>1. CommonCache(t).prevouts = [i \in DOMAIN t.input |-> t.input[i].previous_output]
        /\ CommonCache(t).sequences = [i \in DOMAIN t.input |-> t.input[i].sequence]
        /\ CommonCache(Tx).prevouts = [i \in DOMAIN Tx.input |-> Tx.input[i].previous_output]
        /\ CommonCache(Tx).sequences = [i \in DOMAIN Tx.input |-> Tx.input[i].sequence]
    BY DEF CommonCache
  <1> DEFINE n == Len(Tx.input)
  <1>2. CASE f = "add_input"
    <2>1. DOMAIN t.input # DOMAIN Tx.input
      <3>1. n + 1 \in DOMAIN t.input /\ n + 1 \notin DOMAIN Tx.input
        BY <1>2 DEF Differs
      <3>2. QED
        BY <3>1
    <2>2. CommonCache(t).prevouts # CommonCache(Tx).prevouts /\ CommonCache(t).sequences # CommonCache(Tx).sequences
      BY <1>1, <2>1
    <2>3. t.output = Tx.output
      BY <1>2 DEF Differs
    <2>4. QED
      BY <1>2, <2>2, <2>3
  <1>3. CASE f # "add_input"
    <2>1. DOMAIN t.input = 1 .. n /\ DOMAIN Tx.input = 1 .. n
      BY <1>3 DEF Differs
    <2>2. (CommonCache(t).prevouts = CommonCache(Tx).prevouts)
             <=> \A i \in 1 .. n : t.input[i].previous_output = Tx.input[i].previous_output
      <3> DEFINE g == [i \in 1 .. n |-> t.input[i].previous_output]
                 h == [i \in 1 .. n |-> Tx.input[i].previous_output]
      <3>1. (g = h) <=> \A i \in 1 .. n : g[i] = h[i]
        BY SMTT(30)
      <3>2. CommonCache(t).prevouts = g /\ CommonCache(Tx).prevouts = h
        BY <2>1 DEF CommonCache
      <3>3. QED
        BY <3>1, <3>2
    <2>3. (CommonCache(t).sequences = CommonCache(Tx).sequences)
             <=> \A i \in 1 .. n : t.input[i].sequence = Tx.input[i].sequence
      <3> DEFINE g == [i \in 1 .. n |-> t.input[i].sequence]
                 h == [i \in 1 .. n |-> Tx.input[i].sequence]
      <3>1. (g = h) <=> \A i \in 1 .. n : g[i] = h[i]
        BY SMTT(30)
      <3>2. CommonCache(t).sequences = g /\ CommonCache(Tx).sequences = h
        BY <2>1 DEF CommonCache
      <3>3. QED
        BY <3>1, <3>2
    <2>4. (CommonCache(t).prevouts = CommonCache(Tx).prevouts) <=> f # "previous_output"
      BY <2>2 DEF Differs
    <2>5. (CommonCache(t).sequences = CommonCache(Tx).sequences) <=> f # "sequence"
      BY <2>3 DEF Differs
    <2>6. (t.output = Tx.output) <=> f \notin {"add_output", "output"}
      BY DEF Differs
    <2>7. QED
      BY <1>3, <2>4, <2>5, <2>6
  <1>4. QED
    BY <1>2, <1>3

\* What Signs says, part by part, of a call that is no misuse of SIGHASH_SINGLE.
LEMMA SignsParts ==
  ASSUME NEW c, NEW ch \in Changes, NEW ty, ty = IF c.kind = "legacy" THEN from_consensus(c.n) ELSE c.ty,
         ~(c.kind = "legacy" /\ Base(ty) = "Single" /\ c.i > Len(Tx.output)),
         Base(ty) \in {"All", "None", "Single", "Default"}
  PROVE  Signs(c, ch) <=>
            LET all == Base(ty) \notin {"None", "Single"}
            IN  \/ ch[1] \in {"version", "lock_time"}
                \/ ch[1] = "add_input" /\ ~AnyoneCanPay(ty)
                \/ ch[1] = "add_output" /\ (all \/ (Base(ty) = "Single" /\ c.i = Len(Tx.output) + 1))
                \/ ch[1] = "output" /\ (all \/ (Base(ty) = "Single" /\ ch[2] = c.i))
                \/ ch[1] = "previous_output" /\ (~AnyoneCanPay(ty) \/ ch[2] = c.i)
                \/ ch[1] = "sequence" /\ (ch[2] = c.i \/ (~AnyoneCanPay(ty) /\ (all \/ c.kind = "taproot")))
  <1> DEFINE f == ch[1]
             j == ch[2]
             acp == AnyoneCanPay(ty)
             base == Base(ty)
             one == base = "Single"
             all == base \in {"All", "Default"}
  <1>1. f \in {"version", "lock_time", "add_input", "add_output", "previous_output", "sequence",
               "script_sig", "witness", "output"}
    BY DEF Changes
  <1>2. Signs(c, ch) = IF c.kind = "legacy" /\ one /\ c.i > Len(Tx.output)
          THEN f = "add_output" /\ c.i = Len(Tx.output) + 1
          ELSE CASE f \in {"version", "lock_time"} -> TRUE
                 [] f = "add_input" -> ~acp
                 [] f = "add_output" -> all \/ (one /\ c.i = Len(Tx.output) + 1)
                 [] f = "output" -> all \/ (one /\ j = c.i)
                 [] f = "previous_output" -> ~acp \/ j = c.i
                 [] f = "sequence" -> j = c.i \/ (~acp /\ (all \/ c.kind = "taproot"))
                 [] OTHER -> FALSE
    BY DEF Signs
  <1>3. all <=> base \notin {"None", "Single"}
    OBVIOUS
  <1>4. ~(c.kind = "legacy" /\ one /\ c.i > Len(Tx.output))
    OBVIOUS
  <1> HIDE DEF f, j, acp, one, all
  <1>5. Signs(c, ch) <=> \/ f \in {"version", "lock_time"}
                         \/ f = "add_input" /\ ~acp
                         \/ f = "add_output" /\ (all \/ (one /\ c.i = Len(Tx.output) + 1))
                         \/ f = "output" /\ (all \/ (one /\ j = c.i))
                         \/ f = "previous_output" /\ (~acp \/ j = c.i)
                         \/ f = "sequence" /\ (j = c.i \/ (~acp /\ (all \/ c.kind = "taproot")))
    <2>1. CASE f \in {"version", "lock_time"}
      BY <2>1, <1>2, <1>4
    <2>2. CASE f = "add_input"
      BY <2>2, <1>2, <1>4, Zenon
    <2>3. CASE f = "add_output"
      BY <2>3, <1>2, <1>4, Zenon
    <2>4. CASE f = "output"
      BY <2>4, <1>2, <1>4, Zenon
    <2>5. CASE f = "previous_output"
      BY <2>5, <1>2, <1>4, Zenon
    <2>6. CASE f = "sequence"
      BY <2>6, <1>2, <1>4, Zenon
    <2>7. CASE f \in {"script_sig", "witness"}
      BY <2>7, <1>2, <1>4
    <2>8. QED
      BY <1>1, <2>1, <2>2, <2>3, <2>4, <2>5, <2>6, <2>7
  <1>6. QED
    BY <1>3, <1>5 DEF f, j, acp, one, all

\* What a new SighashCache hashes for a taproot input.
TapTerm(t, c) ==
    LET acp == AnyoneCanPay(c.ty)  base == Base(c.ty)
    IN  [kind |-> "taproot", ty |-> c.ty, version |-> t.version, lock_time |-> t.lock_time,
         prevouts |-> IF acp THEN None
                      ELSE <<CommonCache(t).prevouts, TaprootCache(c.prevouts.outs), CommonCache(t).sequences>>,
         outputs |-> IF base \in {"None", "Single"} THEN None ELSE Some(t.output),
         own |-> IF acp THEN <<t.input[c.i].previous_output, PrevoutAt(c)[1], t.input[c.i].sequence>>
                 ELSE <<c.i>>,
         annex |-> c.annex,
         single |-> IF base = "Single" THEN Some(t.output[c.i]) ELSE None,
         leaf |-> c.leaf]

\* An answer without an error is the hash of the term, and the call's arguments
\* fit the transaction.
LEMMA TapAnswer ==
  ASSUME NEW t, NEW c \in TaprootCalls, Answer(t, c, NoCaches).err = "ok"
  PROVE  /\ Answer(t, c, NoCaches) = Ok(TapTerm(t, c))
         /\ ~SizeError(t, c)
         /\ AnyoneCanPay(c.ty) => c.i \in DOMAIN t.input
         /\ Base(c.ty) = "Single" => c.i \in DOMAIN t.output
  <1>1. c.kind = "taproot"
    BY DEF TaprootCalls
  <1>2. TaprootError(t, c) = "ok"
    BY <1>1 DEF Answer, Err
  <1>3. ~SizeError(t, c) /\ ~KindError(c)
    BY <1>2 DEF TaprootError
  <1>4. AnyoneCanPay(c.ty) => c.i \in DOMAIN t.input
    BY <1>2, <1>3 DEF TaprootError
  <1>5. Base(c.ty) = "Single" => c.i \in DOMAIN t.output
    BY <1>2, <1>3, <1>4 DEF TaprootError
  <1> DEFINE after == TaprootCaches(t, c, NoCaches)
  <1>6. /\ ~AnyoneCanPay(c.ty) => after.common = Some(CommonCache(t)) /\ after.taproot = Some(TaprootCache(c.prevouts.outs))
        /\ Base(c.ty) \notin {"None", "Single"} => after.common = Some(CommonCache(t))
    BY <1>3 DEF TaprootCaches, NoCaches, WithCommon, GetOrInsert
  <1>7. Answer(t, c, NoCaches) = Ok(TaprootHash(t, c, after))
    BY <1>1, <1>2 DEF Answer, CachesAfter
  <1> HIDE DEF after
  <1>8. CommonCache(t).outputs = t.output
    BY DEF CommonCache
  <1>9. TaprootHash(t, c, after) = TapTerm(t, c)
    <2>1. ~AnyoneCanPay(c.ty) => after.common[1] = CommonCache(t) /\ after.taproot[1] = TaprootCache(c.prevouts.outs)
      BY <1>6 DEF Some
    <2>2. Base(c.ty) \notin {"None", "Single"} => after.common[1].outputs = t.output
      BY <1>6, <1>8 DEF Some
    <2>3. QED
      BY <2>1, <2>2 DEF TaprootHash, TapTerm
  <1>10. QED
    BY <1>3, <1>4, <1>5, <1>7, <1>9

\* Changing a part of the transaction changes a taproot hash exactly when the
\* part is signed.
LEMMA TapSigns ==
  ASSUME NEW c \in TaprootCalls, NEW ch \in Changes,
         Answer(Tx, c, NoCaches).err = "ok",
         Answer(Changed(ch), CallFor(c, ch), NoCaches).err = "ok"
  PROVE  (Answer(Changed(ch), CallFor(c, ch), NoCaches) # Answer(Tx, c, NoCaches)) <=> Signs(c, ch)
  <1> DEFINE t == Changed(ch)
             d == CallFor(c, ch)
             f == ch[1]
             j == ch[2]
             acp == AnyoneCanPay(c.ty)
             base == Base(c.ty)
             outs == c.prevouts.outs
             x == [value |-> Fresh, spk |-> Fresh]
             Outs == [value : Int, spk : Int]
  <1>1. /\ c.kind = "taproot" /\ c.i \in Nat \ {0} /\ c.ty \in EcdsaTypes \cup {"Default"}
        /\ outs \in Seq(Outs)
    BY DEF TaprootCalls
  <1>2. x \in Outs
    BY FreshAssumption
  <1>3. /\ d.i = c.i /\ d.ty = c.ty /\ d.annex = c.annex /\ d.leaf = c.leaf /\ d.prevouts.one = c.prevouts.one
        /\ d.prevouts.outs = IF f = "add_input" /\ c.prevouts.one = 0 THEN Append(outs, x) ELSE outs
        /\ f # "add_input" => d = c
    BY <1>1 DEF CallFor, TaprootCalls
  <1>4. d \in TaprootCalls
    <2>1. Append(outs, x) \in Seq(Outs)
      <3> HIDE DEF Outs, x, outs
      <3> QED
        BY <1>1, <1>2, SeqAppend
    <2>2. QED
      BY <2>1, <1>1, Zenon DEF CallFor, TaprootCalls
  <1>5. Differs(t, f, j)
    BY ChangedParts
  <1>6. base \in {"All", "None", "Single", "Default"} /\ acp \in BOOLEAN
    BY <1>1, TypeParts
  <1>7. /\ Answer(Tx, c, NoCaches) = Ok(TapTerm(Tx, c))
        /\ ~SizeError(Tx, c)
        /\ acp => c.i \in DOMAIN Tx.input
        /\ base = "Single" => c.i \in DOMAIN Tx.output
    BY TapAnswer
  <1>8. Answer(t, d, NoCaches) = Ok(TapTerm(t, d))
    BY <1>4, TapAnswer
  <1>9. (Ok(TapTerm(t, d)) = Ok(TapTerm(Tx, c))) <=> TapTerm(t, d) = TapTerm(Tx, c)
    BY DEF Ok, Some
  <1>10. acp => PrevoutAt(d)[1] = PrevoutAt(c)[1]
    <2> SUFFICES ASSUME acp, f = "add_input", c.prevouts.one = 0 PROVE PrevoutAt(d)[1] = PrevoutAt(c)[1]
      BY <1>3 DEF PrevoutAt
    <2>1. c.i \in 1 .. Len(outs)
      BY <1>7, PartsOfTx DEF SizeError
    <2>2. Append(outs, x)[c.i] = outs[c.i] /\ DOMAIN outs = 1 .. Len(outs)
          /\ DOMAIN Append(outs, x) = 1 .. Len(outs) + 1 /\ Len(outs) \in Nat
      <3> HIDE DEF Outs, x, outs
      <3>1. /\ Append(outs, x) \in Seq(Outs) /\ Len(Append(outs, x)) = Len(outs) + 1
            /\ \A i \in 1 .. Len(outs) : Append(outs, x)[i] = outs[i]
        BY <1>1, <1>2, SeqAppend
      <3>2. /\ DOMAIN outs = 1 .. Len(outs) /\ Len(outs) \in Nat
            /\ DOMAIN Append(outs, x) = 1 .. Len(Append(outs, x))
        BY SMTT(30), <1>1, <3>1, SeqParts
      <3> QED
        BY <2>1, <3>1, <3>2
    <2>3. PrevoutAt(d) = <<d.prevouts.outs[c.i]>> /\ PrevoutAt(c) = <<outs[c.i]>>
      BY SMTT(30), <1>1, <1>3, <2>1, <2>2 DEF PrevoutAt
    <2>4. QED
      BY <1>3, <2>2, <2>3, Zenon
  <1> HIDE DEF t, d, f, j, acp, base, outs, x, Outs
  <1> DEFINE o(u, e) == <<u.input[c.i].previous_output, PrevoutAt(e)[1], u.input[c.i].sequence>>
             p(u, e) == <<CommonCache(u).prevouts, TaprootCache(e.prevouts.outs), CommonCache(u).sequences>>
  <1>11. (TapTerm(t, d) = TapTerm(Tx, c)) <=>
           /\ t.version = Tx.version /\ t.lock_time = Tx.lock_time
           /\ acp \/ p(t, d) = p(Tx, c)
           /\ base \in {"None", "Single"} \/ t.output = Tx.output
           /\ ~acp \/ o(t, d) = o(Tx, c)
           /\ base # "Single" \/ t.output[c.i] = Tx.output[c.i]
    BY <1>3 DEF TapTerm, acp, base, Some
  <1>12. (p(t, d) = p(Tx, c)) <=> f \notin {"add_input", "previous_output", "sequence"}
    <2>1. /\ (CommonCache(t).prevouts = CommonCache(Tx).prevouts) <=> f \notin {"add_input", "previous_output"}
          /\ (CommonCache(t).sequences = CommonCache(Tx).sequences) <=> f \notin {"add_input", "sequence"}
      BY <1>5, WholeParts
    <2>2. (p(t, d) = p(Tx, c)) <=>
             /\ CommonCache(t).prevouts = CommonCache(Tx).prevouts
             /\ TaprootCache(d.prevouts.outs) = TaprootCache(c.prevouts.outs)
             /\ CommonCache(t).sequences = CommonCache(Tx).sequences
      OBVIOUS
    <2>3. QED
      BY <1>3, <2>1, <2>2
  <1>13. acp => ((o(t, d) = o(Tx, c)) <=> ~(f \in {"previous_output", "sequence"} /\ j = c.i))
    BY SMTT(30), <1>5, <1>7, <1>10, PartsOfTx DEF Differs
  <1>14. base = "Single" => c.i \in 1 .. Len(Tx.output)
         /\ ((t.output[c.i] = Tx.output[c.i]) <=> ~(f = "output" /\ j = c.i))
    BY SMTT(30), <1>5, <1>7, PartsOfTx DEF Differs
  <1>15. Signs(c, ch) <=>
            \/ f \in {"version", "lock_time"}
            \/ f = "add_input" /\ ~acp
            \/ f = "add_output" /\ (base \notin {"None", "Single"} \/ (base = "Single" /\ c.i = Len(Tx.output) + 1))
            \/ f = "output" /\ (base \notin {"None", "Single"} \/ (base = "Single" /\ j = c.i))
            \/ f = "previous_output" /\ (~acp \/ j = c.i)
            \/ f = "sequence" /\ (j = c.i \/ ~acp)
    BY <1>1, <1>6, SignsParts DEF f, j, acp, base
  <1>16. base = "Single" => c.i # Len(Tx.output) + 1
    BY <1>14, PartsOfTx
  <1>17. /\ (t.version = Tx.version) <=> f # "version"
         /\ (t.lock_time = Tx.lock_time) <=> f # "lock_time"
         /\ (t.output = Tx.output) <=> f \notin {"add_output", "output"}
    BY SMTT(30), <1>5 DEF Differs
  <1> HIDE DEF o, p
  <1>18. (TapTerm(t, d) # TapTerm(Tx, c)) <=> Signs(c, ch)
    BY SMTT(30), <1>6, <1>11, <1>12, <1>13, <1>14, <1>15, <1>16, <1>17
  <1>19. QED
    BY <1>7, <1>8, <1>9, <1>18 DEF t, d

\* What a new SighashCache hashes for a version 0 input.
SegwitTerm(t, c) ==
    LET acp == AnyoneCanPay(c.ty)  base == Base(c.ty)
    IN  [kind |-> "segwit", ty |-> c.ty, version |-> t.version, lock_time |-> t.lock_time,
         prevouts |-> IF acp THEN None ELSE Some(CommonCache(t).prevouts),
         sequences |-> IF acp \/ base \in {"None", "Single"} THEN None ELSE Some(CommonCache(t).sequences),
         own |-> <<t.input[c.i].previous_output, c.script, c.value, t.input[c.i].sequence>>,
         outputs |-> IF base \notin {"None", "Single"} THEN Some(t.output)
                     ELSE IF base = "Single" /\ c.i \in DOMAIN t.output THEN Some(t.output[c.i]) ELSE None]

\* An answer without an error is the hash of the term, of an input that is there.
LEMMA SegwitAnswer ==
  ASSUME NEW t, NEW c \in SegwitCalls, Answer(t, c, NoCaches).err = "ok"
  PROVE  Answer(t, c, NoCaches) = Ok(SegwitTerm(t, c)) /\ c.i \in DOMAIN t.input
  <1>1. c.kind \in {"p2wpkh", "p2wsh"} /\ c.kind # "taproot"
    BY DEF SegwitCalls
  <1>2. SegwitError(t, c) = "ok"
    BY <1>1 DEF Answer, Err
  <1>3. c.i \in DOMAIN t.input
    BY <1>2 DEF SegwitError
  <1> DEFINE acp == AnyoneCanPay(c.ty)
             base == Base(c.ty)
             after == SegwitCaches(t, c, NoCaches)
             common == CommonCache(t)
  <1>4. WithSegwit(t, NoCaches).segwit = Some(SegwitCache(common))
    BY DEF WithSegwit, NoCaches, GetOrInsert, Some, None
  <1>5. ~acp \/ base \notin {"None", "Single"} => after.segwit = Some(SegwitCache(common))
    BY <1>2, <1>4 DEF SegwitCaches
  <1>6. Answer(t, c, NoCaches) = Ok(SegwitHash(t, c, after))
    BY SMTT(30), <1>1, <1>2 DEF Answer, CachesAfter
  <1>7. /\ SegwitCache(common).prevouts = Some(common.prevouts)
        /\ SegwitCache(common).sequences = Some(common.sequences)
        /\ SegwitCache(common).outputs = Some(t.output)
    BY SMTT(30) DEF SegwitCache, CommonCache
  <1> HIDE DEF after, common, acp, base
  <1>8. ~acp \/ base \notin {"None", "Single"} =>
            /\ after.segwit[1].prevouts = Some(common.prevouts)
            /\ after.segwit[1].sequences = Some(common.sequences)
            /\ after.segwit[1].outputs = Some(t.output)
    BY <1>5, <1>7 DEF Some
  <1>9. SegwitHash(t, c, after) = SegwitTerm(t, c)
    BY <1>8 DEF SegwitHash, SegwitTerm, acp, base, common
  <1>10. QED
    BY <1>3, <1>6, <1>9

\* The same for a version 0 hash.
LEMMA SegwitSigns ==
  ASSUME NEW c \in SegwitCalls, NEW ch \in Changes,
         Answer(Tx, c, NoCaches).err = "ok", Answer(Changed(ch), c, NoCaches).err = "ok"
  PROVE  (Answer(Changed(ch), c, NoCaches) # Answer(Tx, c, NoCaches)) <=> Signs(c, ch)
  <1> DEFINE t == Changed(ch)
             f == ch[1]
             j == ch[2]
             acp == AnyoneCanPay(c.ty)
             base == Base(c.ty)
  <1>1. c.kind \in {"p2wpkh", "p2wsh"} /\ c.i \in Nat \ {0} /\ c.ty \in EcdsaTypes
    BY DEF SegwitCalls
  <1>2. Differs(t, f, j)
    BY ChangedParts
  <1>3. base \in {"All", "None", "Single"} /\ acp \in BOOLEAN
    BY <1>1, TypeParts
  <1>4. Answer(Tx, c, NoCaches) = Ok(SegwitTerm(Tx, c)) /\ Answer(t, c, NoCaches) = Ok(SegwitTerm(t, c))
        /\ c.i \in 1 .. Len(Tx.input)
    BY SegwitAnswer, PartsOfTx
  <1>5. (Ok(SegwitTerm(t, c)) = Ok(SegwitTerm(Tx, c))) <=> SegwitTerm(t, c) = SegwitTerm(Tx, c)
    BY SMTT(30) DEF Ok, Some
  <1> HIDE DEF t, f, j, acp, base
  <1> DEFINE own(u) == <<u.input[c.i].previous_output, c.script, c.value, u.input[c.i].sequence>>
             out(u) == IF c.i \in DOMAIN u.output THEN Some(u.output[c.i]) ELSE None
  <1>6. (SegwitTerm(t, c) = SegwitTerm(Tx, c)) <=>
           /\ t.version = Tx.version /\ t.lock_time = Tx.lock_time
           /\ acp \/ CommonCache(t).prevouts = CommonCache(Tx).prevouts
           /\ acp \/ base \in {"None", "Single"} \/ CommonCache(t).sequences = CommonCache(Tx).sequences
           /\ own(t) = own(Tx)
           /\ base \in {"None", "Single"} \/ t.output = Tx.output
           /\ base # "Single" \/ out(t) = out(Tx)
    BY DEF SegwitTerm, acp, base, Some
  <1>7. (own(t) = own(Tx)) <=> ~(f \in {"previous_output", "sequence"} /\ j = c.i)
    BY SMTT(30), <1>2, <1>4 DEF Differs
  <1>8. (out(t) = out(Tx)) <=> ~(f = "output" /\ j = c.i) /\ ~(f = "add_output" /\ c.i = Len(Tx.output) + 1)
    <2>1. CASE c.i \in 1 .. Len(Tx.output)
      BY SMTT(30), <1>2, <2>1, PartsOfTx DEF Differs, Some
    <2>2. CASE c.i \notin 1 .. Len(Tx.output)
      <3>1. (c.i \in DOMAIN t.output) <=> f = "add_output" /\ c.i = Len(Tx.output) + 1
        BY <1>1, <1>2, <2>2, PartsOfTx DEF Differs
      <3>2. ~(f = "output" /\ j = c.i)
        BY <1>2, <2>2 DEF Differs
      <3>3. QED
        BY <2>2, <3>1, <3>2, PartsOfTx, SomeIsNotNone
    <2>3. QED
      BY <2>1, <2>2
  <1>9. /\ (CommonCache(t).prevouts = CommonCache(Tx).prevouts) <=> f \notin {"add_input", "previous_output"}
        /\ (CommonCache(t).sequences = CommonCache(Tx).sequences) <=> f \notin {"add_input", "sequence"}
    BY <1>2, WholeParts
  <1>10. /\ (t.version = Tx.version) <=> f # "version"
         /\ (t.lock_time = Tx.lock_time) <=> f # "lock_time"
         /\ (t.output = Tx.output) <=> f \notin {"add_output", "output"}
    BY SMTT(30), <1>2 DEF Differs
  <1>11. Signs(c, ch) <=>
            \/ f \in {"version", "lock_time"}
            \/ f = "add_input" /\ ~acp
            \/ f = "add_output" /\ (base \notin {"None", "Single"} \/ (base = "Single" /\ c.i = Len(Tx.output) + 1))
            \/ f = "output" /\ (base \notin {"None", "Single"} \/ (base = "Single" /\ j = c.i))
            \/ f = "previous_output" /\ (~acp \/ j = c.i)
            \/ f = "sequence" /\ (j = c.i \/ (~acp /\ base \notin {"None", "Single"}))
    BY <1>1, <1>3, SignsParts DEF f, j, acp, base
  <1> HIDE DEF own, out
  <1>12. (SegwitTerm(t, c) # SegwitTerm(Tx, c)) <=> Signs(c, ch)
    BY <1>3, <1>6, <1>7, <1>8, <1>9, <1>10, <1>11
  <1>13. QED
    BY <1>4, <1>5, <1>12 DEF t

\* Inputs of the transaction that is hashed for a legacy input.
LEMMA LegacyInputParts ==
  ASSUME NEW t, NEW f, NEW j, Differs(t, f, j), NEW c, c.i \in 1 .. Len(Tx.input), NEW ty \in EcdsaTypes
  PROVE  (LegacyInputs(t, c, ty) = LegacyInputs(Tx, c, ty)) <=>
            IF AnyoneCanPay(ty) THEN ~(f \in {"previous_output", "sequence"} /\ j = c.i)
            ELSE /\ f \notin {"add_input", "previous_output"}
                 /\ f = "sequence" => Base(ty) \in {"None", "Single"} /\ j # c.i
  <1> DEFINE zero(k) == k # c.i /\ Base(ty) \in {"None", "Single"}
             in(u, k) == [previous_output |-> u.input[k].previous_output,
                          script_sig |-> IF k = c.i THEN Some(c.script) ELSE None,
                          sequence |-> IF zero(k) THEN 0 ELSE u.input[k].sequence]
             n == Len(Tx.input)
  <1>1. \A k \in 1 .. n : (in(t, k) = in(Tx, k)) <=>
            /\ t.input[k].previous_output = Tx.input[k].previous_output
            /\ zero(k) \/ t.input[k].sequence = Tx.input[k].sequence
    OBVIOUS
  <1>2. \A k \in 1 .. n : (in(t, k) = in(Tx, k)) <=>
            ~(f = "previous_output" /\ k = j) /\ ~(f = "sequence" /\ k = j /\ ~zero(k))
    <2> HIDE DEF in, zero
    <2> QED
      BY <1>1 DEF Differs
  <1>3. CASE AnyoneCanPay(ty)
    <2>1. LegacyInputs(t, c, ty) = <<in(t, c.i)>> /\ LegacyInputs(Tx, c, ty) = <<in(Tx, c.i)>>
      BY <1>3 DEF LegacyInputs
    <2>2. ~zero(c.i)
      OBVIOUS
    <2> HIDE DEF in, zero
    <2>3. QED
      BY SMTT(30), <2>1, <2>2, <1>2, <1>3
  <1>4. CASE ~AnyoneCanPay(ty)
    <2>1. LegacyInputs(t, c, ty) = [k \in DOMAIN t.input |-> in(t, k)]
          /\ LegacyInputs(Tx, c, ty) = [k \in 1 .. n |-> in(Tx, k)]
      BY <1>4, PartsOfTx DEF LegacyInputs
    <2>2. CASE f = "add_input"
      <3>1. n + 1 \in DOMAIN t.input /\ n + 1 \notin 1 .. n
        BY <2>2, PartsOfTx DEF Differs
      <3> HIDE DEF in
      <3>2. DOMAIN LegacyInputs(t, c, ty) # DOMAIN LegacyInputs(Tx, c, ty)
        BY <2>1, <3>1
      <3>3. QED
        BY <2>2, <3>2, <1>4
    <2>3. CASE f # "add_input"
      <3>1. DOMAIN t.input = 1 .. n
        BY <2>3, PartsOfTx DEF Differs
      <3>2. f \in {"previous_output", "sequence"} => j \in 1 .. n
        BY DEF Differs
      <3>3. \A k : ~zero(k) <=> (k = c.i \/ Base(ty) \notin {"None", "Single"})
        OBVIOUS
      <3> HIDE DEF in, zero
      <3>4. (LegacyInputs(t, c, ty) = LegacyInputs(Tx, c, ty)) <=> \A k \in 1 .. n : in(t, k) = in(Tx, k)
        <4> DEFINE g == [k \in 1 .. n |-> in(t, k)]
                   h == [k \in 1 .. n |-> in(Tx, k)]
        <4>1. (g = h) <=> \A k \in 1 .. n : g[k] = h[k]
          BY Zenon
        <4>2. QED
          BY SMTT(30), <4>1, <2>1, <3>1
      <3>5. QED
        BY <1>2, <1>4, <2>3, <3>2, <3>3, <3>4
    <2>4. QED
      BY SMTT(30), <2>2, <2>3
  <1>5. QED
    BY <1>3, <1>4

\* Its outputs, when SIGHASH_SINGLE has one.
LEMMA LegacyOutputParts ==
  ASSUME NEW t, NEW f, NEW j, Differs(t, f, j), NEW c, c.i \in Nat \ {0}, NEW ty \in EcdsaTypes,
         Base(ty) = "Single" => c.i \in 1 .. Len(Tx.output)
  PROVE  (LegacyOutputs(t, c, ty) = LegacyOutputs(Tx, c, ty)) <=>
            CASE Base(ty) = "All" -> f \notin {"add_output", "output"}
              [] Base(ty) = "Single" -> ~(f = "output" /\ j = c.i)
              [] OTHER -> TRUE
  <1>1. Base(ty) \in {"All", "None", "Single"}
    BY TypeParts
  <1> DEFINE n == Len(Tx.output)
  <1>2. CASE Base(ty) = "All"
    <2> DEFINE g(u) == [k \in DOMAIN u.output |-> Some(u.output[k])]
    <2>1. LegacyOutputs(t, c, ty) = g(t) /\ LegacyOutputs(Tx, c, ty) = g(Tx)
      BY <1>2 DEF LegacyOutputs
    <2>2. CASE f = "add_output"
      <3>1. n + 1 \in DOMAIN g(t) /\ n + 1 \notin DOMAIN g(Tx)
        BY <2>2, PartsOfTx DEF Differs
      <3>2. g(t) # g(Tx)
        <4> HIDE DEF g
        <4> QED
          BY <3>1
      <3>3. QED
        BY <1>2, <2>1, <2>2, <3>2
    <2>3. CASE f = "output"
      <3>1. j \in 1 .. n /\ DOMAIN t.output = 1 .. n /\ t.output[j] # Tx.output[j]
        BY <2>3 DEF Differs
      <3>2. g(t)[j] = Some(t.output[j]) /\ g(Tx)[j] = Some(Tx.output[j])
        BY <3>1, PartsOfTx
      <3>3. g(t) # g(Tx)
        <4> HIDE DEF g
        <4> QED
          BY <3>1, <3>2, SomeIsNotNone
      <3>4. QED
        BY <1>2, <2>1, <2>3, <3>3
    <2>4. CASE f \notin {"add_output", "output"}
      BY <1>2, <2>1, <2>4 DEF Differs
    <2>5. QED
      BY <2>2, <2>3, <2>4
  <1>3. CASE Base(ty) = "Single"
    <2> DEFINE g(u) == [k \in 1 .. c.i |-> IF k = c.i THEN Some(u.output[k]) ELSE None]
    <2>1. LegacyOutputs(t, c, ty) = g(t) /\ LegacyOutputs(Tx, c, ty) = g(Tx)
      BY SMTT(30), <1>3 DEF LegacyOutputs
    <2>2. (t.output[c.i] = Tx.output[c.i]) <=> ~(f = "output" /\ j = c.i)
      BY <1>3 DEF Differs
    <2>3. c.i \in 1 .. c.i
      OBVIOUS
    <2>4. g(t)[c.i] = Some(t.output[c.i]) /\ g(Tx)[c.i] = Some(Tx.output[c.i])
      BY SMTT(30), <2>3
    <2>5. t.output[c.i] = Tx.output[c.i] => g(t) = g(Tx)
      OBVIOUS
    <2> HIDE DEF g
    <2>6. QED
      BY <1>3, <2>1, <2>2, <2>4, <2>5, SomeIsNotNone
  <1>4. CASE Base(ty) = "None"
    BY <1>4 DEF LegacyOutputs
  <1>5. QED
    BY <1>1, <1>2, <1>3, <1>4

\* The same for a legacy hash, the misuse of SIGHASH_SINGLE included: there the
\* hash is one, until an output is added that makes the use right.
LEMMA LegacySigns ==
  ASSUME NEW c \in LegacyCalls, NEW ch \in Changes,
         Answer(Tx, c, NoCaches).err = "ok", Answer(Changed(ch), c, NoCaches).err = "ok"
  PROVE  (Answer(Changed(ch), c, NoCaches) # Answer(Tx, c, NoCaches)) <=> Signs(c, ch)
  <1> DEFINE t == Changed(ch)
             f == ch[1]
             j == ch[2]
             ty == from_consensus(c.n)
             acp == AnyoneCanPay(ty)
             base == Base(ty)
  <1>1. c.kind = "legacy" /\ c.i \in Nat \ {0} /\ c.n \in Nat
    BY DEF LegacyCalls
  <1>2. Differs(t, f, j)
    BY ChangedParts
  <1>3. ty \in EcdsaTypes /\ base \in {"All", "None", "Single"} /\ acp \in BOOLEAN
    BY <1>1, ConsensusType, TypeParts
  <1>4. ASSUME NEW u, Answer(u, c, NoCaches).err = "ok"
        PROVE  Answer(u, c, NoCaches) = Ok(LegacyHash(u, c)) /\ c.i \in DOMAIN u.input
    BY SMTT(30), <1>1, <1>4 DEF Answer, Err
  <1>5. /\ Answer(Tx, c, NoCaches) = Ok(LegacyHash(Tx, c)) /\ c.i \in 1 .. Len(Tx.input)
        /\ Answer(t, c, NoCaches) = Ok(LegacyHash(t, c))
    BY <1>4, PartsOfTx
  <1>6. (Ok(LegacyHash(t, c)) = Ok(LegacyHash(Tx, c))) <=> LegacyHash(t, c) = LegacyHash(Tx, c)
    BY DEF Ok, Some
  <1>7. /\ SingleBug(t, c) <=> base = "Single" /\ c.i \notin DOMAIN t.output
        /\ SingleBug(Tx, c) <=> base = "Single" /\ c.i \notin 1 .. Len(Tx.output)
    BY PartsOfTx DEF SingleBug
  <1>8. c.i \in DOMAIN t.output <=> c.i \in 1 .. Len(Tx.output) \/ (f = "add_output" /\ c.i = Len(Tx.output) + 1)
    BY SMTT(30), <1>1, <1>2, PartsOfTx DEF Differs
  <1> DEFINE whole(u) == [kind |-> "legacy", version |-> u.version, lock_time |-> u.lock_time,
                          inputs |-> LegacyInputs(u, c, ty), outputs |-> LegacyOutputs(u, c, ty), n |-> c.n]
  <1>9. \A u : LegacyHash(u, c) = IF SingleBug(u, c) THEN [kind |-> "one"] ELSE whole(u)
    BY DEF LegacyHash
  <1>10. \A u : whole(u) # [kind |-> "one"]
    <2>1. \A u : whole(u).kind = "legacy"
      OBVIOUS
    <2> HIDE DEF whole
    <2>2. QED
      BY <2>1
  <1>11. CASE SingleBug(Tx, c)
    <2>1. base = "Single" /\ c.i > Len(Tx.output)
      <3> HIDE DEF base
      <3> QED
        BY <1>1, <1>7, <1>11, PartsOfTx
    <2>2. Signs(c, ch) <=> f = "add_output" /\ c.i = Len(Tx.output) + 1
      BY <1>1, <2>1 DEF Signs
    <2>3. SingleBug(t, c) <=> ~(f = "add_output" /\ c.i = Len(Tx.output) + 1)
      BY <1>7, <1>8, <1>11
    <2> HIDE DEF t, f, whole
    <2>4. (LegacyHash(t, c) # LegacyHash(Tx, c)) <=> Signs(c, ch)
      BY <1>9, <1>10, <1>11, <2>2, <2>3
    <2>5. QED
      BY SMTT(30), <1>5, <1>6, <2>4 DEF t
  <1>12. CASE ~SingleBug(Tx, c)
    <2>1. base = "Single" => c.i \in 1 .. Len(Tx.output)
      BY <1>7, <1>12
    <2>2. ~SingleBug(t, c)
      BY SMTT(30), <1>7, <1>8, <2>1
    <2>3. (whole(t) = whole(Tx)) <=>
             /\ t.version = Tx.version /\ t.lock_time = Tx.lock_time
             /\ LegacyInputs(t, c, ty) = LegacyInputs(Tx, c, ty)
             /\ LegacyOutputs(t, c, ty) = LegacyOutputs(Tx, c, ty)
      BY SMTT(30)
    <2>4. (LegacyInputs(t, c, ty) = LegacyInputs(Tx, c, ty)) <=>
             IF acp THEN ~(f \in {"previous_output", "sequence"} /\ j = c.i)
             ELSE /\ f \notin {"add_input", "previous_output"}
                  /\ f = "sequence" => base \in {"None", "Single"} /\ j # c.i
      BY <1>2, <1>3, <1>5, LegacyInputParts
    <2>5. (LegacyOutputs(t, c, ty) = LegacyOutputs(Tx, c, ty)) <=>
             CASE base = "All" -> f \notin {"add_output", "output"}
               [] base = "Single" -> ~(f = "output" /\ j = c.i)
               [] OTHER -> TRUE
      BY <1>1, <1>2, <1>3, <2>1, LegacyOutputParts
    <2>6. ~(base = "Single" /\ c.i > Len(Tx.output)) /\ ~(base = "Single" /\ c.i = Len(Tx.output) + 1)
      BY SMTT(30), <2>1, PartsOfTx
    <2>7. Signs(c, ch) <=>
             \/ f \in {"version", "lock_time"}
             \/ f = "add_input" /\ ~acp
             \/ f = "add_output" /\ (base \notin {"None", "Single"} \/ (base = "Single" /\ c.i = Len(Tx.output) + 1))
             \/ f = "output" /\ (base \notin {"None", "Single"} \/ (base = "Single" /\ j = c.i))
             \/ f = "previous_output" /\ (~acp \/ j = c.i)
             \/ f = "sequence" /\ (j = c.i \/ (~acp /\ base \notin {"None", "Single"}))
      BY SMTT(30), <1>1, <1>3, <2>6, SignsParts
    <2>8. (t.version = Tx.version <=> f # "version") /\ (t.lock_time = Tx.lock_time <=> f # "lock_time")
      BY <1>2 DEF Differs
    <2> HIDE DEF t, f, j, ty, acp, base, whole
    <2>9. (whole(t) # whole(Tx)) <=> Signs(c, ch)
      BY SMTT(30), <1>3, <2>3, <2>4, <2>5, <2>6, <2>7, <2>8
    <2>10. QED
      BY SMTT(30), <1>5, <1>6, <1>9, <1>12, <2>2, <2>9 DEF t
  <1>13. QED
    BY <1>11, <1>12

\* A hash that was given for Tx, by a call that gives no error, signs what its
\* type says.
LEMMA AnswersSign ==
  ASSUME NEW c \in Calls, NEW ch \in Changes,
         Answer(Tx, c, NoCaches).err = "ok",
         Answer(Changed(ch), CallFor(c, ch), NoCaches).err = "ok"
  PROVE  (Answer(Changed(ch), CallFor(c, ch), NoCaches) # Answer(Tx, c, NoCaches)) <=> Signs(c, ch)
  <1>1. CASE c \in TaprootCalls
    BY <1>1, TapSigns
  <1>2. CASE c \in SegwitCalls
    <2>1. CallFor(c, ch) = c
      BY <1>2 DEF SegwitCalls, CallFor
    <2>2. QED
      BY <1>2, <2>1, SegwitSigns
  <1>3. CASE c \in LegacyCalls
    <2>1. CallFor(c, ch) = c
      BY <1>3 DEF LegacyCalls, CallFor
    <2>2. QED
      BY <1>3, <2>1, LegacySigns
  <1>4. QED
    BY SMTT(30), <1>1, <1>2, <1>3, CallsAssumption

\* The last call was one of Calls.
LastCall == last # None => last[1] \in Calls

\* A signature covers what its sighash type says and nothing else, for every
\* transaction, every new value of a part and every order of the calls.
THEOREM SignsExactly == Honest => (Spec => []SignsWhatTypeSays)
  <1> SUFFICES ASSUME Honest PROVE Spec => []SignsWhatTypeSays
    OBVIOUS
  <1>1. Init => LastCall
    BY DEF Init, LastCall
  <1>2. LastCall /\ [Next]_vars => LastCall'
    BY SMTT(30) DEF LastCall, Next, Ask, SetWitness, vars
  <1>3. LastCall /\ Transparent => SignsWhatTypeSays
    <2> SUFFICES ASSUME LastCall, Transparent, last # None PROVE SignsWhatTypeSays
      BY DEF SignsWhatTypeSays, TypesAsConsensus
    <2>1. last[1] \in Calls /\ last[2] = Answer(Tx, last[1], NoCaches)
      BY DEF LastCall, Transparent
    <2>2. TypesAsConsensus
      <3>1. last[1].kind = "legacy" => last[1].n \in Nat
        BY <2>1, CallsAssumption DEF TaprootCalls, SegwitCalls, LegacyCalls
      <3>2. QED
        BY <3>1, ConsensusType DEF TypesAsConsensus
    <2>3. QED
      BY SMTT(30), <2>1, <2>2, AnswersSign DEF SignsWhatTypeSays
  <1>4. Spec => []Transparent
    BY CachesAreTransparent, PTL
  <1>5. QED
    BY <1>1, <1>2, <1>3, <1>4, PTL DEF Spec

\* No two inputs spend one output, as consensus demands of a transaction.
DistinctInputs ==
    \A i, j \in DOMAIN Tx.input :
        Tx.input[i].previous_output = Tx.input[j].previous_output => i = j

\* The answer for another input is another hash, or an error.
LEMMA MovedDiffers ==
  ASSUME DistinctInputs, NEW c \in Calls, Answer(Tx, c, NoCaches).err = "ok",
         NEW j \in DOMAIN Tx.input, j # c.i, ~(c.kind = "legacy" /\ SingleBug(Tx, c))
  PROVE  Answer(Tx, [c EXCEPT !.i = j], NoCaches) # Answer(Tx, c, NoCaches)
  <1> DEFINE d == [c EXCEPT !.i = j]
  <1> SUFFICES ASSUME Answer(Tx, d, NoCaches) = Answer(Tx, c, NoCaches) PROVE FALSE
    OBVIOUS
  <1>1. j \in Nat \ {0}
    BY PartsOfTx
  <1>2. CASE c \in TaprootCalls
    <2>1. d \in TaprootCalls /\ d.i = j /\ d.ty = c.ty
      BY <1>1, <1>2, Zenon DEF TaprootCalls
    <2>2. Answer(Tx, c, NoCaches) = Ok(TapTerm(Tx, c)) /\ Answer(Tx, d, NoCaches) = Ok(TapTerm(Tx, d))
          /\ (AnyoneCanPay(c.ty) => c.i \in DOMAIN Tx.input)
      BY <1>2, <2>1, TapAnswer
    <2> HIDE DEF d
    <2>3. TapTerm(Tx, c) = TapTerm(Tx, d)
      BY <2>2 DEF Ok, Some
    <2>4. TapTerm(Tx, c).own = TapTerm(Tx, d).own
      BY <2>3
    <2>5. CASE AnyoneCanPay(c.ty)
      <3>1. Tx.input[c.i].previous_output = Tx.input[j].previous_output
        BY SMTT(30), <2>1, <2>4, <2>5 DEF TapTerm
      <3>2. QED
        BY SMTT(30), <2>2, <2>5, <3>1 DEF DistinctInputs
    <2>6. CASE ~AnyoneCanPay(c.ty)
      BY SMTT(30), <2>1, <2>4, <2>6 DEF TapTerm
    <2>7. QED
      BY <2>5, <2>6
  <1>3. CASE c \in SegwitCalls
    <2>1. d \in SegwitCalls /\ d.i = j
      BY <1>1, <1>3 DEF SegwitCalls
    <2>2. Answer(Tx, c, NoCaches) = Ok(SegwitTerm(Tx, c)) /\ Answer(Tx, d, NoCaches) = Ok(SegwitTerm(Tx, d))
          /\ c.i \in DOMAIN Tx.input
      BY SMTT(30), <1>3, <2>1, SegwitAnswer
    <2> HIDE DEF d
    <2>3. SegwitTerm(Tx, c) = SegwitTerm(Tx, d)
      BY SMTT(30), <2>2 DEF Ok, Some
    <2>4. SegwitTerm(Tx, c).own = SegwitTerm(Tx, d).own
      BY <2>3
    <2>5. Tx.input[c.i].previous_output = Tx.input[j].previous_output
      BY SMTT(30), <2>1, <2>4 DEF SegwitTerm
    <2>6. QED
      BY <2>2, <2>5 DEF DistinctInputs
  <1>4. CASE c \in LegacyCalls
    <2>1. c.kind = "legacy" /\ d.kind = "legacy" /\ d.i = j /\ d.n = c.n
      BY <1>4 DEF LegacyCalls
    <2> HIDE DEF d
    <2>2. Answer(Tx, c, NoCaches) = Ok(LegacyHash(Tx, c)) /\ Answer(Tx, d, NoCaches) = Ok(LegacyHash(Tx, d))
          /\ c.i \in DOMAIN Tx.input
      BY <2>1 DEF Answer, Err
    <2>3. LegacyHash(Tx, c) = LegacyHash(Tx, d)
      BY <2>2 DEF Ok, Some
    <2>4. ~SingleBug(Tx, c)
      BY SMTT(30), <2>1
    <2> DEFINE ty == from_consensus(c.n)
    <2>5. LegacyHash(Tx, c).kind = "legacy" /\ LegacyHash(Tx, c).inputs = LegacyInputs(Tx, c, ty)
      BY SMTT(30), <2>4 DEF LegacyHash
    <2>6. ~SingleBug(Tx, d)
      BY SMTT(30), <2>3, <2>5 DEF LegacyHash
    <2>7. LegacyHash(Tx, d).inputs = LegacyInputs(Tx, d, ty)
      BY SMTT(30), <2>1, <2>6 DEF LegacyHash
    <2> HIDE DEF ty
    <2>8. LegacyInputs(Tx, c, ty) = LegacyInputs(Tx, d, ty)
      BY SMTT(30), <2>3, <2>5, <2>7
    <2>9. CASE AnyoneCanPay(ty)
      <3>1. LegacyInputs(Tx, c, ty)[1].previous_output = Tx.input[c.i].previous_output
            /\ LegacyInputs(Tx, d, ty)[1].previous_output = Tx.input[j].previous_output
        BY SMTT(30), <2>1, <2>9 DEF LegacyInputs
      <3>2. QED
        BY SMTT(30), <2>2, <2>8, <3>1 DEF DistinctInputs
    <2>10. CASE ~AnyoneCanPay(ty)
      <3>1. LegacyInputs(Tx, c, ty)[j].script_sig = None /\ LegacyInputs(Tx, d, ty)[j].script_sig = Some(d.script)
        BY <2>1, <2>10 DEF LegacyInputs
      <3>2. QED
        BY SMTT(30), <2>8, <3>1, SomeIsNotNone
    <2>11. QED
      BY <2>9, <2>10
  <1>5. QED
    BY <1>2, <1>3, <1>4, CallsAssumption

\* A signature cannot be moved to another input of the transaction, but for the
\* misuse of SIGHASH_SINGLE, whose hash is one for every input.
THEOREM SignaturesStay == Honest /\ DistinctInputs => (Spec => []InputsSeparated)
  <1> SUFFICES ASSUME Honest, DistinctInputs PROVE Spec => []InputsSeparated
    OBVIOUS
  <1>1. Init => LastCall
    BY DEF Init, LastCall
  <1>2. LastCall /\ [Next]_vars => LastCall'
    BY DEF LastCall, Next, Ask, SetWitness, vars
  <1>3. LastCall /\ Transparent => InputsSeparated
    <2> SUFFICES ASSUME LastCall, Transparent, last # None PROVE InputsSeparated
      BY DEF InputsSeparated
    <2>1. last[1] \in Calls /\ last[2] = Answer(Tx, last[1], NoCaches)
      BY DEF LastCall, Transparent
    <2>2. QED
      BY <2>1, MovedDiffers DEF InputsSeparated
  <1>4. Spec => []Transparent
    BY CachesAreTransparent, PTL
  <1>5. QED
    BY <1>1, <1>2, <1>3, <1>4, PTL DEF Spec
=============================================================================
