--------------------------- MODULE LockTimeProofs ---------------------------
(***************************************************************************)
(* Proofs about LockTime for every threshold, bound and set of inputs: the *)
(* locks of a transaction never close again while the chain grows, a wait  *)
(* asked for in seconds is waited, and the forms of a lock agree.          *)
(***************************************************************************)
EXTENDS LockTime, TLAPS

LockSpec == LockInit /\ [][LockNext]_lockVars

\* Heights and times only grow from those of the coin, every sequence and lock
\* time is one, and the first input is the one its wait was turned into.
LockInvariant ==
    /\ tip \in [height : Nat, time : Nat] /\ coin \in [height : Nat, time : Nat]
    /\ coin.height <= tip.height /\ coin.time <= tip.time
    /\ tx \in [lock_time : [unit : {"Blocks", "Seconds"}, n : 0 .. U32MAX], inputs : [{1, 2} -> 0 .. U32MAX]]
    /\ asked \in Int
    /\ asked >= 0 => from_seconds_ceil(asked).err = "ok" /\ tx.inputs[1] = from_seconds_ceil(asked).val

-----------------------------------------------------------------------------
(* The operators *)

\* The smaller of two numbers, as Min of the community modules chooses it.
LEMMA MinOfTwo ==
    ASSUME NEW a \in Int, NEW b \in Int
    PROVE  Min({a, b}) = IF a <= b THEN a ELSE b
BY DEF Min

\* Dividing by the length of an interval.
LEMMA Intervals ==
    ASSUME NEW n \in Nat
    PROVE  /\ n \div Interval \in Nat
           /\ Interval * (n \div Interval) <= n /\ n < Interval * (n \div Interval) + Interval
BY DEF Interval

\* The addition of from_seconds_ceil, where it does not panic.
LEMMA IncreasedValue ==
    ASSUME NEW s \in Nat, Increased(s).err = "ok"
    PROVE  Increased(s).val \in Nat /\ (OverflowChecks => Increased(s).val = s + (Interval - 1))
<1>1. CASE s + (Interval - 1) <= U32MAX
  BY <1>1 DEF Increased, Done, Interval
<1>2. CASE ~(s + (Interval - 1) <= U32MAX) /\ OverflowChecks
  BY <1>2 DEF Increased, Fail
<1>3. CASE ~(s + (Interval - 1) <= U32MAX) /\ ~OverflowChecks
  <2>1. Increased(s) = Done((s + (Interval - 1)) % (U32MAX + 1))
    BY <1>3 DEF Increased
  <2>2. U32MAX + 1 = 64 /\ s + (Interval - 1) \in Nat
    BY DEF Interval, U32MAX
  <2>3. \A n \in Nat : n % 64 \in Nat
    OBVIOUS
  <2>4. (s + (Interval - 1)) % (U32MAX + 1) \in Nat
    BY <2>2, <2>3
  <2> QED BY <1>3, <2>1, <2>4 DEF Done
<1> QED BY <1>1, <1>2, <1>3

\* from_seconds_ceil gives a sequence, and rounds a wait up to whole intervals
\* where the addition does not wrap.
LEMMA CeilRoundsUp ==
    ASSUME NEW s \in Nat, from_seconds_ceil(s).err = "ok",
           NEW w, w = from_seconds_ceil(s).val - LOCK_TYPE_MASK
    PROVE  /\ w \in 0 .. U16MAX /\ from_seconds_ceil(s).val = w + LOCK_TYPE_MASK
           /\ OverflowChecks => s <= Interval * w /\ Interval * w <= s + (Interval - 1)
<1> DEFINE i == Increased(s)
           d == i.val \div Interval
<1>1. i.err = "ok"
  BY DEF from_seconds_ceil
<1>2. i.val \in Nat /\ (OverflowChecks => i.val = s + (Interval - 1))
  BY <1>1, IncreasedValue
<1>3. d \in Nat /\ Interval * d <= i.val /\ i.val < Interval * d + Interval
  BY <1>2, Intervals
<1>4. d <= U16MAX
  <2>1. SUFFICES ASSUME ~(d <= U16MAX) PROVE FALSE
    OBVIOUS
  <2>2. from_seconds_ceil(s) = TimeOverflowError_new(s)
    BY <1>1, <2>1 DEF from_seconds_ceil
  <2>3. TimeOverflowError_new(s).err # "ok"
    BY DEF TimeOverflowError_new, Fail
  <2> QED BY <2>2, <2>3
<1>5. from_seconds_ceil(s).val = d + LOCK_TYPE_MASK
  BY <1>1, <1>4 DEF from_seconds_ceil, Done, from_512_second_intervals
<1>6. w = d
  BY <1>3, <1>5 DEF LOCK_TYPE_MASK
<1>7. OverflowChecks => s <= Interval * d /\ Interval * d <= s + (Interval - 1)
  BY <1>2, <1>3 DEF Interval
<1> QED BY <1>3, <1>4, <1>5, <1>6, <1>7 DEF U16MAX

-----------------------------------------------------------------------------
(* The invariant *)

\* What the texts of a lock time are read as is a 32-bit number.
LEMMA ReadInRange ==
    ASSUME NEW n \in Int, NEW p \in 0 .. 2, NEW r,
           r \in {from_str([n |-> n, prefixes |-> p]), from_hex([n |-> n, prefixes |-> p]),
                  from_unprefixed_hex([n |-> n, prefixes |-> p])},
           r.err = "ok"
    PROVE  r.val \in 0 .. U32MAX
<1> DEFINE t == [n |-> n, prefixes |-> p]
<1>1. CASE r = from_str(t)
  BY <1>1 DEF from_str, Done, Fail
<1>2. CASE r = from_hex(t)
  BY <1>2 DEF from_hex, hex_u32, Done, Fail
<1>3. CASE r = from_unprefixed_hex(t)
  BY <1>3 DEF from_unprefixed_hex, hex_u32, Done, Fail
<1> QED BY <1>1, <1>2, <1>3

\* The invariant holds of the lock-free transaction.
LEMMA InitHolds == LockInit => LockInvariant
BY LockTimeAssumption DEF LockInit, LockInvariant, from_consensus, is_block_height, MAX, U32MAX

\* Every step of a signer or a miner keeps it.
LEMMA StepKeeps == LockInvariant /\ [LockNext]_lockVars => LockInvariant'
<1> SUFFICES ASSUME LockInvariant, [LockNext]_lockVars PROVE LockInvariant'
  OBVIOUS
<1>1. ASSUME NEW i \in {1, 2}, NEW seq \in InputSequences, SetSequence(i, seq) PROVE LockInvariant'
  <2>1. seq \in 0 .. U32MAX
    BY LockTimeAssumption
  <2> QED BY <1>1, <2>1 DEF SetSequence, LockInvariant
<1>2. ASSUME NEW n \in Numbers, NEW p \in 0 .. 2, SetLockTime([n |-> n, prefixes |-> p]) PROVE LockInvariant'
  <2>1. PICK r \in {from_str([n |-> n, prefixes |-> p]), from_hex([n |-> n, prefixes |-> p]),
                    from_unprefixed_hex([n |-> n, prefixes |-> p])} :
           r.err = "ok" /\ tx' = [tx EXCEPT !.lock_time = from_consensus(r.val)]
           /\ UNCHANGED <<tip, coin, asked>>
    BY <1>2 DEF SetLockTime
  <2>2. r.val \in 0 .. U32MAX
    BY Zenon, <2>1, LockTimeAssumption, ReadInRange
  <2>3. from_consensus(r.val) \in [unit : {"Blocks", "Seconds"}, n : 0 .. U32MAX]
    BY <2>2 DEF from_consensus
  <2> QED BY <2>1, <2>3 DEF LockInvariant
<1>3. ASSUME NEW s \in 0 .. U32MAX, WaitFor(s) PROVE LockInvariant'
  <2>1. from_seconds_ceil(s).val \in 0 .. U32MAX
    BY <1>3, CeilRoundsUp DEF WaitFor, U32MAX, U16MAX, LOCK_TYPE_MASK
  <2> QED BY <1>3, <2>1 DEF WaitFor, LockInvariant
<1>4. ASSUME NEW e \in BlockTimes, Mine(e) PROVE LockInvariant'
  BY <1>4, LockTimeAssumption DEF Mine, LockInvariant
<1>5. CASE UNCHANGED lockVars
  BY <1>5 DEF lockVars, LockInvariant
<1> QED BY Zenon, <1>1, <1>2, <1>3, <1>4, <1>5 DEF LockNext

\* In every reachable state heights and times are at least those of the coin, and
\* sequences and lock times are 32-bit numbers.
THEOREM LocksTyped == LockSpec => []LockInvariant
BY InitHolds, StepKeeps, PTL DEF LockSpec

-----------------------------------------------------------------------------
(* Locks stay open *)

\* The ages of the coin are counted in whole blocks and intervals.
LEMMA AgesCounted ==
    ASSUME LockInvariant
    PROVE  /\ AgeHeight \in Nat /\ AgeTime \in Nat
           /\ AgeHeight = IF U16MAX <= tip.height - coin.height THEN U16MAX ELSE tip.height - coin.height
           /\ AgeTime = IF U16MAX <= (tip.time - coin.time) \div Interval
                         THEN U16MAX ELSE (tip.time - coin.time) \div Interval
<1>1. tip.height - coin.height \in Nat /\ tip.time - coin.time \in Nat
  BY DEF LockInvariant
<1>2. (tip.time - coin.time) \div Interval \in Nat
  BY <1>1, Intervals
<1> QED BY <1>1, <1>2, MinOfTwo DEF AgeHeight, AgeTime, U16MAX

\* Longer spans have at least as many intervals.
LEMMA IntervalsGrow ==
    ASSUME NEW m \in Nat, NEW n \in Nat, m <= n
    PROVE  m \div Interval <= n \div Interval
BY DEF Interval

\* A block makes the coin no younger.
LEMMA AgesGrow ==
    ASSUME LockInvariant, LockInvariant', NEW e \in Nat, Mine(e)
    PROVE  AgeHeight <= AgeHeight' /\ AgeTime <= AgeTime'
<1>1. /\ tip.height - coin.height \in Nat /\ tip.time - coin.time \in Nat
      /\ tip'.height - coin'.height = (tip.height - coin.height) + 1
      /\ tip'.time - coin'.time = (tip.time - coin.time) + e
  BY DEF LockInvariant, Mine
<1>2. (tip.time - coin.time) \div Interval <= (tip'.time - coin'.time) \div Interval
  BY <1>1, IntervalsGrow
<1>3. /\ (tip.time - coin.time) \div Interval \in Nat
      /\ (tip'.time - coin'.time) \div Interval \in Nat
  BY <1>1, Intervals
<1>4. /\ AgeHeight' = IF U16MAX <= tip'.height - coin'.height THEN U16MAX ELSE tip'.height - coin'.height
      /\ AgeTime' = IF U16MAX <= (tip'.time - coin'.time) \div Interval
                    THEN U16MAX ELSE (tip'.time - coin'.time) \div Interval
  BY <1>1, <1>3, MinOfTwo DEF AgeHeight, AgeTime, U16MAX
<1> QED BY SMTT(30), <1>1, <1>2, <1>3, <1>4, AgesCounted DEF U16MAX

\* An input that has waited has still waited after a block.
LEMMA WaitedStays ==
    ASSUME LockInvariant, LockInvariant', NEW e \in Nat, Mine(e), NEW seq \in 0 .. U32MAX,
           to_relative_lock_time(seq) # << >> =>
               relative_is_satisfied_by(to_relative_lock_time(seq)[1], AgeHeight, AgeTime)
    PROVE  to_relative_lock_time(seq) # << >> =>
               relative_is_satisfied_by(to_relative_lock_time(seq)[1], AgeHeight', AgeTime')
<1> SUFFICES ASSUME to_relative_lock_time(seq) # << >>
             PROVE  relative_is_satisfied_by(to_relative_lock_time(seq)[1], AgeHeight', AgeTime')
  OBVIOUS
<1> DEFINE lock == to_relative_lock_time(seq)[1]
<1>1. lock.n \in Nat
  <2>1. low_u16(seq) \in Nat
    BY DEF low_u16, U16MAX, U32MAX
  <2> QED BY <2>1 DEF to_relative_lock_time
<1>2. lock.n <= (IF lock.unit = "Blocks" THEN AgeHeight ELSE AgeTime)
  BY DEF relative_is_satisfied_by, is_satisfied_by_height, is_satisfied_by_time
<1>3. AgeHeight <= AgeHeight' /\ AgeTime <= AgeTime' /\ AgeHeight \in Nat /\ AgeTime \in Nat
  BY AgesGrow, AgesCounted
<1>4. AgeHeight' \in Int /\ AgeTime' \in Int
  <2>1. tip'.height - coin'.height \in Nat /\ tip'.time - coin'.time \in Nat
    <3>1. /\ tip' \in [height : Nat, time : Nat] /\ coin' \in [height : Nat, time : Nat]
          /\ coin'.height <= tip'.height /\ coin'.time <= tip'.time
      BY Zenon DEF LockInvariant
    <3>2. /\ tip'.height \in Nat /\ coin'.height \in Nat
          /\ tip'.time \in Nat /\ coin'.time \in Nat
      BY <3>1
    <3> QED
      BY <3>1, <3>2
  <2>2. (tip'.time - coin'.time) \div Interval \in Nat
    BY <2>1, Intervals
  <2> QED BY <2>1, <2>2, MinOfTwo DEF AgeHeight, AgeTime, U16MAX
<1>5. lock.unit \in {"Blocks", "Time"}
  BY DEF to_relative_lock_time
<1> HIDE DEF lock
<1>6. lock.n <= (IF lock.unit = "Blocks" THEN AgeHeight' ELSE AgeTime')
  BY SMTT(30), <1>1, <1>2, <1>3, <1>4
<1> QED BY <1>5, <1>6 DEF relative_is_satisfied_by, is_satisfied_by_height, is_satisfied_by_time, lock

\* A transaction that may be mined may still be mined after a block.
LEMMA OpenAfterBlock ==
    ASSUME LockInvariant, LockInvariant', NEW e \in Nat, Mine(e), Open
    PROVE  Open'
<1>1. tx' = tx /\ tip'.height = tip.height + 1 /\ tip'.time = tip.time + e
  BY DEF Mine
<1>2. is_absolute_timelock_satisfied(tx', tip'.height, tip'.time)
  <2>1. SUFFICES ASSUME is_lock_time_enabled(tx)
                 PROVE  is_satisfied_by(tx.lock_time, tip'.height, tip'.time)
    BY <1>1 DEF is_absolute_timelock_satisfied
  <2>2. is_satisfied_by(tx.lock_time, tip.height, tip.time)
    BY <2>1 DEF Open, is_absolute_timelock_satisfied
  <2>3. tx.lock_time.n \in Nat /\ tip.height \in Nat /\ tip.time \in Nat
    BY DEF LockInvariant
  <2> QED BY <1>1, <2>2, <2>3 DEF is_satisfied_by
<1>3. ASSUME NEW i \in DOMAIN tx.inputs PROVE Waited(tx.inputs[i])'
  <2>1. tx.inputs[i] \in 0 .. U32MAX
    BY DEF LockInvariant
  <2>2. Waited(tx.inputs[i])
    BY DEF Open
  <2> QED BY <1>1, <2>1, <2>2, WaitedStays DEF Waited
<1> QED BY <1>1, <1>2, <1>3 DEF Open

\* A transaction that may be mined stays so while it is not changed: no block closes
\* an absolute or a relative lock again, for every threshold and every set of
\* sequences and lock times (is_absolute_timelock_satisfied,
\* relative::LockTime::is_satisfied_by).
THEOREM LocksStayOpen == LockSpec => OpenStaysOpen
<1>1. ASSUME LockInvariant, LockInvariant', [LockNext]_lockVars
      PROVE  [tx' = tx /\ Open => Open']_lockVars
  <2> SUFFICES ASSUME LockNext, tx' = tx, Open PROVE Open'
    BY <1>1
  <2>1. ASSUME UNCHANGED <<tip, coin>> PROVE Open'
    BY Zenon, <2>1 DEF Open, Waited, AgeHeight, AgeTime
  <2>2. ASSUME NEW i \in {1, 2}, NEW seq \in InputSequences, SetSequence(i, seq) PROVE Open'
    BY <2>1, <2>2 DEF SetSequence
  <2>3. ASSUME NEW t, SetLockTime(t) PROVE Open'
    BY <2>1, <2>3 DEF SetLockTime
  <2>4. ASSUME NEW s \in 0 .. U32MAX, WaitFor(s) PROVE Open'
    BY <2>1, <2>4 DEF WaitFor
  <2>5. ASSUME NEW e \in BlockTimes, Mine(e) PROVE Open'
    BY SMTT(30), <1>1, <2>5, OpenAfterBlock, LockTimeAssumption
  <2> QED BY Zenon, <2>2, <2>3, <2>4, <2>5 DEF LockNext
<1> QED BY <1>1, LocksTyped, PTL DEF LockSpec, OpenStaysOpen

-----------------------------------------------------------------------------
(* Locks agree *)

\* The lock that a wait in seconds is turned into.
LEMMA WaitIsTimeLock ==
    ASSUME NEW w \in 0 .. U16MAX
    PROVE  to_relative_lock_time(w + LOCK_TYPE_MASK) = <<[unit |-> "Time", n |-> w]>>
<1>1. w \in 0 .. 3
  BY DEF U16MAX
<1>2. ~Bit(w + LOCK_TYPE_MASK, LOCK_TIME_DISABLE_FLAG_MASK) /\ Bit(w + LOCK_TYPE_MASK, LOCK_TYPE_MASK)
  BY <1>1 DEF Bit, LOCK_TYPE_MASK, LOCK_TIME_DISABLE_FLAG_MASK
<1>3. low_u16(w + LOCK_TYPE_MASK) = w
  BY <1>1 DEF low_u16, LOCK_TYPE_MASK, U16MAX
<1> QED BY <1>2, <1>3 DEF to_relative_lock_time, is_relative_lock_time, is_time_locked

\* A wait is neither cut short nor longer than an interval too long.
LEMMA WaitsAreWaited ==
    ASSUME OverflowChecks, LockInvariant
    PROVE  WaitsAsAsked
<1> SUFFICES ASSUME asked >= 0
             PROVE  /\ Waited(tx.inputs[1]) => tip.time - coin.time >= asked
                    /\ tip.time - coin.time >= asked + (Interval - 1) => Waited(tx.inputs[1])
  BY DEF WaitsAsAsked
<1> DEFINE w == from_seconds_ceil(asked).val - LOCK_TYPE_MASK
           age == tip.time - coin.time
<1>1. asked \in Nat /\ age \in Nat
  BY DEF LockInvariant
<1>2. from_seconds_ceil(asked).err = "ok" /\ tx.inputs[1] = from_seconds_ceil(asked).val
  BY DEF LockInvariant
<1>3. /\ w \in 0 .. U16MAX /\ from_seconds_ceil(asked).val = w + LOCK_TYPE_MASK
      /\ asked <= Interval * w /\ Interval * w <= asked + (Interval - 1)
  BY <1>1, <1>2, CeilRoundsUp
<1>4. Waited(tx.inputs[1]) <=> w <= AgeTime
  <2> DEFINE lock == [unit |-> "Time", n |-> w]
  <2>1. to_relative_lock_time(tx.inputs[1]) = <<lock>>
    BY <1>2, <1>3, WaitIsTimeLock
  <2>2. <<lock>> # << >> /\ <<lock>>[1] = lock /\ lock.n = w /\ lock.unit = "Time"
    OBVIOUS
  <2> HIDE DEF lock, w
  <2> QED BY <2>1, <2>2 DEF Waited, relative_is_satisfied_by, is_satisfied_by_height, is_satisfied_by_time
<1>5. /\ age \div Interval \in Nat
      /\ Interval * (age \div Interval) <= age /\ age < Interval * (age \div Interval) + Interval
  BY <1>1, Intervals
<1>6. AgeTime = IF U16MAX <= age \div Interval THEN U16MAX ELSE age \div Interval
  BY AgesCounted
<1> HIDE DEF w, age
<1>7. w <= AgeTime <=> w <= age \div Interval
  BY <1>3, <1>5, <1>6 DEF U16MAX
<1>8. w <= age \div Interval <=> Interval * w <= age
  BY SMTT(30), <1>1, <1>3, <1>5 DEF Interval, U16MAX
<1>9. /\ Interval * w <= age => age >= asked
      /\ age >= asked + (Interval - 1) => Interval * w <= age
  BY <1>1, <1>3 DEF Interval, U16MAX
<1> QED BY <1>4, <1>7, <1>8, <1>9 DEF age
\* What the transaction's own lock implies holds with it.
LEMMA ImpliedHold ==
    ASSUME LockInvariant
    PROVE  ImpliedLocksHold
<1> SUFFICES ASSUME Open PROVE ImpliedLocksHold
  BY DEF ImpliedLocksHold
<1>1. ASSUME NEW lock \in AbsoluteLocks, is_lock_time_enabled(tx), is_implied_by(lock, tx.lock_time)
      PROVE  is_satisfied_by(lock, tip.height, tip.time)
  <2>1. lock.n \in Int
    BY DEF AbsoluteLocks, from_consensus, U32MAX
  <2>2. is_satisfied_by(tx.lock_time, tip.height, tip.time)
    BY <1>1 DEF Open, is_absolute_timelock_satisfied
  <2> QED BY SMTT(30), <1>1, <2>1, <2>2 DEF is_satisfied_by, is_implied_by, LockInvariant, U32MAX
<1>2. ASSUME NEW lock \in RelativeLocks, NEW i \in DOMAIN tx.inputs, is_implied_by_sequence(lock, tx.inputs[i])
      PROVE  relative_is_satisfied_by(lock, AgeHeight, AgeTime)
  <2> DEFINE own == to_relative_lock_time(tx.inputs[i])[1]
  <2>1. relative_is_satisfied_by(own, AgeHeight, AgeTime) /\ is_implied_by(lock, own)
    BY <1>2 DEF Open, Waited, is_implied_by_sequence
  <2>2. own.n \in Int
    <3>1. tx.inputs[i] \in 0 .. U32MAX /\ is_relative_lock_time(tx.inputs[i])
      BY <1>2 DEF LockInvariant, is_implied_by_sequence, to_relative_lock_time
    <3>2. low_u16(tx.inputs[i]) \in Int
      BY <3>1 DEF low_u16, U16MAX, U32MAX
    <3> QED BY <3>1, <3>2 DEF to_relative_lock_time
  <2>3. AgeHeight \in Int /\ AgeTime \in Int
    BY AgesCounted, Intervals DEF LockInvariant, U16MAX
  <2>4. lock.n \in Int
    BY DEF RelativeLocks, U16MAX
  <2> HIDE DEF own
  <2> QED BY <2>1, <2>2, <2>3, <2>4 DEF relative_is_satisfied_by, is_satisfied_by_height, is_satisfied_by_time, is_implied_by
<1> QED BY <1>1, <1>2 DEF ImpliedLocksHold

\* A relative lock made a sequence is read back.
LEMMA SequenceReadBack ==
    ASSUME NEW lock \in RelativeLocks
    PROVE  to_relative_lock_time(to_sequence(lock)) = <<lock>>
<1> DEFINE n == lock.n
           seq == to_sequence(lock)
<1>1. n \in 0 .. 3 /\ lock.unit \in {"Blocks", "Time"} /\ lock = [unit |-> lock.unit, n |-> n]
  BY DEF RelativeLocks, U16MAX
<1>2. seq = IF lock.unit = "Blocks" THEN n ELSE n + LOCK_TYPE_MASK
  BY DEF to_sequence, from_height, from_512_second_intervals
<1>3. /\ ~Bit(seq, LOCK_TIME_DISABLE_FLAG_MASK) /\ low_u16(seq) = n
      /\ Bit(seq, LOCK_TYPE_MASK) <=> lock.unit # "Blocks"
  BY <1>1, <1>2 DEF Bit, LOCK_TYPE_MASK, LOCK_TIME_DISABLE_FLAG_MASK, low_u16, U16MAX
<1>4. (IF is_time_locked(seq) THEN "Time" ELSE "Blocks") = lock.unit
  BY SMTT(30), <1>1, <1>3 DEF is_relative_lock_time, is_time_locked
<1> QED BY SMTT(30), <1>1, <1>3, <1>4 DEF to_relative_lock_time, is_relative_lock_time

\* The readings of one text agree.
LEMMA TextsAgree ==
    ASSUME NEW t, t.n \in Int, t.prefixes \in 0 .. 2
    PROVE  /\ from_hex(t).err # "ok" \/ from_unprefixed_hex(t).err # "ok"
           /\ from_str(t).err = "ok" =>
                 {u \in {"Height", "Time"} : ParseText(u, t).err = "ok"} =
                     {IF from_consensus(t.n).unit = "Blocks" THEN "Height" ELSE "Time"}
           /\ \A u \in {"Height", "Time"} :
                 /\ ParseHexText(u, t).err = "above" => t.n > LockRange(u)[2]
                 /\ ParseHexText(u, t).err = "below" => t.n < LockRange(u)[1]
<1>1. from_hex(t).err # "ok" \/ from_unprefixed_hex(t).err # "ok"
  BY DEF from_hex, from_unprefixed_hex, Fail
<1>2. ASSUME from_str(t).err = "ok"
      PROVE  {u \in {"Height", "Time"} : ParseText(u, t).err = "ok"} =
                 {IF from_consensus(t.n).unit = "Blocks" THEN "Height" ELSE "Time"}
  <2>1. t.prefixes = 0 /\ t.n \in 0 .. U32MAX
    BY <1>2 DEF from_str, Fail
  <2>2. ParseErrorSide("Height", t.n) # "ok" /\ ParseErrorSide("Time", t.n) # "ok"
    BY DEF ParseErrorSide
  <2>3. ParseText("Height", t).err = "ok" <=> is_block_height(t.n)
    BY <2>1, <2>2 DEF ParseText, ParseInUnit, Height_from_consensus, Done, Fail
  <2>4. ParseText("Time", t).err = "ok" <=> is_block_time(t.n)
    BY <2>1, <2>2 DEF ParseText, ParseInUnit, Time_from_consensus, Done, Fail
  <2>5. is_block_time(t.n) <=> ~is_block_height(t.n)
    BY LockTimeAssumption DEF is_block_time, is_block_height, U32MAX
  <2>6. from_consensus(t.n).unit = IF is_block_height(t.n) THEN "Blocks" ELSE "Seconds"
    BY DEF from_consensus
  <2>7. CASE is_block_height(t.n)
    BY SMTT(30), <2>3, <2>4, <2>5, <2>6, <2>7
  <2>8. CASE ~is_block_height(t.n)
    BY <2>3, <2>4, <2>5, <2>6, <2>8
  <2> QED BY <2>7, <2>8
<1>3. ASSUME NEW u \in {"Height", "Time"}
      PROVE  /\ ParseHexText(u, t).err = "above" => t.n > LockRange(u)[2]
             /\ ParseHexText(u, t).err = "below" => t.n < LockRange(u)[1]
  <2>1. CASE t.prefixes > 1
    BY <2>1 DEF ParseHexText, Fail
  <2>2. LockRange("Height")[1] = 0 /\ LockRange("Height")[2] = LOCK_TIME_THRESHOLD - 1
    BY DEF LockRange
  <2>3. LockRange("Time")[1] = LOCK_TIME_THRESHOLD /\ LockRange("Time")[2] = U32MAX
    BY DEF LockRange
  <2>4. ASSUME ~(t.prefixes > 1)
        PROVE  ParseHexText(u, t).err = "ok" \/
                   /\ ParseHexText(u, t).err = ParseErrorSide(u, t.n)
                   /\ t.n \notin 0 .. U32MAX \/ (u = "Height" /\ ~is_block_height(t.n))
                                             \/ (u = "Time" /\ ~is_block_time(t.n))
    BY <2>4 DEF ParseHexText, ParseInUnit, Height_from_consensus, Time_from_consensus, Done, Fail
  <2>5. CASE ~(t.prefixes > 1) /\ u = "Height"
    BY SMTT(30), <2>2, <2>4, <2>5, LockTimeAssumption DEF ParseErrorSide, is_block_height, U32MAX
  <2>6. CASE ~(t.prefixes > 1) /\ u = "Time"
    BY SMTT(30), <2>3, <2>4, <2>6, LockTimeAssumption DEF ParseErrorSide, is_block_time, U32MAX
  <2> QED BY SMTT(30), <2>1, <2>5, <2>6
<1> QED BY <1>1, <1>2, <1>3
\* The several forms of the transaction's locks agree.
LEMMA FormsAgree ==
    ASSUME LockInvariant
    PROVE  LockFormsAgree
<1>1. ASSUME NEW t \in Texts(tx.lock_time.n) PROVE t.n \in Int /\ t.prefixes \in 0 .. 2
  <2>1. tx.lock_time.n \in Int /\ I64 \in Int
    BY LockTimeAssumption DEF LockInvariant, U32MAX
  <2> QED BY SMTT(30), <1>1, <2>1 DEF Texts, U32MAX
<1>2. ASSUME NEW seq \in {tx.inputs[i] : i \in DOMAIN tx.inputs}, is_height_locked(seq) \/ is_time_locked(seq)
      PROVE  is_rbf(seq) /\ enables_absolute_lock_time(seq) /\ to_relative_lock_time(seq) # << >>
  <2>1. seq \in 0 .. U32MAX /\ is_relative_lock_time(seq)
    BY <1>2 DEF LockInvariant, is_height_locked, is_time_locked
  <2>2. seq < 32
    BY <2>1 DEF is_relative_lock_time, Bit, LOCK_TIME_DISABLE_FLAG_MASK, U32MAX
  <2> QED BY SMTT(30), <2>1, <2>2 DEF is_rbf, enables_absolute_lock_time, to_relative_lock_time,
                            ENABLE_LOCKTIME_NO_RBF, MAX, U32MAX
<1>3. ASSUME NEW b \in {from_consensus(n) : n \in Numbers}
      PROVE  /\ arbitrary_cmp(tx.lock_time, b) = -arbitrary_cmp(b, tx.lock_time)
             /\ arbitrary_cmp(tx.lock_time, b) = 0 <=> tx.lock_time = b
             /\ is_implied_by(tx.lock_time, b) <=> partial_cmp(tx.lock_time, b) \in {<<-1>>, <<0>>}
  <2> DEFINE a == tx.lock_time
  <2>1. a \in [unit : {"Blocks", "Seconds"}, n : Int] /\ b \in [unit : {"Blocks", "Seconds"}, n : Int]
    BY LockTimeAssumption DEF LockInvariant, from_consensus, U32MAX
  <2> HIDE DEF a
  <2>2. a.unit \in {"Blocks", "Seconds"} /\ b.unit \in {"Blocks", "Seconds"} /\ a.n \in Int /\ b.n \in Int
    BY <2>1
  <2>3. a = b <=> a.unit = b.unit /\ a.n = b.n
    BY <2>1
  <2>4. arbitrary_cmp(a, b) = -arbitrary_cmp(b, a) /\ (arbitrary_cmp(a, b) = 0 <=> a = b)
    BY <2>2, <2>3 DEF arbitrary_cmp
  <2>5. is_implied_by(a, b) <=> a.unit = b.unit /\ arbitrary_cmp(a, b) \in {-1, 0}
    BY <2>2 DEF is_implied_by, arbitrary_cmp
  <2>6. partial_cmp(a, b) \in {<<-1>>, <<0>>} <=> a.unit = b.unit /\ arbitrary_cmp(a, b) \in {-1, 0}
    <3>1. CASE a.unit # b.unit
      BY <3>1 DEF partial_cmp
    <3>2. CASE a.unit = b.unit
      <4> DEFINE c == arbitrary_cmp(a, b)
      <4>1. partial_cmp(a, b) = <<c>>
        BY <3>2 DEF partial_cmp
      <4>2. <<c>> \in {<<-1>>, <<0>>} <=> c \in {-1, 0}
        OBVIOUS
      <4> QED BY SMTT(30), <3>2, <4>1, <4>2
    <3> QED BY <3>1, <3>2
  <2> QED BY SMTT(30), <2>4, <2>5, <2>6 DEF a
<1> HIDE DEF Texts
<1> QED BY <1>1, <1>2, <1>3, SequenceReadBack, TextsAgree DEF LockFormsAgree

\* In a build that checks additions, the lock a signer wrote, the one the
\* transaction carries and the one a script checks never contradict each other,
\* and a wait asked for in seconds is waited, for every threshold
\* (from_seconds_ceil, is_implied_by, is_satisfied_by).
THEOREM LocksAreConsistent ==
    ASSUME OverflowChecks
    PROVE  LockSpec => []LocksConsistent
<1>1. LockInvariant => LocksConsistent
  BY WaitsAreWaited, ImpliedHold, FormsAgree DEF LocksConsistent
<1> QED BY <1>1, LocksTyped, PTL
=============================================================================
