----------------------------- MODULE LockTime ------------------------------
(***************************************************************************)
(* Absolute and relative lock times and sequences                          *)
(* (units/src/locktime, bitcoin/src/blockdata/locktime, and Sequence in    *)
(* bitcoin/src/blockdata/transaction.rs), and a transaction that waits for *)
(* them: a signer sets its locks, from numbers, texts or durations, while  *)
(* the chain grows.  Bit fields are scaled: a sequence has 6 bits, of      *)
(* which the lowest 2 hold the value, bit 3 tells time from height and bit *)
(* 5 disables the lock; an interval is Interval seconds.                   *)
(***************************************************************************)
EXTENDS Integers, Sequences, FiniteSetsExt

CONSTANTS
    LOCK_TIME_THRESHOLD,    \* smaller lock times are heights
    I64,                    \* bound: texts of numbers up to this fit an i64
    OverflowChecks,         \* whether the build panics when an addition overflows
    MaxBlocks,              \* bound: blocks mined
    BlockTimes,             \* bound: seconds between two blocks
    InputSequences,         \* bound: sequences a signer sets
    Numbers                 \* bound: numbers a signer types as lock time

U32MAX == 63
U16MAX == 3
LOCK_TYPE_MASK == 8
LOCK_TIME_DISABLE_FLAG_MASK == 32
Interval == 4

ASSUME LockTimeAssumption ==
    /\ LOCK_TIME_THRESHOLD \in 1 .. U32MAX /\ I64 \in Nat /\ I64 > U32MAX
    /\ OverflowChecks \in BOOLEAN /\ MaxBlocks \in Nat
    /\ InputSequences \subseteq 0 .. U32MAX /\ Numbers \subseteq Int /\ BlockTimes \subseteq Nat

VARIABLES
    tip,        \* the height and the median time of the best chain
    coin,       \* the height and the time at which the spent coin was mined
    tx,         \* the transaction's lock time and the sequence of its inputs
    asked       \* the seconds the signer asked the first input to wait for, or -1

lockVars == <<tip, coin, tx, asked>>

Done(v) == [err |-> "ok", val |-> v]
Fail(e) == [err |-> e, val |-> 0]

-----------------------------------------------------------------------------
(* Absolute lock times *)

is_block_height(n) == n < LOCK_TIME_THRESHOLD
is_block_time(n) == n >= LOCK_TIME_THRESHOLD

Height_from_consensus(n) == IF is_block_height(n) THEN Done(n) ELSE Fail("invalid_height")
Time_from_consensus(n) == IF is_block_time(n) THEN Done(n) ELSE Fail("invalid_time")

\* LockTime::from_consensus; to_consensus_u32 is the field n.
from_consensus(n) == [unit |-> IF is_block_height(n) THEN "Blocks" ELSE "Seconds", n |-> n]

\* Mutant: lock times of different units are compared.
is_implied_by_AnyUnit(this, other) == this.n <= other.n

is_implied_by(this, other) == this.unit = other.unit /\ this.n <= other.n

\* Mutant: a lock is satisfied by its own height or time only.
is_satisfied_by_Exact(lock, height, time) == lock.n = 0 \/ lock.n = (IF lock.unit = "Blocks" THEN height ELSE time)

is_satisfied_by(lock, height, time) == lock.n <= (IF lock.unit = "Blocks" THEN height ELSE time)

arbitrary_cmp(this, that) ==
    IF this.unit # that.unit THEN (IF this.unit = "Blocks" THEN -1 ELSE 1)
    ELSE IF this.n < that.n THEN -1 ELSE IF this.n > that.n THEN 1 ELSE 0

\* None for locks of different units.
partial_cmp(this, that) == IF this.unit # that.unit THEN << >> ELSE <<arbitrary_cmp(this, that)>>

-----------------------------------------------------------------------------
(* Texts: a number with some 0x prefixes in front. *)

\* The limits that the errors of ParseHeightError and ParseTimeError name.
LockRange(unit) == IF unit = "Height" THEN <<0, LOCK_TIME_THRESHOLD - 1>> ELSE <<LOCK_TIME_THRESHOLD, U32MAX>>

\* ParseError::display: the error tells on which side of the limits the number is.
ParseErrorSide(unit, n) ==
    IF n > I64 \/ n >= LockRange(unit)[1] THEN "above" ELSE "below"

ParseInUnit(unit, n) ==
    IF n \in 0 .. U32MAX /\ (IF unit = "Height" THEN Height_from_consensus(n)
                                                ELSE Time_from_consensus(n)).err = "ok"
    THEN Done(n)
    ELSE Fail(ParseErrorSide(unit, n))

\* str::parse::<i64> and i64::from_str_radix after strip_hex_prefix.
ParseText(unit, text) == IF text.prefixes > 0 THEN Fail("failed to parse") ELSE ParseInUnit(unit, text.n)
ParseHexText(unit, text) == IF text.prefixes > 1 THEN Fail("failed to parse") ELSE ParseInUnit(unit, text.n)

hex_u32(text) ==
    IF text.prefixes > 1 \/ text.n \notin 0 .. U32MAX THEN Fail("ParseInt") ELSE Done(text.n)

from_str(text) ==
    IF text.prefixes > 0 \/ text.n \notin 0 .. U32MAX THEN Fail("ParseInt") ELSE Done(text.n)

from_hex(text) ==
    IF text.prefixes = 0 THEN Fail("MissingPrefix")
    ELSE hex_u32([text EXCEPT !.prefixes = @ - 1])

from_unprefixed_hex(text) ==
    IF text.prefixes > 0 THEN Fail("ContainsPrefix") ELSE hex_u32(text)

-----------------------------------------------------------------------------
(* Sequences and relative lock times *)

Bit(n, mask) == (n \div mask) % 2 = 1

MAX == U32MAX
ENABLE_LOCKTIME_NO_RBF == U32MAX - 1
ENABLE_RBF_NO_LOCKTIME == U32MAX - 2

enables_absolute_lock_time(seq) == seq # MAX
is_rbf(seq) == seq < ENABLE_LOCKTIME_NO_RBF
is_relative_lock_time(seq) == ~Bit(seq, LOCK_TIME_DISABLE_FLAG_MASK)
is_height_locked(seq) == is_relative_lock_time(seq) /\ ~Bit(seq, LOCK_TYPE_MASK)
is_time_locked(seq) == is_relative_lock_time(seq) /\ Bit(seq, LOCK_TYPE_MASK)
low_u16(seq) == seq % (U16MAX + 1)

from_height(height) == height
from_512_second_intervals(intervals) == intervals + LOCK_TYPE_MASK

to_relative_lock_time(seq) ==
    IF ~is_relative_lock_time(seq) THEN << >>
    ELSE <<[unit |-> IF is_time_locked(seq) THEN "Time" ELSE "Blocks", n |-> low_u16(seq)]>>

\* relative::LockTime::to_sequence
to_sequence(lock) == IF lock.unit = "Blocks" THEN from_height(lock.n) ELSE from_512_second_intervals(lock.n)

\* seconds + 511 on a u32.
Increased(seconds) ==
    IF seconds + (Interval - 1) <= U32MAX THEN Done(seconds + (Interval - 1))
    ELSE IF OverflowChecks THEN Fail("Panic") ELSE Done((seconds + (Interval - 1)) % (U32MAX + 1))

\* TimeOverflowError::new asserts that the seconds do overflow.
TimeOverflowError_new(seconds) ==
    IF Increased(seconds).err # "ok" \/ Increased(seconds).val \div Interval <= U16MAX
    THEN Fail("Panic") ELSE Fail("TimeOverflow")

from_seconds_floor(seconds) ==
    IF seconds \div Interval <= U16MAX THEN Done(from_512_second_intervals(seconds \div Interval))
    ELSE TimeOverflowError_new(seconds)

\* Mutant: rounds down.
from_seconds_ceil_Floor(seconds) == from_seconds_floor(seconds)

from_seconds_ceil(seconds) ==
    IF Increased(seconds).err # "ok" THEN Increased(seconds)
    ELSE IF Increased(seconds).val \div Interval <= U16MAX
         THEN Done(from_512_second_intervals(Increased(seconds).val \div Interval))
         ELSE TimeOverflowError_new(seconds)

\* An error, for a lock of the other unit, counts as no.
is_satisfied_by_height(lock, height) == lock.unit = "Blocks" /\ lock.n <= height
is_satisfied_by_time(lock, time) == lock.unit = "Time" /\ lock.n <= time

relative_is_satisfied_by(lock, height, time) ==
    is_satisfied_by_height(lock, height) \/ is_satisfied_by_time(lock, time)

is_implied_by_sequence(lock, seq) ==
    to_relative_lock_time(seq) # << >> /\ is_implied_by(lock, to_relative_lock_time(seq)[1])
-----------------------------------------------------------------------------
(* A transaction that waits *)

is_explicitly_rbf(t) == \E i \in DOMAIN t.inputs : is_rbf(t.inputs[i])

is_lock_time_enabled(t) == \E i \in DOMAIN t.inputs : enables_absolute_lock_time(t.inputs[i])

is_absolute_timelock_satisfied(t, height, time) ==
    is_lock_time_enabled(t) => is_satisfied_by(t.lock_time, height, time)

\* The age of the coin as the caller measures it, outside this code: whole blocks
\* and intervals.
AgeHeight == Min({U16MAX, tip.height - coin.height})
AgeTime == Min({U16MAX, (tip.time - coin.time) \div Interval})

Waited(seq) ==
    to_relative_lock_time(seq) # << >> =>
        relative_is_satisfied_by(to_relative_lock_time(seq)[1], AgeHeight, AgeTime)

Open == is_absolute_timelock_satisfied(tx, tip.height, tip.time) /\ \A i \in DOMAIN tx.inputs : Waited(tx.inputs[i])

LockInit ==
    /\ tip = [height |-> 0, time |-> LOCK_TIME_THRESHOLD]
    /\ coin = tip
    /\ tx = [lock_time |-> from_consensus(0), inputs |-> <<MAX, MAX>>]
    /\ asked = -1

\* No transaction is being made: one without inputs.
LockIdle ==
    /\ tip = [height |-> 0, time |-> LOCK_TIME_THRESHOLD]
    /\ coin = tip
    /\ tx = [lock_time |-> from_consensus(0), inputs |-> << >>]
    /\ asked = -1

SetSequence(i, seq) ==
    /\ tx' = [tx EXCEPT !.inputs[i] = seq]
    /\ asked' = IF i = 1 THEN -1 ELSE asked
    /\ UNCHANGED <<tip, coin>>

\* The lock time is set from a text; the lock-free transaction stays when it is refused.
SetLockTime(text) ==
    \E r \in {from_str(text), from_hex(text), from_unprefixed_hex(text)} :
        /\ r.err = "ok"
        /\ tx' = [tx EXCEPT !.lock_time = from_consensus(r.val)]
        /\ UNCHANGED <<tip, coin, asked>>

\* The first input shall wait for some seconds, rounded up.
WaitFor(seconds) ==
    /\ from_seconds_ceil(seconds).err = "ok"
    /\ tx' = [tx EXCEPT !.inputs[1] = from_seconds_ceil(seconds).val]
    /\ asked' = seconds
    /\ UNCHANGED <<tip, coin>>

\* A block: the median time never goes back.
Mine(elapsed) ==
    /\ tip.height < Min({MaxBlocks, LOCK_TIME_THRESHOLD - 1})
    /\ tip.time + elapsed <= U32MAX
    /\ tip' = [height |-> tip.height + 1, time |-> tip.time + elapsed]
    /\ UNCHANGED <<coin, tx, asked>>

LockNext ==
    \/ \E i \in {1, 2}, seq \in InputSequences : SetSequence(i, seq)
    \/ \E n \in Numbers, p \in 0 .. 2 : SetLockTime([n |-> n, prefixes |-> p])
    \/ \E s \in 0 .. U32MAX : WaitFor(s)
    \/ \E e \in BlockTimes : Mine(e)

-----------------------------------------------------------------------------
(* Properties *)

\* A transaction that may be mined stays so while the chain grows: neither an
\* absolute nor a relative lock closes again (is_absolute_timelock_satisfied,
\* relative::LockTime::is_satisfied_by).
OpenStaysOpen == [][tx' = tx /\ Open => Open']_lockVars

\* An input made with from_seconds_ceil never opens before the seconds asked
\* for have passed since its coin was mined, and opens at most one interval
\* late.
WaitsAsAsked ==
    asked >= 0 =>
        LET age == tip.time - coin.time
        IN  /\ Waited(tx.inputs[1]) => age >= asked
            /\ age >= asked + (Interval - 1) => Waited(tx.inputs[1])

AbsoluteLocks == {from_consensus(n) : n \in 0 .. U32MAX}
RelativeLocks == [unit : {"Blocks", "Time"}, n : 0 .. U16MAX]

\* First half of LocksConsistent: a lock of a script (OP_CHECKLOCKTIMEVERIFY, OP_CHECKSEQUENCEVERIFY) that
\* is_implied_by the transaction's lock holds whenever the transaction may be
\* mined, provided that some input enables the lock time.
ImpliedLocksHold ==
    Open => /\ \A lock \in AbsoluteLocks :
                   is_lock_time_enabled(tx) /\ is_implied_by(lock, tx.lock_time) =>
                       is_satisfied_by(lock, tip.height, tip.time)
            /\ \A lock \in RelativeLocks, i \in DOMAIN tx.inputs :
                   is_implied_by_sequence(lock, tx.inputs[i]) =>
                       relative_is_satisfied_by(lock, AgeHeight, AgeTime)

\* The texts of a number, and of those that an integer type of 32 or 64 bits
\* would confuse with it.
Texts(n) == [n : {n, n + 1, n - 1, n + (U32MAX + 1), n - (U32MAX + 1), n + I64, n - 2 * I64}, prefixes : 0 .. 2]

\* Second half: the several readings of a lock time agree: no text is both a prefixed and an
\* unprefixed hexadecimal number, a text that LockTime reads is read by exactly
\* one of Height and Time, an error names the side on which the number is, a
\* lock time made a sequence is read back, a relative lock makes its transaction
\* replaceable and its lock time enabled, and arbitrary_cmp extends partial_cmp
\* to a total order.
LockFormsAgree ==
    /\ \A t \in Texts(tx.lock_time.n) :
          /\ from_hex(t).err # "ok" \/ from_unprefixed_hex(t).err # "ok"
          /\ from_str(t).err = "ok" =>
                {u \in {"Height", "Time"} : ParseText(u, t).err = "ok"} =
                    {IF from_consensus(t.n).unit = "Blocks" THEN "Height" ELSE "Time"}
          /\ \A u \in {"Height", "Time"} :
                /\ ParseHexText(u, t).err = "above" => t.n > LockRange(u)[2]
                /\ ParseHexText(u, t).err = "below" => t.n < LockRange(u)[1]
    /\ \A lock \in RelativeLocks : to_relative_lock_time(to_sequence(lock)) = <<lock>>
    /\ \A seq \in {tx.inputs[i] : i \in DOMAIN tx.inputs} :
          is_height_locked(seq) \/ is_time_locked(seq) =>
              is_rbf(seq) /\ enables_absolute_lock_time(seq) /\ to_relative_lock_time(seq) # << >>
    /\ \A a \in {tx.lock_time}, b \in {from_consensus(n) : n \in Numbers} :
          /\ arbitrary_cmp(a, b) = -arbitrary_cmp(b, a)
          /\ arbitrary_cmp(a, b) = 0 <=> a = b
          /\ is_implied_by(a, b) <=> partial_cmp(a, b) \in {<<-1>>, <<0>>}

\* The lock a signer wrote, the one the transaction carries and the one a script
\* checks never contradict each other, and a wait asked for in seconds is waited
\* (from_seconds_ceil, is_implied_by, is_satisfied_by, from_hex,
\* Height::from_str, Time::from_str, to_relative_lock_time, arbitrary_cmp).
LocksConsistent == tx.inputs # << >> => WaitsAsAsked /\ ImpliedLocksHold /\ LockFormsAgree
=============================================================================
