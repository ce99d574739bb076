----------------------------- MODULE HeaderChain -----------------------------
(***************************************************************************)
(* A client that follows a chain of Bitcoin headers                        *)
(* (bitcoin/src/blockdata/block.rs, bitcoin/src/pow.rs): it checks the     *)
(* proof of work of each header it is offered, computes the bits of a new  *)
(* epoch from the times of its first and last header, and adds up the      *)
(* work.  Miners choose times freely, so the last header of an epoch may   *)
(* be older than the first.                                                *)
(*                                                                         *)
(* It runs beside the Dogecoin walk of Difficulty, on the same targets:    *)
(* network says which of the two a behaviour is about.                     *)
(***************************************************************************)
EXTENDS Difficulty, Sequences

CONSTANTS
    Interval,       \* Params::difficulty_adjustment_interval (2016)
    TimeWrap,       \* 2^32, the values of a header time
    MaxDifficulty,  \* u128::MAX
    MaxHeaders      \* bound: headers followed

ASSUME IntervalAssumption == Interval \in Nat /\ Interval > 1
ASSUME TimeWrapAssumption ==
    /\ TimeWrap \in Nat /\ TimeWrap > 8 * EpochTimespan
    /\ \A t \in Times : t < TimeWrap
ASSUME WorkAssumption == MaxDifficulty \in Nat /\ MaxHeaders \in Nat
\* The easiest target of every network is below 2^255.
ASSUME LimitAssumption == 2 * (MaxAttainable + 1) <= Pow[Size]

VARIABLES
    network,    \* the chain this behaviour is about
    headers,    \* accepted headers of the Bitcoin chain, from its genesis block on
    required,   \* the target the next header must have as a set, empty after a panic
    work,       \* total work of the headers
    verdict     \* how the last header was answered

chainVars == <<headers, required, work, verdict>>
allVars == <<vars, network, chainVars>>

-----------------------------------------------------------------------------
(* Targets, work and difficulty *)

is_met_by(target, hash) == hash <= target

\* Mutant: the quotient of the complement is not incremented.
WorkOf_NoIncrement(x) ==
    IF x <= 1 THEN Pow[Size] - 1
    ELSE IF x = Pow[Size] - 1 THEN 1
    ELSE (Pow[Size] - 1 - x) \div (x + 1)

\* U256::inverse, 2^256 / (x + 1) within 256 bits: that of 0 does not fit, and
\* is the largest number, as is that of 1 by definition.
WorkOf(x) ==
    IF x <= 1 THEN Pow[Size] - 1
    ELSE IF x = Pow[Size] - 1 THEN 1
    ELSE ((Pow[Size] - 1 - x) \div (x + 1)) + 1

to_work(target) == WorkOf(target)
to_target(w) == WorkOf(w)

\* Work + Work and Work - Work are those of U256; a release build wraps.
AddWork(a, b) == (a + b) % Pow[Size]
SubWork(a, b) == (a - b) % Pow[Size]

\* The difficulty saturates at u128::MAX; a target of zero panics.
difficulty(target) == MinOf(MaxAttainable \div target, MaxDifficulty)

min_transition_threshold(t) == t \div 4

max_transition_threshold(t) == MinOf(max_transition_threshold_unchecked(t), MaxAttainable)

-----------------------------------------------------------------------------
(* Bitcoin's difficulty adjustment *)

\* Mutant: the maximum is that of the network alone.
from_next_work_required_Limit(last, timespan) ==
    LET retarget == (from_compact(last) * timespan) \div EpochTimespan
    IN  IF NoRetargeting THEN last ELSE to_compact_lossy(MinOf(retarget % Pow[Size], MaxAttainable))

from_next_work_required(last, timespan) ==
    LET actual_timespan == Clamp(timespan, EpochTimespan \div 4, 4 * EpochTimespan)
        prev_target == from_compact(last)
        maximum_retarget == max_transition_threshold(prev_target)
        retarget == ((prev_target * actual_timespan) % Pow[Size]) \div EpochTimespan
    IN  IF NoRetargeting THEN last ELSE to_compact_lossy(MinOf(retarget, maximum_retarget))

\* What subtracting u32 times gives: a difference below zero panics in a debug
\* build, written as the empty set, and wraps in a release build.
TimeDifferences(end, start) ==
    IF end >= start THEN {{end - start}} ELSE {{}, {end - start + TimeWrap}}

\* The set of bits from_header_difficulty_adjustment returns, empty for a panic.
from_header_difficulty_adjustment(current, spans) ==
    {from_next_work_required(current.bits, s) : s \in spans}

-----------------------------------------------------------------------------
(* Following headers *)

validate_pow(header, required_target) ==
    CASE from_compact(header.bits) # required_target -> "BadTarget"
      [] from_compact(header.bits) = required_target ->
            IF is_met_by(from_compact(header.bits), header.hash) THEN "Ok" ELSE "BadProofOfWork"

\* The target after the given headers, as a set that is empty when the
\* subtraction of times panicked: it changes once per epoch.
NextTargets(hs, spans) ==
    IF Len(hs) % Interval # 0 THEN {from_compact(hs[Len(hs)].bits)}
    ELSE {from_compact(c) : c \in from_header_difficulty_adjustment(hs[Len(hs)], spans)}

EpochStart(hs) == hs[Len(hs) - ((Len(hs) - 1) % Interval)]

ChainInit ==
    /\ headers = << >>
    /\ required \in {{from_compact(c)} : c \in StartBits}
    /\ work = 0
    /\ verdict = "New"

\* Header::validate_pow, or validate_pow_with_scrypt, which differ in the hash
\* alone, against the required target; an accepted header adds its work
\* and, at the end of an epoch, decides the next target.
Follow(header, target) ==
    /\ Len(headers) < MaxHeaders
    /\ verdict' = validate_pow(header, target)
    /\ IF verdict' # "Ok" THEN UNCHANGED <<headers, required, work>>
       ELSE /\ headers' = Append(headers, header)
            /\ work' = AddWork(work, to_work(from_compact(header.bits)))
            /\ \E spans \in TimeDifferences(header.time, EpochStart(headers').time) :
                  required' = NextTargets(headers', spans)

\* Hashes below, at and above the target; the bits of the target, those one
\* below, and the target spelled with one byte more when it has such a form.
OfferedHashes(t) == {0, t, t + 1}
OfferedBits(t) ==
    LET c == to_compact_lossy(t)
    IN  {d \in {c, [c EXCEPT !.mant = @ - 1], [size |-> c.size + 1, mant |-> c.mant \div Base]} :
            d \in CompactTargets}

ChainNext ==
    \E t \in required : \E time \in Times, c \in OfferedBits(t), hash \in OfferedHashes(t) :
        Follow([time |-> time, bits |-> c, hash |-> hash], t)

\* A client that panicked, or has followed all headers, starts again.
StartOver ==
    /\ required = {} \/ Len(headers) = MaxHeaders
    /\ headers' = << >>
    /\ required' \in {{from_compact(c)} : c \in StartBits}
    /\ work' = 0
    /\ verdict' = "New"

AllInit ==
    \/ network = "dogecoin" /\ Init /\ headers = << >> /\ required = {} /\ work = 0 /\ verdict = "New"
    \/ /\ network = "bitcoin" /\ ChainInit
       /\ bits = CHOOSE c \in StartBits : TRUE
       /\ height = MaxHeight /\ boundary = CHOOSE t \in Times : TRUE

Walk == network = "dogecoin" /\ Next /\ UNCHANGED <<network, chainVars>>
WalkSlow == network = "dogecoin" /\ SlowNext /\ UNCHANGED <<network, chainVars>>
FollowHeaders == network = "bitcoin" /\ (ChainNext \/ StartOver) /\ UNCHANGED <<network, vars>>

AllNext == Walk \/ FollowHeaders

\* Blocks keep coming on the Dogecoin chain, as in Difficulty.
AllSpec == AllInit /\ [][AllNext]_allVars /\ WF_allVars(WalkSlow)

-----------------------------------------------------------------------------
(* Properties *)

\* The targets of the headers and the one required next.
Targets ==
    LET ofHeaders == [i \in DOMAIN headers |-> from_compact(headers[i].bits)]
    IN  IF required = {} THEN ofHeaders ELSE Append(ofHeaders, CHOOSE t \in required : TRUE)

\* From header to header the target stays within a factor of four and within
\* the network's limit, even when the last header of an epoch is older than
\* its first: the subtraction then gives a timespan that wrapped around, which
\* the clamp still bounds.  Within an epoch, and on a network that does not
\* retarget, it stays the same.
EpochStep(i, t, u) ==
    /\ i % Interval # 0 \/ NoRetargeting => u = t
    /\ ~NoRetargeting => /\ u <= max_transition_threshold(t)
                         /\ u >= Attainable(min_transition_threshold(t))

\* An epoch whose last header is no older than its first eases the target only
\* when it took longer than planned, and hardens it only when it took less.
EpochFollowsTime(hs, i, t, u) ==
    i % Interval = 0 /\ ~NoRetargeting =>
        \A span \in {hs[i].time - hs[i - Interval + 1].time} :
            span >= 0 => /\ u > t => span > EpochTimespan
                         /\ u < t => span < EpochTimespan

\* Work and difficulty are the quotients they stand for, and turning work back
\* into a target never gives an easier one.  A target of zero has no difficulty,
\* and the targets zero and one both have the largest work there is: U256::inverse
\* defines that of one as U256::MAX, more than the quotient.
WorkExact(t) ==
    t > 0 =>
        /\ (to_work(t) + 1) * (t + 1) > Pow[Size]
        /\ t > 1 => to_work(t) * (t + 1) <= Pow[Size]
        /\ to_target(to_work(t)) <= t
        /\ difficulty(t) < MaxDifficulty =>
              difficulty(t) * t <= MaxAttainable /\ (difficulty(t) + 1) * t > MaxAttainable

\* As many headers as there are, each with the work of the hardest, would not
\* overflow 256 bits.
WorkFits ==
    \A i \in DOMAIN headers : Len(headers) * to_work(from_compact(headers[i].bits)) < Pow[Size]

\* Every accepted header meets the target it claims, the one its predecessors
\* require, and the total counts its work: it is at least that of as many
\* headers at the easiest target, and taking the last one away leaves less.
HeadersSound ==
    /\ \A targets \in {Targets} : \A i \in 1 .. Len(targets) - 1 :
          EpochStep(i, targets[i], targets[i + 1]) /\ EpochFollowsTime(headers, i, targets[i], targets[i + 1])
    /\ \A i \in DOMAIN headers : \A t \in {from_compact(headers[i].bits)} :
          headers[i].hash <= t /\ WorkExact(t)
    /\ WorkFits =>
          /\ work >= Len(headers) * to_work(MaxAttainable)
          /\ headers # << >> =>
                SubWork(work, to_work(from_compact(headers[Len(headers)].bits))) < work
    /\ \A t \in required : t <= MaxAttainable /\ Attainable(t) = t

\* On the behaviours that walk the Dogecoin chain, a slower epoch never gives a
\* harder target from from_next_work_required_dogecoin.
DogecoinMonotone == network = "dogecoin" => RetargetMonotone

\* On those behaviours, slow epochs bring the target up to the easiest one: the
\* rounding of to_compact_lossy never stalls from_next_work_required_dogecoin.
DogecoinRecovers == network = "dogecoin" => RecoversToEasiest
==============================================================================
