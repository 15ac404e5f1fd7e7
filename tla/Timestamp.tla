------------------------------ MODULE Timestamp ------------------------------
(***************************************************************************)
(* The timestamps of src/timestamp.rs.  They come from Reddit's numbers,   *)
(* which have a fraction, from the clock, and from the changelog, which    *)
(* has whole seconds.  They compare by whole seconds; utc, which a token's *)
(* expiry is compared by, may have a fraction.                             *)
(*                                                                         *)
(* Numbers with a fraction and points in time are counted in milliseconds. *)
(***************************************************************************)
EXTENDS Integers

CONSTANTS
    MinI64, MaxI64,     \* the range of i64, or a bound standing for it
    MinUtc, MaxUtc      \* the range of chrono's dates, in seconds

ASSUME RangesAssumption ==
    /\ MinI64 \in Int /\ MaxI64 \in Int /\ MinUtc \in Int /\ MaxUtc \in Int
    /\ MinI64 <= MinUtc /\ MinUtc <= 0 /\ 0 <= MaxUtc /\ MaxUtc <= MaxI64

Timestamps == [unix_ts : MinUtc..MaxUtc, fraction : 0..999]

\* created_utc as i64: towards zero, and the nearest number there is.  JSON has
\* neither NaN nor infinities.
Truncate(ms) == IF ms < 0 THEN -((-ms) \div 1000) ELSE ms \div 1000

Saturate(n) == IF n < MinI64 THEN MinI64 ELSE IF n > MaxI64 THEN MaxI64 ELSE n

AsI64(ms) == Saturate(Truncate(ms))

\* NaiveDateTime::from_timestamp_opt has a result.
IsUtc(seconds) == seconds \in MinUtc..MaxUtc

\* TryFrom<i64>, where it succeeds.
FromI64(seconds) == [unix_ts |-> seconds, fraction |-> 0]

\* TryFrom<f64>, where it succeeds.
FromF64(ms) == FromI64(AsI64(ms))

\* From<DateTime<Utc>>: timestamp() rounds down.
FromUtc(ms) == [unix_ts |-> ms \div 1000, fraction |-> ms % 1000]

\* Borrow<DateTime<Utc>>
Utc(t) == 1000 * t.unix_ts + t.fraction

\* Ord, Eq
Before(s, t) == s.unix_ts < t.unix_ts
Equal(s, t) == s.unix_ts = t.unix_ts

\* Serialize, and Deserialize, which is TryFrom<i64> again.
Serialize(t) == t.unix_ts
Restored(t) == FromI64(Serialize(t))

=============================================================================
