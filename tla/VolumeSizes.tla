------------------------------- MODULE VolumeSizes -------------------------------
(***************************************************************************)
(* A volume's size on its way from the user to the mount: chosen and       *)
(* rounded by the command (bin/nemr.rs), written as text, read again by    *)
(* nemrd (daemon/mod.rs, engine/volume.rs), the length of the backing      *)
(* file, and read once more by the privileged helper, which has the last   *)
(* word on what it mounts (deploy/nemr-volume/src/main.rs).                *)
(*                                                                         *)
(* The operators are the pure functions of that way.  Sizes are bytes; a   *)
(* text is its digits' value and its unit.                                 *)
(***************************************************************************)
EXTENDS Integers

CONSTANTS
    MB, GB,    \* bytes in a unit (2^20 and 2^30)
    Wide,      \* what does not fit in 64 bits (2^64)
    Smallest, Largest,  \* MIN_BYTES and MAX_BYTES of the helper
    Block      \* f_frsize of the filesystem the volumes are on

ASSUME UnitsAssumption == MB \in Nat \ {0} /\ GB \in Nat \ {0}
ASSUME BoundsAssumption ==
    Smallest \in Nat /\ Largest \in Nat /\ Wide \in Nat /\ Largest < Wide
ASSUME BlockAssumption == Block \in Nat \ {0}

Refused == -1
Unit == [B |-> 1, MB |-> MB, GB |-> GB]
Text == [digits : Nat, unit : {"B", "MB", "GB"}]

\* VolumeSize::as_str: the largest unit the size is a whole number of.
Display(b) ==
    IF b >= GB /\ b % GB = 0 THEN [digits |-> b \div GB, unit |-> "GB"]
    ELSE IF b >= MB /\ b % MB = 0 THEN [digits |-> b \div MB, unit |-> "MB"]
    ELSE [digits |-> b, unit |-> "B"]

\* VolumeSize::from_str: digits that fit, times a unit, that fits.
Parse(text) ==
    LET n == text.digits * Unit[text.unit]
    IN  IF text.digits < Wide /\ n < Wide THEN n ELSE Refused

\* free_bytes: f_bavail, what an ordinary user may still allocate, in f_frsize.
FreeBytes(avail) == avail * Block

\* SizeLimits::refuse, with the bounds the helper reported and the free space
\* of the disk.
Refuses(b, free) == b < Smallest \/ b > Largest \/ b > free

\* SizeLimits::round.
Round(b) == b - (b % Block)

\* resolve_size: what the command sends, or Refused.
Resolve(b, free) == IF Refuses(b, free) THEN Refused ELSE Round(b)

\* ask_size, once a unit is chosen: the least and the most it says there may be of it,
\* the amount it fills in, and what becomes of an amount that is typed.
Least(unit) == IF Smallest <= unit THEN 1 ELSE (Smallest + unit - 1) \div unit
Most(unit, free) == (IF free < Largest THEN free ELSE Largest) \div unit
Clamped(n, lo, hi) == IF n < lo THEN lo ELSE IF n > hi THEN hi ELSE n
FilledIn(default, unit, free) ==
    LET lo == Least(unit)
        hi == Most(unit, free)
    IN  Clamped(default \div unit, lo, IF hi < lo THEN lo ELSE hi)
Asked(amount, unit, free) ==
    IF amount * unit >= Wide \/ Refuses(amount * unit, free) THEN Refused ELSE amount * unit

\* parse_size_bytes: the helper's own bounds, whatever the caller checked.
HelperAccepts(b) == b < Wide /\ Smallest <= b /\ b <= Largest

\* round_down_to_block: what normalize answers for an accepted size.
Normalizes(b) == LET r == b - (b % Block) IN IF r < Smallest THEN Refused ELSE r

\* The length of the backing file for a size sent as a text, and what the
\* helper makes of a mount of it: the argument is the file's own length.
Allocated(text) == Parse(text)
Mounts(text) == Allocated(text) # Refused /\ HelperAccepts(Allocated(text))

=================================================================================
