------------------------------- MODULE Frontier -------------------------------
(***************************************************************************)
(* The difficulty band (leibniz/discovery.py, FrontierController): a       *)
(* target that is retuned after every cycle from the rate of proofs among  *)
(* the last outcomes, and jumps to the other half of its range when it is  *)
(* held at a bound (ADR 0018, ADR 0080).  Targets are counted in units of  *)
(* the last digit the code rounds to.                                      *)
(***************************************************************************)
EXTENDS Integers, Sequences, FiniteSets

CONSTANTS
  Start, Floor, Ceil, \* target of a fresh controller, floor, ceil
  Window,             \* outcomes considered
  AimNum, AimDen,     \* aim, the rate of proofs to hold
  Gain,               \* gain
  PinLimit,           \* pin_limit
  LowBase, HighBase,  \* where a jump lands: 0.35, 0.65
  Jitters             \* offsets of successive jumps

ASSUME FrontierAssumption ==
  /\ Floor \in Int /\ Ceil \in Int /\ Start \in Floor .. Ceil
  /\ LowBase \in Int /\ HighBase \in Int
  /\ Window \in Nat /\ Window > 2
  /\ AimNum \in Nat /\ AimDen \in Nat \ {0} /\ Gain \in Nat
  /\ PinLimit \in Nat \ {0}
  /\ Jitters \in Seq(Int) /\ Jitters # <<>>
  /\ \A i \in DOMAIN Jitters : {LowBase + Jitters[i], HighBase + Jitters[i]}
                                 \subseteq (Floor + 1) .. (Ceil - 1)

Bands ==
  [target : Floor .. Ceil,
   recent : UNION {[1 .. n -> BOOLEAN] : n \in 0 .. Window},
   jumps  : 0 .. Len(Jitters) - 1, \* only its remainder is ever read
   pinned : 0 .. PinLimit - 1]

FreshBand == [target |-> Start, recent |-> <<>>, jumps |-> 0, pinned |-> 0]

\* record: the last Window outcomes, oldest first.
Recorded(band, proved) ==
  LET all == Append(band.recent, proved)
  IN [band EXCEPT !.recent = IF Len(all) > Window THEN Tail(all) ELSE all]

----------------------------------------------------------------------------
Clamp(t) == IF t < Floor THEN Floor ELSE IF t > Ceil THEN Ceil ELSE t

Rounded(a, b) == (2 * a + b) \div (2 * b)

Proofs(band) == Cardinality({i \in DOMAIN band.recent : band.recent[i]})

\* The window is full enough for update to act.
Ready(band) ==
  Len(band.recent) >= IF Window \div 2 > 3 THEN Window \div 2 ELSE 3

\* AimDen * Len(band.recent) times (aim - rate): positive when the band is too hard.
Err(band) == AimNum * Len(band.recent) - AimDen * Proofs(band)

\* Mutant: only a bound that nothing is proved at counts (before ADR 0080).
SaturatedAtZero(band) == band.target \in {Floor, Ceil} /\ Proofs(band) = 0

\* At a bound while the correction points past it.
Saturated(band) ==
  \/ band.target = Floor /\ Err(band) > 0
  \/ band.target = Ceil /\ Err(band) < 0

Pinned(band) == IF Saturated(band) THEN band.pinned + 1 ELSE 0

Escapes(band) ==
  \/ band.target \in {Floor, Ceil} /\ Proofs(band) = 0
  \/ Pinned(band) >= PinLimit

\* To the opposite half, by an offset that differs from jump to jump.
Jumped(band) ==
  LET n == (band.jumps + 1) % Len(Jitters)
  IN [target |-> Clamp((IF band.target = Floor THEN HighBase ELSE LowBase) + Jitters[n + 1]),
      recent |-> <<>>, jumps |-> n, pinned |-> 0]

\* Proportional homing, outside a dead band of a twentieth.  At its lower end the
\* floats of the code move: 0.35 - 0.4 is a hair more than a twentieth.
Homed(band) ==
  LET wide == AimDen * Len(band.recent)
  IN [band EXCEPT
        !.pinned = Pinned(band),
        !.target = IF 20 * Err(band) > wide \/ 20 * Err(band) <= -wide
                   THEN Clamp(@ - Rounded(Gain * Err(band), wide)) ELSE @]

\* update
Retuned(band) ==
  IF ~Ready(band) THEN band ELSE IF Escapes(band) THEN Jumped(band) ELSE Homed(band)
=============================================================================
