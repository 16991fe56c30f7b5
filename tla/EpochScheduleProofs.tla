------------------------- MODULE EpochScheduleProofs -------------------------
(***************************************************************************)
(* Facts about the attestation schedule that hold for every epoch, window  *)
(* and Poseidon hash, as long as the window is shorter than the epoch and  *)
(* the epoch ends below 2^64.                                              *)
(***************************************************************************)
EXTENDS EpochSchedule, TLAPS

\* An epoch and a window for which the arithmetic neither wraps nor panics.
Regular(epoch, attestWindow) ==
  /\ epoch \in EpochInfos
  /\ attestWindow \in Nat
  /\ MinAttestationWindow <= attestWindow
  /\ attestWindow < epoch.epochLen
  /\ epoch.startingBlock + epoch.epochLen < Uint64Size

\* Sums and differences that stay within uint64 are the mathematical ones.
LEMMA NoWrap ==
  ASSUME NEW a \in Nat, NEW b \in Nat
  PROVE  /\ a + b < Uint64Size => Plus(a, b) = a + b
         /\ b <= a /\ a < Uint64Size => Minus(a, b) = a - b
BY Uint64Assumption DEF Plus, Minus

\* A remainder is smaller than its modulus, whatever the hash.
LEMMA Remainder ==
  ASSUME NEW h \in Nat, NEW m \in Nat \ {0}
  PROVE  h % m \in 0..(m - 1)
OBVIOUS

\* A block belongs to one of successive epochs of n blocks.
LEMMA Division ==
  ASSUME NEW b \in Nat, NEW n \in Nat \ {0}
  PROVE  /\ b \div n \in Nat /\ (b \div n) * n <= b /\ b < (b \div n) * n + n
         /\ \A q \in Nat : q * n <= b /\ b < q * n + n => b \div n = q
OBVIOUS

\* The block to attest to lies in the epoch, early enough for its whole
\* attestation window to fit in behind it.
THEOREM TargetInEpoch ==
  ASSUME NEW epoch, NEW attestWindow, NEW hash \in Nat,
         Regular(epoch, attestWindow)
  PROVE  LET t == ComputeBlockNumberToAttestTo(epoch, attestWindow, hash)
         IN  /\ t \in Nat
             /\ epoch.startingBlock <= t
             /\ t + attestWindow < epoch.startingBlock + epoch.epochLen
<1> DEFINE s == epoch.startingBlock
           l == epoch.epochLen
           d == hash % (l - attestWindow)
<1>1. s \in Nat /\ l \in Nat /\ attestWindow \in Nat /\ attestWindow < l
      /\ s + l < Uint64Size
  BY Uint64Assumption DEF Regular, EpochInfos, Uint64
<1>2. Minus(l, attestWindow) = l - attestWindow
  BY <1>1, NoWrap, Uint64Assumption
<1>3. d \in 0..(l - attestWindow - 1)
  BY <1>1, Remainder
<1>4. Plus(s, d) = s + d
  BY <1>1, <1>3, NoWrap, Uint64Assumption
<1>5. ComputeBlockNumberToAttestTo(epoch, attestWindow, hash) = s + d
  BY <1>2, <1>4 DEF ComputeBlockNumberToAttestTo
<1> QED
  BY <1>1, <1>3, <1>5
-----------------------------------------------------------------------------
\* What FetchEpochAndAttestInfo computes for an epoch.
InfoFor(epoch, attestWindow, hash) ==
  AttestInfo(ComputeBlockNumberToAttestTo(epoch, attestWindow, hash), attestWindow)

\* The bounds of the window are the target block plus the two window lengths, and
\* the window is closed before the epoch is over: ProcessBlockHeaders sees its
\* last block while it still works with that epoch.
THEOREM WindowInEpoch ==
  ASSUME NEW epoch, NEW attestWindow, NEW hash \in Nat,
         Regular(epoch, attestWindow)
  PROVE  LET info == InfoFor(epoch, attestWindow, hash)
         IN  /\ info.targetBlock \in Nat
             /\ info.windowStart = info.targetBlock + MinAttestationWindow
             /\ info.windowEnd = info.targetBlock + attestWindow
             /\ epoch.startingBlock <= info.targetBlock
             /\ ~EpochIsOver(info.windowEnd, epoch)
<1> DEFINE t == ComputeBlockNumberToAttestTo(epoch, attestWindow, hash)
           s == epoch.startingBlock
           l == epoch.epochLen
           m == MinAttestationWindow
<1>1. /\ s \in Nat /\ l \in Nat /\ attestWindow \in Nat /\ m \in Nat
      /\ m <= attestWindow /\ s + l < Uint64Size
  BY MinWindowAssumption, Uint64Assumption DEF Regular, EpochInfos, Uint64
<1>2. t \in Nat /\ s <= t /\ t + attestWindow < s + l
  BY TargetInEpoch
<1> HIDE DEF t
<1>3. Plus(t, m) = t + m /\ Plus(t, attestWindow) = t + attestWindow
      /\ Plus(s, l) = s + l
  BY <1>1, <1>2, NoWrap, Uint64Assumption
<1>4. InfoFor(epoch, attestWindow, hash) =
        [targetBlock |-> t, windowStart |-> t + m, windowEnd |-> t + attestWindow]
  BY <1>3 DEF InfoFor, AttestInfo, t
<1>5. ~EpochIsOver(t + attestWindow, epoch)
  BY <1>1, <1>2, <1>3 DEF EpochIsOver
<1> QED
  BY <1>2, <1>4, <1>5

\* Which event is offered for a block: Prepare from the target block on, Do for
\* each block whose successor lies in the contract's window, EndOfWindow for
\* exactly one block.  The window holds at least one Do.
THEOREM Schedule ==
  ASSUME NEW epoch, NEW attestWindow, NEW hash \in Nat, NEW b \in Nat,
         Regular(epoch, attestWindow)
  PROVE  LET info == InfoFor(epoch, attestWindow, hash)
             t == info.targetBlock
             m == MinAttestationWindow
         IN  /\ PrepareBlock(b, info) <=> t <= b /\ b + 1 < t + m
             /\ DoBlock(b, info) <=> t + m <= b + 1 /\ b + 1 <= t + attestWindow
             /\ EndBlock(b, info) <=> b = t + attestWindow
             /\ DoBlock(t + m - 1, info)
<1> DEFINE info == InfoFor(epoch, attestWindow, hash)
           t == info.targetBlock
           m == MinAttestationWindow
<1>1. /\ t \in Nat
      /\ info.windowStart = t + m
      /\ info.windowEnd = t + attestWindow
      /\ ~EpochIsOver(info.windowEnd, epoch)
  BY WindowInEpoch
<1>2. /\ m \in Nat \ {0} /\ attestWindow \in Nat /\ m <= attestWindow
      /\ epoch.startingBlock \in Nat /\ epoch.epochLen \in Nat
      /\ epoch.startingBlock + epoch.epochLen < Uint64Size
  BY MinWindowAssumption, Uint64Assumption DEF Regular, EpochInfos, Uint64
<1> HIDE DEF info
<1>3. t + m < Uint64Size
  <2>1. Plus(epoch.startingBlock, epoch.epochLen) =
          epoch.startingBlock + epoch.epochLen
    BY <1>2, NoWrap
  <2> QED
    BY <1>1, <1>2, <2>1, Uint64Assumption DEF EpochIsOver
<1>4. Minus(info.windowStart, 1) = t + m - 1
  BY <1>1, <1>2, <1>3, NoWrap, Uint64Assumption
<1>5. PrepareBlock(b, info) <=> t <= b /\ b + 1 < t + m
  BY <1>1, <1>2, <1>4 DEF PrepareBlock
<1>6. ASSUME NEW c \in Nat
      PROVE  DoBlock(c, info) <=> t + m <= c + 1 /\ c + 1 <= t + attestWindow
  BY <1>1, <1>2, <1>4 DEF DoBlock, PrepareBlock
<1>7. EndBlock(b, info) <=> b = t + attestWindow
  BY <1>1, <1>2, <1>4 DEF EndBlock, DoBlock, PrepareBlock
<1>8. DoBlock(t + m - 1, info)
  BY <1>1, <1>2, <1>6
<1> QED
  BY <1>5, <1>6, <1>7, <1>8 DEF info

-----------------------------------------------------------------------------
\* The events for a block are events.
LEMMA EventTypes ==
  ASSUME NEW b, NEW info
  PROVE  EventsFor(b, info) \in Seq({"prepare", "do", "over"})
<1> DEFINE kinds == {"prepare", "do", "over"}
           one == IF b = info.targetBlock THEN <<"prepare">> ELSE <<>>
           two == CASE PrepareBlock(b, info) -> <<"prepare">>
                    [] DoBlock(b, info)      -> <<"do">>
                    [] EndBlock(b, info)     -> <<"over">>
                    [] OTHER                 -> <<>>
<1>1. <<>> \in Seq(kinds) /\ <<"prepare">> \in Seq(kinds) /\ <<"do">> \in Seq(kinds)
      /\ <<"over">> \in Seq(kinds)
  OBVIOUS
<1>2. EventsFor(b, info) = one \o two
  BY DEF EventsFor
<1> HIDE DEF kinds
<1>3. one \in Seq(kinds) /\ two \in Seq(kinds)
  BY <1>1, Zenon
<1> HIDE DEF one, two
<1> QED
  BY <1>2, <1>3 DEF kinds

\* After a correct epoch switch the next target block comes later than the end of
\* the window before: the windows of successive epochs never overlap.
THEOREM WindowsAreApart ==
  ASSUME NEW prev, NEW new, NEW w1, NEW w2, NEW h1 \in Nat, NEW h2 \in Nat,
         Regular(prev, w1), Regular(new, w2), CorrectEpochSwitch(prev, new)
  PROVE  InfoFor(prev, w1, h1).windowEnd < InfoFor(new, w2, h2).targetBlock
<1> DEFINE i1 == InfoFor(prev, w1, h1)
           i2 == InfoFor(new, w2, h2)
           over == Plus(prev.startingBlock, prev.epochLen)
<1>1. /\ i1.targetBlock \in Nat /\ i1.windowEnd = i1.targetBlock + w1
      /\ ~EpochIsOver(i1.windowEnd, prev)
      /\ i2.targetBlock \in Nat /\ new.startingBlock <= i2.targetBlock
  BY WindowInEpoch
<1>2. new.startingBlock = over /\ w1 \in Nat /\ over \in Int
      /\ prev.startingBlock \in Nat /\ prev.epochLen \in Nat
  BY Uint64Assumption DEF CorrectEpochSwitch, Regular, EpochInfos, Uint64, Plus
<1> HIDE DEF i1, i2, over
<1>3. i1.windowEnd < over
  BY <1>1, <1>2 DEF EpochIsOver, over
<1> QED
  BY <1>1, <1>2, <1>3 DEF i1, i2
=============================================================================
