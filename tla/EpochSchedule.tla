---------------------------- MODULE EpochSchedule ----------------------------
(***************************************************************************)
(* Which block of an epoch is attested to, when its attestation window is  *)
(* open, and what ProcessBlockHeaders offers the dispatcher for a block    *)
(* (validator/signer/signer.go and validator/validator.go).                *)
(*                                                                         *)
(* The Go code computes in uint64; Uint64Size is the number of values.     *)
(* The Poseidon hash of stake, epoch and staker is any natural number.     *)
(***************************************************************************)
EXTENDS Integers, Sequences

CONSTANTS Uint64Size,             \* 2^64
          MinAttestationWindow    \* constants.go: 11

ASSUME Uint64Assumption == Uint64Size \in Nat \ {0}
ASSUME MinWindowAssumption == MinAttestationWindow \in Nat \ {0}

Uint64 == 0..(Uint64Size - 1)
Plus(a, b) == (a + b) % Uint64Size
Minus(a, b) == (a - b) % Uint64Size

EpochInfos == [epochID : Uint64, startingBlock : Uint64, epochLen : Uint64]

\* Panics (modulo zero) if the window is as long as the epoch, and wraps around
\* if it is longer.
ComputeBlockNumberToAttestTo(epoch, attestWindow, hash) ==
  Plus(epoch.startingBlock, hash % Minus(epoch.epochLen, attestWindow))

\* Mutant: a window that starts one block early.
AttestInfoEarly(target, attestWindow) ==
  [targetBlock |-> target,
   windowStart |-> Plus(target, MinAttestationWindow - 1),
   windowEnd   |-> Plus(target, attestWindow)]

\* FetchEpochAndAttestInfo, without the target's hash, which it does not fetch.
AttestInfo(target, attestWindow) ==
  [targetBlock |-> target,
   windowStart |-> Plus(target, MinAttestationWindow),
   windowEnd   |-> Plus(target, attestWindow)]

(***************************************************************************)
(* The events for block b, in order: the target block is announced once    *)
(* when it is recognised and once more by the switch that follows.         *)
(***************************************************************************)
PrepareBlock(b, info) == info.targetBlock <= b /\ b < Minus(info.windowStart, 1)

\* Mutant: the block that ends the window still counts as one to attest in.
DoBlockToEnd(b, info) == /\ ~PrepareBlock(b, info)
                         /\ Minus(info.windowStart, 1) <= b
                         /\ b <= info.windowEnd

DoBlock(b, info) == /\ ~PrepareBlock(b, info)
                    /\ Minus(info.windowStart, 1) <= b
                    /\ b < info.windowEnd
EndBlock(b, info) == /\ ~PrepareBlock(b, info)
                     /\ ~DoBlock(b, info)
                     /\ b = info.windowEnd

EventsFor(b, info) ==
  (IF b = info.targetBlock THEN <<"prepare">> ELSE <<>>) \o
  CASE PrepareBlock(b, info) -> <<"prepare">>
    [] DoBlock(b, info)      -> <<"do">>
    [] EndBlock(b, info)     -> <<"over">>
    [] OTHER                 -> <<>>

\* Block b is beyond the epoch the processor works with.
EpochIsOver(b, epoch) == b >= Plus(epoch.startingBlock, epoch.epochLen)

\* Mutant: the next epoch is expected to start with the last block of this one.
CorrectEpochSwitchEarly(prev, new) ==
  /\ new.epochID = Plus(prev.epochID, 1)
  /\ new.startingBlock = Plus(prev.startingBlock, prev.epochLen) - 1

CorrectEpochSwitch(prev, new) ==
  /\ new.epochID = Plus(prev.epochID, 1)
  /\ new.startingBlock = Plus(prev.startingBlock, prev.epochLen)
=============================================================================
