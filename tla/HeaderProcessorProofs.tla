------------------------ MODULE HeaderProcessorProofs ------------------------
(***************************************************************************)
(* Theorems about HeaderProcessor for every schedule, any number of        *)
(* retries and any two nodes: types, the block a do event is offered for,  *)
(* the hash it carries, and the order the dispatcher relies on.            *)
(***************************************************************************)
EXTENDS HeaderProcessor, EpochScheduleProofs, SequenceTheorems

\* The epoch of that number, what the attestation info for it is, and where it ends.
Epoch(e) == EpochAt((e - 1) * EpochLen)
Info(e) == AttestInfo(Target(e), AttestWindow)
End(e) == e * EpochLen

LEMMA ConstantTypes ==
  /\ LastEpoch \in Nat \ {0} /\ EpochLen \in Nat \ {0} /\ AttestWindow \in Nat \ {0}
  /\ MinAttestationWindow \in Nat \ {0} /\ MinAttestationWindow <= AttestWindow
  /\ AttestWindow < EpochLen
  /\ Uint64Size \in Nat \ {0}
  /\ LastEpoch * EpochLen < Uint64Size /\ LastEpoch < Uint64Size
  /\ LastBlock \in Nat
<1>1. /\ LastEpoch \in Nat \ {0} /\ EpochLen \in Nat \ {0} /\ AttestWindow \in Nat \ {0}
      /\ MinAttestationWindow \in Nat \ {0} /\ MinAttestationWindow <= AttestWindow
      /\ AttestWindow < EpochLen /\ Uint64Size \in Nat \ {0}
      /\ (LastEpoch + 1) * EpochLen < Uint64Size
  BY ScheduleAssumption, MinWindowAssumption, Uint64Assumption
<1>2. LastEpoch * EpochLen <= (LastEpoch + 1) * EpochLen /\ LastEpoch <= LastEpoch * EpochLen
      /\ LastEpoch * EpochLen \in Nat \ {0}
  BY <1>1
<1> QED
  BY <1>1, <1>2 DEF LastBlock

LEMMA EpochBounds ==
  ASSUME NEW e \in Epochs
  PROVE  /\ End(e) \in Nat /\ End(e - 1) \in Nat /\ End(e) = End(e - 1) + EpochLen
         /\ End(e) <= LastEpoch * EpochLen /\ End(e) < Uint64Size /\ e < Uint64Size
         /\ Epoch(e) = [epochID |-> e, startingBlock |-> End(e - 1), epochLen |-> EpochLen]
         /\ Epoch(e) \in EpochInfos
<1>1. e \in Nat \ {0} /\ e <= LastEpoch /\ e - 1 \in Nat
  BY ConstantTypes DEF Epochs
<1>2. /\ End(e) \in Nat /\ End(e - 1) \in Nat /\ End(e) = End(e - 1) + EpochLen
      /\ End(e) <= LastEpoch * EpochLen
  BY <1>1, ConstantTypes DEF End
<1>3. ((e - 1) * EpochLen) \div EpochLen = e - 1
  BY <1>1, <1>2, ConstantTypes, Division DEF End
<1>4. Epoch(e) = [epochID |-> e, startingBlock |-> End(e - 1), epochLen |-> EpochLen]
  BY <1>1, <1>3 DEF Epoch, EpochAt, End
<1>5. EpochLen <= End(e)
  BY <1>2, ConstantTypes
<1> QED
  BY <1>1, <1>2, <1>4, <1>5, ConstantTypes DEF EpochInfos, Uint64

LEMMA EpochOfBlock ==
  ASSUME NEW b \in Blocks
  PROVE  /\ EpochAt(b).epochID \in Epochs
         /\ EpochAt(b) = Epoch(EpochAt(b).epochID)
         /\ End(EpochAt(b).epochID - 1) <= b /\ b < End(EpochAt(b).epochID)
         /\ \A e \in Epochs : End(e - 1) <= b /\ b < End(e) => EpochAt(b).epochID = e
<1> DEFINE q == b \div EpochLen
<1>1. b \in Nat /\ b < LastEpoch * EpochLen
  BY ConstantTypes DEF Blocks, LastBlock
<1>2. q \in Nat /\ q * EpochLen <= b /\ b < q * EpochLen + EpochLen
  BY <1>1, Division, ConstantTypes
<1>3. q < LastEpoch
  BY <1>1, <1>2, ConstantTypes
<1>4. EpochAt(b) = [epochID |-> q + 1, startingBlock |-> q * EpochLen, epochLen |-> EpochLen]
  BY DEF EpochAt
<1>5. q + 1 \in Epochs /\ (q + 1) - 1 = q
  BY <1>2, <1>3, ConstantTypes DEF Epochs
<1>6. End(q + 1) = End(q) + EpochLen
  BY <1>5, EpochBounds
<1>7. \A e \in Epochs : End(e - 1) <= b /\ b < End(e) => q + 1 = e
  <2> SUFFICES ASSUME NEW e \in Epochs, End(e - 1) <= b, b < End(e) PROVE q + 1 = e
    OBVIOUS
  <2>1. e - 1 \in Nat /\ e \in Nat
    BY ConstantTypes DEF Epochs
  <2>2. (e - 1) * EpochLen <= b /\ b < (e - 1) * EpochLen + EpochLen
    BY EpochBounds DEF End
  <2>3. q = e - 1
    BY <1>1, <2>1, <2>2, Division, ConstantTypes
  <2> QED
    BY <2>1, <2>3
<1> HIDE DEF q
<1>8. Epoch(q + 1) = [epochID |-> q + 1, startingBlock |-> End(q), epochLen |-> EpochLen]
  BY <1>5, EpochBounds
<1> QED
  BY <1>2, <1>4, <1>5, <1>6, <1>7, <1>8 DEF End

\* The window of an epoch, in the arithmetic of uint64, and the events for its blocks.
LEMMA WindowBounds ==
  ASSUME poseidon \in [Epochs -> PoseidonHashes], NEW e \in Epochs
  PROVE  /\ Target(e) \in Nat /\ End(e - 1) <= Target(e)
         /\ Target(e) + AttestWindow < End(e)
         /\ Info(e) = [targetBlock |-> Target(e),
                       windowStart |-> Target(e) + MinAttestationWindow,
                       windowEnd |-> Target(e) + AttestWindow]
<1>1. poseidon[e] \in Nat
  BY HashesAssumption
<1>2. Epoch(e).epochLen = EpochLen /\ Epoch(e).startingBlock = End(e - 1)
      /\ End(e) = End(e - 1) + EpochLen
  BY EpochBounds
<1>3. Regular(Epoch(e), AttestWindow)
  BY <1>2, EpochBounds, ConstantTypes DEF Regular
<1>4. Target(e) = ComputeBlockNumberToAttestTo(Epoch(e), AttestWindow, poseidon[e])
  BY DEF Target, Epoch
<1>5. Target(e) \in Nat /\ End(e - 1) <= Target(e) /\ Target(e) + AttestWindow < End(e)
  BY <1>1, <1>2, <1>3, <1>4, TargetInEpoch
<1>6. Plus(Target(e), MinAttestationWindow) = Target(e) + MinAttestationWindow
      /\ Plus(Target(e), AttestWindow) = Target(e) + AttestWindow
  BY <1>5, EpochBounds, ConstantTypes, NoWrap
<1> QED
  BY <1>5, <1>6 DEF Info, AttestInfo
-----------------------------------------------------------------------------
(***************************************************************************)
(* Types, and the epoch the processor works with: none before the first    *)
(* fetch has succeeded, and then one with the attestation info and at most *)
(* the hash that belong to it.                                             *)
(***************************************************************************)
Current == epochInfo.epochID

Infos == \/ /\ epochInfo = NoEpoch /\ attestInfo = NoAttest /\ targetHash = ZeroHash
            /\ ~switching /\ pc \in {"fetch", "refetch", "failed"}
         \/ /\ Current \in Epochs /\ epochInfo = Epoch(Current) /\ attestInfo = Info(Current)
            /\ targetHash \in {Current, ZeroHash}
            /\ ~switching => pc \notin {"fetch", "refetch", "failed"}

\* There is a retry left for the call that is under way.
Budget == pc \in {"fetch", "refetch"} => ~IsZero(retries)

\* There is an event to offer.
Offering == pc = "offer" => outbox # <<>>

HeaderType == TypeOK /\ Infos /\ Budget /\ Offering

\* What a fetch comes to.
Adopted == /\ pc \in {"fetch", "refetch"} /\ Expected /\ Adopt
           /\ UNCHANGED <<node, feed, switching, block, outbox, offered>>
Repeated == /\ pc \in {"fetch", "refetch"} /\ pc' \in {"refetch", "failed"}
            /\ UNCHANGED <<node, feed, switching, infos, block, outbox, offered>>
Fetches == Fetch \/ RefetchRight \/ RefetchWrong \/ RefetchFails

LEMMA RetriesLeft ==
  ASSUME HeaderType, Fetches
  PROVE  /\ Adopted \/ Repeated
         /\ retries' \in Retries /\ retries'.value <= maxRetries.value
         /\ pc' \in {"fetch", "refetch"} => ~IsZero(retries')
<1>1. /\ retries \in Retries /\ retries.value <= maxRetries.value /\ maxRetries \in Retries
      /\ pc \in {"fetch", "refetch"} => ~IsZero(retries)
  BY RetriesAssumption DEF HeaderType, TypeOK, Budget
<1>2. ~IsZero(retries) => Sub(retries) \in Retries /\ Sub(retries).value <= maxRetries.value
  BY <1>1 DEF Sub, IsZero, Retries
<1>3. CASE Fetch
  BY <1>1, <1>3 DEF Fetch, FetchRight, FetchWrong, FetchFails, GiveUpOrRetry, Adopted, Repeated,
                    Adopt, fetch, Fetches
<1>4. CASE RefetchRight \/ RefetchWrong \/ RefetchFails
  BY <1>1, <1>2, <1>4 DEF RefetchRight, RefetchWrong, RefetchFails, Refetch, FetchRight, FetchWrong,
                          FetchFails, GiveUpOrRetry, Adopted, Repeated, Adopt
<1> QED
  BY <1>3, <1>4 DEF Fetches

\* The epoch a fetch adopts is the one of the HTTP node, and the next one at a switch.
LEMMA AdoptedEpoch ==
  ASSUME HeaderType, Adopted
  PROVE  /\ Current' \in Epochs /\ epochInfo' = Epoch(Current') /\ epochInfo' \in EpochInfos
         /\ attestInfo' = Info(Current') /\ targetHash' = ZeroHash
         /\ End(Current' - 1) <= http /\ http < End(Current')
         /\ switching => Current \in Epochs /\ Current' = Current + 1
<1>1. http \in Blocks
  BY DEF HeaderType, TypeOK
<1>2. epochInfo' = EpochAt(http) /\ targetHash' = ZeroHash
      /\ attestInfo' = AttestInfo(Target(EpochAt(http).epochID), AttestWindow)
  BY DEF Adopted, Adopt, Fetched
<1>3. Current' = EpochAt(http).epochID
  BY <1>2 DEF Current
<1>4. Current' \in Epochs /\ epochInfo' = Epoch(Current')
      /\ End(Current' - 1) <= http /\ http < End(Current')
  BY <1>1, <1>2, <1>3, EpochOfBlock
<1>5. epochInfo' \in EpochInfos
  BY <1>4, EpochBounds
<1>6. ASSUME switching PROVE Current \in Epochs /\ Current' = Current + 1
  <2>1. Current \in Epochs
    BY <1>6 DEF HeaderType, Infos
  <2>2. EpochAt(http).epochID = Plus(Current, 1)
    BY <1>6 DEF Adopted, Expected, CorrectEpochSwitch, Fetched, Current
  <2>3. Current + 1 < Uint64Size \/ Plus(Current, 1) = 0
    <3>1. Current \in Nat /\ Current < Uint64Size
      BY <2>1, EpochBounds DEF Epochs
    <3>2. CASE Current + 1 < Uint64Size
      BY <3>2
    <3>3. CASE Current + 1 = Uint64Size
      BY <3>3, ConstantTypes DEF Plus
    <3> QED
      BY <3>1, <3>2, <3>3, ConstantTypes
  <2>4. 0 \notin Epochs /\ Current \in Nat
    BY <2>1 DEF Epochs
  <2>5. Current + 1 < Uint64Size
    BY <1>3, <1>4, <2>2, <2>3, <2>4
  <2> QED
    BY <1>3, <2>1, <2>2, <2>4, <2>5, NoWrap
<1> QED
  BY <1>2, <1>3, <1>4, <1>5, <1>6 DEF Info

LEMMA InfoTypes ==
  ASSUME poseidon \in [Epochs -> PoseidonHashes], NEW e \in Epochs
  PROVE  Info(e) \in [targetBlock : Uint64, windowStart : Uint64, windowEnd : Uint64]
<1>1. /\ Target(e) \in Nat /\ Target(e) + AttestWindow < Uint64Size
      /\ Info(e) = [targetBlock |-> Target(e),
                    windowStart |-> Target(e) + MinAttestationWindow,
                    windowEnd |-> Target(e) + AttestWindow]
  BY WindowBounds, EpochBounds, ConstantTypes
<1> QED
  BY <1>1, ConstantTypes DEF Uint64

LEMMA HeaderTypeInit == Init => HeaderType
<1> SUFFICES ASSUME Init PROVE HeaderType
  OBVIOUS
<1> USE DEF Init
<1>1. /\ NoEpoch \in EpochInfos
      /\ NoAttest \in [targetBlock : Uint64, windowStart : Uint64, windowEnd : Uint64]
  BY ConstantTypes DEF NoEpoch, NoAttest, EpochInfos, Uint64
<1>2. next \in Blocks /\ next \in 0..(LastBlock + 1)
  BY ConstantTypes DEF Blocks
<1>3. /\ retries \in Retries /\ retries.value <= maxRetries.value
      /\ maxRetries \in RetryOptions /\ ~IsZero(retries)
  BY RetriesAssumption DEF Retries
<1>4. /\ event \in [kind : Kinds \cup {"none"}, block : Blocks, blockHash : Epochs \cup {ZeroHash}]
      /\ outbox \in Seq(Kinds) /\ stage \in Kinds
  BY <1>2 DEF Kinds
<1>5. TypeOK
  <2> HIDE DEF Init
  <2>1. /\ http \in Blocks /\ first = next /\ poseidon \in [Epochs -> PoseidonHashes]
        /\ feedClosed = FALSE /\ pc = "fetch" /\ switching = FALSE
        /\ epochInfo = NoEpoch /\ attestInfo = NoAttest /\ targetHash = ZeroHash
        /\ block = next /\ window = 0
    BY DEF Init
  <2> QED
    BY <1>1, <1>2, <1>3, <1>4, <2>1 DEF TypeOK
<1> QED
  BY <1>3, <1>5 DEF HeaderType, Infos, Budget, Offering

LEMMA HeaderTypeStep == HeaderType /\ [Next]_vars => HeaderType'
<1> SUFFICES ASSUME HeaderType, [Next]_vars PROVE HeaderType'
  OBVIOUS
<1>0. TypeOK /\ Infos /\ Budget /\ Offering
  BY DEF HeaderType
<1> USE DEF node, feed, fetch, infos, offered
<1>1. CASE NewHttpBlock
  <2>1. http' \in Blocks
    BY <1>0, <1>1, ConstantTypes DEF NewHttpBlock, TypeOK, Blocks
  <2> QED
    BY <1>0, <1>1, <2>1 DEF NewHttpBlock, HeaderType, TypeOK, Infos, Budget, Offering, Current, Info, Target
<1>2. CASE CloseFeed
  BY <1>0, <1>2 DEF CloseFeed, HeaderType, TypeOK, Infos, Budget, Offering, Current, Info, Target
<1>3. CASE Fetches
  <2>1. /\ retries' \in Retries /\ retries'.value <= maxRetries.value
        /\ pc' \in {"fetch", "refetch"} => ~IsZero(retries')
    BY <1>3, RetriesLeft
  <2>2. CASE Adopted
    <3>1. /\ Current' \in Epochs /\ epochInfo' = Epoch(Current') /\ epochInfo' \in EpochInfos
          /\ attestInfo' = Info(Current') /\ targetHash' = ZeroHash
      BY <2>2, AdoptedEpoch
    <3>2. pc' \in {"handle", "setTarget"}
      BY <2>2 DEF Adopted, Adopt
    <3>3. UNCHANGED <<node, feed, switching, block, outbox, offered>>
      BY <2>2 DEF Adopted
    <3>4. Info(Current') \in [targetBlock : Uint64, windowStart : Uint64, windowEnd : Uint64]
      BY <1>0, <3>1, InfoTypes DEF TypeOK
    <3>5. TypeOK'
      BY <1>0, <2>1, <3>1, <3>2, <3>3, <3>4 DEF TypeOK
    <3>6. Info(Current)' = Info(Current')
      BY <3>3 DEF Info, Target
    <3> QED
      BY <2>1, <3>1, <3>2, <3>3, <3>5, <3>6 DEF HeaderType, Infos, Budget, Offering
  <2>3. CASE Repeated
    <3>1. /\ pc \in {"fetch", "refetch"} /\ pc' \in {"refetch", "failed"}
          /\ UNCHANGED <<node, feed, switching, infos, block, outbox, offered>>
      BY <2>3 DEF Repeated
    <3>2. TypeOK'
      BY <1>0, <2>1, <3>1 DEF TypeOK
    <3>3. Infos'
      BY <1>0, <3>1 DEF Infos, Current, Info, Target
    <3> QED
      BY <2>1, <3>1, <3>2, <3>3 DEF HeaderType, Budget, Offering
  <2> QED
    BY <1>3, <2>2, <2>3, RetriesLeft
<1>4. CASE SetTargetBlockHashIfExists
  <2>1. Current \in Epochs
    BY <1>0, <1>4 DEF SetTargetBlockHashIfExists, Infos
  <2> QED
    BY <1>0, <1>4, <2>1 DEF SetTargetBlockHashIfExists, HeaderType, TypeOK, Infos, Budget, Offering, Current,
                            Info, Target
<1>5. CASE ReceiveHeader
  <2>1. next \in Blocks /\ next' \in 0..(LastBlock + 1)
    BY <1>0, <1>5, ConstantTypes DEF ReceiveHeader, TypeOK, Blocks
  <2>2. maxRetries \in Retries /\ ~IsZero(maxRetries)
    BY <1>0, RetriesAssumption DEF TypeOK
  <2>3. TypeOK'
    <3>1. retries' \in Retries /\ retries'.value <= maxRetries.value
      BY <1>0, <1>5, <2>2 DEF ReceiveHeader, TypeOK, Retries
    <3> QED
      BY <1>0, <1>5, <2>1, <3>1 DEF ReceiveHeader, TypeOK
  <2>4. Infos'
    BY <1>0, <1>5 DEF ReceiveHeader, Infos, Current, Info, Target
  <2>5. Budget'
    BY <1>5, <2>2 DEF ReceiveHeader, Budget, IsZero
  <2> QED
    BY <1>5, <2>3, <2>4, <2>5 DEF HeaderType, Offering, ReceiveHeader
<1>6. CASE FeedEnds
  BY <1>0, <1>6 DEF FeedEnds, HeaderType, TypeOK, Infos, Budget, Offering, Current, Info, Target
<1>7. CASE Handle
  <2>1. Current \in Epochs /\ outbox' \in Seq(Kinds)
    BY <1>0, <1>7, EventTypes DEF Handle, Infos, Kinds
  <2> QED
    BY <1>0, <1>7, <2>1 DEF Handle, HeaderType, TypeOK, Infos, Budget, Offering, Current, Info, Target
<1>8. CASE OfferEvent
  <2>1. Head(outbox) \in Kinds /\ Tail(outbox) \in Seq(Kinds)
    BY <1>0, <1>8 DEF OfferEvent, Offering, TypeOK
  <2>2. Current \in Epochs
    BY <1>0, <1>8 DEF OfferEvent, Infos
  <2> QED
    BY <1>0, <1>8, <2>1, <2>2 DEF OfferEvent, HeaderType, TypeOK, Infos, Budget, Offering, Current, Info,
                                  Target
<1>9. CASE UNCHANGED vars
  BY <1>0, <1>9 DEF vars, HeaderType, TypeOK, Infos, Budget, Offering, Current, Info, Target
<1> QED
  BY <1>1, <1>2, <1>3, <1>4, <1>5, <1>6, <1>7, <1>8, <1>9 DEF Next, Goroutine, Fetches
\* The types of the processor's state, in particular that the retries are never less than
\* none: Sub is only called while there is one left (validator.go:300).
THEOREM TypeCorrect == Spec => []TypeOK
<1>1. HeaderType => TypeOK
  BY DEF HeaderType
<1> QED
  BY <1>1, HeaderTypeInit, HeaderTypeStep, PTL DEF Spec
-----------------------------------------------------------------------------
(***************************************************************************)
(* The events and their order.                                             *)
(***************************************************************************)

LEMMA Pair ==
  ASSUME NEW S, NEW a \in S, NEW b \in S
  PROVE  <<a>> \o <<b>> = <<a, b>>
<1>1. /\ <<a>> \o <<b>> \in Seq(S) /\ Len(<<a>> \o <<b>>) = 2
      /\ (<<a>> \o <<b>>)[1] = a /\ (<<a>> \o <<b>>)[2] = b
  OBVIOUS
<1>2. <<a, b>> \in Seq(S) /\ Len(<<a, b>>) = 2 /\ <<a, b>>[1] = a /\ <<a, b>>[2] = b
  OBVIOUS
<1>3. \A i \in 1..2 : i = 1 \/ i = 2
  OBVIOUS
<1> QED
  BY <1>1, <1>2, <1>3, SeqEqual

\* The events of one block of epoch e, from the target block to the end of its window.
LEMMA EventsOfBlock ==
  ASSUME poseidon \in [Epochs -> PoseidonHashes], NEW e \in Epochs, NEW b \in Nat
  PROVE  LET t == Target(e)
             m == MinAttestationWindow
             out == EventsFor(b, Info(e))
         IN  /\ b = t => out = IF m = 1 THEN <<"prepare", "do">> ELSE <<"prepare", "prepare">>
             /\ t < b /\ b + 1 < t + m => out = <<"prepare">>
             /\ t < b /\ t + m <= b + 1 /\ b < t + AttestWindow => out = <<"do">>
             /\ b = t + AttestWindow => out = <<"over">>
             /\ b < t \/ t + AttestWindow < b => out = <<>>
<1> DEFINE t == Target(e)
           m == MinAttestationWindow
           i == Info(e)
<1>1. /\ t \in Nat /\ t + AttestWindow < Uint64Size
      /\ i.targetBlock = t /\ i.windowStart = t + m /\ i.windowEnd = t + AttestWindow
  BY WindowBounds, EpochBounds, ConstantTypes
<1>2. Minus(i.windowStart, 1) = t + m - 1
  BY <1>1, ConstantTypes, NoWrap
<1>3. /\ PrepareBlock(b, i) <=> t <= b /\ b + 1 < t + m
      /\ DoBlock(b, i) <=> t + m <= b + 1 /\ b < t + AttestWindow
      /\ EndBlock(b, i) <=> b = t + AttestWindow
  BY <1>1, <1>2, ConstantTypes DEF PrepareBlock, DoBlock, EndBlock
<1> HIDE DEF t, i
<1>4. /\ PrepareBlock(b, i) => ~DoBlock(b, i) /\ ~EndBlock(b, i)
      /\ DoBlock(b, i) => ~EndBlock(b, i)
  BY <1>1, <1>3, ConstantTypes
<1>5. CASE b = t
  <2>1. (m = 1 => DoBlock(b, i)) /\ (m # 1 => PrepareBlock(b, i))
    <3>1. m = 1 => t + m <= b + 1 /\ b < t + AttestWindow
      BY <1>1, <1>5, ConstantTypes
    <3>2. m # 1 => t <= b /\ b + 1 < t + m
      BY <1>1, <1>5, ConstantTypes
    <3> QED
      BY <1>3, <3>1, <3>2
  <2>2. /\ <<"prepare">> \o <<"prepare">> = <<"prepare", "prepare">>
        /\ <<"prepare">> \o <<"do">> = <<"prepare", "do">>
    <3>1. "prepare" \in Kinds /\ "do" \in Kinds
      BY DEF Kinds
    <3> QED
      BY <3>1, Pair
  <2>3. /\ m = 1 => EventsFor(b, i) = <<"prepare">> \o <<"do">>
        /\ m # 1 => EventsFor(b, i) = <<"prepare">> \o <<"prepare">>
    BY <1>1, <1>4, <1>5, <2>1 DEF EventsFor
  <2> QED
    BY <1>1, <1>5, <2>2, <2>3, ConstantTypes DEF t, i
<1>6. CASE b # t
  <2>1. <<>> \o <<"prepare">> = <<"prepare">> /\ <<>> \o <<"do">> = <<"do">>
        /\ <<>> \o <<"over">> = <<"over">> /\ <<>> \o <<>> = <<>>
    OBVIOUS
  <2>2. EventsFor(b, i) = IF PrepareBlock(b, i) THEN <<"prepare">> ELSE
                          IF DoBlock(b, i) THEN <<"do">> ELSE
                          IF EndBlock(b, i) THEN <<"over">> ELSE <<>>
    BY <1>1, <1>4, <1>6, <2>1 DEF EventsFor
  <2> QED
    BY <1>1, <1>3, <1>6, <2>2, ConstantTypes DEF t, i
<1> QED
  BY <1>5, <1>6

\* What has been offered fits the place of the feed, of which n is the next block to be
\* dealt with.
InStep(n) == LET t == Target(Current) IN
  \/ stage = "over" /\ (window = Current => t + AttestWindow < n)
  \/ window = Current /\ stage = "prepare" /\ t < n /\ n < t + MinAttestationWindow
  \/ window = Current /\ stage = "do" /\ t + MinAttestationWindow <= n /\ n <= t + AttestWindow

\* The target block's second event is still to come.
Halfway == /\ block = Target(Current) /\ window = Current /\ stage = "prepare"
           /\ outbox = IF MinAttestationWindow = 1 THEN <<"do">> ELSE <<"prepare">>

Ordered ==
  /\ window <= Current
  /\ pc \in {"handle", "offer"} \/ (switching /\ pc \in {"fetch", "refetch"}) => next = block + 1
  /\ pc \in {"fetch", "refetch"} => stage = "over"
  /\ pc \in {"setTarget", "receive"} => InStep(next)
  /\ pc = "handle" => InStep(block)
  /\ pc = "offer" => Halfway \/ (outbox = EventsFor(block, attestInfo) /\ InStep(block))

IOrder == HeaderType /\ Ordered /\ DoInsideWindow

\* What is known of an event when it is offered.
Due(kind) == LET t == Target(Current) IN
  /\ t <= block /\ block <= t + AttestWindow
  /\ \/ kind = "prepare" /\ (block = t \/ block + 1 < t + MinAttestationWindow)
     \/ kind = "do" /\ t + MinAttestationWindow <= block + 1 /\ block < t + AttestWindow
     \/ kind = "over" /\ block = t + AttestWindow
  /\ \/ window = Current /\ stage = "prepare"
     \/ window = Current /\ stage = "do" /\ kind \in {"do", "over"}
     \/ window < Current /\ stage = "over"

LEMMA OfferedIsDue ==
  ASSUME HeaderType, Ordered, OfferEvent
  PROVE  /\ Current \in Epochs /\ Due(Head(outbox))
         /\ \/ /\ outbox' = <<>> /\ pc' = "receive"
               /\ Head(outbox) = "prepare" => block + 1 < Target(Current) + MinAttestationWindow
            \/ /\ block = Target(Current) /\ Head(outbox) = "prepare" /\ pc' = "offer"
               /\ outbox' = IF MinAttestationWindow = 1 THEN <<"do">> ELSE <<"prepare">>
<1> DEFINE t == Target(Current)
           m == MinAttestationWindow
           out == EventsFor(block, Info(Current))
<1>1. /\ Current \in Epochs /\ attestInfo = Info(Current) /\ block \in Nat
      /\ poseidon \in [Epochs -> PoseidonHashes] /\ outbox # <<>>
      /\ window \in Nat /\ Current \in Nat /\ window <= Current
      /\ outbox' = Tail(outbox) /\ pc' = IF outbox' = <<>> THEN "receive" ELSE "offer"
      /\ Halfway \/ (outbox = EventsFor(block, attestInfo) /\ InStep(block))
  BY DEF HeaderType, Infos, Offering, TypeOK, Ordered, OfferEvent, Epochs, Blocks
<1>2. t \in Nat
  BY <1>1, WindowBounds
<1>3. CASE Halfway
  <2>1. /\ block = t /\ window = Current /\ stage = "prepare"
        /\ outbox = IF m = 1 THEN <<"do">> ELSE <<"prepare">>
    BY <1>3 DEF Halfway
  <2>2. outbox' = <<>> /\ pc' = "receive"
        /\ Head(outbox) = IF m = 1 THEN "do" ELSE "prepare"
    BY <1>1, <2>1
  <2>3. Due(Head(outbox))
    BY <1>2, <2>1, <2>2, ConstantTypes DEF Due
  <2> QED
    BY <1>1, <1>2, <2>1, <2>2, <2>3, ConstantTypes
<1>4. CASE outbox = EventsFor(block, attestInfo) /\ InStep(block)
  <2>1. outbox = out /\ t <= block /\ block <= t + AttestWindow
    BY <1>1, <1>2, <1>4, EventsOfBlock, ConstantTypes
  <2>2. InStep(block)
    BY <1>4
  <2> HIDE DEF t
  <2>3. \/ window = Current /\ stage = "prepare" /\ t < block /\ block < t + m
        \/ window = Current /\ stage = "do" /\ t + m <= block
        \/ window < Current /\ stage = "over"
    BY <1>1, <1>2, <2>1, <2>2, ConstantTypes DEF InStep, t
  <2>4. CASE block = t
    <3>1. outbox = IF m = 1 THEN <<"prepare", "do">> ELSE <<"prepare", "prepare">>
      BY <1>1, <2>1, <2>4, EventsOfBlock DEF t
    <3>2. Head(outbox) = "prepare" /\ pc' = "offer"
          /\ outbox' = IF m = 1 THEN <<"do">> ELSE <<"prepare">>
      BY <1>1, <3>1
    <3>3. Due("prepare")
      BY <1>2, <2>1, <2>3, <2>4, ConstantTypes DEF Due, t
    <3> QED
      BY <1>1, <2>4, <3>2, <3>3 DEF t
  <2>5. CASE t < block /\ block + 1 < t + m
    <3>1. outbox = <<"prepare">>
      BY <1>1, <2>1, <2>5, EventsOfBlock DEF t
    <3>2. Head(outbox) = "prepare" /\ outbox' = <<>> /\ pc' = "receive"
      BY <1>1, <3>1
    <3>3. ~(t + m <= block)
      BY <1>1, <1>2, <2>5, ConstantTypes
    <3>4. Due("prepare")
      BY <2>1, <2>3, <2>5, <3>3 DEF Due, t
    <3> QED
      BY <1>1, <2>5, <3>2, <3>4 DEF t
  <2>6. CASE t < block /\ t + m <= block + 1 /\ block < t + AttestWindow
    <3>1. outbox = <<"do">>
      BY <1>1, <2>1, <2>6, EventsOfBlock DEF t
    <3>2. Head(outbox) = "do" /\ outbox' = <<>> /\ pc' = "receive"
      BY <1>1, <3>1
    <3>3. Due("do")
      BY <1>1, <1>2, <2>1, <2>3, <2>6, ConstantTypes DEF Due, t
    <3> QED
      BY <1>1, <3>2, <3>3
  <2>7. CASE block = t + AttestWindow
    <3>1. outbox = <<"over">>
      BY <1>1, <2>1, <2>7, EventsOfBlock DEF t
    <3>2. Head(outbox) = "over" /\ outbox' = <<>> /\ pc' = "receive"
      BY <1>1, <3>1
    <3>3. Due("over")
      BY <1>1, <1>2, <2>1, <2>3, <2>7, ConstantTypes DEF Due, t
    <3> QED
      BY <1>1, <3>2, <3>3
  <2> QED
    BY <1>1, <1>2, <2>1, <2>4, <2>5, <2>6, <2>7, ConstantTypes
<1> QED
  BY <1>1, <1>3, <1>4

LEMMA OrderedInit == Init => Ordered /\ DoInsideWindow
<1>1. Init => Ordered
  BY DEF Init, Ordered, Current, NoEpoch
<1>2. Init => DoInsideWindow
  BY DEF Init, DoInsideWindow
<1> QED
  BY <1>1, <1>2

\* Every event is for a block of the epoch the processor works with.
LEMMA OfferedInEpoch ==
  ASSUME HeaderType, Ordered, OfferEvent
  PROVE  block \in Blocks /\ EpochAt(block).epochID = Current
<1> DEFINE t == Target(Current)
<1>1. Current \in Epochs /\ t <= block /\ block <= t + AttestWindow
  BY OfferedIsDue DEF Due
<1>2. /\ t \in Nat /\ End(Current - 1) <= t /\ t + AttestWindow < End(Current)
      /\ block \in Blocks /\ block \in Nat
  BY <1>1, WindowBounds DEF HeaderType, TypeOK, Blocks
<1>3. End(Current) \in Nat /\ End(Current - 1) \in Nat
  BY <1>1, EpochBounds
<1> HIDE DEF t
<1>4. End(Current - 1) <= block /\ block < End(Current)
  BY <1>1, <1>2, <1>3, ConstantTypes
<1> QED
  BY <1>1, <1>2, <1>4, EpochOfBlock

LEMMA OfferStep == HeaderType /\ Ordered /\ OfferEvent => Ordered' /\ DoInsideWindow'
<1> SUFFICES ASSUME HeaderType, Ordered, OfferEvent PROVE Ordered' /\ DoInsideWindow'
  OBVIOUS
<1> DEFINE t == Target(Current)
           m == MinAttestationWindow
           kind == Head(outbox)
<1>1. /\ Current \in Epochs /\ Due(kind)
      /\ \/ outbox' = <<>> /\ pc' = "receive" /\ (kind = "prepare" => block + 1 < t + m)
         \/ /\ block = t /\ kind = "prepare" /\ pc' = "offer"
            /\ outbox' = IF m = 1 THEN <<"do">> ELSE <<"prepare">>
  BY OfferedIsDue
<1>2. /\ t \in Nat /\ End(Current - 1) <= t /\ t + AttestWindow < End(Current)
      /\ block \in Nat /\ block \in Blocks /\ next = block + 1
      /\ poseidon \in [Epochs -> PoseidonHashes] /\ Current \in Nat
  BY <1>1, WindowBounds DEF HeaderType, TypeOK, Ordered, OfferEvent, Blocks, Epochs
<1>3. /\ window' = Current /\ stage' = kind
      /\ event' = [kind |-> kind, block |-> block, blockHash |-> targetHash]
      /\ UNCHANGED <<node, feed, fetch, infos, block>>
  BY DEF OfferEvent, Current
<1>4. Current' = Current /\ Target(Current)' = t /\ UNCHANGED <<next, block, poseidon, attestInfo>>
  BY <1>3 DEF Current, Target, node, feed, infos
<1>5. DoInsideWindow'
  <2>1. EpochAt(block).epochID = Current
    BY OfferedInEpoch
  <2>2. kind = "do" => t + m <= block + 1 /\ block < t + AttestWindow
    BY <1>1 DEF Due
  <2>3. event'.kind = kind /\ event'.block = block
    BY <1>3
  <2>4. EpochAt(event.block)' = EpochAt(block)
    BY <2>3 DEF EpochAt
  <2>5. Target(EpochAt(event.block).epochID)' = t
    BY <1>4, <2>1, <2>4 DEF Target
  <2> QED
    BY <1>2, <2>2, <2>3, <2>5, ConstantTypes DEF DoInsideWindow
<1>6. CASE pc' = "receive"
  <2>1. kind = "prepare" => block + 1 < t + m
    BY <1>1, <1>6
  <2>2. InStep(next)'
    <3> HIDE DEF t
    <3>1. /\ t <= block /\ block <= t + AttestWindow
          /\ \/ kind = "prepare" /\ block + 1 < t + m
             \/ kind = "do" /\ t + m <= block + 1 /\ block < t + AttestWindow
             \/ kind = "over" /\ block = t + AttestWindow
      BY <1>1, <2>1 DEF Due, t
    <3> QED
      BY <1>2, <1>3, <1>4, <3>1, ConstantTypes DEF InStep
  <2> QED
    BY <1>2, <1>3, <1>4, <1>5, <1>6, <2>2 DEF Ordered
<1>7. CASE pc' = "offer"
  <2>1. Halfway'
    BY <1>1, <1>3, <1>4, <1>7 DEF Halfway
  <2> QED
    BY <1>2, <1>3, <1>4, <1>5, <1>7, <2>1 DEF Ordered
<1> QED
  BY <1>1, <1>6, <1>7

\* At the first block after its epoch the window is over, or was not begun.
LEMMA OverByThen ==
  ASSUME HeaderType, Current \in Epochs, InStep(next), EpochIsOver(next, epochInfo)
  PROVE  stage = "over"
<1>1. Target(Current) \in Nat /\ Target(Current) + AttestWindow < End(Current)
  BY WindowBounds DEF HeaderType, TypeOK
<1>2. epochInfo.startingBlock = End(Current - 1) /\ epochInfo.epochLen = EpochLen
      /\ End(Current) = End(Current - 1) + EpochLen /\ End(Current) < Uint64Size
      /\ End(Current) \in Nat /\ End(Current - 1) \in Nat
  <2>1. epochInfo = Epoch(Current)
    BY DEF HeaderType, Infos, NoEpoch, Current, Epochs
  <2> QED
    BY <2>1, EpochBounds
<1>3. End(Current) <= next
  BY <1>2, ConstantTypes, NoWrap DEF EpochIsOver
<1>4. next \in Nat
  BY ConstantTypes DEF HeaderType, TypeOK
<1> QED
  BY <1>1, <1>2, <1>3, <1>4, ConstantTypes DEF InStep

LEMMA OrderedStep == IOrder /\ [Next]_vars => Ordered' /\ DoInsideWindow'
<1> SUFFICES ASSUME IOrder, [Next]_vars PROVE Ordered' /\ DoInsideWindow'
  OBVIOUS
<1>0. HeaderType /\ Ordered /\ DoInsideWindow
  BY DEF IOrder
<1>1. ASSUME UNCHANGED <<event, poseidon>> PROVE DoInsideWindow'
  BY <1>0, <1>1 DEF DoInsideWindow, Target, EpochAt
<1> USE DEF node, feed, fetch, infos, offered
<1>2. CASE NewHttpBlock \/ CloseFeed \/ UNCHANGED vars \/ FeedEnds
  <2>1. /\ UNCHANGED <<event, poseidon, epochInfo, attestInfo, window, stage, next, block, outbox,
                       switching>>
        /\ pc' = pc \/ pc' = "returned"
    BY <1>2 DEF NewHttpBlock, CloseFeed, vars, FeedEnds
  <2>2. Current' = Current /\ Target(Current)' = Target(Current)
    BY <2>1 DEF Current, Target
  <2> QED
    BY <1>0, <1>1, <2>1, <2>2 DEF Ordered, InStep, Halfway
<1>3. CASE Fetches
  <2>1. CASE Adopted
    <3>1. /\ stage = "over" /\ window <= Current /\ (switching => next = block + 1)
          /\ ~switching => epochInfo = NoEpoch
          /\ pc' = IF switching THEN "handle" ELSE "setTarget"
          /\ UNCHANGED <<node, feed, switching, block, outbox, offered>>
      BY <1>0, <2>1 DEF Adopted, Adopt, HeaderType, Infos, Ordered
    <3>2. Current' \in Nat /\ window \in Nat /\ window < Current'
      <4>1. Current' \in Epochs /\ window \in Nat
        BY <1>0, <2>1, AdoptedEpoch DEF HeaderType, TypeOK, Epochs
      <4>2. ~switching => window = 0
        BY <3>1, <4>1 DEF NoEpoch, Current
      <4> QED
        BY <1>0, <2>1, <3>1, <4>1, <4>2, AdoptedEpoch DEF Epochs
    <3>3. InStep(next)' /\ InStep(block)'
      BY <3>1, <3>2 DEF InStep
    <3> QED
      BY <1>1, <3>1, <3>2, <3>3 DEF Ordered
  <2>2. CASE Repeated
    <3>1. /\ UNCHANGED <<event, poseidon, epochInfo, attestInfo, window, stage, next, block, outbox,
                         switching>>
          /\ pc \in {"fetch", "refetch"} /\ pc' \in {"refetch", "failed"}
      BY <2>2 DEF Repeated
    <3>2. Current' = Current
      BY <3>1 DEF Current
    <3> QED
      BY <1>0, <1>1, <3>1, <3>2 DEF Ordered
  <2> QED
    BY <1>0, <1>3, <2>1, <2>2, RetriesLeft
<1>4. CASE SetTargetBlockHashIfExists
  <2>1. /\ UNCHANGED <<event, poseidon, epochInfo, attestInfo, window, stage, next, block, outbox,
                       switching>>
        /\ pc = "setTarget" /\ pc' = "receive"
    BY <1>4 DEF SetTargetBlockHashIfExists
  <2>2. Current' = Current /\ Target(Current)' = Target(Current)
    BY <2>1 DEF Current, Target
  <2> QED
    BY <1>0, <1>1, <2>1, <2>2 DEF Ordered, InStep
<1>5. CASE ReceiveHeader
  <2>1. /\ UNCHANGED <<event, poseidon, epochInfo, attestInfo, window, stage, outbox>>
        /\ pc = "receive" /\ block' = next /\ next' = next + 1
        /\ \/ pc' = "handle"
           \/ pc' = "fetch" /\ EpochIsOver(next, epochInfo)
    BY <1>5 DEF ReceiveHeader
  <2>2. Current' = Current /\ Target(Current)' = Target(Current)
    BY <2>1 DEF Current, Target
  <2>3. Current \in Epochs /\ InStep(next) /\ window <= Current
    BY <1>0, <2>1 DEF HeaderType, Infos, Ordered
  <2>4. InStep(block)'
    BY <2>1, <2>2, <2>3 DEF InStep
  <2>5. pc' = "fetch" => stage = "over"
    BY <1>0, <2>1, <2>3, OverByThen
  <2> QED
    BY <1>1, <2>1, <2>2, <2>3, <2>4, <2>5 DEF Ordered
<1>6. CASE Handle
  <2>1. /\ UNCHANGED <<event, poseidon, epochInfo, attestInfo, window, stage, next, block,
                       switching>>
        /\ pc = "handle" /\ outbox' = EventsFor(block, attestInfo)
        /\ pc' = IF outbox' = <<>> THEN "receive" ELSE "offer"
    BY <1>6 DEF Handle
  <2>2. Current' = Current /\ Target(Current)' = Target(Current)
    BY <2>1 DEF Current, Target
  <2>3. /\ Current \in Epochs /\ attestInfo = Info(Current) /\ InStep(block) /\ window <= Current
        /\ next = block + 1 /\ block \in Nat /\ poseidon \in [Epochs -> PoseidonHashes]
    BY <1>0, <2>1 DEF HeaderType, TypeOK, Infos, Ordered, Blocks
  <2>4. InStep(block)'
    BY <2>1, <2>2, <2>3 DEF InStep
  <2>5. outbox' = <<>> => InStep(next)'
    <3> SUFFICES ASSUME outbox' = <<>> PROVE InStep(next)'
      OBVIOUS
    <3> DEFINE t == Target(Current)
    <3>1. t \in Nat
      BY <2>3, WindowBounds
    <3>2. block < t \/ t + AttestWindow < block
      <4>1. <<"prepare", "do">> # <<>> /\ <<"prepare", "prepare">> # <<>> /\ <<"prepare">> # <<>>
            /\ <<"do">> # <<>> /\ <<"over">> # <<>>
        OBVIOUS
      <4>2. EventsFor(block, Info(Current)) = <<>>
        BY <2>1, <2>3
      <4>3. ~(block = t) /\ ~(t < block /\ block + 1 < t + MinAttestationWindow)
            /\ ~(t < block /\ t + MinAttestationWindow <= block + 1 /\ block < t + AttestWindow)
            /\ ~(block = t + AttestWindow)
        BY <2>3, <4>1, <4>2, EventsOfBlock
      <4> QED
        BY <2>3, <3>1, <4>3, ConstantTypes
    <3> HIDE DEF t
    <3>3. stage = "over" /\ (window = Current => t + AttestWindow < block + 1)
      BY <2>3, <3>1, <3>2, ConstantTypes DEF InStep, t
    <3> QED
      BY <2>1, <2>2, <2>3, <3>3 DEF InStep, t
  <2> QED
    BY <1>1, <2>1, <2>2, <2>3, <2>4, <2>5 DEF Ordered
<1>7. CASE OfferEvent
  BY <1>0, <1>7, OfferStep
<1> QED
  BY <1>2, <1>3, <1>4, <1>5, <1>6, <1>7 DEF Next, Goroutine, Fetches

LEMMA IOrderStep == IOrder /\ [Next]_vars => IOrder'
BY HeaderTypeStep, OrderedStep DEF IOrder

\* Every block a do event is offered for is followed by one in which the contract takes the
\* attestation (validator.go:253), whatever the two nodes show and however they disagree.
THEOREM DoInsideWindowAlways == Spec => []DoInsideWindow
<1>1. Init => IOrder
  BY HeaderTypeInit, OrderedInit DEF IOrder
<1>2. IOrder => DoInsideWindow
  BY DEF IOrder
<1> QED
  BY <1>1, <1>2, IOrderStep, PTL DEF Spec

LEMMA OrderInit == Init => Order!SenderInit
BY DEF Init, Order!SenderInit

LEMMA OrderStep == IOrder /\ [Next]_vars => [Order!SenderNext]_<<window, stage>>
<1> SUFFICES ASSUME IOrder, [Next]_vars PROVE Order!SenderNext \/ UNCHANGED <<window, stage>>
  OBVIOUS
<1>1. CASE OfferEvent
  <2> DEFINE kind == Head(outbox)
  <2>1. Current \in Epochs /\ Due(kind)
    BY <1>1, OfferedIsDue DEF IOrder
  <2>2. window' = Current /\ stage' = kind /\ window \in Nat /\ Current \in Nat
    BY <1>1, <2>1 DEF OfferEvent, Current, IOrder, HeaderType, TypeOK, Epochs
  <2>3. /\ \/ kind = "prepare" \/ kind = "do" \/ kind = "over"
        /\ \/ window = Current /\ stage = "prepare"
           \/ window = Current /\ stage = "do" /\ kind \in {"do", "over"}
           \/ window < Current /\ stage = "over"
    BY <2>1 DEF Due
  <2> HIDE DEF kind
  <2>4. Order!OfferPrepare(Current) \/ Order!OfferDo(Current) \/ Order!OfferEndOfWindow(Current)
    BY <2>2, <2>3 DEF Order!OfferPrepare, Order!OfferDo, Order!OfferEndOfWindow, Order!Offer
  <2> QED
    BY <2>1, <2>4 DEF Order!SenderNext
<1>2. CASE [Next]_vars /\ ~OfferEvent
  <2>1. CASE Fetches
    <3>1. Adopted \/ Repeated
      BY <2>1, RetriesLeft DEF IOrder
    <3> QED
      BY <3>1 DEF Adopted, Repeated, offered
  <2> QED
    BY <1>2, <2>1 DEF Next, Goroutine, Fetches, NewHttpBlock, CloseFeed, SetTargetBlockHashIfExists,
                      ReceiveHeader, FeedEnds, Handle, vars, offered
<1> QED
  BY <1>1, <1>2

\* A header processor sends what the dispatcher expects of a complete feed (module Sender):
\* prepare, do and one end of window, window after window (validator.go:234-261), with
\* any number of epochs missed in between.
THEOREM EventsInOrderAlways == Spec => EventsInOrder
<1>1. Init => IOrder
  BY HeaderTypeInit, OrderedInit DEF IOrder
<1> QED
  BY <1>1, OrderInit, OrderStep, IOrderStep, PTL DEF Spec, EventsInOrder, Order!SenderSpec, Order!sender
-----------------------------------------------------------------------------
(***************************************************************************)
(* The hash of the target block.  The feed must not be further ahead of    *)
(* the HTTP node than an epoch: a processor that starts later than that    *)
(* passes blocks of one epoch while it works with an earlier one.          *)
(***************************************************************************)
NearAssumption == HttpBehind \in Nat /\ HttpBehind <= EpochLen

\* Where the feed is in the epoch: in it, at the first block after it, or, with the first
\* header, in the next one.
Position ==
  /\ first <= next /\ first <= http + HttpBehind
  /\ pc \in {"fetch", "refetch", "setTarget"} /\ ~switching => next = first
  /\ pc \in {"setTarget", "receive", "handle", "offer"} =>
       \/ next <= End(Current)
       \/ pc \in {"setTarget", "receive"} /\ next = first /\ first < End(Current) + EpochLen
  /\ pc \in {"fetch", "refetch"} /\ switching =>
       /\ block < End(Current) + EpochLen
       /\ block = End(Current) \/ block = first

\* A target block that has been dealt with has left its hash.
Known == LET t == Target(Current) IN
  pc \in {"setTarget", "receive", "handle", "offer"} /\ first <= t /\ t < next
    => targetHash = Current \/ (pc = "handle" /\ t = block)

IHash == IOrder /\ Position /\ Known /\ HashIsOfTarget

LEMMA HashInit == NearAssumption /\ Init => Position /\ Known /\ HashIsOfTarget
<1> SUFFICES ASSUME NearAssumption, Init PROVE Position /\ Known /\ HashIsOfTarget
  OBVIOUS
<1>1. next = first /\ first <= http + HttpBehind /\ first \in Nat
  BY DEF Init, NearAssumption, Blocks
<1> QED
  BY <1>1 DEF Init, Position, Known, HashIsOfTarget

LEMMA EndOfEpoch ==
  ASSUME HeaderType, Current \in Epochs
  PROVE  EpochIsOver(next, epochInfo) <=> End(Current) <= next
<1>1. epochInfo.startingBlock = End(Current - 1) /\ epochInfo.epochLen = EpochLen
      /\ End(Current) = End(Current - 1) + EpochLen /\ End(Current) < Uint64Size
      /\ End(Current) \in Nat /\ End(Current - 1) \in Nat
  <2>1. epochInfo = Epoch(Current)
    BY DEF HeaderType, Infos, NoEpoch, Current, Epochs
  <2> QED
    BY <2>1, EpochBounds
<1> QED
  BY <1>1, ConstantTypes, NoWrap DEF EpochIsOver

LEMMA AdoptHash ==
  ASSUME NearAssumption, IHash, Adopted
  PROVE  Position' /\ Known' /\ HashIsOfTarget'
<1>0. HeaderType /\ Ordered /\ Position /\ HashIsOfTarget
  BY DEF IHash, IOrder
<1>1. /\ Current' \in Epochs /\ http < End(Current')
      /\ switching => Current \in Epochs /\ Current' = Current + 1
  BY <1>0, AdoptedEpoch
<1>2. /\ UNCHANGED <<node, feed, switching, block, outbox, offered>>
      /\ pc \in {"fetch", "refetch"} /\ pc' = IF switching THEN "handle" ELSE "setTarget"
  BY DEF Adopted, Adopt
<1>3. UNCHANGED <<http, poseidon, next, first, event>>
  BY <1>2 DEF node, feed, offered
<1>4. /\ http \in Nat /\ first \in Nat /\ next \in Nat /\ block \in Nat
      /\ poseidon \in [Epochs -> PoseidonHashes]
  BY <1>0, ConstantTypes DEF HeaderType, TypeOK, Blocks
<1>5. /\ End(Current') \in Nat /\ End(Current' - 1) \in Nat
      /\ End(Current') = End(Current' - 1) + EpochLen
  BY <1>1, EpochBounds
<1>6. Target(Current)' = Target(Current')
  BY <1>3 DEF Target
<1>7. Target(Current') \in Nat /\ End(Current' - 1) <= Target(Current')
  BY <1>1, <1>4, WindowBounds
<1>8. HashIsOfTarget'
  BY <1>0, <1>3 DEF HashIsOfTarget, Target, EpochAt
<1>9. CASE ~switching
  <2>1. /\ next = first /\ first <= http + HttpBehind
    BY <1>0, <1>2, <1>9 DEF Position
  <2>2. first < End(Current') + EpochLen
    BY <1>1, <1>4, <1>5, <2>1, ConstantTypes DEF NearAssumption
  <2>3. Position'
    BY <1>2, <1>3, <1>9, <2>1, <2>2, <1>4 DEF Position, End
  <2>4. Known'
    BY <1>3, <1>4, <1>6, <1>7, <2>1 DEF Known
  <2> QED
    BY <1>8, <2>3, <2>4
<1>10. CASE switching
  <2>1. /\ first <= next /\ first <= http + HttpBehind /\ next = block + 1
        /\ block < End(Current) + EpochLen /\ (block = End(Current) \/ block = first)
    BY <1>0, <1>2, <1>10 DEF Position, Ordered
  <2>2. Current' - 1 = Current
    BY <1>1, <1>10 DEF Epochs
  <2>3. next <= End(Current') /\ pc' = "handle"
    BY <1>2, <1>4, <1>5, <1>10, <2>1, <2>2
  <2>4. Position'
    BY <1>2, <1>3, <1>10, <2>1, <2>3 DEF Position, End
  <2>5. first <= Target(Current') /\ Target(Current') < next => Target(Current') = block
    BY <1>4, <1>5, <1>7, <2>1, <2>2
  <2>6. Known'
    BY <1>2, <1>3, <1>6, <2>3, <2>5 DEF Known
  <2> QED
    BY <1>8, <2>4, <2>6
<1> QED
  BY <1>9, <1>10

LEMMA HashStep == NearAssumption /\ IHash /\ [Next]_vars => Position' /\ Known' /\ HashIsOfTarget'
<1> SUFFICES ASSUME NearAssumption, IHash, [Next]_vars PROVE Position' /\ Known' /\ HashIsOfTarget'
  OBVIOUS
<1>0. HeaderType /\ Ordered /\ Position /\ Known /\ HashIsOfTarget
  BY DEF IHash, IOrder
<1>1. ASSUME UNCHANGED <<event, poseidon, first>> PROVE HashIsOfTarget'
  BY <1>0, <1>1 DEF HashIsOfTarget, Target, EpochAt
<1>2. /\ http \in Nat /\ first \in Nat /\ next \in Nat /\ block \in Nat
      /\ poseidon \in [Epochs -> PoseidonHashes] /\ targetHash \in Epochs \cup {ZeroHash}
  BY <1>0, ConstantTypes DEF HeaderType, TypeOK, Blocks
<1>3. pc \in {"setTarget", "receive", "handle", "offer"} =>
        /\ Current \in Epochs /\ targetHash \in {Current, ZeroHash}
        /\ epochInfo = Epoch(Current) /\ attestInfo = Info(Current)
        /\ attestInfo.targetBlock = Target(Current) /\ Target(Current) \in Nat
        /\ End(Current) \in Nat
  <2> SUFFICES ASSUME pc \in {"setTarget", "receive", "handle", "offer"}
               PROVE  /\ Current \in Epochs /\ targetHash \in {Current, ZeroHash}
                      /\ epochInfo = Epoch(Current) /\ attestInfo = Info(Current)
                      /\ attestInfo.targetBlock = Target(Current) /\ Target(Current) \in Nat
                      /\ End(Current) \in Nat
    OBVIOUS
  <2>1. /\ Current \in Epochs /\ targetHash \in {Current, ZeroHash}
        /\ epochInfo = Epoch(Current) /\ attestInfo = Info(Current)
    BY <1>0 DEF HeaderType, Infos
  <2> QED
    BY <1>2, <2>1, WindowBounds, EpochBounds
<1> USE DEF node, feed, fetch, infos, offered
<1>4. CASE NewHttpBlock
  <2>1. UNCHANGED <<event, poseidon, first, next, pc, switching, block, epochInfo, targetHash>>
        /\ http' = http + 1
    BY <1>4 DEF NewHttpBlock
  <2>2. Current' = Current /\ Target(Current)' = Target(Current)
    BY <2>1 DEF Current, Target
  <2>3. Position'
    BY <1>0, <1>2, <2>1, <2>2 DEF Position, End, NearAssumption
  <2>4. Known'
    BY <1>0, <2>1, <2>2 DEF Known
  <2> QED
    BY <1>1, <2>1, <2>3, <2>4
<1>5. CASE CloseFeed \/ UNCHANGED vars \/ FeedEnds
  <2>1. UNCHANGED <<event, poseidon, first, next, http, switching, block, epochInfo, targetHash>>
        /\ (pc' = pc \/ pc' = "returned")
    BY <1>5 DEF CloseFeed, vars, FeedEnds
  <2>2. Current' = Current /\ Target(Current)' = Target(Current)
    BY <2>1 DEF Current, Target
  <2>3. Position'
    BY <1>0, <2>1, <2>2 DEF Position, End
  <2>4. Known'
    BY <1>0, <2>1, <2>2 DEF Known
  <2> QED
    BY <1>1, <2>1, <2>3, <2>4
<1>6. CASE Fetches
  <2>1. CASE Adopted
    BY <2>1, AdoptHash
  <2>2. CASE Repeated
    <3>1. /\ UNCHANGED <<event, poseidon, first, next, http, switching, block, epochInfo>>
          /\ pc \in {"fetch", "refetch"} /\ pc' \in {"refetch", "failed"}
      BY <2>2 DEF Repeated
    <3>2. Current' = Current
      BY <3>1 DEF Current
    <3>3. Position'
      BY <1>0, <3>1, <3>2 DEF Position, End
    <3>4. Known'
      BY <3>1 DEF Known
    <3> QED
      BY <1>1, <3>1, <3>3, <3>4
  <2> QED
    BY <1>0, <1>6, <2>1, <2>2, RetriesLeft
<1>7. CASE SetTargetBlockHashIfExists
  <2>1. /\ UNCHANGED <<event, poseidon, first, next, http, switching, block, epochInfo>>
        /\ pc = "setTarget" /\ pc' = "receive"
        /\ targetHash' = Current \/ targetHash' = targetHash
    BY <1>7 DEF SetTargetBlockHashIfExists, Current
  <2>2. Current' = Current /\ Target(Current)' = Target(Current)
    BY <2>1 DEF Current, Target
  <2>3. Position'
    BY <1>0, <2>1, <2>2 DEF Position, End
  <2>4. Known'
    BY <1>0, <2>1, <2>2 DEF Known
  <2> QED
    BY <1>1, <2>1, <2>3, <2>4
<1>8. CASE ReceiveHeader
  <2>1. /\ UNCHANGED <<event, poseidon, first, http, epochInfo, targetHash>>
        /\ pc = "receive" /\ block' = next /\ next' = next + 1
        /\ \/ pc' = "handle" /\ ~EpochIsOver(next, epochInfo)
           \/ pc' = "fetch" /\ EpochIsOver(next, epochInfo) /\ switching' = TRUE
    BY <1>8 DEF ReceiveHeader
  <2>2. Current' = Current /\ Target(Current)' = Target(Current)
    BY <2>1 DEF Current, Target
  <2>3. /\ Current \in Epochs /\ End(Current) \in Nat /\ Target(Current) \in Nat
        /\ EpochIsOver(next, epochInfo) <=> End(Current) <= next
    BY <1>0, <1>3, <2>1, EndOfEpoch
  <2>4. /\ first <= next /\ first <= http + HttpBehind
        /\ next <= End(Current) \/ (next = first /\ first < End(Current) + EpochLen)
    BY <1>0, <2>1 DEF Position
  <2>5. Position'
    <3>1. End(Current)' = End(Current)
      BY <2>2 DEF End
    <3>2. CASE pc' = "handle"
      BY <1>2, <2>1, <2>3, <2>4, <3>1, <3>2 DEF Position
    <3>3. CASE pc' = "fetch"
      <4>1. switching' /\ End(Current) <= next
        BY <2>1, <2>3, <3>3
      <4>2. /\ next < End(Current) + EpochLen
            /\ next = End(Current) \/ next = first
        BY <1>2, <2>3, <2>4, <4>1, ConstantTypes
      <4> QED
        BY <1>2, <2>1, <2>4, <3>1, <3>3, <4>1, <4>2 DEF Position
    <3> QED
      BY <2>1, <3>2, <3>3
  <2>6. Known'
    <3> SUFFICES ASSUME pc' = "handle", first <= Target(Current), Target(Current) < next + 1,
                        Target(Current) # next
                 PROVE  targetHash = Current
      BY <2>1, <2>2 DEF Known
    <3>1. Target(Current) < next
      BY <1>2, <2>3
    <3> QED
      BY <1>0, <2>1, <3>1 DEF Known
  <2> QED
    BY <1>1, <2>1, <2>5, <2>6
<1>9. CASE Handle
  <2>1. /\ UNCHANGED <<event, poseidon, first, next, http, switching, block, epochInfo>>
        /\ pc = "handle" /\ pc' \in {"receive", "offer"}
        /\ targetHash' = IF block = attestInfo.targetBlock THEN Current ELSE targetHash
    BY <1>9 DEF Handle, Current
  <2>2. Current' = Current /\ Target(Current)' = Target(Current)
    BY <2>1 DEF Current, Target
  <2>3. Position'
    BY <1>0, <2>1, <2>2 DEF Position, End
  <2>4. Known'
    BY <1>0, <1>3, <2>1, <2>2 DEF Known
  <2> QED
    BY <1>1, <2>1, <2>3, <2>4
<1>10. CASE OfferEvent
  <2>1. /\ UNCHANGED <<poseidon, first, next, http, switching, block, epochInfo, targetHash>>
        /\ pc = "offer" /\ pc' \in {"receive", "offer"}
        /\ event'.block = block /\ event'.blockHash = targetHash
    BY <1>10 DEF OfferEvent
  <2>2. Current' = Current /\ Target(Current)' = Target(Current)
    BY <2>1 DEF Current, Target
  <2>3. Position'
    BY <1>0, <2>1, <2>2 DEF Position, End
  <2>4. Known'
    BY <1>0, <2>1, <2>2 DEF Known
  <2>5. /\ EpochAt(block).epochID = Current /\ Target(Current) <= block
        /\ next = block + 1 /\ targetHash \in {Current, ZeroHash} /\ Target(Current) \in Nat
    BY <1>0, <1>3, <1>10, <2>1, OfferedInEpoch, OfferedIsDue DEF Due, Ordered
  <2>6. first <= Target(Current) => targetHash = Current
    <3>1. Target(Current) < next
      BY <1>2, <2>5
    <3> QED
      BY <1>0, <2>1, <3>1 DEF Known
  <2>7. EpochAt(event.block)' = EpochAt(block)
    BY <2>1 DEF EpochAt
  <2>8. Target(EpochAt(event.block).epochID)' = Target(Current)
    BY <2>2, <2>5, <2>7, <2>1 DEF Target
  <2>9. HashIsOfTarget'
    BY <2>1, <2>5, <2>6, <2>7, <2>8 DEF HashIsOfTarget
  <2> QED
    BY <2>3, <2>4, <2>9
<1> QED
  BY <1>4, <1>5, <1>6, <1>7, <1>8, <1>9, <1>10 DEF Next, Goroutine, Fetches

\* An event never carries the hash of another epoch's target block, and it carries the hash
\* when this subscription delivered the target block (validator.go:234, 322), if the feed is
\* at most an epoch ahead of the HTTP node.
THEOREM HashIsOfTargetAlways == NearAssumption /\ Spec => []HashIsOfTarget
<1>1. NearAssumption /\ Init => IHash
  BY HeaderTypeInit, OrderedInit, HashInit DEF IHash, IOrder
<1>2. NearAssumption /\ IHash /\ [Next]_vars => IHash'
  BY IOrderStep, HashStep DEF IHash
<1>3. IHash => HashIsOfTarget
  BY DEF IHash
<1>4. CASE NearAssumption
  BY <1>1, <1>2, <1>3, <1>4, PTL DEF Spec
<1>5. CASE ~NearAssumption
  BY <1>5
<1> QED
  BY <1>4, <1>5
=============================================================================
