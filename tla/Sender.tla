------------------------------- MODULE Sender -------------------------------
(***************************************************************************)
(* The order in which ProcessBlockHeaders offers its events to the         *)
(* dispatcher (validator/validator.go:234-261), without the blocks they    *)
(* are computed from.  In the window of an epoch there are PrepareAttest   *)
(* events, then DoAttest events, then one EndOfWindow; windows come in the *)
(* order of their epochs.  HeaderProcessor is shown to keep to this order, *)
(* and Dispatcher relies on it.                                            *)
(*                                                                         *)
(* That is a "complete" feed.  One with "gaps" may end with any event of a *)
(* window and go on with a later one: EndOfWindow is offered for the exact *)
(* block that ends the window and for no other (validator.go:259), and a   *)
(* new subscription does not ask for the blocks missed (165-178).  And     *)
(* where processors overlap, the one of a new subscription with one left   *)
(* behind (150-164), any event may follow any other.                       *)
(***************************************************************************)
EXTENDS Integers

CONSTANTS Feed,      \* "complete", "gaps" or "overlapping"
          Windows    \* the epochs events may belong to

ASSUME FeedAssumption == Feed \in {"complete", "gaps", "overlapping"}
ASSUME WindowsAssumption == Windows \subseteq Nat \ {0}

VARIABLES window,    \* the epoch of the last event, 0 before the first one
          stage      \* what the last event was

sender == <<window, stage>>
Stages == {"prepare", "do", "over"}

SenderTypeOK == window \in Windows \cup {0} /\ stage \in Stages

SenderInit == window = 0 /\ stage = "over"

\* An event of window w, of the kind that leads to stage "to", offered while w
\* is at one of the stages in "from" or has not begun.
Offer(w, from, to) == /\ \/ w = window /\ stage \in from
                         \/ w > window /\ (stage = "over" \/ Feed = "gaps")
                         \/ Feed = "overlapping"
                      /\ window' = w
                      /\ stage' = to

OfferPrepare(w) == Offer(w, {"prepare"}, "prepare")
OfferDo(w) == Offer(w, {"prepare", "do"}, "do")
OfferEndOfWindow(w) == Offer(w, {"prepare", "do"}, "over")

SenderNext == \E w \in Windows : OfferPrepare(w) \/ OfferDo(w) \/ OfferEndOfWindow(w)

SenderSpec == SenderInit /\ [][SenderNext]_sender
=============================================================================
