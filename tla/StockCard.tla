----------------------------- MODULE StockCard -----------------------------
(***************************************************************************)
(* What the store promises about a lot, with no document, indent or user   *)
(* in sight: stock comes in with a quantity, only stock that is on the     *)
(* card can leave it, and each withdrawal is written down.  The modules    *)
(* of the goods receipts and of the department issue are shown to          *)
(* implement this specification.                                           *)
(***************************************************************************)
EXTENDS Naturals

CONSTANT Lots             \* the rows of stock_production_lot

VARIABLES received,       \* quantity that ever entered the lot
          onhand,         \* quantity still in the lot
          withdrawn       \* quantity written down as withdrawn from it

cardVars == <<received, onhand, withdrawn>>

CardTypeOK == /\ received  \in [Lots -> Nat]
              /\ onhand    \in [Lots -> Nat]
              /\ withdrawn \in [Lots -> Nat]

CardInit == /\ CardTypeOK
            /\ received = onhand
            /\ withdrawn = [l \in Lots |-> 0]

\* Stock enters any number of cards at once.
Receive == /\ received' \in [Lots -> Nat]
           /\ \A l \in Lots : received[l] <= received'[l]
           /\ onhand' = [l \in Lots |-> onhand[l] + (received'[l] - received[l])]
           /\ UNCHANGED withdrawn

\* Stock leaves any number of cards at once, never more than a card holds.
Withdraw == /\ onhand' \in [Lots -> Nat]
            /\ \A l \in Lots : onhand'[l] <= onhand[l]
            /\ withdrawn' = [l \in Lots |-> withdrawn[l] + (onhand[l] - onhand'[l])]
            /\ UNCHANGED received

CardNext == Receive \/ Withdraw

CardSpec == CardInit /\ [][CardNext]_cardVars

\* The promise itself: nothing is lost and nothing leaves twice.
CardBalanced == \A l \in Lots : onhand[l] + withdrawn[l] = received[l]
=============================================================================
