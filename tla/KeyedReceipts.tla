---------------------------- MODULE KeyedReceipts ----------------------------
(***************************************************************************)
(* What apply_receipt_line promises the receipt service (its docstring and *)
(* the header of receipt_service.py): a shipped line is added to its       *)
(* item's count at most once, and when it is added the count rises by      *)
(* exactly the shipped quantity.  Nothing is said of the other movements,  *)
(* except that each touches one item and no receipt.                       *)
(***************************************************************************)
EXTENDS Integers

CONSTANTS Item, Quantity, Target, ReceiptKey

VARIABLES
  count,     \* current_count of each item
  received   \* the lines added so far: key, item and quantity

ReceiptLine == [key: ReceiptKey, item: Item, quantity: Quantity]

Receive(line) ==
  /\ \A old \in received : old.key # line.key
  /\ received' = received \union {line}
  /\ count' = [count EXCEPT ![line.item] = @ + line.quantity]

OtherMovement(i) ==
  /\ count' \in [Item -> Int]
  /\ \A j \in Item \ {i} : count'[j] = count[j]
  /\ UNCHANGED received

Init ==
  /\ count \in [Item -> Target]
  /\ received = {}

Next ==
  \/ \E line \in ReceiptLine : Receive(line)
  \/ \E i \in Item : OtherMovement(i)

Spec == Init /\ [][Next]_<<count, received>>
=============================================================================
