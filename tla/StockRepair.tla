---------------------------- MODULE StockRepair ----------------------------
(***************************************************************************)
(* `verify-inventory --fix` on a shop that is trading: stockDrift and      *)
(* repairStockDrift of inventory/integrity.ts, as cli/verify.ts runs them  *)
(* in one READ COMMITTED transaction.  The ledger's sum and the cached     *)
(* figure are read by two statements, each with a snapshot of its own, and *)
(* the repair locks the row only afterwards.                               *)
(*                                                                         *)
(* One shelf and its on_hand; `reserved` is treated in the same way.       *)
(***************************************************************************)
EXTENDS Integers

CONSTANTS
  MaxOnHand,
  MaxEntries     \* ledger entries written for this shelf, at most

VARIABLES
  onHand,        \* the cached column
  ledger,        \* the sum of the shelf's entries
  entries,       \* how many there are
  outside,       \* something wrote the column without an entry
  command        \* where verify-inventory is, and the sum it read

vars == <<onHand, ledger, entries, outside, command>>

Idle == [at |-> "idle", sum |-> 0]

(* Any method of StockService: cache and ledger moved together.            *)
Move(n) ==
  /\ n # onHand /\ entries < MaxEntries
  /\ onHand' = n
  /\ ledger' = ledger + (n - onHand)
  /\ entries' = entries + 1
  /\ UNCHANGED <<outside, command>>

(* What the command is for: the column written by something else.          *)
WriteOutside(n) ==
  /\ n # onHand
  /\ onHand' = n
  /\ outside' = TRUE
  /\ UNCHANGED <<ledger, entries, command>>

ReadLedger ==
  /\ command.at = "idle"
  /\ command' = [at |-> "summed", sum |-> ledger]
  /\ UNCHANGED <<onHand, ledger, entries, outside>>

ReadCache ==
  /\ command.at = "summed"
  /\ command' = IF onHand # command.sum THEN [command EXCEPT !.at = "drifted"]
                ELSE Idle
  /\ UNCHANGED <<onHand, ledger, entries, outside>>

(* The row locked, and what the sum read earlier does not explain entered; *)
(* the column is left alone.                                               *)
Repair ==
  /\ command.at = "drifted"
  /\ ledger' = ledger + (onHand - command.sum)
  /\ entries' = IF onHand # command.sum THEN entries + 1 ELSE entries
  /\ command' = Idle
  /\ UNCHANGED <<onHand, outside>>

Init ==
  /\ onHand = 0 /\ ledger = 0 /\ entries = 0
  /\ outside = FALSE
  /\ command = Idle

Next ==
  \/ \E n \in 0 .. MaxOnHand : Move(n)
  \/ \E n \in 0 .. MaxOnHand : WriteOutside(n)
  \/ ReadLedger
  \/ ReadCache
  \/ Repair

Spec == Init /\ [][Next]_vars

(* Ledger and cache part company only when something wrote stock outside   *)
(* the stock service - what the command tells whoever runs it.             *)
DriftIsFromOutside == onHand # ledger => outside
=============================================================================
