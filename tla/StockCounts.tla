---------------------------- MODULE StockCounts ----------------------------
(***************************************************************************)
(* Stock counts: inventory/admin/counts.service.ts and `applyStockCount`   *)
(* of inventory/stock.service.ts.                                          *)
(*                                                                         *)
(* Only `apply` takes a lock.  Every other handler finds the sheet first   *)
(* (`find`, an unlocked read), decides on the row as it read it and writes *)
(* later: each is two steps here, with the row it read kept in between.    *)
(* The shelf is on_hand; who else moves it is Stock's matter.              *)
(***************************************************************************)
EXTENDS Integers, FiniteSets

CONSTANTS
  Sheet, Branch, Variant,
  Handler, Idle,     \* requests between their read and their write
  Uncounted,         \* a line's counted_quantity before anybody reached it
  NoBranch,
  MaxQty

ASSUME StockCountsAssumption ==
  /\ MaxQty \in Nat
  /\ Uncounted \notin 0 .. MaxQty
  /\ IsFiniteSet(Variant)

VARIABLES
  sheet,    \* inventory_stockcount with its lines
  shelf,    \* on_hand
  ledger,   \* adjustments written for each sheet, saturating at MaxLedger
  handler

vars == <<sheet, shelf, ledger, handler>>

MaxLedger == 2

Status == {"NONE", "COUNTING", "APPLIED", "CANCELLED", "DELETED"}

SheetRow ==
  [status : Status, branch : Branch \cup {NoBranch},
   counted : [Variant -> 0 .. MaxQty \cup {Uncounted}]]

Existing(s) == sheet[s].status \in {"COUNTING", "APPLIED", "CANCELLED"}

(* `create`: a sheet for the branch, nothing counted on it yet.            *)
Create(s, b) ==
  /\ sheet[s].status = "NONE"
  /\ sheet' = [sheet EXCEPT
                 ![s] = [status |-> "COUNTING", branch |-> b,
                         counted |-> [v \in Variant |-> Uncounted]]]
  /\ UNCHANGED <<shelf, ledger, handler>>

(* `find`, and the check each handler makes on what it read: figures are   *)
(* recorded only while COUNTING, an APPLIED sheet is not cancelled.        *)
Admits(action, status) ==
  CASE action = "record" -> status = "COUNTING"
    [] action = "cancel" -> status # "APPLIED"
    [] OTHER -> TRUE

Find(h, s, action) ==
  /\ handler[h] = Idle
  /\ Existing(s)
  /\ Admits(action, sheet[s].status)
  /\ handler' = [handler EXCEPT
                   ![h] = [action |-> action, sheet |-> s, row |-> sheet[s]]]
  /\ UNCHANGED <<sheet, shelf, ledger>>

Handling(h, action) ==
  /\ handler[h] # Idle
  /\ handler[h].action = action
  /\ handler' = [handler EXCEPT ![h] = Idle]
  /\ UNCHANGED <<shelf, ledger>>

(* `record`: figures onto the sheet's lines.                               *)
Record(h, v, n) ==
  /\ Handling(h, "record")
  /\ LET s == handler[h].sheet IN
       sheet' = IF Existing(s) THEN [sheet EXCEPT ![s].counted[v] = n] ELSE sheet

(* `cancel`: the status, whatever it is by now.                            *)
Cancel(h) ==
  /\ Handling(h, "cancel")
  /\ LET s == handler[h].sheet IN
       sheet' = IF Existing(s) THEN [sheet EXCEPT ![s].status = "CANCELLED"]
                ELSE sheet

(* `update`: the branch it is given, and every other column of the sheet   *)
(* as it was read (D126).                                                  *)
Update(h, b) ==
  /\ Handling(h, "update")
  /\ LET s == handler[h].sheet IN
       sheet' = IF Existing(s)
                THEN [sheet EXCEPT ![s].status = handler[h].row.status,
                                   ![s].branch = b]
                ELSE sheet

(* `destroy`: the sheet and its lines, applied or not.                     *)
Destroy(h) ==
  /\ Handling(h, "destroy")
  /\ sheet' = [sheet EXCEPT ![handler[h].sheet].status = "DELETED"]

(* Slips: the figure counted added to the shelf; a sheet applied with      *)
(* nothing counted on it.                                                  *)
ApplyAdded(s) ==
  /\ sheet[s].status = "COUNTING"
  /\ LET row == sheet[s]
         reached == {v \in Variant : row.counted[v] # Uncounted}
     IN  /\ reached # {}
         /\ shelf' = [shelf EXCEPT
                        ![row.branch] = [v \in Variant |->
                          IF v \in reached THEN @[v] + row.counted[v] ELSE @[v]]]
  /\ sheet' = [sheet EXCEPT ![s].status = "APPLIED"]
  /\ UNCHANGED <<handler, ledger>>

ApplyUncounted(s) ==
  /\ sheet[s].status = "COUNTING"
  /\ LET row == sheet[s]
         reached == {v \in Variant : row.counted[v] # Uncounted}
     IN  shelf' = [shelf EXCEPT
                     ![row.branch] = [v \in Variant |->
                       IF v \in reached THEN row.counted[v] ELSE @[v]]]
  /\ sheet' = [sheet EXCEPT ![s].status = "APPLIED"]
  /\ UNCHANGED <<handler, ledger>>

(* `applyStockCount`, under the sheet's lock: the counted lines become     *)
(* adjustments, a line nobody reached is left alone.  (Whether the branch  *)
(* has had the variant in is asked in Stock.)                              *)
Apply(s) ==
  /\ sheet[s].status = "COUNTING"
  /\ LET row == sheet[s]
         reached == {v \in Variant : row.counted[v] # Uncounted}
         moved == {v \in reached : row.counted[v] # shelf[row.branch][v]}
     IN  /\ reached # {}
         /\ shelf' = [shelf EXCEPT
                        ![row.branch] = [v \in Variant |->
                          IF v \in reached THEN row.counted[v] ELSE @[v]]]
         /\ ledger' = [ledger EXCEPT
                         ![s] = IF @ + Cardinality(moved) > MaxLedger
                                THEN MaxLedger ELSE @ + Cardinality(moved)]
  /\ sheet' = [sheet EXCEPT ![s].status = "APPLIED"]
  /\ UNCHANGED handler

(* A sale, a receipt, a transfer meanwhile.                                *)
Move(b, v, n) ==
  /\ n # shelf[b][v]
  /\ shelf' = [shelf EXCEPT ![b][v] = n]
  /\ UNCHANGED <<sheet, ledger, handler>>

Init ==
  /\ sheet = [s \in Sheet |-> [status |-> "NONE", branch |-> NoBranch,
                               counted |-> [v \in Variant |-> Uncounted]]]
  /\ shelf = [b \in Branch |-> [v \in Variant |-> 0]]
  /\ ledger = [s \in Sheet |-> 0]
  /\ handler = [h \in Handler |-> Idle]

Next ==
  \/ \E s \in Sheet, b \in Branch : Create(s, b)
  \/ \E h \in Handler, s \in Sheet,
        action \in {"record", "cancel", "update", "destroy"} : Find(h, s, action)
  \/ \E h \in Handler, v \in Variant, n \in 0 .. MaxQty : Record(h, v, n)
  \/ \E h \in Handler : Cancel(h)
  \/ \E h \in Handler, b \in Branch : Update(h, b)
  \/ \E h \in Handler : Destroy(h)
  \/ \E s \in Sheet : Apply(s)
  \/ \E b \in Branch, v \in Variant, n \in 0 .. MaxQty : Move(b, v, n)

Spec == Init /\ [][Next]_vars

-----------------------------------------------------------------------------
(* Properties.                                                             *)

(* Every variable keeps its type.                                          *)
TypeOK ==
  /\ sheet \in [Sheet -> SheetRow]
  /\ shelf \in [Branch -> [Variant -> 0 .. MaxQty]]
  /\ ledger \in [Sheet -> 0 .. MaxLedger]
  /\ handler \in
       [Handler ->
          [action : {"record", "cancel", "update", "destroy"}, sheet : Sheet,
           row : SheetRow] \cup {Idle}]

(* business-rules 1.8: an applied count is history, neither re-counted nor *)
(* cancelled.  A sheet whose adjustments are in the ledger reads APPLIED   *)
(* for as long as it exists.                                               *)
AppliedIsHistory ==
  \A s \in Sheet : ledger[s] > 0 => sheet[s].status \in {"APPLIED", "DELETED"}

(* Whatever stale reads meet, the stock was really counted: no sheet reads *)
(* APPLIED with nothing counted on it, and stock is adjusted from a sheet  *)
(* only when somebody reached one of its lines.                            *)
NothingAppliedUncounted ==
  \A s \in Sheet :
    sheet[s].status = "APPLIED" \/ ledger[s] > 0
      => \E v \in Variant : sheet[s].counted[v] # Uncounted
=============================================================================
