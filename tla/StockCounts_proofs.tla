------------------------- MODULE StockCounts_proofs -------------------------
(***************************************************************************)
(* Proofs about StockCounts, for any sheets, branches, handlers and finite *)
(* set of variants, and any figure a line may hold.                        *)
(***************************************************************************)
EXTENDS StockCounts, TLAPS, FiniteSetTheorems

(* Somebody reached a line of the sheet.                                   *)
Reached(s) == \E v \in Variant : sheet[s].counted[v] # Uncounted

(* What a handler read, it read of a sheet that was there, and that has    *)
(* been there since: a sheet read as applied was counted, and no write of  *)
(* another handler makes it uncounted.                                     *)
ReadInv ==
  \A h \in Handler : handler[h] # Idle =>
    /\ sheet[handler[h].sheet].status # "NONE"
    /\ handler[h].row.status \in {"COUNTING", "APPLIED", "CANCELLED"}
    /\ handler[h].row.status = "APPLIED" => Reached(handler[h].sheet)

SheetsInv ==
  \A s \in Sheet :
    /\ sheet[s].status = "NONE" => ledger[s] = 0
    /\ sheet[s].status = "APPLIED" \/ ledger[s] > 0 => Reached(s)

Inv == TypeOK /\ ReadInv /\ SheetsInv

Jobs ==
  [action : {"record", "cancel", "update", "destroy"}, sheet : Sheet,
   row : SheetRow]

(* What a step leaves of the invariant when a sheet reached stays reached, *)
(* one that was there stays there, and no request reads anything new.      *)
LEMMA SheetsWritten ==
  ASSUME Inv, TypeOK',
         \A h \in Handler : handler'[h] = Idle \/ handler'[h] = handler[h],
         \A s \in Sheet : sheet[s].status # "NONE" => sheet'[s].status # "NONE",
         \A s \in Sheet : Reached(s) => Reached(s)',
         \A s \in Sheet : sheet'[s].status = "NONE" => ledger'[s] = 0,
         \A s \in Sheet : sheet'[s].status = "APPLIED" \/ ledger'[s] > 0 => Reached(s)'
  PROVE  Inv'
<1>1. SheetsInv'
  BY DEF SheetsInv
<1>2. \A h \in Handler : handler[h] # Idle => handler[h].sheet \in Sheet
  BY DEF Inv, TypeOK
<1>3. ReadInv'
  BY <1>2 DEF ReadInv, Inv
<1> QED
  BY <1>1, <1>3 DEF Inv

LEMMA InitInv == Init => Inv
BY StockCountsAssumption
   DEF Init, Inv, TypeOK, ReadInv, SheetsInv, SheetRow, Status, Reached, MaxLedger

LEMMA CreateKeeps ==
  ASSUME Inv, NEW s \in Sheet, NEW b \in Branch, Create(s, b)
  PROVE  Inv'
<1> DEFINE row == [status |-> "COUNTING", branch |-> b,
                   counted |-> [v \in Variant |-> Uncounted]]
<1>1. /\ row \in SheetRow /\ row.status = "COUNTING"
  BY DEF SheetRow, Status
<1>2. /\ sheet' = [sheet EXCEPT ![s] = row] /\ UNCHANGED <<shelf, ledger, handler>>
      /\ sheet[s].status = "NONE" /\ sheet \in [Sheet -> SheetRow]
  BY DEF Create, Inv, TypeOK
<1> HIDE DEF row
<1>3. sheet'[s] = row /\ (\A t \in Sheet : t # s => sheet'[t] = sheet[t])
  BY <1>2
<1>4. TypeOK'
  BY <1>1, <1>2 DEF Inv, TypeOK
<1>5. ~Reached(s) \/ ledger[s] = 0
  BY <1>2 DEF Inv, SheetsInv
<1>6. SheetsInv'
  BY <1>1, <1>2, <1>3 DEF SheetsInv, Inv, TypeOK, Reached
<1>7. \A h \in Handler : handler[h] # Idle => handler[h].sheet \in Sheet /\ handler[h].sheet # s
  BY <1>2 DEF Inv, TypeOK, ReadInv
<1>8. ReadInv'
  BY <1>2, <1>3, <1>7 DEF ReadInv, Inv, Reached
<1> QED
  BY <1>4, <1>6, <1>8 DEF Inv

LEMMA FindKeeps ==
  ASSUME Inv, NEW h \in Handler, NEW s \in Sheet,
         NEW action \in {"record", "cancel", "update", "destroy"}, Find(h, s, action)
  PROVE  Inv'
<1> DEFINE job == [action |-> action, sheet |-> s, row |-> sheet[s]]
<1>1. sheet \in [Sheet -> SheetRow] /\ sheet[s] \in SheetRow
  BY DEF Inv, TypeOK
<1>2. job \in Jobs /\ job.sheet = s /\ job.row = sheet[s]
  BY <1>1 DEF Jobs
<1>3. /\ handler' = [handler EXCEPT ![h] = job] /\ UNCHANGED <<sheet, shelf, ledger>>
      /\ sheet[s].status \in {"COUNTING", "APPLIED", "CANCELLED"}
      /\ handler \in [Handler -> Jobs \cup {Idle}]
  BY DEF Find, Existing, Inv, TypeOK, Jobs
<1> HIDE DEF job
<1>4. handler'[h] = job /\ (\A g \in Handler : g # h => handler'[g] = handler[g])
      /\ handler' \in [Handler -> Jobs \cup {Idle}]
  BY <1>2, <1>3
<1>5. TypeOK'
  BY <1>3, <1>4 DEF Inv, TypeOK, Jobs
<1>6. SheetsInv'
  BY <1>3 DEF Inv, SheetsInv, Reached
<1>7. ReadInv'
  BY <1>2, <1>3, <1>4 DEF Inv, ReadInv, SheetsInv, Reached
<1> QED
  BY <1>5, <1>6, <1>7 DEF Inv

(* A handler that writes: its request is over, and what it read is known.  *)
LEMMA Handled ==
  ASSUME Inv, NEW h \in Handler, NEW action, Handling(h, action)
  PROVE  /\ handler[h] \in Jobs /\ handler[h].sheet \in Sheet
         /\ handler[h].row.status \in {"COUNTING", "APPLIED", "CANCELLED"}
         /\ sheet[handler[h].sheet].status # "NONE"
         /\ handler[h].row.status = "APPLIED" => Reached(handler[h].sheet)
         /\ handler' \in [Handler -> Jobs \cup {Idle}]
         /\ \A g \in Handler : handler'[g] = Idle \/ handler'[g] = handler[g]
         /\ UNCHANGED <<shelf, ledger>>
         /\ sheet \in [Sheet -> SheetRow]
<1>1. handler \in [Handler -> Jobs \cup {Idle}] /\ sheet \in [Sheet -> SheetRow]
  BY DEF Inv, TypeOK, Jobs
<1>2. handler[h] # Idle /\ handler' = [handler EXCEPT ![h] = Idle] /\ UNCHANGED <<shelf, ledger>>
  BY DEF Handling
<1>3. handler[h] \in Jobs /\ handler[h].sheet \in Sheet
  BY <1>1, <1>2 DEF Jobs
<1> QED
  BY <1>1, <1>2, <1>3 DEF Inv, ReadInv

(* One sheet s written: a status it may have, its lines reached or not as  *)
(* they were.                                                              *)
LEMMA OneSheet ==
  ASSUME Inv, NEW s \in Sheet, NEW row \in SheetRow, sheet[s].status # "NONE",
         sheet' = [sheet EXCEPT ![s] = row] \/ sheet' = sheet,
         row.status # "NONE",
         Reached(s) => \E v \in Variant : row.counted[v] # Uncounted,
         row.status = "APPLIED" => \E v \in Variant : row.counted[v] # Uncounted,
         handler' \in [Handler -> Jobs \cup {Idle}],
         \A h \in Handler : handler'[h] = Idle \/ handler'[h] = handler[h],
         UNCHANGED <<shelf, ledger>>
  PROVE  Inv'
<1>1. sheet \in [Sheet -> SheetRow] /\ sheet' \in [Sheet -> SheetRow]
  BY DEF Inv, TypeOK
<1>2. TypeOK'
  BY <1>1 DEF Inv, TypeOK, Jobs
<1>3. CASE sheet' = sheet
  BY <1>2, <1>3, SheetsWritten DEF Inv, SheetsInv, Reached
<1>4. CASE sheet' = [sheet EXCEPT ![s] = row]
  <2>1. sheet'[s] = row /\ (\A t \in Sheet : t # s => sheet'[t] = sheet[t])
    BY <1>1, <1>4
  <2>2. \A t \in Sheet : Reached(t) => Reached(t)'
    BY <2>1 DEF Reached
  <2>3. Reached(s)' <=> \E v \in Variant : row.counted[v] # Uncounted
    BY <2>1 DEF Reached
  <2>4. \A t \in Sheet : sheet'[t].status = "APPLIED" \/ ledger'[t] > 0 => Reached(t)'
    BY <2>1, <2>2, <2>3 DEF Inv, SheetsInv
  <2>5. \A t \in Sheet : sheet'[t].status = "NONE" => ledger'[t] = 0
    BY <2>1 DEF Inv, SheetsInv
  <2>6. \A t \in Sheet : sheet[t].status # "NONE" => sheet'[t].status # "NONE"
    BY <2>1
  <2> QED
    BY <1>2, <2>2, <2>4, <2>5, <2>6, SheetsWritten
<1> QED
  BY <1>3, <1>4

LEMMA RecordKeeps ==
  ASSUME Inv, NEW h \in Handler, NEW v \in Variant, NEW n \in 0 .. MaxQty, Record(h, v, n)
  PROVE  Inv'
<1> DEFINE s == handler[h].sheet
           row == [sheet[s] EXCEPT !.counted = [@ EXCEPT ![v] = n]]
<1>1. Handling(h, "record")
  BY DEF Record
<1>2. s \in Sheet /\ sheet[s] \in SheetRow /\ sheet \in [Sheet -> SheetRow]
  BY <1>1, Handled
<1>3. /\ row \in SheetRow /\ row.status = sheet[s].status
      /\ row.counted = [sheet[s].counted EXCEPT ![v] = n]
      /\ sheet[s].counted \in [Variant -> 0 .. MaxQty \cup {Uncounted}]
  BY <1>2 DEF SheetRow
<1>4. row.counted[v] = n /\ n # Uncounted
  BY <1>3, StockCountsAssumption
<1>5. sheet' = [sheet EXCEPT ![s] = row] \/ sheet' = sheet
  BY <1>2 DEF Record
<1> HIDE DEF row, s
<1>6. \E w \in Variant : row.counted[w] # Uncounted
  BY <1>4
<1> QED
  BY <1>1, <1>2, <1>3, <1>5, <1>6, Handled, OneSheet DEF s

LEMMA CancelKeeps ==
  ASSUME Inv, NEW h \in Handler, Cancel(h)
  PROVE  Inv'
<1> DEFINE s == handler[h].sheet
           row == [sheet[s] EXCEPT !.status = "CANCELLED"]
<1>1. Handling(h, "cancel")
  BY DEF Cancel
<1>2. s \in Sheet /\ sheet[s] \in SheetRow /\ sheet \in [Sheet -> SheetRow]
  BY <1>1, Handled
<1>3. row \in SheetRow /\ row.status = "CANCELLED" /\ row.counted = sheet[s].counted
  BY <1>2 DEF SheetRow, Status
<1>4. sheet' = [sheet EXCEPT ![s] = row] \/ sheet' = sheet
  BY <1>2 DEF Cancel
<1> HIDE DEF row, s
<1>5. Reached(s) => \E w \in Variant : row.counted[w] # Uncounted
  BY <1>3 DEF Reached
<1> QED
  BY <1>1, <1>2, <1>3, <1>4, <1>5, Handled, OneSheet DEF s

LEMMA UpdateKeeps ==
  ASSUME Inv, NEW h \in Handler, NEW b \in Branch, Update(h, b)
  PROVE  Inv'
<1> DEFINE s == handler[h].sheet
           row == [sheet[s] EXCEPT !.status = handler[h].row.status, !.branch = b]
<1>1. Handling(h, "update")
  BY DEF Update
<1>2. /\ s \in Sheet /\ sheet[s] \in SheetRow /\ sheet \in [Sheet -> SheetRow]
      /\ handler[h].row.status \in {"COUNTING", "APPLIED", "CANCELLED"}
      /\ handler[h].row.status = "APPLIED" => Reached(s)
  BY <1>1, Handled
<1>3. /\ row \in SheetRow /\ row.status = handler[h].row.status
      /\ row.counted = sheet[s].counted
  BY <1>2 DEF SheetRow, Status
<1>4. sheet' = [sheet EXCEPT ![s] = row] \/ sheet' = sheet
  BY <1>2 DEF Update
<1> HIDE DEF row
<1>5. Reached(s) => \E w \in Variant : row.counted[w] # Uncounted
  BY <1>3 DEF Reached
<1>6. row.status = "APPLIED" => \E w \in Variant : row.counted[w] # Uncounted
  BY <1>2, <1>3, <1>5
<1>7. row.status # "NONE"
  BY <1>2, <1>3
<1> HIDE DEF s
<1> QED
  BY <1>1, <1>2, <1>3, <1>4, <1>5, <1>6, <1>7, Handled, OneSheet DEF s

LEMMA DestroyKeeps ==
  ASSUME Inv, NEW h \in Handler, Destroy(h)
  PROVE  Inv'
<1> DEFINE s == handler[h].sheet
           row == [sheet[s] EXCEPT !.status = "DELETED"]
<1>1. Handling(h, "destroy")
  BY DEF Destroy
<1>2. s \in Sheet /\ sheet[s] \in SheetRow /\ sheet \in [Sheet -> SheetRow]
  BY <1>1, Handled
<1>3. row \in SheetRow /\ row.status = "DELETED" /\ row.counted = sheet[s].counted
  BY <1>2 DEF SheetRow, Status
<1>4. sheet' = [sheet EXCEPT ![s] = row]
  BY <1>2 DEF Destroy
<1> HIDE DEF row, s
<1>5. Reached(s) => \E w \in Variant : row.counted[w] # Uncounted
  BY <1>3 DEF Reached
<1> QED
  BY <1>1, <1>2, <1>3, <1>4, <1>5, Handled, OneSheet DEF s

LEMMA ApplyKeeps ==
  ASSUME Inv, NEW s \in Sheet, Apply(s)
  PROVE  Inv'
<1> DEFINE row == sheet[s]
           reached == {v \in Variant : row.counted[v] # Uncounted}
           moved == {v \in reached : row.counted[v] # shelf[row.branch][v]}
<1>1. /\ row.status = "COUNTING" /\ reached # {}
      /\ shelf' = [shelf EXCEPT
                     ![row.branch] = [v \in Variant |->
                       IF v \in reached THEN row.counted[v] ELSE @[v]]]
      /\ ledger' = [ledger EXCEPT
                      ![s] = IF @ + Cardinality(moved) > MaxLedger
                             THEN MaxLedger ELSE @ + Cardinality(moved)]
      /\ sheet' = [sheet EXCEPT ![s].status = "APPLIED"]
      /\ handler' = handler
  BY DEF Apply
<1>2. /\ sheet \in [Sheet -> SheetRow] /\ row \in SheetRow
      /\ shelf \in [Branch -> [Variant -> 0 .. MaxQty]]
      /\ ledger \in [Sheet -> 0 .. MaxLedger]
  BY DEF Inv, TypeOK
<1>3. Reached(s)
  BY <1>1 DEF Reached
<1>4. Cardinality(moved) \in Nat
  <2>1. moved \in SUBSET Variant
    OBVIOUS
  <2> QED
    BY <2>1, FS_Subset, FS_CardinalityType, StockCountsAssumption
<1>5. \A v \in reached : row.counted[v] \in 0 .. MaxQty
  BY <1>2 DEF SheetRow
<1> HIDE DEF reached, moved
<1>6. ledger' \in [Sheet -> 0 .. MaxLedger] /\ (\A t \in Sheet : t # s => ledger'[t] = ledger[t])
  <2> DEFINE x == IF ledger[s] + Cardinality(moved) > MaxLedger
                  THEN MaxLedger ELSE ledger[s] + Cardinality(moved)
  <2>1. x \in 0 .. MaxLedger
    BY <1>2, <1>4 DEF MaxLedger
  <2>2. ledger' = [ledger EXCEPT ![s] = x]
    BY <1>1
  <2> HIDE DEF x
  <2> QED
    BY <1>2, <2>1, <2>2
<1>7. shelf' \in [Branch -> [Variant -> 0 .. MaxQty]]
  BY <1>1, <1>2, <1>5
<1>8. /\ sheet' \in [Sheet -> SheetRow] /\ sheet'[s].status = "APPLIED"
      /\ sheet'[s].counted = sheet[s].counted
      /\ \A t \in Sheet : t # s => sheet'[t] = sheet[t]
  BY <1>1, <1>2 DEF SheetRow, Status
<1>9. TypeOK'
  BY <1>1, <1>6, <1>7, <1>8 DEF Inv, TypeOK
<1>10. \A t \in Sheet : Reached(t)' <=> Reached(t)
  BY <1>8 DEF Reached
<1>11. \A t \in Sheet : sheet'[t].status = "NONE" => ledger'[t] = 0
  BY <1>6, <1>8 DEF Inv, SheetsInv
<1>12. \A t \in Sheet : sheet'[t].status = "APPLIED" \/ ledger'[t] > 0 => Reached(t)'
  BY <1>3, <1>6, <1>8, <1>10 DEF Inv, SheetsInv
<1>13. \A t \in Sheet : sheet[t].status # "NONE" => sheet'[t].status # "NONE"
  BY <1>8
<1> QED
  BY <1>1, <1>9, <1>10, <1>11, <1>12, <1>13, SheetsWritten

LEMMA MoveKeeps ==
  ASSUME Inv, NEW b \in Branch, NEW v \in Variant, NEW n \in 0 .. MaxQty, Move(b, v, n)
  PROVE  Inv'
<1>1. /\ shelf' = [shelf EXCEPT ![b] = [shelf[b] EXCEPT ![v] = n]]
      /\ UNCHANGED <<sheet, ledger, handler>>
      /\ shelf \in [Branch -> [Variant -> 0 .. MaxQty]]
  BY DEF Move, Inv, TypeOK
<1>2. shelf' \in [Branch -> [Variant -> 0 .. MaxQty]]
  BY <1>1
<1> QED
  BY <1>1, <1>2 DEF Inv, TypeOK, ReadInv, SheetsInv, Reached

(* The inductive invariant: a sheet applied, or adjusted from, has a line  *)
(* counted, and what a handler read of one stays true while it waits.      *)
THEOREM Invariant == Spec => []Inv
<1>1. Inv /\ [Next]_vars => Inv'
  <2>1. Inv /\ UNCHANGED vars => Inv'
    BY DEF vars, Inv, TypeOK, ReadInv, SheetsInv, Reached
  <2> QED
    BY <2>1, CreateKeeps, FindKeeps, RecordKeeps, CancelKeeps, UpdateKeeps,
       DestroyKeeps, ApplyKeeps, MoveKeeps DEF Next
<1> QED
  BY <1>1, InitInv, PTL DEF Spec

(* Every variable keeps its type.                                          *)
THEOREM TypeCorrect == Spec => []TypeOK
<1>1. Inv => TypeOK
  BY DEF Inv
<1> QED
  BY <1>1, Invariant, PTL

(* Whatever stale reads meet, no sheet reads APPLIED, and no stock has been*)
(* adjusted from it, with nothing counted on it.                           *)
THEOREM AppliedWasCounted == Spec => []NothingAppliedUncounted
<1>1. Inv => NothingAppliedUncounted
  BY DEF Inv, SheetsInv, NothingAppliedUncounted, Reached
<1> QED
  BY <1>1, Invariant, PTL
=============================================================================
