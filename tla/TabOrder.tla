------------------------------ MODULE TabOrder ------------------------------
(***************************************************************************)
(* The index arithmetic of a tabs container (state.rs): a list of tabs and *)
(* the zero-based index of its active tab, which has to follow the tab     *)
(* when tabs are removed, swapped or moved around it.                      *)
(***************************************************************************)
EXTENDS Integers, Sequences, SequencesExt

\* The zero-based position of an element of a list.
Position(tabs, x) == (CHOOSE i \in DOMAIN tabs : tabs[i] = x) - 1

\* The tab at a zero-based index.
TabAt(tabs, index) == tabs[index + 1]

\* The list without the tab at `index`, and with one inserted there.
RemovedAt(tabs, index) == RemoveAt(tabs, index + 1)
InsertedAt(tabs, index, x) == InsertAt(tabs, index + 1, x)

\* The list without an entry it has once, if it has it.
Without(list, x) == IF x \in ToSet(list) THEN RemovedAt(list, Position(list, x)) ELSE list

\* The active index once the tab at `index` is gone and `len` tabs are left.
ActiveAfterRemove(len, active, index) ==
    IF len = 0 THEN 0
    ELSE IF active > index THEN active - 1
    ELSE IF active >= len THEN len - 1
    ELSE active

\* Two tabs trade places, and the active index goes with its tab.
Swapped(tabs, first, second) ==
    [tabs EXCEPT ![first + 1] = TabAt(tabs, second),
                 ![second + 1] = TabAt(tabs, first)]

ActiveAfterSwap(active, first, second) ==
    IF active = first THEN second ELSE IF active = second THEN first ELSE active

\* Where a tab taken from `from` is put back to stand before or after the tab
\* that was at `target`.
InsertPosition(from, target, before) ==
    (IF from < target THEN target - 1 ELSE target) + (IF before THEN 0 ELSE 1)

Moved(tabs, from, at) == InsertedAt(RemovedAt(tabs, from), at, TabAt(tabs, from))

\* Mutant: a tab put exactly where the active one stands does not push it back.
ActiveAfterMove_Strict(active, from, at) ==
    IF active = from THEN at
    ELSE IF from < active /\ at > active THEN active - 1
    ELSE IF from > active /\ at <= active THEN active + 1
    ELSE active

\* The active index after a tab has moved from one place to another.
ActiveAfterMove(active, from, at) ==
    IF active = from THEN at
    ELSE IF from < active /\ at >= active THEN active - 1
    ELSE IF from > active /\ at <= active THEN active + 1
    ELSE active
=============================================================================
