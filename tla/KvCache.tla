------------------------------ MODULE KvCache ------------------------------
(***************************************************************************)
(* The unified key-value cache of a llama context (llama-kv-cells.h,       *)
(* llama-kv-cache-unified.cpp, and decode in llama-context.cpp): which     *)
(* token of which sequences each cell holds, the indexes kept beside the   *)
(* cells, the search for a slot, the rehearsal of a batch and its undoing, *)
(* shifts of positions that are applied later, and defragmentation.        *)
(*                                                                         *)
(* There is one stream, and slots are continuous (LLAMA_SET_ROWS is not    *)
(* set).  One thread uses a context; decode is a step per batch and one    *)
(* per part of it that is computed, which may fail.                        *)
(***************************************************************************)
EXTENDS Integers, FiniteSets, Sequences, FiniteSetsExt, SequencesExt

CONSTANTS
    Size,       \* cells
    Seqs,       \* sequences
    MaxPos,     \* bound: positions
    Ends,       \* bound: the ends of the ranges that calls name
    MaxCalls,   \* bound: calls other than decode
    MaxBatch,   \* bound: tokens of a batch, which all have the same sequences
    UBatch,     \* n_ubatch
    Window,     \* n_swa, or 0 when attention has no window
    MaxMoves,   \* moves that the graph of a defragmentation has room for
    Mishaps     \* of "coupled", "overlap", "defrag", "divide": see below

ASSUME KvAssumption ==
    /\ Size \in Nat \ {0} /\ MaxPos \in Nat /\ MaxBatch \in Nat \ {0}
    /\ Ends \subseteq -1 .. MaxPos /\ MaxCalls \in Nat
    /\ UBatch \in Nat \ {0} /\ Window \in Nat /\ MaxMoves \in Nat \ {0}
    /\ IsFiniteSet(Seqs)
    /\ Mishaps \subseteq {"coupled", "overlap", "defrag", "divide"}

VARIABLES
    cells,      \* llama_kv_cells_unified
    head,
    keys,       \* the position each cell's key is rotated for
    run,        \* the batch in progress: its sequences and its slots
    calls       \* bound: calls other than decode so far

kvVars == <<cells, head, keys, run, calls>>

Cells == 0 .. Size - 1
Positions == 0 .. MaxPos
Empty == -1
Garbage == -2       \* a key that was never computed
Unknown == -3       \* a key that is not followed any more

Idle == [seqs |-> {}, slots |-> <<>>]

\* Members of cells: reset.
NoCells == [pos |-> [i \in Cells |-> Empty], shift |-> [i \in Cells |-> 0],
            seq |-> [i \in Cells |-> {}], has_shift |-> FALSE, used |-> {},
            seq_pos |-> [s \in Seqs |-> [p \in Positions |-> 0]]]

KvInit ==
    /\ cells = NoCells /\ head = 0
    /\ keys = [i \in Cells |-> Garbage]
    /\ run = Idle /\ calls = 0

-----------------------------------------------------------------------------
(* llama_kv_cells_unified, for all the cells that a caller's loop visits.  *)

\* seq_pos_dec and seq_pos_inc, for sequences ss of the cells I.
Count(c, I, s, p) == Cardinality({i \in I : s \in c.seq[i] /\ c.pos[i] = p})
Dec(c, I, ss) == [s \in Seqs |-> [p \in Positions |->
                     c.seq_pos[s][p] - IF s \in ss THEN Count(c, I, s, p)
                                                   ELSE 0]]
Inc(c, I, ss) == [s \in Seqs |-> [p \in Positions |->
                     c.seq_pos[s][p] + IF s \in ss THEN Count(c, I, s, p)
                                                   ELSE 0]]

Present(c, s) == {p \in Positions : c.seq_pos[s][p] > 0}
SeqPosMin(c, s) == IF Present(c, s) = {} THEN -1 ELSE Min(Present(c, s))
SeqPosMax(c, s) == IF Present(c, s) = {} THEN -1 ELSE Max(Present(c, s))

UsedMaxP1(c) == IF c.used = {} THEN 0 ELSE Max(c.used) + 1

\* The cells of s with a position in [p0, p1); the negative ends stand for
\* the first position and for no bound.
InRange(c, s, p0, p1) ==
    {i \in Cells : /\ s \in c.seq[i]
                   /\ c.pos[i] >= IF p0 < 0 THEN 0 ELSE p0
                   /\ p1 < 0 \/ c.pos[i] < p1}

\* rm, of cells that are not empty.
Rm(c, I) ==
    [c EXCEPT !.pos = [i \in Cells |-> IF i \in I THEN Empty ELSE @[i]],
              !.shift = [i \in Cells |-> IF i \in I THEN 0 ELSE @[i]],
              !.seq = [i \in Cells |-> IF i \in I THEN {} ELSE @[i]],
              !.seq_pos = Dec(c, I, Seqs),
              !.used = @ \ I]

\* seq_rm: the cells that have only this sequence become empty.
Only(c, I, s) == {i \in I : c.seq[i] = {s}}

CellsSeqRm(c, I, s) ==
    [c EXCEPT !.pos = [i \in Cells |-> IF i \in Only(c, I, s) THEN Empty
                                                              ELSE @[i]],
              !.shift = [i \in Cells |-> IF i \in Only(c, I, s) THEN 0
                                                                ELSE @[i]],
              !.seq = [i \in Cells |-> IF i \in I THEN @[i] \ {s} ELSE @[i]],
              !.seq_pos = Dec(c, I, {s}),
              !.used = @ \ Only(c, I, s)]

\* seq_keep: the cells of the sequence lose the others, the others their all.
CellsSeqKeep(c, s) ==
    LET gone == {i \in c.used : s \notin c.seq[i]}
        kept == Cells \ gone
        d    == Rm(c, gone)
    IN  [d EXCEPT !.seq = [i \in Cells |-> @[i] \cap {s}],
                  !.seq_pos = Dec(d, kept, Seqs \ {s})]

\* pos_set and seq_add, of an empty slot.
Place(c, slot, ss) ==
    LET d == [c EXCEPT
                !.pos = [i \in Cells |-> IF i \in slot.cells
                                         THEN slot.first + i - Min(slot.cells)
                                         ELSE @[i]],
                !.seq = [i \in Cells |-> IF i \in slot.cells THEN ss
                                                             ELSE @[i]],
                !.used = @ \cup slot.cells]
    IN  [d EXCEPT !.seq_pos = Inc(d, slot.cells, ss)]

\* Mutant: the positions of the cells that are overwritten stay counted.
SetOver(c, I, o) ==
    LET d == [c EXCEPT
                !.pos = [i \in Cells |-> IF i \in I THEN o.pos[i] ELSE @[i]],
                !.seq = [i \in Cells |-> IF i \in I THEN o.seq[i] ELSE @[i]],
                !.used = (@ \ {i \in I : o.pos[i] = Empty})
                            \cup {i \in I : o.pos[i] # Empty}]
    IN  [d EXCEPT !.seq_pos = Inc(d, I, Seqs)]

\* set: the cells I as they are in the older state o.
Set(c, I, o) ==
    LET d == [c EXCEPT
                !.pos = [i \in Cells |-> IF i \in I THEN o.pos[i] ELSE @[i]],
                !.seq = [i \in Cells |-> IF i \in I THEN o.seq[i] ELSE @[i]],
                !.used = (@ \ {i \in I : o.pos[i] = Empty})
                            \cup {i \in I : o.pos[i] # Empty},
                !.seq_pos = Dec(c, I, Seqs)]
    IN  [d EXCEPT !.seq_pos = Inc(d, I, Seqs)]

-----------------------------------------------------------------------------
(* Finding a slot, and using it.                                           *)

\* is_masked_swa, of a standard window.
Masked(p0, p1) == Window > 0 /\ p1 - p0 >= Window

\* Mutant: the window is measured from the token after the next one.
UsableEarly(c, i) ==
    \/ c.pos[i] = Empty
    \/ \E s \in Seqs : c.seq[i] = {s} /\ Masked(c.pos[i], SeqPosMax(c, s) + 2)

\* A cell that find_slot takes: an empty one, or one that the attention of
\* its only sequence does not reach any more.
Usable(c, i) ==
    \/ c.pos[i] = Empty
    \/ \E s \in Seqs : c.seq[i] = {s} /\ Masked(c.pos[i], SeqPosMax(c, s) + 1)

\* Where n usable cells follow each other.
Free(c, n) == {h \in 0 .. Size - n : \A i \in h .. h + n - 1 : Usable(c, i)}

\* Where find_slot begins: at the head, unless many cells before it are free.
SearchFrom(c, h0, n) == IF h0 > Cardinality(c.used) + 2 * n THEN 0 ELSE h0
Ahead(c, h0, n) == {h \in Free(c, n) : h >= SearchFrom(c, h0, n)}

\* Mutant: the search ends with the last cell.
FindSlotNoWrap(c, h0, n) ==
    IF Ahead(c, h0, n) = {} THEN -1 ELSE Min(Ahead(c, h0, n))

\* find_slot: the first cell of n usable ones, or -1.  Behind the last cell it
\* goes on with the first one, until as many cells have been tested as there
\* are: then every place before the head has had its turn.
FindSlot(c, h0, n) ==
    IF Free(c, n) = {} THEN -1
    ELSE Min(IF Ahead(c, h0, n) = {} THEN Free(c, n) ELSE Ahead(c, h0, n))

\* apply_ubatch, without the head.  What a sequence has before the last
\* position that it loses is purged too.
Overwritten(c, slot, s) == {c.pos[i] : i \in Only(c, slot.cells, s)}
Purge(c, s, lost) ==
    CellsSeqRm(c, InRange(c, s, SeqPosMin(c, s), Max(lost) + 1), s)
Losers(c, slot) == {s \in Seqs : Overwritten(c, slot, s) # {}}
ApplyUbatch(c, slot, ss) ==
    FoldSet(LAMBDA s, d : Purge(d, s, Overwritten(c, slot, s)),
            Place(Rm(c, {i \in slot.cells : c.pos[i] # Empty}), slot, ss),
            Losers(c, slot))

NextHead(slot) == Max(slot.cells) + 1

\* split_simple.
Parts(first, n) ==
    [k \in 1 .. (n + UBatch - 1) \div UBatch |->
        [first |-> first + (k - 1) * UBatch,
         n |-> Min({UBatch, n - (k - 1) * UBatch})]]

\* prepare, first half: the batch is put into the cells, part by part.
UseSlot(acc, slot, ss) ==
    [cells |-> ApplyUbatch(acc.cells, slot, ss),
     head  |-> NextHead(slot), fits |-> TRUE,
     slots |-> Append(acc.slots, slot), old |-> Append(acc.old, acc.cells)]

UseCellsAt(acc, part, ss, at) ==
    IF at < 0 THEN [acc EXCEPT !.fits = FALSE]
    ELSE UseSlot(acc, [cells |-> at .. at + part.n - 1,
                       first |-> part.first], ss)

UsePart(acc, part, ss) ==
    IF ~acc.fits THEN acc
    ELSE UseCellsAt(acc, part, ss, FindSlot(acc.cells, acc.head, part.n))

Rehearse(c, h, parts, ss) ==
    LET after[k \in 0 .. Len(parts)] ==
            IF k = 0
            THEN [cells |-> c, head |-> h, fits |-> TRUE,
                  slots |-> <<>>, old |-> <<>>]
            ELSE UsePart(after[k - 1], parts[k], ss)
    IN  after[Len(parts)]

\* Mutant: the cells stay as the rehearsal left them.
LeftThere(there) ==
    [fits |-> there.fits, slots |-> there.slots, cells |-> there.cells]

\* Second half: the cells of the slots are restored, the last slot first.
\* What apply_ubatch purged elsewhere is not.
Undone(there) ==
    LET n == Len(there.slots)
        undo[k \in 0 .. n] ==
            IF k = 0 THEN there.cells
            ELSE Set(undo[k - 1], there.slots[n + 1 - k].cells,
                     there.old[n + 1 - k])
    IN  [fits |-> there.fits, slots |-> there.slots, cells |-> undo[n]]

Prepare(c, h, parts, ss) == Undone(Rehearse(c, h, parts, ss))

-----------------------------------------------------------------------------
(* update: pending shifts are applied to the keys, and cells are moved.    *)

\* Mutant: the shifts stay.
ShiftedStill(c) == [c EXCEPT !.has_shift = FALSE]

\* reset_shift, and the keys after the K-shift.
Shifted(c) == [c EXCEPT !.has_shift = FALSE, !.shift = [i \in Cells |-> 0]]

ShiftedKeys(c, k) ==
    [i \in Cells |-> IF c.pos[i] # Empty /\ k[i] >= 0 THEN k[i] + c.shift[i]
                                                      ELSE k[i]]

\* defrag_prepare.  The holes below the number of used cells are filled, the
\* first one with the last cells, until the graph has no room for a move.
Holes(c) == {i \in 0 .. Cardinality(c.used) - 1 :
                c.pos[i] = Empty /\ (i > 0 => c.pos[i - 1] # Empty)}

FillHole(c, acc, i0) ==
    LET hole  == {i \in i0 .. Cardinality(c.used) - 1 :
                    \A j \in i0 .. i : c.pos[j] = Empty}
        left  == {i \in c.used : i > i0 /\ acc.ids[i] = Size}
        take  == {i \in left : Cardinality({j \in left : j >= i})
                                    <= Cardinality(hole)}
        Block(i) == Cardinality({j \in take : j <= i /\ j - 1 \notin take})
        moved == {i \in take : Block(i) <= MaxMoves - acc.moves}
    IN  [ids   |-> [i \in Cells |->
                       IF i \in moved
                       THEN i0 + Cardinality({j \in take : j < i})
                       ELSE acc.ids[i]],
         moves |-> acc.moves
                       + Max({0} \cup {Block(i) : i \in moved})]

DefragPrepare(c) ==
    LET n == Cardinality(c.used)
        plan[k \in 0 .. n] ==
            IF k = 0 THEN [ids |-> [i \in Cells |-> Size], moves |-> 0]
            ELSE IF k - 1 \in Holes(c) THEN FillHole(c, plan[k - 1], k - 1)
            ELSE plan[k - 1]
    IN  plan[n].ids

\* The cells after mv of each, and the keys after the graph's copies.
Moved(f, ids, nothing) ==
    [i \in Cells |-> IF \E j \in Cells : ids[j] = i
                     THEN f[CHOOSE j \in Cells : ids[j] = i]
                     ELSE IF ids[i] # Size THEN nothing ELSE f[i]]
Defragged(c, ids) ==
    [c EXCEPT !.pos = Moved(@, ids, Empty), !.shift = Moved(@, ids, 0),
              !.seq = Moved(@, ids, {}),
              !.used = {i \in Cells : \/ i \in c.used /\ ids[i] = Size
                                      \/ \E j \in Cells : ids[j] = i}]

-----------------------------------------------------------------------------
(* What a caller does between two batches.                                 *)

\* Keys of cells that are empty are nobody's.
Known(c, k) == [i \in Cells |-> IF c.pos[i] = Empty THEN Garbage ELSE k[i]]
BecomeEmpty(c) == {i \in Cells : cells.pos[i] # Empty /\ c.pos[i] = Empty}
HeadAtFreed(c) == head' = Min({head} \cup BecomeEmpty(c))

Clear ==
    /\ run = Idle
    /\ cells' = NoCells /\ head' = 0
    /\ keys' = [i \in Cells |-> Garbage]
    /\ UNCHANGED run

SeqRm(s, p0, p1) ==
    /\ run = Idle
    /\ cells' = CellsSeqRm(cells, InRange(cells, s, p0, p1), s)
    /\ HeadAtFreed(cells')
    /\ keys' = Known(cells', keys)
    /\ UNCHANGED run

\* seq_add on a cell that has the sequence already fails an assertion, and
\* counts it twice where assertions are off (the mishap "overlap").
SeqCp(src, dst, p0, p1) ==
    LET I == InRange(cells, src, p0, p1)
        c == [cells EXCEPT !.seq = [i \in Cells |-> IF i \in I
                                                    THEN @[i] \cup {dst}
                                                    ELSE @[i]]]
    IN  /\ run = Idle /\ src # dst
        /\ "overlap" \in Mishaps \/ \A i \in I : dst \notin cells.seq[i]
        /\ cells' = [c EXCEPT !.seq_pos = Inc(c, I, {dst})]
        /\ UNCHANGED <<head, keys, run>>

SeqKeep(s) ==
    /\ run = Idle
    /\ cells' = CellsSeqKeep(cells, s)
    /\ HeadAtFreed(cells')
    /\ keys' = Known(cells', keys)
    /\ UNCHANGED run

\* seq_add, pos_add: the cells of a position that becomes negative are freed.
SeqAdd(s, p0, p1, d) ==
    LET I    == InRange(cells, s, p0, p1)
        gone == {i \in I : cells.pos[i] + d < 0}
        stay == I \ gone
        c    == Rm(cells, gone)
        e    == [c EXCEPT
                   !.pos = [i \in Cells |-> IF i \in stay THEN @[i] + d
                                                          ELSE @[i]],
                   !.shift = [i \in Cells |-> IF i \in stay THEN @[i] + d
                                                            ELSE @[i]],
                   !.has_shift = @ \/ I # {},
                   !.seq_pos = Dec(c, stay, Seqs)]
    IN  /\ run = Idle /\ d # 0 /\ p0 # p1
        /\ \A i \in I : cells.pos[i] + d <= MaxPos
        /\ cells' = [e EXCEPT !.seq_pos = Inc(e, stay, Seqs)]
        /\ head' = IF gone = {} THEN 0 ELSE Min(gone)
        /\ keys' = Known(cells', keys)
        /\ UNCHANGED run

\* seq_div, pos_div: the shift grows by what the position loses, although a
\* key is rotated forward by its shift.  Where "divide" is not looked at, the
\* keys concerned are not followed any more.
SeqDiv(s, p0, p1, d) ==
    LET I == InRange(cells, s, p0, p1)
        e == [cells EXCEPT
                !.pos = [i \in Cells |-> IF i \in I THEN @[i] \div d ELSE @[i]],
                !.shift = [i \in Cells |->
                              IF i \in I
                              THEN @[i] + cells.pos[i] - cells.pos[i] \div d
                              ELSE @[i]],
                !.has_shift = @ \/ I # {},
                !.seq_pos = Dec(cells, I, Seqs)]
    IN  /\ run = Idle /\ d # 1 /\ p0 # p1
        /\ cells' = [e EXCEPT !.seq_pos = Inc(e, I, Seqs)]
        /\ keys' = IF "divide" \in Mishaps THEN keys
                   ELSE [i \in Cells |-> IF i \in I THEN Unknown ELSE keys[i]]
        /\ UNCHANGED <<head, run>>

\* kv_self_update(true): pending shifts, then a defragmentation.  The graph
\* that moves the keys may fail after the cells have been moved.
Update(c, k) ==
    LET c1  == Shifted(c)
        k1  == ShiftedKeys(c, k)
        ids == DefragPrepare(c1)
    IN  \E done \in IF "defrag" \in Mishaps THEN BOOLEAN ELSE {TRUE} :
           /\ cells' = Defragged(c1, ids)
           /\ keys' = IF done THEN Moved(k1, ids, Garbage) ELSE k1
           /\ head' = IF \E i \in Cells : ids[i] # Size THEN 0 ELSE head

Defrag == run = Idle /\ Update(cells, keys) /\ UNCHANGED run

-----------------------------------------------------------------------------
(* llama_context::decode.                                                  *)

\* Batches that llama_batch_allocr::init lets pass: the positions follow on
\* those of the sequences, which have not diverged.
Coupled(ss) == \A s, t \in ss : /\ SeqPosMin(cells, s) = SeqPosMin(cells, t)
                               /\ SeqPosMax(cells, s) = SeqPosMax(cells, t)
Batch(ss, n) ==
    LET first == SeqPosMax(cells, CHOOSE s \in ss : TRUE) + 1
    IN  Parts(first, n)
Fresh(ss, n) == /\ run = Idle /\ ss # {} /\ Coupled(ss)
                /\ \A s \in ss : SeqPosMax(cells, s) + n <= MaxPos

\* Pending shifts are applied before anything else.
Decode(ss, n) ==
    LET there == Prepare(Shifted(cells), head, Batch(ss, n), ss)
    IN  /\ Fresh(ss, n) /\ there.fits
        /\ cells' = there.cells
        /\ keys' = Known(cells', ShiftedKeys(cells, keys))
        /\ run' = [seqs |-> ss, slots |-> there.slots]
        /\ UNCHANGED head

\* Where there is no slot the cache is defragmented, and the search repeated
\* if that moved anything.
DecodeNoSlot(ss, n) ==
    LET there == Prepare(Shifted(cells), head, Batch(ss, n), ss)
        ids   == DefragPrepare(there.cells)
        c     == Defragged(there.cells, ids)
        again == Prepare(c, 0, Batch(ss, n), ss)
        moves == \E i \in Cells : ids[i] # Size
        k     == Known(there.cells, ShiftedKeys(cells, keys))
    IN  /\ Fresh(ss, n) /\ ~there.fits
        /\ cells' = IF moves THEN again.cells ELSE there.cells
        /\ \E done \in IF "defrag" \in Mishaps THEN BOOLEAN ELSE {TRUE} :
              keys' = Known(cells', IF done THEN Moved(k, ids, Garbage) ELSE k)
        /\ head' = IF moves THEN 0 ELSE head
        /\ run' = IF moves /\ again.fits
                  THEN [seqs |-> ss, slots |-> again.slots] ELSE Idle

\* process_ubatch: the part goes to its slot and is computed.
Slot == Head(run.slots)
Apply == ApplyUbatch(cells, Slot, run.seqs)

Compute ==
    /\ run # Idle
    /\ cells' = Apply /\ head' = NextHead(Slot)
    /\ keys' = [i \in Cells |-> IF i \in Slot.cells THEN cells'.pos[i]
                                 ELSE Known(cells', keys)[i]]
    /\ run' = IF Len(run.slots) = 1 THEN Idle
              ELSE [run EXCEPT !.slots = Tail(@)]

\* It fails or is aborted.  The positions of the part are removed, but only
\* from the first sequence of each token (the mishap "coupled").
ComputeFails ==
    /\ run # Idle
    /\ "coupled" \in Mishaps \/ Cardinality(run.seqs) = 1
    /\ \E s \in run.seqs :
          LET I == InRange(Apply, s, Slot.first, -1)
          IN  /\ cells' = CellsSeqRm(Apply, I, s)
              /\ head' = Min({NextHead(Slot)} \cup Only(Apply, I, s))
    /\ keys' = [i \in Cells |-> IF i \in Slot.cells THEN Garbage
                                 ELSE Known(cells', keys)[i]]
    /\ run' = Idle

Call ==
    /\ calls < MaxCalls /\ calls' = calls + 1
    /\ \/ Clear
       \/ \E s \in Seqs, p0, p1 \in Ends : SeqRm(s, p0, p1)
       \/ \E s, t \in Seqs, p0, p1 \in Ends : SeqCp(s, t, p0, p1)
       \/ \E s \in Seqs : SeqKeep(s)
       \/ \E s \in Seqs, p0, p1 \in Ends, d \in {-1, 1} :
             SeqAdd(s, p0, p1, d)
       \/ \E s \in Seqs, p0, p1 \in Ends : SeqDiv(s, p0, p1, 2)
       \/ Defrag

Decoding ==
    /\ UNCHANGED calls
    /\ \/ \E ss \in SUBSET Seqs, n \in 1 .. MaxBatch :
             Decode(ss, n) \/ DecodeNoSlot(ss, n)
       \/ Compute
       \/ ComputeFails

KvNext == Call \/ Decoding

KvSpec == KvInit /\ [][KvNext]_kvVars

-----------------------------------------------------------------------------
(* Properties.                                                             *)

CellStates == [pos : [Cells -> Positions \cup {Empty}], shift : [Cells -> Int],
               seq : [Cells -> SUBSET Seqs], has_shift : BOOLEAN,
               used : SUBSET Cells, seq_pos : [Seqs -> [Positions -> Nat]]]

\* The types of the variables.
KvTypeOK ==
    /\ cells \in CellStates
    /\ head \in 0 .. Size /\ calls \in 0 .. MaxCalls
    /\ keys \in [Cells -> Int]
    /\ run.seqs \subseteq Seqs
    /\ \A k \in DOMAIN run.slots : run.slots[k].cells \subseteq Cells

\* "seq_pos[s][p] tells us how many times the position p is currently
\* present for sequence s" (llama-kv-cells.h): the two indexes, kept by
\* increments through every call, rehearsal and undoing, say what the cells
\* say.  The variables have their types.
Exact(c) ==
    /\ c.used = {i \in Cells : c.pos[i] # Empty}
    /\ \A i \in Cells : c.pos[i] = Empty <=> c.seq[i] = {}
    /\ \A s \in Seqs, p \in Positions : c.seq_pos[s][p] = Count(c, Cells, s, p)
    /\ ~c.has_shift => \A i \in Cells : c.shift[i] = 0

IndexesExact == KvTypeOK /\ Exact(cells)

\* Each cell has the key of its token, rotated for its position but for the
\* shift that is still to come, wherever cells were moved to.  "This array
\* accumulates any applied shifts to the pos array since the last
\* reset_shift() call" (llama-kv-cells.h).
KeysFollow ==
    \A i \in cells.used :
        keys[i] = Unknown \/ keys[i] + cells.shift[i] = cells.pos[i]

\* The last slot of a batch is still usable when its turn comes: find_slot
\* saw it in a rehearsal that was undone.
LastSlotUsable ==
    Len(run.slots) = 1 => \A i \in Slot.cells : Usable(cells, i)

HasPos(c, s) == {c.pos[i] : i \in {j \in Cells : s \in c.seq[j]}}
Gapless(c, s) == HasPos(c, s) = {} \/
    HasPos(c, s) = Min(HasPos(c, s)) .. Max(HasPos(c, s))

\* "We want to preserve the invariant that all positions between [pos_min,
\* pos_max] for each sequence will be present in the cache"
\* (llama-kv-cache-unified.cpp): no sequence has a gap while nothing but decode
\* is called.
PositionsPresent == calls = 0 => \A s \in Seqs : Gapless(cells, s)

\* Positions that the token at position p of a sequence attends to are kept.
KeepsFor(s, p) == \A q \in HasPos(cells, s) : Masked(q, p)
                                            \/ q \in HasPos(cells', s)
\* The end of the batch that was begun, for the sequences it has.
EndOf(r, s) == IF s \in r.seqs THEN Max(Last(r.slots).cells)
                                       - Min(Last(r.slots).cells)
                                       + Last(r.slots).first
                              ELSE SeqPosMax(cells, s)
\* The part follows on what its sequences have in the cache.
FollowsOn(s) == s \in run.seqs => SeqPosMax(cells, s) \in {-1, Slot.first - 1}

\* A part takes from no sequence what its next token attends to, and, as what
\* it overwrites it purges with all that is before, leaves no new gap.
PartKeeps(s) ==
    /\ KeepsFor(s, IF s \in run.seqs THEN Slot.first
                                     ELSE SeqPosMax(cells, s) + 1)
    /\ Gapless(cells, s) /\ FollowsOn(s) => Gapless(cells', s)

\* The rehearsal takes from no sequence what the token after the batch attends
\* to.
BatchKeeps(s) == KeepsFor(s, EndOf(run', s) + 1)

\* No part takes from any sequence what its next token attends to, and no
\* rehearsal what the token after the batch does.  A part that overwrites
\* purges what is before, and so leaves no gap, unless the rehearsal did.
DecodeKeepsTheWindow ==
    [][/\ Compute => \A s \in Seqs : PartKeeps(s)
       /\ run = Idle /\ run' # Idle => \A s \in Seqs : BatchKeeps(s)]_kvVars

\* A batch of one part is refused only when fewer cells are free, once the
\* cells were moved together, than it has tokens.
RefusedWhenFull ==
    [][run = Idle /\ run' = Idle /\ calls' = calls /\ MaxMoves >= Size =>
          \A ss \in SUBSET Seqs, n \in 1 .. UBatch :
              DecodeNoSlot(ss, n) =>
                  Size - Cardinality(cells'.used) < n]_kvVars

=============================================================================
