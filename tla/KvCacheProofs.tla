---------------------------- MODULE KvCacheProofs ----------------------------
(***************************************************************************)
(* The indexes of the cache say what its cells say, the keys follow the    *)
(* cells, the last slot of a batch is still usable when its turn comes,    *)
(* decode takes nothing that the next token attends to, and only a full    *)
(* cache refuses a batch, for any number of cells, sequences and positions.*)
(***************************************************************************)
EXTENDS KvCache, FiniteSetTheorems, WellFoundedInduction, TLAPS

\* Cells before it is known that no count is negative.
RawStates == [pos : [Cells -> Positions \cup {Empty}], shift : [Cells -> Int],
              seq : [Cells -> SUBSET Seqs], has_shift : BOOLEAN,
              used : SUBSET Cells, seq_pos : [Seqs -> [Positions -> Int]]]

Sound(c) == c \in CellStates /\ Exact(c)

-----------------------------------------------------------------------------
(* Counting.                                                               *)

\* The cells are finite.
LEMMA CellsFinite ==
    IsFiniteSet(Cells) /\ \A I \in SUBSET Cells : IsFiniteSet(I)
<1>1. Size - 1 \in Int
  BY KvAssumption
<1>2. IsFiniteSet(Cells)
  BY <1>1, FS_Interval DEF Cells
<1> QED
  BY <1>2, FS_Subset

\* How often a position is present is a number.
LEMMA CountIsNat ==
    ASSUME NEW c, NEW I \in SUBSET Cells, NEW s, NEW p
    PROVE  Count(c, I, s, p) \in Nat
<1>1. IsFiniteSet({i \in I : s \in c.seq[i] /\ c.pos[i] = p})
  BY CellsFinite
<1> QED
  BY <1>1, FS_CardinalityType DEF Count

\* Nothing is counted where there are no such cells.
LEMMA CountNone ==
    ASSUME NEW c, NEW I \in SUBSET Cells, NEW s, NEW p,
           \A i \in I : ~(s \in c.seq[i] /\ c.pos[i] = p)
    PROVE  Count(c, I, s, p) = 0
<1>1. {i \in I : s \in c.seq[i] /\ c.pos[i] = p} = {}
  OBVIOUS
<1> QED
  BY <1>1, FS_EmptySet DEF Count

\* States that differ on the cells I only differ by what these count.
LEMMA Recount ==
    ASSUME NEW c, NEW d, NEW I \in SUBSET Cells, NEW s, NEW p,
           \A i \in Cells \ I : (s \in c.seq[i] /\ c.pos[i] = p)
                                  <=> (s \in d.seq[i] /\ d.pos[i] = p)
    PROVE  Count(d, Cells, s, p) = Count(c, Cells, s, p) - Count(c, I, s, p)
                                       + Count(d, I, s, p)
<1> DEFINE A == {i \in Cells : s \in c.seq[i] /\ c.pos[i] = p}
           B == {i \in Cells : s \in d.seq[i] /\ d.pos[i] = p}
           AI == {i \in I : s \in c.seq[i] /\ c.pos[i] = p}
           BI == {i \in I : s \in d.seq[i] /\ d.pos[i] = p}
<1>1. A \ AI = B \ BI /\ A \cap AI = AI /\ B \cap BI = BI
  OBVIOUS
<1>2. IsFiniteSet(A) /\ IsFiniteSet(B) /\ IsFiniteSet(AI) /\ IsFiniteSet(BI)
  BY CellsFinite
<1>3. /\ Cardinality(A) = Count(c, Cells, s, p)
      /\ Cardinality(B) = Count(d, Cells, s, p)
      /\ Cardinality(AI) = Count(c, I, s, p)
      /\ Cardinality(BI) = Count(d, I, s, p)
  BY DEF Count
<1> HIDE DEF A, B, AI, BI
<1>4. /\ Cardinality(A \ AI) = Cardinality(A) - Cardinality(AI)
      /\ Cardinality(B \ BI) = Cardinality(B) - Cardinality(BI)
  <2>1. /\ Cardinality(A \ AI) = Cardinality(A) - Cardinality(A \cap AI)
        /\ Cardinality(B \ BI) = Cardinality(B) - Cardinality(B \cap BI)
    BY <1>2, FS_Difference
  <2> QED
    BY <1>1, <2>1
<1>5. /\ Cardinality(A) \in Nat /\ Cardinality(B) \in Nat
      /\ Cardinality(AI) \in Nat /\ Cardinality(BI) \in Nat
  BY <1>2, FS_CardinalityType
<1>6. Cardinality(A) - Cardinality(AI) = Cardinality(B) - Cardinality(BI)
  BY <1>1, <1>4
<1> QED
  BY <1>3, <1>5, <1>6

\* The same where nothing that is counted differs.
LEMMA CountSame ==
    ASSUME NEW c, NEW d, NEW s, NEW p,
           \A i \in Cells : (s \in c.seq[i] /\ c.pos[i] = p)
                              <=> (s \in d.seq[i] /\ d.pos[i] = p)
    PROVE  Count(d, Cells, s, p) = Count(c, Cells, s, p)
<1>1. {i \in Cells : s \in c.seq[i] /\ c.pos[i] = p}
         = {i \in Cells : s \in d.seq[i] /\ d.pos[i] = p}
  OBVIOUS
<1> QED
  BY <1>1 DEF Count

\* What must be shown of a state of the cells.
LEMMA SoundBy ==
    ASSUME NEW d \in RawStates,
           d.used = {i \in Cells : d.pos[i] # Empty},
           \A i \in Cells : d.pos[i] = Empty <=> d.seq[i] = {},
           \A s \in Seqs, p \in Positions :
               d.seq_pos[s][p] = Count(d, Cells, s, p),
           ~d.has_shift => \A i \in Cells : d.shift[i] = 0
    PROVE  Sound(d)
<1>1. d.seq_pos \in [Seqs -> [Positions -> Int]]
  BY DEF RawStates
<1>2. ASSUME NEW s \in Seqs
      PROVE  d.seq_pos[s] \in [Positions -> Nat]
  <2>1. d.seq_pos[s] \in [Positions -> Int]
    BY <1>1
  <2>2. \A p \in Positions : d.seq_pos[s][p] \in Nat
    BY CountIsNat
  <2> QED
    BY <2>1, <2>2
<1>3. d.seq_pos \in [Seqs -> [Positions -> Nat]]
  BY <1>1, <1>2
<1>4. d \in CellStates
  BY <1>3 DEF RawStates, CellStates
<1> QED
  BY <1>4 DEF Sound, Exact

\* The state of the cells, field by field.
LEMMA SoundFields ==
    ASSUME NEW c, Sound(c)
    PROVE  /\ c.pos \in [Cells -> Positions \cup {Empty}]
           /\ c.shift \in [Cells -> Int] /\ c.seq \in [Cells -> SUBSET Seqs]
           /\ c.has_shift \in BOOLEAN /\ c.used \subseteq Cells
           /\ c.seq_pos \in [Seqs -> [Positions -> Int]]
           /\ c.used = {i \in Cells : c.pos[i] # Empty}
           /\ \A i \in Cells : c.pos[i] = Empty <=> c.seq[i] = {}
           /\ \A s \in Seqs, p \in Positions :
                 c.seq_pos[s][p] = Count(c, Cells, s, p)
           /\ ~c.has_shift => \A i \in Cells : c.shift[i] = 0
<1>1. /\ c.pos \in [Cells -> Positions \cup {Empty}]
      /\ c.shift \in [Cells -> Int] /\ c.seq \in [Cells -> SUBSET Seqs]
      /\ c.has_shift \in BOOLEAN /\ c.used \subseteq Cells
      /\ c.seq_pos \in [Seqs -> [Positions -> Nat]]
  BY DEF Sound, CellStates
<1>2. \A s \in Seqs : c.seq_pos[s] \in [Positions -> Int]
  <2> SUFFICES ASSUME NEW s \in Seqs PROVE c.seq_pos[s] \in [Positions -> Int]
    OBVIOUS
  <2>1. c.seq_pos[s] \in [Positions -> Nat]
    BY <1>1
  <2> QED
    BY <2>1
<1>3. c.seq_pos \in [Seqs -> [Positions -> Int]]
  BY <1>1, <1>2
<1> QED
  BY <1>1, <1>3 DEF Sound, Exact

\* What the counters are after some were lowered or raised.
LEMMA Counters ==
    ASSUME NEW c, NEW I \in SUBSET Cells, NEW ss,
           c.seq_pos \in [Seqs -> [Positions -> Int]]
    PROVE  /\ Dec(c, I, ss) \in [Seqs -> [Positions -> Int]]
           /\ Inc(c, I, ss) \in [Seqs -> [Positions -> Int]]
<1>1. \A s \in Seqs, p \in Positions :
          c.seq_pos[s][p] \in Int /\ Count(c, I, s, p) \in Int
  BY CountIsNat
<1> QED
  BY <1>1 DEF Dec, Inc

\* The same of one counter.
LEMMA CounterAt ==
    ASSUME NEW c, NEW I \in SUBSET Cells, NEW ss, NEW s \in Seqs,
           NEW p \in Positions, c.seq_pos[s][p] \in Int
    PROVE  /\ s \in ss => /\ Dec(c, I, ss)[s][p]
                                = c.seq_pos[s][p] - Count(c, I, s, p)
                          /\ Inc(c, I, ss)[s][p]
                                = c.seq_pos[s][p] + Count(c, I, s, p)
           /\ s \notin ss => /\ Dec(c, I, ss)[s][p] = c.seq_pos[s][p]
                             /\ Inc(c, I, ss)[s][p] = c.seq_pos[s][p]
<1>1. Count(c, I, s, p) \in Int
  BY CountIsNat
<1>2. /\ Dec(c, I, ss)[s][p] = c.seq_pos[s][p] - IF s \in ss
                                                 THEN Count(c, I, s, p) ELSE 0
      /\ Inc(c, I, ss)[s][p] = c.seq_pos[s][p] + IF s \in ss
                                                 THEN Count(c, I, s, p) ELSE 0
  BY DEF Dec, Inc
<1> QED
  BY <1>1, <1>2

-----------------------------------------------------------------------------
(* The operations of llama_kv_cells_unified.                               *)

\* rm
LEMMA RmIsSound ==
    ASSUME NEW c, Sound(c), NEW I \in SUBSET Cells
    PROVE  /\ Sound(Rm(c, I))
           /\ \A i \in Cells : Rm(c, I).pos[i] = IF i \in I THEN Empty
                                                 ELSE c.pos[i]
           /\ \A i \in Cells : Rm(c, I).seq[i] = IF i \in I THEN {}
                                                 ELSE c.seq[i]
           /\ \A i \in Cells : Rm(c, I).shift[i] = IF i \in I THEN 0
                                                   ELSE c.shift[i]
           /\ Rm(c, I).has_shift = c.has_shift
           /\ Rm(c, I).used = c.used \ I
<1> DEFINE d == Rm(c, I)
<1>1. /\ d.pos = [i \in Cells |-> IF i \in I THEN Empty ELSE c.pos[i]]
      /\ d.shift = [i \in Cells |-> IF i \in I THEN 0 ELSE c.shift[i]]
      /\ d.seq = [i \in Cells |-> IF i \in I THEN {} ELSE c.seq[i]]
      /\ d.seq_pos = Dec(c, I, Seqs)
      /\ d.used = c.used \ I
      /\ d.has_shift = c.has_shift
  BY DEF Rm, Sound, CellStates
<1>2. d \in RawStates
  <2>1. /\ Dec(c, I, Seqs) \in [Seqs -> [Positions -> Int]]
        /\ c.pos \in [Cells -> Positions \cup {Empty}]
        /\ c.shift \in [Cells -> Int] /\ c.seq \in [Cells -> SUBSET Seqs]
        /\ c.used \subseteq Cells
    BY SoundFields, Counters
  <2>2. /\ d.pos \in [Cells -> Positions \cup {Empty}]
        /\ d.shift \in [Cells -> Int] /\ d.seq \in [Cells -> SUBSET Seqs]
        /\ d.used \subseteq Cells /\ d.seq_pos \in [Seqs -> [Positions -> Int]]
    BY <1>1, <2>1
  <2> QED
    BY <2>2 DEF Rm, Sound, CellStates, RawStates
<1> HIDE DEF d
<1>3. ASSUME NEW s \in Seqs, NEW p \in Positions
      PROVE  d.seq_pos[s][p] = Count(d, Cells, s, p)
  <2>1. d.seq_pos[s][p] = Count(c, Cells, s, p) - Count(c, I, s, p)
    <3>1. c.seq_pos \in [Seqs -> [Positions -> Int]]
      BY SoundFields
    <3>2. Dec(c, I, Seqs)[s][p] = c.seq_pos[s][p] - Count(c, I, s, p)
      BY <3>1, CounterAt
    <3>3. c.seq_pos[s][p] = Count(c, Cells, s, p)
      BY SoundFields
    <3> QED
      BY <1>1, <3>2, <3>3
  <2>2. Count(d, I, s, p) = 0
    BY <1>1, CountNone
  <2>3. Count(d, Cells, s, p) = Count(c, Cells, s, p) - Count(c, I, s, p)
                                    + Count(d, I, s, p)
    BY <1>1, Recount
  <2>4. Count(c, Cells, s, p) \in Nat /\ Count(c, I, s, p) \in Nat
    BY CountIsNat
  <2> QED
    BY <2>1, <2>2, <2>3, <2>4
<1>4. /\ d.used = {i \in Cells : d.pos[i] # Empty}
      /\ \A i \in Cells : d.pos[i] = Empty <=> d.seq[i] = {}
      /\ ~d.has_shift => \A i \in Cells : d.shift[i] = 0
  BY <1>1, SoundFields
<1>5. Sound(d)
  BY <1>2, <1>3, <1>4, SoundBy
<1> QED
  BY <1>1, <1>5 DEF d

\* seq_rm, of one cell.
LEMMA SeqRmCell ==
    ASSUME NEW c, Sound(c), NEW I, NEW s0, NEW i \in Cells
    PROVE  /\ CellsSeqRm(c, I, s0).pos[i]
                 = IF i \in Only(c, I, s0) THEN Empty ELSE c.pos[i]
           /\ CellsSeqRm(c, I, s0).shift[i]
                 = IF i \in Only(c, I, s0) THEN 0 ELSE c.shift[i]
           /\ CellsSeqRm(c, I, s0).seq[i]
                 = IF i \in I THEN c.seq[i] \ {s0} ELSE c.seq[i]
BY DEF CellsSeqRm, Sound, CellStates

\* seq_rm
LEMMA SeqRmIsSound ==
    ASSUME NEW c, Sound(c), NEW I \in SUBSET Cells, NEW s0 \in Seqs
    PROVE  /\ Sound(CellsSeqRm(c, I, s0))
           /\ CellsSeqRm(c, I, s0).has_shift = c.has_shift
<1> DEFINE d == CellsSeqRm(c, I, s0)
           E == Only(c, I, s0)
           ss == {s0}
<1>1. /\ d.pos = [i \in Cells |-> IF i \in E THEN Empty ELSE c.pos[i]]
      /\ d.shift = [i \in Cells |-> IF i \in E THEN 0 ELSE c.shift[i]]
      /\ d.seq = [i \in Cells |-> IF i \in I THEN c.seq[i] \ {s0}
                                             ELSE c.seq[i]]
      /\ d.seq_pos = Dec(c, I, ss)
      /\ d.used = c.used \ E
      /\ d.has_shift = c.has_shift
  BY DEF CellsSeqRm, Sound, CellStates
<1>e. E \subseteq I /\ \A i \in Cells : i \in E <=> i \in I /\ c.seq[i] = {s0}
  BY DEF Only
<1>s. \A s : s \in ss <=> s = s0
  OBVIOUS
<1> HIDE DEF ss
<1>2. d \in RawStates
  <2>1. /\ Dec(c, I, ss) \in [Seqs -> [Positions -> Int]]
        /\ c.pos \in [Cells -> Positions \cup {Empty}]
        /\ c.shift \in [Cells -> Int] /\ c.seq \in [Cells -> SUBSET Seqs]
        /\ c.used \subseteq Cells
    BY SoundFields, Counters
  <2>2. /\ d.pos \in [Cells -> Positions \cup {Empty}]
        /\ d.shift \in [Cells -> Int]
    BY <1>1, <2>1
  <2>3. d.seq \in [Cells -> SUBSET Seqs]
    BY <1>1, <2>1
  <2>4. d.used \subseteq Cells /\ d.seq_pos \in [Seqs -> [Positions -> Int]]
    BY <1>1, <2>1
  <2> QED
    BY <2>2, <2>3, <2>4 DEF CellsSeqRm, Sound, CellStates, RawStates
<1> HIDE DEF d, E
<1>3. ASSUME NEW s \in Seqs, NEW p \in Positions
      PROVE  d.seq_pos[s][p] = Count(d, Cells, s, p)
  <2>1. c.seq_pos[s][p] \in Int
    BY SoundFields
  <2>2. c.seq_pos[s][p] = Count(c, Cells, s, p)
    BY SoundFields
  <2>3. CASE s = s0
    <3>1. Dec(c, I, ss)[s][p] = c.seq_pos[s][p] - Count(c, I, s, p)
      BY <2>1, <2>3, <1>s, CounterAt
    <3>2. Count(d, I, s, p) = 0
      BY <1>1, <2>3, CountNone
    <3>3. Count(d, Cells, s, p) = Count(c, Cells, s, p) - Count(c, I, s, p)
                                      + Count(d, I, s, p)
      BY <1>1, <1>e, Recount
    <3>4. Count(c, Cells, s, p) \in Nat /\ Count(c, I, s, p) \in Nat
      BY CountIsNat
    <3> QED
      BY <1>1, <2>2, <3>1, <3>2, <3>3, <3>4
  <2>4. CASE s # s0
    <3>1. Dec(c, I, ss)[s][p] = c.seq_pos[s][p]
      BY <2>1, <2>4, <1>s, CounterAt
    <3>2. \A i \in Cells : (s \in c.seq[i] /\ c.pos[i] = p)
                              <=> (s \in d.seq[i] /\ d.pos[i] = p)
      BY <1>1, <1>e, <2>4
    <3>3. Count(d, Cells, s, p) = Count(c, Cells, s, p)
      BY <3>2, CountSame
    <3> QED
      BY <1>1, <2>2, <3>1, <3>3
  <2> QED
    BY <2>3, <2>4
<1>4. /\ d.used = {i \in Cells : d.pos[i] # Empty}
      /\ ~d.has_shift => \A i \in Cells : d.shift[i] = 0
  BY <1>1, SoundFields
<1>5. ASSUME NEW i \in Cells
      PROVE  d.pos[i] = Empty <=> d.seq[i] = {}
  <2>1. c.pos[i] = Empty <=> c.seq[i] = {}
    BY SoundFields
  <2>2. CASE i \in E
    BY <1>1, <1>e, <2>2
  <2>3. CASE i \notin E
    <3>1. d.pos[i] = c.pos[i]
      BY <1>1, <2>3
    <3>2. d.seq[i] = {} <=> c.seq[i] = {}
      BY <1>1, <1>e, <2>3
    <3> QED
      BY <2>1, <3>1, <3>2
  <2> QED
    BY <2>2, <2>3
<1>6. Sound(d)
  BY <1>2, <1>3, <1>4, <1>5, SoundBy
<1> QED
  BY <1>1, <1>6 DEF d, E

\* seq_keep
LEMMA SeqKeepIsSound ==
    ASSUME NEW c, Sound(c), NEW s0 \in Seqs
    PROVE  /\ Sound(CellsSeqKeep(c, s0))
           /\ \A i \in Cells : \/ CellsSeqKeep(c, s0).pos[i] = Empty
                               \/ /\ CellsSeqKeep(c, s0).pos[i] = c.pos[i]
                                  /\ CellsSeqKeep(c, s0).shift[i] = c.shift[i]
<1> DEFINE gone == {i \in c.used : s0 \notin c.seq[i]}
           kept == Cells \ gone
           d == Rm(c, gone)
           e == CellsSeqKeep(c, s0)
           ss == Seqs \ {s0}
<1>1. /\ Sound(d) /\ gone \in SUBSET Cells /\ kept \in SUBSET Cells
      /\ \A i \in Cells : d.pos[i] = IF i \in gone THEN Empty ELSE c.pos[i]
      /\ \A i \in Cells : d.seq[i] = IF i \in gone THEN {} ELSE c.seq[i]
      /\ \A i \in Cells : d.shift[i] = IF i \in gone THEN 0 ELSE c.shift[i]
  <2>1. gone \in SUBSET Cells
    BY SoundFields
  <2> QED
    BY <2>1, RmIsSound
<1>g. \A i \in Cells : i \in gone <=> c.pos[i] # Empty /\ s0 \notin c.seq[i]
  BY SoundFields
<1>2. e = [d EXCEPT !.seq = [i \in Cells |-> @[i] \cap {s0}],
                    !.seq_pos = Dec(d, kept, ss)]
  BY DEF CellsSeqKeep
<1>k. \A i \in Cells : i \in kept <=> i \notin gone
  OBVIOUS
<1>s. \A s \in Seqs : s \in ss <=> s # s0
  OBVIOUS
<1> HIDE DEF gone, kept, d, e, ss
<1>3. /\ e.pos = d.pos /\ e.shift = d.shift /\ e.used = d.used
      /\ e.has_shift = d.has_shift
      /\ e.seq = [i \in Cells |-> d.seq[i] \cap {s0}]
      /\ e.seq_pos = Dec(d, kept, ss)
      /\ e \in RawStates
  <2>1. d.seq_pos \in [Seqs -> [Positions -> Int]]
        /\ d.seq \in [Cells -> SUBSET Seqs]
    BY <1>1, SoundFields
  <2>2. Dec(d, kept, ss) \in [Seqs -> [Positions -> Int]]
    BY <1>1, <2>1, Counters
  <2>3. [i \in Cells |-> d.seq[i] \cap {s0}] \in [Cells -> SUBSET Seqs]
    BY <2>1
  <2> QED
    BY <1>1, <1>2, <2>2, <2>3 DEF Sound, CellStates, RawStates
<1>4. ASSUME NEW s \in Seqs, NEW p \in Positions
      PROVE  e.seq_pos[s][p] = Count(e, Cells, s, p)
  <2>1. d.seq_pos[s][p] \in Int
    BY <1>1, SoundFields
  <2>2. d.seq_pos[s][p] = Count(d, Cells, s, p)
    BY <1>1, SoundFields
  <2>3. CASE s = s0
    <3>1. Dec(d, kept, ss)[s][p] = d.seq_pos[s][p]
      BY <1>1, <2>1, <2>3, <1>s, CounterAt
    <3>2. \A i \in Cells : (s \in d.seq[i] /\ d.pos[i] = p)
                              <=> (s \in e.seq[i] /\ e.pos[i] = p)
      BY <1>3, <2>3
    <3>3. Count(e, Cells, s, p) = Count(d, Cells, s, p)
      BY <3>2, CountSame
    <3> QED
      BY <1>3, <2>2, <3>1, <3>3
  <2>4. CASE s # s0
    <3>1. Dec(d, kept, ss)[s][p]
             = d.seq_pos[s][p] - Count(d, kept, s, p)
      BY <1>1, <2>1, <2>4, <1>s, CounterAt
    <3>2. Count(e, kept, s, p) = 0
      BY <1>1, <1>3, <2>4, CountNone
    <3>3. Count(e, Cells, s, p) = Count(d, Cells, s, p) - Count(d, kept, s, p)
                                      + Count(e, kept, s, p)
      <4>1. \A i \in Cells \ kept : d.seq[i] = {} /\ e.seq[i] = {}
        BY <1>1, <1>3, <1>k
      <4> QED
        BY <1>1, <4>1, Recount
    <3>4. Count(d, Cells, s, p) \in Nat /\ Count(d, kept, s, p) \in Nat
      BY <1>1, CountIsNat
    <3> QED
      BY <1>3, <2>2, <3>1, <3>2, <3>3, <3>4
  <2> QED
    BY <2>3, <2>4
<1>5. /\ e.used = {i \in Cells : e.pos[i] # Empty}
      /\ ~e.has_shift => \A i \in Cells : e.shift[i] = 0
  BY <1>1, <1>3, SoundFields
<1>6. ASSUME NEW i \in Cells
      PROVE  e.pos[i] = Empty <=> e.seq[i] = {}
  <2>1. /\ d.pos[i] = Empty <=> d.seq[i] = {}
        /\ c.pos[i] = Empty <=> c.seq[i] = {}
    BY <1>1, SoundFields
  <2>2. CASE i \in gone
    BY <1>1, <1>3, <2>2
  <2>3. CASE i \notin gone /\ c.pos[i] = Empty
    BY <1>1, <1>3, <2>1, <2>3
  <2>4. CASE i \notin gone /\ c.pos[i] # Empty
    <3>1. /\ s0 \in c.seq[i] /\ d.seq[i] = c.seq[i]
          /\ e.seq[i] = d.seq[i] \cap {s0}
      BY <1>1, <1>3, <1>g, <2>4
    <3>2. e.pos[i] = c.pos[i]
      BY <1>1, <1>3, <2>4
    <3> QED
      BY <2>4, <3>1, <3>2
  <2> QED
    BY <2>2, <2>3, <2>4
<1>7. Sound(e)
  BY <1>3, <1>4, <1>5, <1>6, SoundBy
<1>8. \A i \in Cells : \/ e.pos[i] = Empty
                       \/ e.pos[i] = c.pos[i] /\ e.shift[i] = c.shift[i]
  <2> SUFFICES ASSUME NEW i \in Cells
               PROVE  \/ e.pos[i] = Empty
                      \/ e.pos[i] = c.pos[i] /\ e.shift[i] = c.shift[i]
    OBVIOUS
  <2>1. CASE i \in gone
    <3>1. d.pos[i] = Empty
      BY <1>1, <2>1
    <3> QED
      BY <1>3, <3>1
  <2>2. CASE i \notin gone
    BY <1>1, <1>3, <2>2
  <2> QED
    BY <2>1, <2>2
<1> QED
  BY <1>7, <1>8 DEF e

\* A state that differs from a sound one on the cells I only, and counts what
\* they have now instead of what they had.
LEMMA Edited ==
    ASSUME NEW c, Sound(c), NEW d \in RawStates, NEW I \in SUBSET Cells,
           \A i \in Cells \ I : d.pos[i] = c.pos[i] /\ d.seq[i] = c.seq[i],
           \A i \in I : d.pos[i] = Empty <=> d.seq[i] = {},
           d.used = {i \in Cells : d.pos[i] # Empty},
           \A s \in Seqs, p \in Positions :
               d.seq_pos[s][p]
                   = c.seq_pos[s][p] - Count(c, I, s, p) + Count(d, I, s, p),
           ~d.has_shift => \A i \in Cells : d.shift[i] = 0
    PROVE  Sound(d)
<1>1. ASSUME NEW s \in Seqs, NEW p \in Positions
      PROVE  d.seq_pos[s][p] = Count(d, Cells, s, p)
  <2>1. Count(d, Cells, s, p) = Count(c, Cells, s, p) - Count(c, I, s, p)
                                    + Count(d, I, s, p)
    BY Recount
  <2>2. c.seq_pos[s][p] = Count(c, Cells, s, p)
    BY SoundFields
  <2> QED
    BY <2>1, <2>2
<1>2. \A i \in Cells : d.pos[i] = Empty <=> d.seq[i] = {}
  <2>1. \A i \in Cells : c.pos[i] = Empty <=> c.seq[i] = {}
    BY SoundFields
  <2> QED
    BY <2>1
<1> QED
  BY <1>1, <1>2, SoundBy

\* The cells I are not counted any more, are changed, and are counted again.
LEMMA ChangeIsSound ==
    ASSUME NEW c, Sound(c), NEW e \in RawStates, NEW I \in SUBSET Cells,
           e.seq_pos = Dec(c, I, Seqs),
           \A i \in Cells \ I : e.pos[i] = c.pos[i] /\ e.seq[i] = c.seq[i],
           \A i \in I : e.pos[i] = Empty <=> e.seq[i] = {},
           e.used = {i \in Cells : e.pos[i] # Empty},
           ~e.has_shift => \A i \in Cells : e.shift[i] = 0
    PROVE  Sound([e EXCEPT !.seq_pos = Inc(e, I, Seqs)])
<1> DEFINE d == [e EXCEPT !.seq_pos = Inc(e, I, Seqs)]
<1>1. e.seq_pos \in [Seqs -> [Positions -> Int]]
  BY DEF RawStates
<1>2. Inc(e, I, Seqs) \in [Seqs -> [Positions -> Int]]
  BY <1>1, Counters
<1>3. /\ d \in RawStates /\ d.pos = e.pos /\ d.seq = e.seq /\ d.used = e.used
      /\ d.shift = e.shift /\ d.has_shift = e.has_shift
      /\ d.seq_pos = Inc(e, I, Seqs)
  BY <1>2 DEF RawStates
<1> HIDE DEF d
<1>4. ASSUME NEW s \in Seqs, NEW p \in Positions
      PROVE  d.seq_pos[s][p]
                 = c.seq_pos[s][p] - Count(c, I, s, p) + Count(d, I, s, p)
  <2>1. e.seq_pos[s][p] \in Int /\ c.seq_pos[s][p] \in Int
    BY <1>1, SoundFields
  <2>2. Inc(e, I, Seqs)[s][p] = e.seq_pos[s][p] + Count(e, I, s, p)
    BY <2>1, CounterAt
  <2>3. Dec(c, I, Seqs)[s][p] = c.seq_pos[s][p] - Count(c, I, s, p)
    BY <2>1, CounterAt
  <2>4. Count(e, I, s, p) = Count(d, I, s, p)
    BY <1>3 DEF Count
  <2> QED
    BY <1>3, <2>2, <2>3, <2>4
<1>5. Sound(d)
  BY <1>3, <1>4, Edited
<1> QED
  BY <1>5 DEF d

\* set
LEMMA SetIsSound ==
    ASSUME NEW c, Sound(c), NEW o, Sound(o), NEW I \in SUBSET Cells
    PROVE  /\ Sound(Set(c, I, o)) /\ Set(c, I, o).has_shift = c.has_shift
           /\ \A i \in Cells : Set(c, I, o).pos[i] = IF i \in I THEN o.pos[i]
                                                     ELSE c.pos[i]
           /\ \A i \in Cells : Set(c, I, o).seq[i] = IF i \in I THEN o.seq[i]
                                                     ELSE c.seq[i]
<1> DEFINE e == [c EXCEPT
                !.pos = [i \in Cells |-> IF i \in I THEN o.pos[i] ELSE @[i]],
                !.seq = [i \in Cells |-> IF i \in I THEN o.seq[i] ELSE @[i]],
                !.used = (@ \ {i \in I : o.pos[i] = Empty})
                            \cup {i \in I : o.pos[i] # Empty},
                !.seq_pos = Dec(c, I, Seqs)]
<1>1. /\ e.pos = [i \in Cells |-> IF i \in I THEN o.pos[i] ELSE c.pos[i]]
      /\ e.seq = [i \in Cells |-> IF i \in I THEN o.seq[i] ELSE c.seq[i]]
      /\ e.shift = c.shift /\ e.has_shift = c.has_shift
      /\ e.used = (c.used \ {i \in I : o.pos[i] = Empty})
                      \cup {i \in I : o.pos[i] # Empty}
      /\ e.seq_pos = Dec(c, I, Seqs)
  BY DEF Sound, CellStates
<1>2. e \in RawStates
  <2>1. /\ Dec(c, I, Seqs) \in [Seqs -> [Positions -> Int]]
        /\ c.pos \in [Cells -> Positions \cup {Empty}]
        /\ c.seq \in [Cells -> SUBSET Seqs] /\ c.used \subseteq Cells
    BY SoundFields, Counters
  <2>2. /\ o.pos \in [Cells -> Positions \cup {Empty}]
        /\ o.seq \in [Cells -> SUBSET Seqs]
    BY SoundFields
  <2>3. /\ e.pos \in [Cells -> Positions \cup {Empty}]
        /\ e.seq \in [Cells -> SUBSET Seqs]
    BY <1>1, <2>1, <2>2
  <2>4. e.used \subseteq Cells /\ e.seq_pos \in [Seqs -> [Positions -> Int]]
    BY <1>1, <2>1
  <2> QED
    BY <2>3, <2>4 DEF Sound, CellStates, RawStates
<1>3. Set(c, I, o) = [e EXCEPT !.seq_pos = Inc(e, I, Seqs)]
  BY DEF Set
<1> HIDE DEF e
<1>4. \A i \in Cells \ I : e.pos[i] = c.pos[i] /\ e.seq[i] = c.seq[i]
  BY <1>1
<1>5. \A i \in I : e.pos[i] = Empty <=> e.seq[i] = {}
  <2>1. \A i \in I : o.pos[i] = Empty <=> o.seq[i] = {}
    BY SoundFields
  <2> QED
    BY <1>1, <2>1
<1>6. e.used = {i \in Cells : e.pos[i] # Empty}
  BY <1>1, SoundFields
<1>7. ~e.has_shift => \A i \in Cells : e.shift[i] = 0
  BY <1>1, SoundFields
<1>8. Sound(Set(c, I, o))
  <2>1. Sound([e EXCEPT !.seq_pos = Inc(e, I, Seqs)])
    BY <1>1, <1>2, <1>4, <1>5, <1>6, <1>7, ChangeIsSound
  <2> QED
    BY <1>3, <2>1
<1>9. /\ Set(c, I, o).has_shift = e.has_shift
      /\ Set(c, I, o).pos = e.pos /\ Set(c, I, o).seq = e.seq
  BY <1>2, <1>3 DEF RawStates
<1> QED
  BY <1>1, <1>8, <1>9


-----------------------------------------------------------------------------
(* Slots.                                                                  *)

\* Places for parts: cells that follow each other, and as many positions.
Slots == {slot \in [cells : SUBSET Cells, first : Nat] :
             \E a, b \in Cells : /\ a <= b /\ slot.cells = a .. b
                                 /\ slot.first + b - a <= MaxPos}

\* The first and the last number of an interval.
LEMMA EndsOfInterval ==
    ASSUME NEW a \in Int, NEW b \in Int, a <= b
    PROVE  Min(a .. b) = a /\ Max(a .. b) = b
<1>1. a \in a .. b /\ b \in a .. b
  OBVIOUS
<1>2. Min(a .. b) \in a .. b /\ \A y \in a .. b : Min(a .. b) <= y
  BY <1>1 DEF Min
<1>3. Max(a .. b) \in a .. b /\ \A y \in a .. b : Max(a .. b) >= y
  BY <1>1 DEF Max
<1> QED
  BY <1>1, <1>2, <1>3

\* A slot's cells and the positions of its tokens.
LEMMA SlotShape ==
    ASSUME NEW slot \in Slots
    PROVE  /\ slot.cells \in SUBSET Cells /\ slot.cells # {}
           /\ NextHead(slot) \in 1 .. Size
           /\ \A i \in slot.cells :
                 /\ slot.first + i - Min(slot.cells) \in Positions
                 /\ slot.first <= slot.first + i - Min(slot.cells)
           /\ slot.first \in Nat
<1>1. PICK a, b \in Cells : /\ a <= b /\ slot.cells = a .. b
                            /\ slot.first + b - a <= MaxPos
  BY DEF Slots
<1>2. slot.first \in Nat /\ slot.cells \in SUBSET Cells
  BY DEF Slots
<1>3. a \in 0 .. Size - 1 /\ b \in 0 .. Size - 1 /\ Size \in Nat
  BY KvAssumption DEF Cells
<1>4. Min(slot.cells) = a /\ Max(slot.cells) = b
  BY <1>1, <1>3, EndsOfInterval
<1>5. a \in slot.cells
  BY <1>1, <1>3
<1>6. NextHead(slot) \in 1 .. Size
  BY <1>3, <1>4 DEF NextHead
<1>7. MaxPos \in Nat
  BY KvAssumption
<1>8. \A i \in slot.cells :
         /\ slot.first + i - Min(slot.cells) \in Positions
         /\ slot.first <= slot.first + i - Min(slot.cells)
  BY <1>1, <1>2, <1>3, <1>4, <1>7 DEF Positions
<1> QED
  BY <1>2, <1>5, <1>6, <1>8

\* pos_set and seq_add, of a slot whose cells are empty.
LEMMA PlaceIsSound ==
    ASSUME NEW c, Sound(c), NEW slot \in Slots, NEW ss \in SUBSET Seqs,
           ss # {}, \A i \in slot.cells : c.pos[i] = Empty
    PROVE  /\ Sound(Place(c, slot, ss))
           /\ Place(c, slot, ss).has_shift = c.has_shift
           /\ \A i \in Cells :
                 /\ Place(c, slot, ss).pos[i]
                       = IF i \in slot.cells
                         THEN slot.first + i - Min(slot.cells) ELSE c.pos[i]
                 /\ Place(c, slot, ss).seq[i]
                       = IF i \in slot.cells THEN ss ELSE c.seq[i]
                 /\ Place(c, slot, ss).shift[i] = c.shift[i]
<1> DEFINE I == slot.cells
           e == [c EXCEPT
                   !.pos = [i \in Cells |-> IF i \in I
                                            THEN slot.first + i - Min(I)
                                            ELSE @[i]],
                   !.seq = [i \in Cells |-> IF i \in I THEN ss ELSE @[i]],
                   !.used = @ \cup I]
           d == [e EXCEPT !.seq_pos = Inc(e, I, ss)]
<1>1. d = Place(c, slot, ss)
  BY DEF Place
<1>2. /\ e.pos = [i \in Cells |-> IF i \in I THEN slot.first + i - Min(I)
                                             ELSE c.pos[i]]
      /\ e.seq = [i \in Cells |-> IF i \in I THEN ss ELSE c.seq[i]]
      /\ e.shift = c.shift /\ e.has_shift = c.has_shift
      /\ e.used = c.used \cup I /\ e.seq_pos = c.seq_pos
  BY DEF Sound, CellStates
<1>3. I \in SUBSET Cells /\ \A i \in I : slot.first + i - Min(I) \in Positions
  BY SlotShape
<1>4. e \in RawStates
  <2>1. /\ c.pos \in [Cells -> Positions \cup {Empty}]
        /\ c.seq \in [Cells -> SUBSET Seqs] /\ c.used \subseteq Cells
        /\ c.seq_pos \in [Seqs -> [Positions -> Int]]
    BY SoundFields
  <2>2. /\ e.pos \in [Cells -> Positions \cup {Empty}]
        /\ e.seq \in [Cells -> SUBSET Seqs]
    BY <1>2, <1>3, <2>1
  <2>3. e.used \subseteq Cells /\ e.seq_pos \in [Seqs -> [Positions -> Int]]
    BY <1>2, <1>3, <2>1
  <2> QED
    BY <2>2, <2>3 DEF Sound, CellStates, RawStates
<1> HIDE DEF e
<1>5. e.seq_pos \in [Seqs -> [Positions -> Int]]
  BY <1>2, SoundFields
<1>6. Inc(e, I, ss) \in [Seqs -> [Positions -> Int]]
  BY <1>3, <1>5, Counters
<1>7. /\ d \in RawStates /\ d.pos = e.pos /\ d.seq = e.seq /\ d.used = e.used
      /\ d.shift = e.shift /\ d.has_shift = e.has_shift
      /\ d.seq_pos = Inc(e, I, ss)
  BY <1>4, <1>6 DEF RawStates
<1> HIDE DEF d, I
<1>e. \A i \in Cells : c.pos[i] = Empty <=> c.seq[i] = {}
  BY SoundFields
<1>8. ASSUME NEW s \in Seqs, NEW p \in Positions
      PROVE  d.seq_pos[s][p]
                 = c.seq_pos[s][p] - Count(c, I, s, p) + Count(d, I, s, p)
  <2>1. e.seq_pos[s][p] \in Int /\ e.seq_pos[s][p] = c.seq_pos[s][p]
    BY <1>2, <1>5
  <2>2. \A i \in I : c.seq[i] = {}
    BY <1>3, <1>e DEF I
  <2>3. Count(c, I, s, p) = 0
    BY <1>3, <2>2, CountNone
  <2>4. Count(e, I, s, p) = Count(d, I, s, p)
    BY <1>7 DEF Count
  <2>5. Count(d, I, s, p) \in Nat
    BY <1>3, CountIsNat
  <2>6. CASE s \in ss
    <3>1. Inc(e, I, ss)[s][p] = e.seq_pos[s][p] + Count(e, I, s, p)
      BY <1>3, <2>1, <2>6, CounterAt
    <3> QED
      BY <1>7, <2>1, <2>3, <2>4, <2>5, <3>1
  <2>7. CASE s \notin ss
    <3>1. Inc(e, I, ss)[s][p] = e.seq_pos[s][p]
      BY <1>3, <2>1, <2>7, CounterAt
    <3>2. \A i \in I : s \notin d.seq[i]
      BY <1>2, <1>3, <1>7, <2>7
    <3>3. Count(d, I, s, p) = 0
      BY <1>3, <3>2, CountNone
    <3> QED
      BY <1>7, <2>1, <2>3, <3>1, <3>3
  <2> QED
    BY <2>6, <2>7
<1>9. \A i \in Positions : i # Empty
  BY DEF Positions, Empty
<1>10. \A i \in Cells \ I : d.pos[i] = c.pos[i] /\ d.seq[i] = c.seq[i]
  BY <1>2, <1>7
<1>11. \A i \in I : d.pos[i] # Empty /\ d.seq[i] # {}
  BY <1>2, <1>3, <1>7, <1>9
<1>12. d.used = {i \in Cells : d.pos[i] # Empty}
  <2>1. c.used = {i \in Cells : c.pos[i] # Empty}
    BY SoundFields
  <2> QED
    BY <1>2, <1>3, <1>7, <1>10, <1>11, <2>1
<1>13. ~d.has_shift => \A i \in Cells : d.shift[i] = 0
  BY <1>2, <1>7, SoundFields
<1>14. Sound(d)
  BY <1>3, <1>7, <1>8, <1>10, <1>11, <1>12, <1>13, Edited
<1>15. \A i \in Cells :
          /\ d.pos[i] = IF i \in I THEN slot.first + i - Min(I) ELSE c.pos[i]
          /\ d.seq[i] = IF i \in I THEN ss ELSE c.seq[i]
          /\ d.shift[i] = c.shift[i]
  BY <1>2, <1>7
<1> QED
  BY <1>1, <1>2, <1>7, <1>14, <1>15 DEF I

\* A cell that has what it had, or nothing.
Same(d, c, i) == \/ d.pos[i] = Empty
                 \/ d.pos[i] = c.pos[i] /\ d.shift[i] = c.shift[i]

\* Cells that have what they had, or less.
Thinner(d, c) == \A i \in Cells : Same(d, c, i) /\ d.seq[i] \subseteq c.seq[i]

-----------------------------------------------------------------------------
(* Loops.                                                                  *)

\* A set of naturals has a least one.
LEMMA LeastOfNat ==
    ASSUME NEW T, T \subseteq Nat, T # {}
    PROVE  \E x \in T : \A y \in T : x <= y
<1>1. \E x \in T : \A y \in T : ~(<<y, x>> \in OpToRel(<, Nat))
  BY NatLessThanWellFounded, WFMin
<1>2. \A x, y \in Nat : y < x => <<y, x>> \in OpToRel(<, Nat)
  BY DEF OpToRel
<1>3. \A x, y \in Nat : x <= y \/ y < x
  OBVIOUS
<1> QED
  BY <1>1, <1>2, <1>3

\* The least number of a set.
LEMMA MinIsIn ==
    ASSUME NEW T, T \subseteq Nat, T # {}
    PROVE  Min(T) \in T /\ \A y \in T : Min(T) <= y
<1>1. \E x \in T : \A y \in T : x <= y
  BY LeastOfNat
<1> QED
  BY <1>1 DEF Min

\* The greatest number of a finite set.
LEMMA MaxIsIn ==
    ASSUME NEW T, NEW n \in Nat, T \subseteq 0 .. n, T # {}
    PROVE  Max(T) \in T /\ \A y \in T : y <= Max(T)
<1> DEFINE U == {n - y : y \in T}
<1>1. U \subseteq Nat /\ U # {}
  <2>1. \A y \in T : n - y \in Nat
    OBVIOUS
  <2>2. U \subseteq Nat
    BY <2>1
  <2>3. PICK y \in T : TRUE
    OBVIOUS
  <2>4. n - y \in U
    OBVIOUS
  <2> QED
    BY <2>2, <2>4
<1>2. PICK u \in U : \A y \in U : u <= y
  <2> HIDE DEF U
  <2> QED
    BY <1>1, LeastOfNat
<1>3. PICK x \in T : u = n - x
  <2>1. \A v \in U : \E x \in T : v = n - x
    OBVIOUS
  <2> QED
    BY <1>2, <2>1
<1>4. \A y \in T : x >= y
  <2> SUFFICES ASSUME NEW y \in T PROVE x >= y
    OBVIOUS
  <2>1. n - x <= n - y
    BY <1>2, <1>3
  <2>2. x \in Int /\ y \in Int
    OBVIOUS
  <2> QED
    BY <2>1, <2>2
<1>5. Max(T) \in T /\ \A y \in T : Max(T) >= y
  BY <1>4 DEF Max
<1>6. \A y \in T : y \in Int
  OBVIOUS
<1> QED
  BY <1>5, <1>6

\* What holds at first, and after each round of n if before it, always does.
LEMMA Upward ==
    ASSUME NEW n \in Nat, NEW P, 0 \in P,
           \A k \in 1 .. n : k - 1 \in P => k \in P
    PROVE  \A k \in 0 .. n : k \in P
<1> DEFINE T == {k \in 0 .. n : k \notin P}
<1>1. SUFFICES ASSUME T # {} PROVE FALSE
  OBVIOUS
<1>2. T \subseteq Nat
  OBVIOUS
<1>3. PICK x \in T : \A y \in T : x <= y
  <2> HIDE DEF T
  <2> QED
    BY <1>1, <1>2, LeastOfNat
<1>4. x \in 1 .. n
  OBVIOUS
<1>5. x - 1 \in P
  BY <1>3, <1>4
<1> QED
  BY <1>4, <1>5

\* The subsets of a finite set.
LEMMA Subsets ==
    ASSUME NEW L, IsFiniteSet(L), NEW t \in SUBSET L
    PROVE  /\ IsFiniteSet(t) /\ Cardinality(t) \in Nat
           /\ Cardinality(t) <= Cardinality(L)
           /\ Cardinality(t) = 0 <=> t = {}
<1>1. IsFiniteSet(t) /\ Cardinality(t) <= Cardinality(L)
  BY FS_Subset
<1> QED
  BY <1>1, FS_CardinalityType, FS_EmptySet

\* The element that a fold takes next.
Next_(t) == CHOOSE x \in t : TRUE

\* Without one of its elements a set has one less.
LEMMA OneLess ==
    ASSUME NEW t, IsFiniteSet(t), t # {}
    PROVE  /\ Next_(t) \in t
           /\ Cardinality(t \ {Next_(t)}) = Cardinality(t) - 1
<1>1. Next_(t) \in t
  BY DEF Next_
<1> QED
  BY <1>1, FS_RemoveElement

\* What f has for each set of sequences that were purged, of those in S.
Purges(f, S, base, c, slot) ==
    f = [t \in S |->
            IF t = {} THEN base
            ELSE Purge(f[t \ {Next_(t)}], Next_(t),
                       Overwritten(c, slot, Next_(t)))]

\* There is such a function for the subsets of a finite set.
LEMMA PurgesExist ==
    ASSUME NEW L, IsFiniteSet(L), NEW base, NEW c, NEW slot
    PROVE  \E f : Purges(f, SUBSET L, base, c, slot)
<1> DEFINE Upto(m) == {t \in SUBSET L : Cardinality(t) <= m}
           P == {m \in Nat : \E f : Purges(f, Upto(m), base, c, slot)}
           n == Cardinality(L)
<1>1. n \in Nat
  BY FS_CardinalityType
<1>2. 0 \in P
  <2> DEFINE g == [t \in Upto(0) |-> base]
  <2>1. ASSUME NEW t \in Upto(0) PROVE t = {}
    <3>1. Cardinality(t) \in Nat /\ (Cardinality(t) = 0 <=> t = {})
      BY Subsets
    <3> QED
      BY <3>1
  <2>2. Purges(g, Upto(0), base, c, slot)
    BY <2>1 DEF Purges
  <2> QED
    BY <2>2
<1>3. ASSUME NEW m \in 1 .. n, m - 1 \in P
      PROVE  m \in P
  <2>1. PICK f : Purges(f, Upto(m - 1), base, c, slot)
    BY <1>3
  <2> DEFINE Round(t) == Purge(f[t \ {Next_(t)}], Next_(t),
                               Overwritten(c, slot, Next_(t)))
             g == [t \in Upto(m) |-> IF t = {} THEN base ELSE Round(t)]
  <2>2. \A t \in Upto(m - 1) : f[t] = IF t = {} THEN base ELSE Round(t)
    BY <2>1 DEF Purges
  <2>3. ASSUME NEW t \in Upto(m), t # {}
        PROVE  t \ {Next_(t)} \in Upto(m - 1)
    <3>1. IsFiniteSet(t) /\ Cardinality(t) \in Nat /\ Cardinality(t) <= m
      BY Subsets
    <3>2. Cardinality(t \ {Next_(t)}) = Cardinality(t) - 1
      BY <2>3, <3>1, OneLess
    <3>3. t \ {Next_(t)} \in SUBSET L
      OBVIOUS
    <3> QED
      BY <3>1, <3>2, <3>3
  <2>4. ASSUME NEW t \in Upto(m - 1) PROVE t \in Upto(m)
    <3>1. Cardinality(t) \in Nat /\ Cardinality(t) <= m - 1
      BY Subsets
    <3> QED
      BY <3>1
  <2>5. \A t \in Upto(m - 1) : g[t] = f[t]
    BY <2>2, <2>4
  <2>6. g = [t \in Upto(m) |->
                IF t = {} THEN base
                ELSE Purge(g[t \ {Next_(t)}], Next_(t),
                           Overwritten(c, slot, Next_(t)))]
    <3>1. \A t \in Upto(m) : t # {} => g[t \ {Next_(t)}] = f[t \ {Next_(t)}]
      BY <2>3, <2>5
    <3> HIDE DEF Upto
    <3> QED
      BY <3>1
  <2>7. Purges(g, Upto(m), base, c, slot)
    BY <2>6 DEF Purges
  <2> HIDE DEF g, Upto
  <2> QED
    BY <2>7
<1> HIDE DEF P
<1>4. n \in P
  BY <1>1, <1>2, <1>3, Upward
<1>5. Upto(n) = SUBSET L
  BY Subsets
<1> QED
  BY <1>4, <1>5 DEF P

\* The last position of a sequence.
LEMMA SeqPosMaxType ==
    ASSUME NEW c, NEW s
    PROVE  SeqPosMax(c, s) \in -1 .. MaxPos
<1>1. Present(c, s) \subseteq 0 .. MaxPos /\ MaxPos \in Nat
  BY KvAssumption DEF Present, Positions
<1>2. CASE Present(c, s) = {}
  BY <1>1, <1>2 DEF SeqPosMax
<1>3. CASE Present(c, s) # {}
  <2>1. Max(Present(c, s)) \in Present(c, s)
    BY <1>1, <1>3, MaxIsIn
  <2> QED
    BY <1>1, <1>3, <2>1 DEF SeqPosMax
<1> QED
  BY <1>2, <1>3

\* A position is present where a cell of the sequence has it.
LEMMA PresentIs ==
    ASSUME NEW c, Sound(c), NEW s \in Seqs, NEW p \in Positions
    PROVE  p \in Present(c, s) <=> \E i \in Cells : s \in c.seq[i]
                                                    /\ c.pos[i] = p
<1> DEFINE T == {i \in Cells : s \in c.seq[i] /\ c.pos[i] = p}
<1>1. c.seq_pos[s][p] = Cardinality(T)
  BY DEF Sound, Exact, Count
<1>2. IsFiniteSet(T)
  BY CellsFinite
<1>3. Cardinality(T) \in Nat /\ (Cardinality(T) = 0 <=> T = {})
  <2> HIDE DEF T
  <2> QED
    BY <1>2, FS_CardinalityType, FS_EmptySet
<1>4. p \in Present(c, s) <=> Cardinality(T) > 0
  <2> HIDE DEF T
  <2> QED
    BY <1>1 DEF Present
<1>5. T # {} <=> \E i \in Cells : s \in c.seq[i] /\ c.pos[i] = p
  OBVIOUS
<1> HIDE DEF T
<1> QED
  BY <1>3, <1>4, <1>5

\* The cells of a sequence lie between its first and its last position, which
\* one of them has.
LEMMA SeqPosEnds ==
    ASSUME NEW c, Sound(c), NEW s \in Seqs,
           NEW i \in Cells, s \in c.seq[i]
    PROVE  /\ c.pos[i] \in Positions /\ SeqPosMin(c, s) \in Positions
           /\ SeqPosMin(c, s) <= c.pos[i] /\ c.pos[i] <= SeqPosMax(c, s)
           /\ \E x \in Cells : s \in c.seq[x] /\ c.pos[x] = SeqPosMax(c, s)
<1>1. c.pos[i] \in Positions
  <2>1. c.pos[i] # Empty /\ c.pos[i] \in Positions \cup {Empty}
    BY SoundFields
  <2> QED
    BY <2>1
<1>2. Present(c, s) \subseteq 0 .. MaxPos /\ MaxPos \in Nat
      /\ Present(c, s) \subseteq Positions
  BY KvAssumption DEF Present, Positions
<1>3. c.pos[i] \in Present(c, s)
  BY <1>1, PresentIs
<1>4. Present(c, s) # {} /\ Present(c, s) \subseteq Nat
  BY <1>2, <1>3
<1>5. /\ SeqPosMin(c, s) = Min(Present(c, s))
      /\ SeqPosMax(c, s) = Max(Present(c, s))
  BY <1>4 DEF SeqPosMin, SeqPosMax
<1>6. /\ Min(Present(c, s)) \in Present(c, s)
      /\ Min(Present(c, s)) <= c.pos[i]
  BY <1>3, <1>4, MinIsIn
<1>7. /\ Max(Present(c, s)) \in Present(c, s)
      /\ c.pos[i] <= Max(Present(c, s))
  BY <1>2, <1>3, <1>4, MaxIsIn
<1>8. \E x \in Cells : s \in c.seq[x] /\ c.pos[x] = Max(Present(c, s))
  BY <1>2, <1>7, PresentIs
<1> QED
  BY <1>1, <1>2, <1>5, <1>6, <1>7, <1>8

\* One sequence loses the positions up to the last one it lost, cell by cell.
LEMMA PurgeCell ==
    ASSUME NEW c, Sound(c), NEW s \in Seqs, NEW lost,
           lost \subseteq Positions, lost # {}, NEW i \in Cells
    PROVE  /\ c.pos[i] <= Max(lost) =>
                 Purge(c, s, lost).seq[i] = c.seq[i] \ {s}
           /\ ~(c.pos[i] <= Max(lost)) =>
                 Purge(c, s, lost).seq[i] = c.seq[i]
<1> DEFINE I == InRange(c, s, SeqPosMin(c, s), Max(lost) + 1)
<1>1. Purge(c, s, lost).seq[i] = IF i \in I THEN c.seq[i] \ {s} ELSE c.seq[i]
  <2> HIDE DEF I
  <2>1. Purge(c, s, lost) = CellsSeqRm(c, I, s)
    BY DEF Purge, I
  <2> QED
    BY <2>1 DEF CellsSeqRm, Sound, CellStates
<1>2. Max(lost) \in Nat
  <2>1. lost \subseteq 0 .. MaxPos /\ MaxPos \in Nat
    BY KvAssumption DEF Positions
  <2>2. Max(lost) \in Positions
    BY <2>1, MaxIsIn
  <2> QED
    BY <2>2 DEF Positions
<1>3. CASE s \notin c.seq[i]
  BY <1>1, <1>3
<1>4. CASE s \in c.seq[i]
  <2>1. /\ c.pos[i] \in Positions /\ SeqPosMin(c, s) \in Positions
        /\ SeqPosMin(c, s) <= c.pos[i]
    BY <1>4, SeqPosEnds
  <2>2. c.pos[i] \in Nat /\ SeqPosMin(c, s) \in Nat
    BY <2>1, KvAssumption DEF Positions
  <2>3. i \in I <=> c.pos[i] <= Max(lost)
    BY <1>2, <1>4, <2>1, <2>2 DEF InRange
  <2> QED
    BY <1>1, <2>3
<1> QED
  BY <1>3, <1>4

\* One sequence loses the positions up to the last one it lost.
LEMMA PurgeIsSound ==
    ASSUME NEW c, Sound(c), NEW s \in Seqs, NEW lost
    PROVE  /\ Sound(Purge(c, s, lost))
           /\ Purge(c, s, lost).has_shift = c.has_shift
           /\ Thinner(Purge(c, s, lost), c)
<1> DEFINE I == InRange(c, s, SeqPosMin(c, s), Max(lost) + 1)
           d == CellsSeqRm(c, I, s)
<1>1. I \in SUBSET Cells
  BY DEF InRange
<1>2. d = Purge(c, s, lost)
  BY DEF Purge
<1> HIDE DEF I
<1>3. /\ Sound(d) /\ d.has_shift = c.has_shift
      /\ \A i \in Cells :
            /\ d.pos[i] = IF i \in Only(c, I, s) THEN Empty ELSE c.pos[i]
            /\ d.shift[i] = IF i \in Only(c, I, s) THEN 0 ELSE c.shift[i]
            /\ d.seq[i] = IF i \in I THEN c.seq[i] \ {s} ELSE c.seq[i]
  <2>1. Sound(d) /\ d.has_shift = c.has_shift
    BY <1>1, SeqRmIsSound
  <2>2. ASSUME NEW i \in Cells
        PROVE  /\ d.pos[i] = IF i \in Only(c, I, s) THEN Empty ELSE c.pos[i]
               /\ d.shift[i] = IF i \in Only(c, I, s) THEN 0 ELSE c.shift[i]
               /\ d.seq[i] = IF i \in I THEN c.seq[i] \ {s} ELSE c.seq[i]
    BY DEF CellsSeqRm, Sound, CellStates
  <2> QED
    BY <2>1, <2>2
<1> HIDE DEF d
<1>4. Thinner(d, c)
  BY <1>3 DEF Thinner, Same
<1> QED
  BY <1>2, <1>3, <1>4

\* What a cell has when the tokens of a part have been put into the slot, and
\* the sequences that lose the tokens up to a position, of any cell.
PosPut(c, slot, i) == IF i \in slot.cells THEN slot.first + i - Min(slot.cells)
                                         ELSE c.pos[i]
SeqPut(c, slot, ss, i) == IF i \in slot.cells THEN ss ELSE c.seq[i]
Losing(c, slot, t, p) == {s \in t : p <= Max(Overwritten(c, slot, s))}

\* apply_ubatch
LEMMA ApplyIsSound ==
    ASSUME NEW c, Sound(c), NEW slot \in Slots, NEW ss \in SUBSET Seqs, ss # {}
    PROVE  /\ Sound(ApplyUbatch(c, slot, ss))
           /\ ApplyUbatch(c, slot, ss).has_shift = c.has_shift
           /\ \A i \in Cells \ slot.cells : Same(ApplyUbatch(c, slot, ss), c, i)
           /\ \A i \in slot.cells :
                 /\ ApplyUbatch(c, slot, ss).seq[i] \subseteq ss
                 /\ ApplyUbatch(c, slot, ss).pos[i]
                       \in {Empty, slot.first + i - Min(slot.cells)}
           /\ \A i \in Cells :
                 /\ ApplyUbatch(c, slot, ss).seq[i]
                       = SeqPut(c, slot, ss, i)
                         \ Losing(c, slot, Losers(c, slot), PosPut(c, slot, i))
                 /\ ApplyUbatch(c, slot, ss).pos[i]
                       \in {Empty, PosPut(c, slot, i)}
<1> DEFINE full == {i \in slot.cells : c.pos[i] # Empty}
           base == Place(Rm(c, full), slot, ss)
           L == Losers(c, slot)
           f == CHOOSE f : Purges(f, SUBSET L, base, c, slot)
<1>1. /\ Sound(base) /\ base.has_shift = c.has_shift
      /\ \A i \in Cells \ slot.cells : Same(base, c, i)
      /\ \A i \in slot.cells :
            base.seq[i] = ss /\ base.pos[i] = slot.first + i - Min(slot.cells)
      /\ \A i \in Cells : /\ base.pos[i] = PosPut(c, slot, i)
                          /\ base.seq[i] = SeqPut(c, slot, ss, i)
  <2> DEFINE r == Rm(c, full)
  <2>1. slot.cells \in SUBSET Cells
    BY SlotShape
  <2>2. full \in SUBSET Cells
    BY <2>1
  <2>3. /\ Sound(r) /\ r.has_shift = c.has_shift
        /\ \A i \in Cells : r.pos[i] = IF i \in full THEN Empty ELSE c.pos[i]
        /\ \A i \in Cells : r.shift[i] = IF i \in full THEN 0 ELSE c.shift[i]
        /\ \A i \in Cells : r.seq[i] = IF i \in full THEN {} ELSE c.seq[i]
    BY <2>2, RmIsSound
  <2>4. \A i \in slot.cells : r.pos[i] = Empty
    BY <2>1, <2>3
  <2>5. \A i \in Cells \ slot.cells : i \notin full
    OBVIOUS
  <2> HIDE DEF full, r
  <2>6. /\ Sound(Place(r, slot, ss))
        /\ Place(r, slot, ss).has_shift = c.has_shift
        /\ \A i \in Cells :
              /\ Place(r, slot, ss).pos[i]
                    = IF i \in slot.cells
                      THEN slot.first + i - Min(slot.cells) ELSE r.pos[i]
              /\ Place(r, slot, ss).seq[i]
                    = IF i \in slot.cells THEN ss ELSE r.seq[i]
              /\ Place(r, slot, ss).shift[i] = r.shift[i]
    BY <2>3, <2>4, PlaceIsSound
  <2>7. base = Place(r, slot, ss)
    BY DEF r
  <2> HIDE DEF base
  <2>8. \A i \in Cells \ slot.cells : Same(base, c, i)
    BY <2>3, <2>5, <2>6, <2>7 DEF Same
  <2>9. \A i \in Cells : /\ base.pos[i] = PosPut(c, slot, i)
                         /\ base.seq[i] = SeqPut(c, slot, ss, i)
    BY <2>3, <2>5, <2>6, <2>7 DEF PosPut, SeqPut
  <2> QED
    BY <2>1, <2>6, <2>7, <2>8, <2>9
<1>2. L \subseteq Seqs /\ IsFiniteSet(L)
  BY KvAssumption, FS_Subset DEF Losers
<1>3. ApplyUbatch(c, slot, ss) = f[L]
  BY DEF ApplyUbatch, FoldSet, MapThenFoldSet, Purges, Next_
<1> HIDE DEF base, L
<1>4. Purges(f, SUBSET L, base, c, slot)
  BY <1>2, PurgesExist
<1> HIDE DEF f
<1>5. \A t \in SUBSET L :
          f[t] = IF t = {} THEN base
                 ELSE Purge(f[t \ {Next_(t)}], Next_(t),
                            Overwritten(c, slot, Next_(t)))
  BY <1>4 DEF Purges
<1>6. Cardinality(L) \in Nat
  BY <1>2, FS_CardinalityType
<1>l. \A s \in L : Overwritten(c, slot, s) \subseteq Positions
                   /\ Overwritten(c, slot, s) # {}
  <2> SUFFICES ASSUME NEW s \in L
               PROVE  /\ Overwritten(c, slot, s) \subseteq Positions
                      /\ Overwritten(c, slot, s) # {}
    OBVIOUS
  <2>1. Overwritten(c, slot, s) # {}
    BY DEF L, Losers
  <2>2. ASSUME NEW i \in Only(c, slot.cells, s)
        PROVE  c.pos[i] \in Positions
    <3>1. i \in Cells /\ s \in c.seq[i]
      BY <2>2, SlotShape DEF Only
    <3> QED
      BY <1>2, <3>1, SeqPosEnds
  <2>3. Overwritten(c, slot, s) \subseteq Positions
    BY <2>2 DEF Overwritten
  <2> QED
    BY <2>1, <2>3
<1> DEFINE Good(d, t) ==
              /\ Sound(d) /\ d.has_shift = c.has_shift
              /\ Thinner(d, base)
              /\ \A i \in Cells : d.seq[i]
                    = base.seq[i] \ Losing(c, slot, t, base.pos[i])
           P == {m \in Nat : \A t \in SUBSET L :
                                 Cardinality(t) <= m => Good(f[t], t)}
<1> HIDE DEF Good
<1>7. 0 \in P
  <2>1. Good(base, {})
    BY <1>1 DEF Good, Thinner, Same, Losing
  <2>2. Good(f[{}], {})
    BY <1>5, <2>1
  <2>3. ASSUME NEW t \in SUBSET L, Cardinality(t) <= 0
        PROVE  Good(f[t], t)
    <3>1. t = {}
      BY <1>2, <2>3, Subsets
    <3> QED
      BY <2>2, <3>1
  <2> QED
    BY <2>3
<1>8. ASSUME NEW m \in 1 .. Cardinality(L), m - 1 \in P
      PROVE  m \in P
  <2>1. ASSUME NEW t \in SUBSET L, Cardinality(t) <= m, t # {}
        PROVE  Good(f[t], t)
    <3>0. IsFiniteSet(t) /\ Cardinality(t) \in Nat
      BY <1>2, Subsets
    <3>1. Next_(t) \in t
      BY <2>1, <3>0, OneLess
    <3>2. Cardinality(t \ {Next_(t)}) = Cardinality(t) - 1
      BY <2>1, <3>0, OneLess
    <3>3. Good(f[t \ {Next_(t)}], t \ {Next_(t)})
      <4>1. t \ {Next_(t)} \in SUBSET L
        OBVIOUS
      <4>2. Cardinality(t \ {Next_(t)}) <= m - 1
        BY <2>1, <3>0, <3>2
      <4> QED
        BY <1>8, <4>1, <4>2
    <3>4. f[t] = Purge(f[t \ {Next_(t)}], Next_(t),
                       Overwritten(c, slot, Next_(t)))
      BY <1>5, <2>1
    <3>5. /\ Sound(f[t]) /\ f[t].has_shift = c.has_shift
          /\ Thinner(f[t], f[t \ {Next_(t)}])
      BY <1>2, <3>1, <3>3, <3>4, PurgeIsSound DEF Good
    <3>6. Thinner(f[t \ {Next_(t)}], base)
      BY <3>3 DEF Good
    <3>7. Thinner(f[t], base)
      BY <3>5, <3>6 DEF Thinner, Same
    <3> DEFINE u == Next_(t)
               e == f[t \ {u}]
               d == f[t]
    <3>8. ASSUME NEW i \in Cells
          PROVE  d.seq[i] = base.seq[i] \ Losing(c, slot, t, base.pos[i])
      <4>1. /\ e.seq[i] = base.seq[i]
                              \ Losing(c, slot, t \ {u}, base.pos[i])
            /\ Sound(e) /\ Same(e, base, i)
        BY <3>3 DEF Good, Thinner
      <4>2. d.seq[i] = IF e.pos[i] <= Max(Overwritten(c, slot, u))
                       THEN e.seq[i] \ {u} ELSE e.seq[i]
        <5>1. d = Purge(e, u, Overwritten(c, slot, u))
          BY <3>4
        <5>2. u \in L /\ u \in Seqs
          BY <1>2, <3>1
        <5> HIDE DEF u, e, d
        <5> DEFINE lost == Overwritten(c, slot, u)
        <5>3. lost \subseteq Positions /\ lost # {} /\ Sound(e)
          BY <1>l, <4>1, <5>2
        <5> HIDE DEF lost
        <5>4. /\ e.pos[i] <= Max(lost) =>
                    Purge(e, u, lost).seq[i] = e.seq[i] \ {u}
              /\ ~(e.pos[i] <= Max(lost)) =>
                    Purge(e, u, lost).seq[i] = e.seq[i]
          BY <5>2, <5>3, PurgeCell
        <5> QED
          BY <5>1, <5>4 DEF lost
      <4>3. u \in t
        BY <3>1
      <4> HIDE DEF u, e, d
      <4>4. CASE e.pos[i] = Empty
        <5>1. e.seq[i] = {}
          BY <4>1, <4>4 DEF Sound, Exact
        <5> QED
          BY <4>1, <4>2, <5>1 DEF Losing
      <4>5. CASE e.pos[i] = base.pos[i]
        BY <4>1, <4>2, <4>3, <4>5 DEF Losing
      <4> QED
        BY <4>1, <4>4, <4>5 DEF Same
    <3> QED
      BY <3>5, <3>7, <3>8 DEF Good
  <2>2. Good(f[{}], {})
    BY <1>7, FS_EmptySet
  <2>3. \A t \in SUBSET L : Cardinality(t) <= m => Good(f[t], t)
    <3> SUFFICES ASSUME NEW t \in SUBSET L, Cardinality(t) <= m
                 PROVE  Good(f[t], t)
      OBVIOUS
    <3>1. CASE t = {}
      BY <2>2, <3>1
    <3> QED
      BY <2>1, <3>1
  <2>4. m \in Nat
    OBVIOUS
  <2> QED
    BY <2>3, <2>4
<1> HIDE DEF P
<1>9. Cardinality(L) \in P
  BY <1>6, <1>7, <1>8, Upward
<1>10. Good(f[L], L)
  BY <1>6, <1>9 DEF P
<1>11. Thinner(f[L], base)
  BY <1>10 DEF Good
<1>12. \A i \in Cells \ slot.cells : Same(f[L], c, i)
  BY <1>1, <1>11 DEF Thinner, Same
<1>13. \A i \in slot.cells :
          /\ f[L].seq[i] \subseteq ss
          /\ f[L].pos[i] \in {Empty, slot.first + i - Min(slot.cells)}
  <2>1. slot.cells \in SUBSET Cells
    BY SlotShape
  <2> QED
    BY <1>1, <1>11, <2>1 DEF Thinner, Same
<1>14. \A i \in Cells :
          /\ f[L].seq[i] = SeqPut(c, slot, ss, i)
                              \ Losing(c, slot, L, PosPut(c, slot, i))
          /\ f[L].pos[i] \in {Empty, PosPut(c, slot, i)}
  BY <1>1, <1>10 DEF Good, Thinner, Same
<1> QED
  BY <1>3, <1>10, <1>12, <1>13, <1>14 DEF Good, L

-----------------------------------------------------------------------------
(* What a caller does between two batches.                                 *)

\* No sequence is given a cell that it has.
Apart == "overlap" \notin Mishaps

\* seq_cp: the cells of the range are counted for one sequence more.
LEMMA SeqCpIsSound ==
    ASSUME Sound(cells), Apart, NEW src \in Seqs, NEW dst \in Seqs,
           NEW p0, NEW p1, SeqCp(src, dst, p0, p1)
    PROVE  Sound(cells') /\ \A i \in Cells : Same(cells', cells, i)
<1> DEFINE c == cells
           I == InRange(cells, src, p0, p1)
           ss == {dst}
           e == [c EXCEPT !.seq = [i \in Cells |-> IF i \in I
                                                   THEN @[i] \cup {dst}
                                                   ELSE @[i]]]
           d == [e EXCEPT !.seq_pos = Inc(e, I, ss)]
<1>1. /\ I \in SUBSET Cells /\ cells' = d
      /\ \A i \in I : src \in c.seq[i] /\ dst \notin c.seq[i]
  BY DEF SeqCp, InRange, Apart
<1>2. /\ e.pos = c.pos /\ e.shift = c.shift /\ e.has_shift = c.has_shift
      /\ e.seq = [i \in Cells |-> IF i \in I THEN c.seq[i] \cup {dst}
                                             ELSE c.seq[i]]
      /\ e.used = c.used /\ e.seq_pos = c.seq_pos
  BY DEF Sound, CellStates
<1>3. e \in RawStates
  <2>1. c.seq \in [Cells -> SUBSET Seqs]
        /\ c.seq_pos \in [Seqs -> [Positions -> Int]]
    BY SoundFields
  <2>2. e.seq \in [Cells -> SUBSET Seqs]
    BY <1>2, <2>1
  <2> QED
    BY <1>2, <2>1, <2>2 DEF Sound, CellStates, RawStates
<1> HIDE DEF e
<1>4. e.seq_pos \in [Seqs -> [Positions -> Int]]
  BY <1>2, SoundFields
<1>5. Inc(e, I, ss) \in [Seqs -> [Positions -> Int]]
  <2> HIDE DEF ss
  <2> QED
    BY <1>1, <1>4, Counters
<1>6. /\ d \in RawStates /\ d.pos = e.pos /\ d.seq = e.seq /\ d.used = e.used
      /\ d.shift = e.shift /\ d.has_shift = e.has_shift
      /\ d.seq_pos = Inc(e, I, ss)
  BY <1>3, <1>5 DEF RawStates
<1>s. \A s : s \in ss <=> s = dst
  OBVIOUS
<1> HIDE DEF d, I, ss, c
<1>c. Sound(c)
  BY DEF c
<1>7. ASSUME NEW s \in Seqs, NEW p \in Positions
      PROVE  d.seq_pos[s][p]
                 = c.seq_pos[s][p] - Count(c, I, s, p) + Count(d, I, s, p)
  <2>1. e.seq_pos[s][p] \in Int /\ e.seq_pos[s][p] = c.seq_pos[s][p]
    BY <1>2, <1>4
  <2>2. Count(e, I, s, p) = Count(d, I, s, p)
    BY <1>6 DEF Count
  <2>3. Count(d, I, s, p) \in Nat
    BY <1>1, CountIsNat
  <2>4. CASE s = dst
    <3>1. Inc(e, I, ss)[s][p] = e.seq_pos[s][p] + Count(e, I, s, p)
      BY <1>1, <2>1, <2>4, <1>s, CounterAt
    <3>2. Count(c, I, s, p) = 0
      BY <1>1, <2>4, CountNone
    <3> QED
      BY <1>6, <2>1, <2>2, <2>3, <3>1, <3>2
  <2>5. CASE s # dst
    <3>1. Inc(e, I, ss)[s][p] = e.seq_pos[s][p]
      BY <1>1, <2>1, <2>5, <1>s, CounterAt
    <3>2. \A i \in I : s \in c.seq[i] <=> s \in e.seq[i]
      BY <1>1, <1>2, <2>5
    <3>3. {i \in I : s \in c.seq[i] /\ c.pos[i] = p}
             = {i \in I : s \in e.seq[i] /\ e.pos[i] = p}
      BY <1>2, <3>2
    <3>4. Count(c, I, s, p) = Count(e, I, s, p)
      BY <3>3 DEF Count
    <3> QED
      BY <1>6, <2>1, <2>2, <2>3, <3>1, <3>4
  <2> QED
    BY <2>4, <2>5
<1>8. \A i \in Cells \ I : d.pos[i] = c.pos[i] /\ d.seq[i] = c.seq[i]
  BY <1>2, <1>6
<1>9. \A i \in I : d.pos[i] # Empty /\ d.seq[i] # {}
  <2>1. \A i \in I : c.pos[i] = Empty <=> c.seq[i] = {}
    BY <1>1, <1>c, SoundFields
  <2> QED
    BY <1>1, <1>2, <1>6, <2>1
<1>10. d.used = {i \in Cells : d.pos[i] # Empty}
  <2>1. c.used = {i \in Cells : c.pos[i] # Empty}
    BY <1>c, SoundFields
  <2> QED
    BY <1>2, <1>6, <2>1
<1>11. ~d.has_shift => \A i \in Cells : d.shift[i] = 0
  BY <1>2, <1>6, <1>c, SoundFields
<1>12. Sound(d)
  BY <1>1, <1>6, <1>c, <1>7, <1>8, <1>9, <1>10, <1>11, Edited
<1>13. \A i \in Cells : Same(d, c, i)
  BY <1>2, <1>6 DEF Same
<1> QED
  BY <1>1, <1>12, <1>13 DEF c

\* seq_add, pos_add
LEMMA SeqAddIsSound ==
    ASSUME Sound(cells), NEW s0 \in Seqs, NEW p0, NEW p1, NEW n \in Int,
           SeqAdd(s0, p0, p1, n)
    PROVE  /\ Sound(cells') /\ head' \in 0 .. Size
           /\ \A i \in Cells : \/ Same(cells', cells, i)
                               \/ /\ cells.pos[i] # Empty
                                  /\ cells'.pos[i] = cells.pos[i] + n
                                  /\ cells'.shift[i] = cells.shift[i] + n
<1> DEFINE I == InRange(cells, s0, p0, p1)
           gone == {i \in I : cells.pos[i] + n < 0}
           stay == I \ gone
           c == Rm(cells, gone)
           e == [c EXCEPT
                   !.pos = [i \in Cells |-> IF i \in stay THEN @[i] + n
                                                          ELSE @[i]],
                   !.shift = [i \in Cells |-> IF i \in stay THEN @[i] + n
                                                            ELSE @[i]],
                   !.has_shift = @ \/ I # {},
                   !.seq_pos = Dec(c, stay, Seqs)]
<1>1. /\ I \in SUBSET Cells /\ gone \in SUBSET Cells /\ stay \in SUBSET Cells
      /\ \A i \in I : /\ s0 \in cells.seq[i]
                      /\ cells.pos[i] + n <= MaxPos
      /\ cells' = [e EXCEPT !.seq_pos = Inc(e, stay, Seqs)]
      /\ head' = IF gone = {} THEN 0 ELSE Min(gone)
  BY DEF SeqAdd, InRange
<1>2. /\ cells.pos \in [Cells -> Positions \cup {Empty}]
      /\ \A i \in Cells : cells.pos[i] = Empty <=> cells.seq[i] = {}
  BY SoundFields
<1>3. \A i \in stay : cells.pos[i] + n \in Positions
  <2>1. \A i \in stay : cells.pos[i] \in Int
    BY <1>1, <1>2, KvAssumption DEF Positions, Empty
  <2> QED
    BY <1>1, <2>1, KvAssumption DEF Positions
<1>4. head' \in 0 .. Size
  <2>1. gone \subseteq 0 .. Size - 1 /\ Size \in Nat
    BY <1>1, KvAssumption DEF Cells
  <2>2. ASSUME gone # {} PROVE Min(gone) \in gone
    <3>1. \E x \in gone : \A y \in gone : x <= y
      <4>1. gone \subseteq Nat
        BY <2>1
      <4> HIDE DEF gone
      <4> QED
        BY <2>2, <4>1, LeastOfNat
    <3> HIDE DEF gone
    <3> QED
      BY <3>1 DEF Min
  <2> HIDE DEF gone
  <2> QED
    BY <1>1, <2>1, <2>2
<1>5. /\ Sound(c)
      /\ \A i \in Cells : c.pos[i] = IF i \in gone THEN Empty ELSE cells.pos[i]
      /\ \A i \in Cells : c.seq[i] = IF i \in gone THEN {} ELSE cells.seq[i]
      /\ \A i \in Cells : c.shift[i] = IF i \in gone THEN 0 ELSE cells.shift[i]
  BY <1>1, RmIsSound
<1>6. \A i \in stay : i \notin gone /\ i \in I
  OBVIOUS
<1>7. I = {} => stay = {}
  OBVIOUS
<1>8. e = [c EXCEPT
             !.pos = [i \in Cells |-> IF i \in stay THEN @[i] + n ELSE @[i]],
             !.shift = [i \in Cells |-> IF i \in stay THEN @[i] + n ELSE @[i]],
             !.has_shift = @ \/ I # {},
             !.seq_pos = Dec(c, stay, Seqs)]
  OBVIOUS
<1> HIDE DEF I, gone, stay, c, e
<1>9. /\ e.pos = [i \in Cells |-> IF i \in stay THEN c.pos[i] + n
                                                ELSE c.pos[i]]
      /\ e.shift = [i \in Cells |-> IF i \in stay THEN c.shift[i] + n
                                                  ELSE c.shift[i]]
      /\ e.seq = c.seq /\ e.used = c.used
      /\ e.seq_pos = Dec(c, stay, Seqs)
  BY <1>5, <1>8 DEF Sound, CellStates
<1>10. e.has_shift = (c.has_shift \/ I # {})
  BY <1>5, <1>8, Zenon DEF Sound, CellStates
<1>11. \A i \in stay : e.pos[i] \in Positions
  BY <1>1, <1>3, <1>5, <1>6, <1>9
<1>12. e \in RawStates
  <2>1. /\ Dec(c, stay, Seqs) \in [Seqs -> [Positions -> Int]]
        /\ c.pos \in [Cells -> Positions \cup {Empty}]
        /\ c.shift \in [Cells -> Int]
        /\ c.has_shift \in BOOLEAN
    BY <1>1, <1>5, SoundFields, Counters
  <2>2. e.pos \in [Cells -> Positions \cup {Empty}]
    <3>1. \A i \in Cells : e.pos[i] \in Positions \cup {Empty}
      BY <1>9, <1>11, <2>1
    <3> QED
      BY <1>9, <3>1
  <2>3. e.shift \in [Cells -> Int]
    BY <1>9, <2>1
  <2>4. (c.has_shift \/ I # {}) \in BOOLEAN
    BY <2>1
  <2>5. e.seq_pos \in [Seqs -> [Positions -> Int]]
    BY <1>9, <2>1
  <2>6. e.has_shift \in BOOLEAN
    BY <1>10, <2>4, Zenon
  <2> QED
    BY <1>5, <1>8, <2>2, <2>3, <2>5, <2>6 DEF Sound, CellStates, RawStates
<1>13. \A i \in Cells \ stay : e.pos[i] = c.pos[i] /\ e.seq[i] = c.seq[i]
  BY <1>9
<1>14. \A i \in stay : e.pos[i] # Empty /\ e.seq[i] # {}
  <2>1. \A p \in Positions : p # Empty
    BY DEF Positions, Empty
  <2> QED
    BY <1>1, <1>5, <1>6, <1>9, <1>11, <2>1
<1>15. e.used = {i \in Cells : e.pos[i] # Empty}
  <2>1. /\ c.used = {i \in Cells : c.pos[i] # Empty}
        /\ \A i \in Cells : c.pos[i] = Empty <=> c.seq[i] = {}
    BY <1>5, SoundFields
  <2>2. \A i \in stay : c.pos[i] # Empty
    BY <1>1, <1>9, <1>14, <2>1
  <2> QED
    BY <1>9, <1>13, <1>14, <2>1, <2>2
<1>16. ~e.has_shift => \A i \in Cells : e.shift[i] = 0
  <2>1. ~c.has_shift => \A i \in Cells : c.shift[i] = 0
    BY <1>5, SoundFields
  <2>2. ASSUME ~e.has_shift PROVE ~c.has_shift /\ I = {}
    BY <1>10, <2>2, Zenon
  <2> QED
    BY <1>7, <1>9, <2>1, <2>2
<1>17. Sound(cells')
  <2>1. Sound([e EXCEPT !.seq_pos = Inc(e, stay, Seqs)])
    BY <1>1, <1>5, <1>9, <1>12, <1>13, <1>14, <1>15, <1>16, ChangeIsSound
  <2> QED
    BY <1>1, <2>1
<1>18. /\ cells'.pos = e.pos /\ cells'.shift = e.shift
  BY <1>1, <1>12 DEF RawStates
<1>19. ASSUME NEW i \in Cells
       PROVE  \/ Same(cells', cells, i)
              \/ /\ cells.pos[i] # Empty
                 /\ cells'.pos[i] = cells.pos[i] + n
                 /\ cells'.shift[i] = cells.shift[i] + n
  <2>1. CASE i \in stay
    <3>1. cells.pos[i] # Empty
      <4>1. s0 \in cells.seq[i]
        BY <1>1, <1>6, <2>1
      <4> QED
        BY <1>2, <4>1
    <3> QED
      BY <1>5, <1>6, <1>9, <1>18, <2>1, <3>1
  <2>2. CASE i \notin stay
    BY <1>5, <1>9, <1>18, <2>2 DEF Same
  <2> QED
    BY <2>1, <2>2
<1> QED
  BY <1>4, <1>17, <1>19

\* seq_div, pos_div
LEMMA SeqDivIsSound ==
    ASSUME Sound(cells), NEW s0 \in Seqs, NEW p0, NEW p1,
           SeqDiv(s0, p0, p1, 2)
    PROVE  /\ Sound(cells')
           /\ \A i \in Cells \ InRange(cells, s0, p0, p1) :
                 Same(cells', cells, i)
<1> DEFINE I == InRange(cells, s0, p0, p1)
           c == cells
           e == [c EXCEPT
                   !.pos = [i \in Cells |-> IF i \in I THEN @[i] \div 2
                                                       ELSE @[i]],
                   !.shift = [i \in Cells |->
                                 IF i \in I
                                 THEN @[i] + cells.pos[i] - cells.pos[i] \div 2
                                 ELSE @[i]],
                   !.has_shift = @ \/ I # {},
                   !.seq_pos = Dec(cells, I, Seqs)]
<1>1. /\ I \in SUBSET Cells /\ \A i \in I : s0 \in c.seq[i]
      /\ cells' = [e EXCEPT !.seq_pos = Inc(e, I, Seqs)]
  BY DEF SeqDiv, InRange
<1>2. /\ c.pos \in [Cells -> Positions \cup {Empty}]
      /\ c.shift \in [Cells -> Int] /\ c.has_shift \in BOOLEAN
      /\ c.used = {i \in Cells : c.pos[i] # Empty}
      /\ \A i \in Cells : c.pos[i] = Empty <=> c.seq[i] = {}
      /\ Dec(c, I, Seqs) \in [Seqs -> [Positions -> Int]]
  BY <1>1, SoundFields, Counters
<1>3. \A i \in I : /\ c.pos[i] \in Positions /\ c.pos[i] \in Int
                   /\ c.pos[i] \div 2 \in Positions
                   /\ c.pos[i] \div 2 \in Int
  <2>1. \A i \in I : c.pos[i] \in Positions
    BY <1>1, <1>2
  <2>2. \A p \in Positions : p \in Int /\ p \div 2 \in Positions
                             /\ p \div 2 \in Int
    BY KvAssumption DEF Positions
  <2> QED
    BY <2>1, <2>2
<1>4. e = [c EXCEPT
             !.pos = [i \in Cells |-> IF i \in I THEN @[i] \div 2 ELSE @[i]],
             !.shift = [i \in Cells |->
                           IF i \in I THEN @[i] + c.pos[i] - c.pos[i] \div 2
                           ELSE @[i]],
             !.has_shift = @ \/ I # {},
             !.seq_pos = Dec(c, I, Seqs)]
  OBVIOUS
<1>c. Sound(c)
  OBVIOUS
<1> HIDE DEF I, c, e
<1>5. /\ e.pos = [i \in Cells |-> IF i \in I THEN c.pos[i] \div 2
                                             ELSE c.pos[i]]
      /\ e.shift = [i \in Cells |->
                       IF i \in I THEN c.shift[i] + c.pos[i] - c.pos[i] \div 2
                       ELSE c.shift[i]]
      /\ e.seq = c.seq /\ e.used = c.used
      /\ e.seq_pos = Dec(c, I, Seqs)
  BY <1>c, <1>4 DEF Sound, CellStates
<1>6. e.has_shift = (c.has_shift \/ I # {})
  BY <1>c, <1>4, Zenon DEF Sound, CellStates
<1>7. e \in RawStates
  <2>1. e.pos \in [Cells -> Positions \cup {Empty}]
    BY <1>2, <1>3, <1>5
  <2>2. e.shift \in [Cells -> Int]
    BY <1>2, <1>3, <1>5
  <2>3. (c.has_shift \/ I # {}) \in BOOLEAN
    BY <1>2
  <2>4. e.has_shift \in BOOLEAN
    BY <1>6, <2>3, Zenon
  <2>5. e.seq_pos \in [Seqs -> [Positions -> Int]]
    BY <1>2, <1>5
  <2> QED
    BY <1>c, <1>4, <2>1, <2>2, <2>4, <2>5 DEF Sound, CellStates, RawStates
<1>8. \A i \in Cells \ I : e.pos[i] = c.pos[i] /\ e.seq[i] = c.seq[i]
  BY <1>5
<1>9. \A i \in I : e.pos[i] # Empty /\ e.seq[i] # {} /\ c.pos[i] # Empty
  <2>1. \A p \in Positions : p # Empty
    BY DEF Positions, Empty
  <2> QED
    BY <1>1, <1>3, <1>5, <2>1
<1>10. e.used = {i \in Cells : e.pos[i] # Empty}
  <2>1. ASSUME NEW i \in Cells
        PROVE  e.pos[i] # Empty <=> c.pos[i] # Empty
    BY <1>8, <1>9
  <2>2. e.used = c.used
    BY <1>5
  <2> QED
    BY <1>2, <2>1, <2>2
<1>11. ~e.has_shift => \A i \in Cells : e.shift[i] = 0
  <2>1. ~c.has_shift => \A i \in Cells : c.shift[i] = 0
    BY <1>c, SoundFields
  <2>2. ASSUME ~e.has_shift PROVE ~c.has_shift /\ I = {}
    BY <1>6, <2>2, Zenon
  <2> QED
    BY <1>5, <2>1, <2>2
<1>12. Sound([e EXCEPT !.seq_pos = Inc(e, I, Seqs)])
  BY <1>1, <1>c, <1>5, <1>7, <1>8, <1>9, <1>10, <1>11, ChangeIsSound
<1>13. /\ cells'.pos = e.pos /\ cells'.shift = e.shift
  BY <1>1, <1>7 DEF RawStates
<1>14. \A i \in Cells \ I : Same(cells', c, i)
  BY <1>5, <1>13 DEF Same
<1> QED
  BY <1>1, <1>12, <1>14 DEF I, c

\* reset_shift
LEMMA ShiftedIsSound ==
    ASSUME NEW c, Sound(c)
    PROVE  /\ Sound(Shifted(c)) /\ ~Shifted(c).has_shift
           /\ Shifted(c).pos = c.pos /\ Shifted(c).seq = c.seq
           /\ Shifted(c).used = c.used
<1> DEFINE d == Shifted(c)
<1>1. /\ d.pos = c.pos /\ d.seq = c.seq /\ d.used = c.used
      /\ d.seq_pos = c.seq_pos /\ d.has_shift = FALSE
      /\ d.shift = [i \in Cells |-> 0]
  BY DEF Shifted, Sound, CellStates
<1>2. d \in CellStates
  <2>1. [i \in Cells |-> 0] \in [Cells -> Int] /\ FALSE \in BOOLEAN
    OBVIOUS
  <2> QED
    BY <2>1 DEF Shifted, Sound, CellStates
<1> HIDE DEF d
<1>3. \A s \in Seqs, p \in Positions : Count(d, Cells, s, p)
                                          = Count(c, Cells, s, p)
  BY <1>1 DEF Count
<1>4. Exact(d)
  BY <1>1, <1>3 DEF Sound, Exact
<1> QED
  BY <1>1, <1>2, <1>4 DEF Sound, d

-----------------------------------------------------------------------------
(* Defragmentation.                                                        *)

\* Where cells move to: each from a cell with a token to an empty one of its
\* own.
Movable(c, ids) ==
    /\ ids \in [Cells -> Cells \cup {Size}]
    /\ \A i \in Cells : ids[i] # Size => /\ c.pos[i] # Empty
                                         /\ c.pos[ids[i]] = Empty
    /\ \A i, j \in Cells : i # j /\ ids[i] # Size => ids[i] # ids[j]

\* What a cell has after the moves.
LEMMA MovedIs ==
    ASSUME NEW c, NEW ids, Movable(c, ids), NEW f, NEW nothing
    PROVE  \A i \in Cells :
              /\ ids[i] # Size =>
                    /\ Moved(f, ids, nothing)[ids[i]] = f[i]
                    /\ Moved(f, ids, nothing)[i] = nothing
              /\ (ids[i] = Size /\ \A j \in Cells : ids[j] # i) =>
                    Moved(f, ids, nothing)[i] = f[i]
<1> SUFFICES ASSUME NEW i \in Cells
             PROVE  /\ ids[i] # Size =>
                          /\ Moved(f, ids, nothing)[ids[i]] = f[i]
                          /\ Moved(f, ids, nothing)[i] = nothing
                    /\ (ids[i] = Size /\ \A j \in Cells : ids[j] # i) =>
                          Moved(f, ids, nothing)[i] = f[i]
  OBVIOUS
<1>1. /\ Size \notin Cells
      /\ \A j \in Cells : ids[j] # Size => ids[j] \in Cells
  BY KvAssumption DEF Cells, Movable
<1>2. ASSUME ids[i] # Size
      PROVE  Moved(f, ids, nothing)[ids[i]] = f[i]
  <2>1. (CHOOSE j \in Cells : ids[j] = ids[i]) = i
    <3>1. \A j \in Cells : ids[j] = ids[i] => j = i
      BY <1>2 DEF Movable
    <3> QED
      BY <3>1
  <2>2. ids[i] \in Cells /\ \E j \in Cells : ids[j] = ids[i]
    BY <1>1, <1>2
  <2>3. Moved(f, ids, nothing)[ids[i]]
           = f[CHOOSE j \in Cells : ids[j] = ids[i]]
    BY <2>2 DEF Moved
  <2> QED
    BY <2>1, <2>3
<1>3. ASSUME ids[i] # Size
      PROVE  Moved(f, ids, nothing)[i] = nothing
  <2>1. \A j \in Cells : ids[j] # i
    BY <1>1, <1>3 DEF Movable
  <2> QED
    BY <1>3, <2>1 DEF Moved
<1>4. ASSUME ids[i] = Size, \A j \in Cells : ids[j] # i
      PROVE  Moved(f, ids, nothing)[i] = f[i]
  BY <1>4 DEF Moved
<1> QED
  BY <1>2, <1>3, <1>4

\* The moves lose no token and make none.
LEMMA DefraggedIsSound ==
    ASSUME NEW c, Sound(c), NEW ids, Movable(c, ids)
    PROVE  /\ Sound(Defragged(c, ids))
           /\ Defragged(c, ids).has_shift = c.has_shift
<1> DEFINE d == Defragged(c, ids)
<1>0. /\ c.pos \in [Cells -> Positions \cup {Empty}]
      /\ c.shift \in [Cells -> Int]
      /\ c.seq \in [Cells -> SUBSET Seqs]
      /\ c.used = {i \in Cells : c.pos[i] # Empty}
      /\ \A i \in Cells : c.pos[i] = Empty <=> c.seq[i] = {}
      /\ \A s \in Seqs, p \in Positions :
            c.seq_pos[s][p] = Count(c, Cells, s, p)
      /\ ~c.has_shift => \A i \in Cells : c.shift[i] = 0
  BY SoundFields
<1>1. /\ d.pos = Moved(c.pos, ids, Empty)
      /\ d.shift = Moved(c.shift, ids, 0)
      /\ d.seq = Moved(c.seq, ids, {})
      /\ d.used = {i \in Cells : \/ i \in c.used /\ ids[i] = Size
                                 \/ \E j \in Cells : ids[j] = i}
      /\ d.has_shift = c.has_shift /\ d.seq_pos = c.seq_pos
  BY DEF Defragged, Sound, CellStates
<1>2. d \in RawStates
  <2>1. /\ d.pos \in [Cells -> Positions \cup {Empty}]
        /\ d.shift \in [Cells -> Int]
        /\ d.seq \in [Cells -> SUBSET Seqs]
    BY <1>0, <1>1 DEF Moved
  <2>2. d.used \subseteq Cells
    BY <1>1
  <2>3. c.seq_pos \in [Seqs -> [Positions -> Int]]
    BY SoundFields
  <2> QED
    BY <1>1, <2>1, <2>2, <2>3 DEF Defragged, Sound, CellStates, RawStates
<1> HIDE DEF d
<1>3. /\ Size \notin Cells
      /\ \A i \in Cells : ids[i] # Size => /\ ids[i] \in Cells
                                           /\ c.pos[i] # Empty
                                           /\ c.pos[ids[i]] = Empty
      /\ \A i, j \in Cells : i # j /\ ids[i] # Size => ids[i] # ids[j]
  BY KvAssumption DEF Cells, Movable
\* Where the token of a cell is afterwards.
<1> DEFINE at(i) == IF ids[i] # Size THEN ids[i] ELSE i
<1>4. \A i \in Cells : c.pos[i] # Empty =>
          /\ at(i) \in Cells /\ d.pos[at(i)] = c.pos[i]
          /\ d.seq[at(i)] = c.seq[i]
  <2> SUFFICES ASSUME NEW i \in Cells, c.pos[i] # Empty
               PROVE  /\ at(i) \in Cells /\ d.pos[at(i)] = c.pos[i]
                      /\ d.seq[at(i)] = c.seq[i]
    OBVIOUS
  <2>1. CASE ids[i] # Size
    BY <1>1, <1>3, <2>1, MovedIs
  <2>2. CASE ids[i] = Size
    <3>1. \A j \in Cells : ids[j] # i
      BY <1>3
    <3> QED
      BY <1>1, <2>2, <3>1, MovedIs
  <2> QED
    BY <2>1, <2>2
<1>5. \A i, j \in Cells :
          c.pos[i] # Empty /\ c.pos[j] # Empty /\ at(i) = at(j) => i = j
  <2> SUFFICES ASSUME NEW i \in Cells, NEW j \in Cells, at(i) = at(j),
                      c.pos[i] # Empty, c.pos[j] # Empty
               PROVE  i = j
    OBVIOUS
  <2>1. CASE ids[i] # Size /\ ids[j] # Size
    BY <1>3, <2>1
  <2>2. CASE ids[i] # Size /\ ids[j] = Size
    BY <1>3, <2>2
  <2>3. CASE ids[i] = Size /\ ids[j] # Size
    BY <1>3, <2>3
  <2> QED
    BY <2>1, <2>2, <2>3
<1>6. ASSUME NEW k \in Cells
      PROVE  \/ d.pos[k] = Empty /\ d.seq[k] = {}
             \/ \E i \in Cells : c.pos[i] # Empty /\ at(i) = k
  <2>1. CASE \E j \in Cells : ids[j] = k
    BY <1>3, <2>1
  <2>2. CASE (\A j \in Cells : ids[j] # k) /\ ids[k] # Size
    BY <1>1, <2>2, MovedIs
  <2>3. CASE (\A j \in Cells : ids[j] # k) /\ ids[k] = Size
    <3>1. d.pos[k] = c.pos[k] /\ d.seq[k] = c.seq[k]
      BY <1>1, <2>3, MovedIs
    <3> QED
      BY <1>0, <2>3, <3>1
  <2> QED
    BY <2>1, <2>2, <2>3
<1>7. ASSUME NEW s \in Seqs, NEW p \in Positions
      PROVE  d.seq_pos[s][p] = Count(d, Cells, s, p)
  <2> DEFINE A == {i \in Cells : s \in c.seq[i] /\ c.pos[i] = p}
             B == {i \in Cells : s \in d.seq[i] /\ d.pos[i] = p}
             f == [i \in A |-> at(i)]
  <2>1. \A i \in A : c.pos[i] # Empty
    BY <1>0
  <2>2. \A i \in A : f[i] \in B
    BY <1>4, <2>1
  <2>3. \A i, j \in A : f[i] = f[j] => i = j
    BY <1>5, <2>1
  <2>4. \A k \in B : \E i \in A : f[i] = k
    <3> SUFFICES ASSUME NEW k \in B
                 PROVE  \E i \in A : f[i] = k
      OBVIOUS
    <3>1. PICK i \in Cells : c.pos[i] # Empty /\ at(i) = k
      BY <1>6
    <3>2. i \in A
      BY <1>4, <3>1
    <3> QED
      BY <3>1, <3>2
  <2>5. f \in Bijection(A, B)
    <3>1. f \in [A -> B]
      BY <2>2
    <3> HIDE DEF f, A, B
    <3> QED
      BY <2>3, <2>4, <3>1 DEF Bijection, Injection, Surjection, IsInjective
  <2>6. IsFiniteSet(A)
    BY CellsFinite
  <2>7. Cardinality(B) = Cardinality(A)
    <3> HIDE DEF f, A, B
    <3> QED
      BY <2>5, <2>6, FS_Bijection DEF ExistsBijection
  <2> QED
    BY <1>0, <1>1, <2>7 DEF Count
<1>8. \A k \in Cells : d.pos[k] = Empty <=> d.seq[k] = {}
  <2> SUFFICES ASSUME NEW k \in Cells
               PROVE  d.pos[k] = Empty <=> d.seq[k] = {}
    OBVIOUS
  <2>1. CASE \E i \in Cells : c.pos[i] # Empty /\ at(i) = k
    BY <1>0, <1>4, <2>1
  <2> QED
    BY <1>6, <2>1
<1>9. d.used = {i \in Cells : d.pos[i] # Empty}
  <2> SUFFICES ASSUME NEW k \in Cells
               PROVE  k \in d.used <=> d.pos[k] # Empty
    BY <1>1
  <2>1. CASE \E j \in Cells : ids[j] = k
    <3>1. PICK j \in Cells : ids[j] = k
      BY <2>1
    <3>2. ids[j] # Size /\ c.pos[j] # Empty
      BY <1>3, <3>1
    <3>3. d.pos[k] = c.pos[j]
      BY <1>1, <3>1, <3>2, MovedIs
    <3> QED
      BY <1>1, <2>1, <3>2, <3>3
  <2>2. CASE (\A j \in Cells : ids[j] # k) /\ ids[k] # Size
    <3>1. d.pos[k] = Empty
      BY <1>1, <2>2, MovedIs
    <3> QED
      BY <1>1, <2>2, <3>1
  <2>3. CASE (\A j \in Cells : ids[j] # k) /\ ids[k] = Size
    <3>1. d.pos[k] = c.pos[k]
      BY <1>1, <2>3, MovedIs
    <3> QED
      BY <1>0, <1>1, <2>3, <3>1
  <2> QED
    BY <2>1, <2>2, <2>3
<1>10. ~d.has_shift => \A i \in Cells : d.shift[i] = 0
  BY <1>0, <1>1 DEF Moved
<1> QED
  BY <1>1, <1>2, <1>7, <1>8, <1>9, <1>10, SoundBy DEF d

\* How many of a set of numbers are lower than each: fewer than there are,
\* and the more the higher the number.
LEMMA Ranks ==
    ASSUME NEW T \in SUBSET Int, IsFiniteSet(T), NEW x \in T
    PROVE  /\ Cardinality({j \in T : j < x}) \in 0 .. Cardinality(T) - 1
           /\ \A y \in T : x < y => Cardinality({j \in T : j < x})
                                       < Cardinality({j \in T : j < y})
<1> DEFINE Low(y) == {j \in T : j < y}
<1>1. \A y \in T : IsFiniteSet(Low(y)) /\ Cardinality(Low(y)) \in Nat
  <2> SUFFICES ASSUME NEW y \in T
               PROVE  IsFiniteSet(Low(y)) /\ Cardinality(Low(y)) \in Nat
    OBVIOUS
  <2>1. IsFiniteSet(Low(y))
    BY FS_Subset
  <2> QED
    BY <2>1, FS_CardinalityType
<1>2. Cardinality(Low(x) \cup {x}) = Cardinality(Low(x)) + 1
  <2>1. x \notin Low(x)
    OBVIOUS
  <2> HIDE DEF Low
  <2> QED
    BY <1>1, <2>1, FS_AddElement
<1>3. Cardinality(Low(x)) + 1 <= Cardinality(T)
  <2>1. Low(x) \cup {x} \in SUBSET T
    OBVIOUS
  <2>2. Cardinality(Low(x) \cup {x}) <= Cardinality(T)
    BY <2>1, FS_Subset
  <2> QED
    BY <1>2, <2>2
<1>4. Cardinality(T) \in Nat
  BY FS_CardinalityType
<1>5. ASSUME NEW y \in T, x < y
      PROVE  Cardinality(Low(x)) < Cardinality(Low(y))
  <2>1. Low(x) \cup {x} \in SUBSET Low(y)
    <3>1. \A j \in T : j < x => j < y
      BY <1>5
    <3> QED
      BY <1>5, <3>1
  <2>2. Cardinality(Low(x) \cup {x}) <= Cardinality(Low(y))
    BY <1>1, <2>1, FS_Subset
  <2> QED
    BY <1>1, <1>2, <2>2
<1>6. Cardinality(Low(x)) \in 0 .. Cardinality(T) - 1
  <2> HIDE DEF Low
  <2> QED
    BY <1>1, <1>3, <1>4
<1> QED
  BY <1>5, <1>6

\* What defrag_prepare has decided when it comes to the cell k: the moves go
\* to empty cells of holes that begin before it.
Planned(c, ids, k) ==
    /\ ids \in [Cells -> Cells \cup {Size}]
    /\ \A i \in Cells : ids[i] # Size =>
          /\ i \in c.used
          /\ \E h \in 0 .. k - 1 :
                h <= ids[i] /\ \A j \in h .. ids[i] : c.pos[j] = Empty
    /\ \A i, j \in Cells : i # j /\ ids[i] # Size => ids[i] # ids[j]

\* The cells that are taken fit into the hole.
LEMMA TakenFit ==
    ASSUME NEW left \in SUBSET Cells, NEW room \in Nat
    PROVE  LET take == {i \in left : Cardinality({j \in left : j >= i})
                                        <= room}
           IN  IsFiniteSet(take) /\ Cardinality(take) <= room
<1> DEFINE take == {i \in left : Cardinality({j \in left : j >= i}) <= room}
<1>1. take \subseteq Nat
  <2>1. left \subseteq Nat
    BY KvAssumption DEF Cells
  <2> QED
    BY <2>1
<1>2. IsFiniteSet(take)
  BY CellsFinite
<1>3. CASE take = {}
  <2> HIDE DEF take
  <2>1. Cardinality(take) = 0
    BY <1>3, FS_EmptySet
  <2>2. IsFiniteSet(take) /\ Cardinality(take) <= room
    BY <1>2, <2>1
  <2> QED
    BY <2>2 DEF take
<1>4. CASE take # {}
  <2>1. PICK m \in take : \A y \in take : m <= y
    <3> HIDE DEF take
    <3> QED
      BY <1>1, <1>4, LeastOfNat
  <2>2. take \in SUBSET {j \in left : j >= m}
    BY <1>1, <2>1
  <2>3. IsFiniteSet({j \in left : j >= m})
    BY CellsFinite
  <2>4. Cardinality(take) <= Cardinality({j \in left : j >= m})
    <3> HIDE DEF take
    <3> QED
      BY <2>2, <2>3, FS_Subset
  <2>5. Cardinality({j \in left : j >= m}) <= room
    OBVIOUS
  <2>6. Cardinality(take) \in Nat /\ Cardinality({j \in left : j >= m}) \in Nat
    BY <1>2, <2>3, FS_CardinalityType
  <2> QED
    BY <1>2, <2>4, <2>5, <2>6
<1> QED
  BY <1>3, <1>4

\* A hole is filled with cells that have not been moved.
LEMMA FillHolePlans ==
    ASSUME NEW c, Sound(c), NEW acc, NEW i0 \in Holes(c),
           Planned(c, acc.ids, i0)
    PROVE  Planned(c, FillHole(c, acc, i0).ids, i0 + 1)
<1> DEFINE n == Cardinality(c.used)
           hole == {i \in i0 .. n - 1 : \A j \in i0 .. i : c.pos[j] = Empty}
           left == {i \in c.used : i > i0 /\ acc.ids[i] = Size}
           take == {i \in left : Cardinality({j \in left : j >= i})
                                    <= Cardinality(hole)}
           Block(i) == Cardinality({j \in take : j <= i /\ j - 1 \notin take})
           moved == {i \in take : Block(i) <= MaxMoves - acc.moves}
           rank(i) == Cardinality({j \in take : j < i})
           ids == FillHole(c, acc, i0).ids
<1>1. ids = [i \in Cells |-> IF i \in moved THEN i0 + rank(i)
                                            ELSE acc.ids[i]]
  BY DEF FillHole
<1>2. moved \subseteq take
  OBVIOUS
<1>3. /\ left \in SUBSET c.used /\ take \in SUBSET left
      /\ \A i \in left : acc.ids[i] = Size
  OBVIOUS
<1>4. c.used \in SUBSET Cells /\ c.used = {i \in Cells : c.pos[i] # Empty}
  BY SoundFields
<1>5. n \in Nat /\ n <= Size
  <2>1. IsFiniteSet(Cells) /\ Cardinality(Cells) = Size
    <3>1. Size \in Nat
      BY KvAssumption
    <3>2. 0 \in Int /\ Size - 1 \in Int
      BY <3>1
    <3>3. IsFiniteSet(0 .. Size - 1) /\ Cardinality(0 .. Size - 1)
             = IF 0 > Size - 1 THEN 0 ELSE Size - 1 - 0 + 1
      BY <3>2, FS_Interval
    <3> QED
      BY <3>1, <3>3 DEF Cells
  <2>2. IsFiniteSet(c.used) /\ n <= Cardinality(Cells)
    BY <1>4, <2>1, FS_Subset
  <2> QED
    BY <2>1, <2>2, FS_CardinalityType
<1>6. i0 \in 0 .. n - 1 /\ c.pos[i0] = Empty
      /\ (i0 > 0 => c.pos[i0 - 1] # Empty)
  BY DEF Holes
<1>7. hole \in SUBSET Cells /\ IsFiniteSet(hole)
      /\ Cardinality(hole) \in Nat
  <2>1. hole \in SUBSET Cells
    BY <1>5, <1>6, KvAssumption DEF Cells
  <2> HIDE DEF hole
  <2> QED
    BY <2>1, CellsFinite, FS_CardinalityType
<1>8. /\ take \in SUBSET Int /\ IsFiniteSet(take) /\ Cardinality(take) \in Nat
      /\ Cardinality(take) <= Cardinality(hole)
  <2>1. left \in SUBSET Cells
    BY <1>3, <1>4
  <2>2. IsFiniteSet(take) /\ Cardinality(take) <= Cardinality(hole)
    <3> HIDE DEF left, hole
    <3> QED
      BY <1>7, <2>1, TakenFit
  <2>3. take \in SUBSET Int
    BY <2>1, KvAssumption DEF Cells
  <2> HIDE DEF take
  <2> QED
    BY <2>2, <2>3, FS_CardinalityType
\* The hole is an interval.
<1>9. ASSUME NEW r \in 0 .. Cardinality(hole) - 1
      PROVE  i0 + r \in hole
  <2>1. SUFFICES ASSUME i0 + r \notin hole PROVE FALSE
    OBVIOUS
  <2>2. ASSUME NEW i \in hole PROVE i < i0 + r
    <3>1. SUFFICES ASSUME i >= i0 + r PROVE FALSE
      BY <1>5, <1>6
    <3>2. i0 + r \in i0 .. n - 1
      BY <1>5, <1>6, <3>1
    <3>3. \A j \in i0 .. i0 + r : j \in i0 .. i
      BY <1>5, <1>6, <3>1
    <3> QED
      BY <2>1, <3>2, <3>3
  <2>3. hole \in SUBSET (i0 .. i0 + r - 1)
    BY <1>5, <1>6, <2>2
  <2>4. IsFiniteSet(i0 .. i0 + r - 1) /\ Cardinality(i0 .. i0 + r - 1) = r
    <3>1. i0 \in Int /\ i0 + r - 1 \in Int /\ r \in Nat
      BY <1>6, <1>7
    <3>2. /\ IsFiniteSet(i0 .. i0 + r - 1)
          /\ Cardinality(i0 .. i0 + r - 1)
                = IF i0 > i0 + r - 1 THEN 0 ELSE i0 + r - 1 - i0 + 1
      BY <3>1, FS_Interval
    <3> QED
      BY <3>1, <3>2
  <2>5. Cardinality(hole) <= r
    <3> HIDE DEF hole
    <3> QED
      BY <2>3, <2>4, FS_Subset
  <2> QED
    BY <1>7, <2>5
<1>10. \A x \in take : /\ rank(x) \in 0 .. Cardinality(take) - 1
                       /\ \A y \in take : x < y => rank(x) < rank(y)
  <2> HIDE DEF take
  <2> QED
    BY <1>8, Ranks
<1> HIDE DEF ids, rank, moved, take, left, n
\* Where a cell of this hole's moves goes to.
<1>11. ASSUME NEW i \in moved
       PROVE  /\ i \in take /\ i \in c.used /\ ids[i] = i0 + rank(i)
              /\ ids[i] \in hole
  <2>1. i \in take /\ i \in c.used /\ i \in Cells
    BY <1>2, <1>3, <1>4
  <2>2. ids[i] = i0 + rank(i)
    BY <1>1, <2>1
  <2>3. rank(i) \in 0 .. Cardinality(hole) - 1
    BY <1>7, <1>8, <1>10, <2>1
  <2> QED
    BY <1>9, <2>1, <2>2, <2>3
<1>12. \A i \in hole : /\ i \in Cells /\ i >= i0
                       /\ \A j \in i0 .. i : c.pos[j] = Empty
  BY <1>7
<1> HIDE DEF hole
<1>13. \A i \in Cells : i \notin moved => ids[i] = acc.ids[i]
  BY <1>1
<1>14. ids \in [Cells -> Cells \cup {Size}]
  <2>1. \A i \in Cells : ids[i] \in Cells \cup {Size}
    BY <1>11, <1>12, <1>13 DEF Planned
  <2> QED
    BY <1>1, <2>1
<1>15. ASSUME NEW i \in Cells, ids[i] # Size
       PROVE  /\ i \in c.used
              /\ \E h \in 0 .. (i0 + 1) - 1 :
                    h <= ids[i] /\ \A j \in h .. ids[i] : c.pos[j] = Empty
  <2>1. CASE i \in moved
    <3>1. i0 \in 0 .. (i0 + 1) - 1
      BY <1>5, <1>6
    <3>2. ids[i] >= i0 /\ \A j \in i0 .. ids[i] : c.pos[j] = Empty
      BY <1>11, <1>12, <2>1
    <3>3. ids[i] \in Int /\ i0 \in Int
      BY <1>5, <1>6, <1>11, <1>12, <2>1, KvAssumption DEF Cells
    <3> QED
      BY <1>11, <2>1, <3>1, <3>2, <3>3
  <2>2. CASE i \notin moved
    <3>1. acc.ids[i] = ids[i]
      BY <1>13, <2>2
    <3>2. /\ i \in c.used
          /\ \E h \in 0 .. i0 - 1 :
                h <= acc.ids[i] /\ \A j \in h .. acc.ids[i] : c.pos[j] = Empty
      BY <1>15, <3>1 DEF Planned
    <3>3. \A h \in 0 .. i0 - 1 : h \in 0 .. (i0 + 1) - 1
      BY <1>5, <1>6
    <3> QED
      BY <3>1, <3>2, <3>3
  <2> QED
    BY <2>1, <2>2
\* The moves of earlier holes go to cells before this one.
<1>16. ASSUME NEW i \in Cells, i \notin moved, ids[i] # Size
       PROVE  ids[i] < i0
  <2>1. acc.ids[i] = ids[i] /\ ids[i] \in Cells
    BY <1>13, <1>14, <1>16
  <2>2. PICK h \in 0 .. i0 - 1 :
            h <= ids[i] /\ \A j \in h .. ids[i] : c.pos[j] = Empty
    BY <1>16, <2>1 DEF Planned
  <2>3. ids[i] \in Int /\ i0 \in Int
    BY <1>5, <1>6, <2>1, KvAssumption DEF Cells
  <2>4. SUFFICES ASSUME ids[i] >= i0 PROVE FALSE
    BY <2>3
  <2>5. i0 - 1 \in h .. ids[i] /\ i0 > 0
    BY <2>2, <2>3, <2>4
  <2> QED
    BY <1>6, <2>2, <2>5
<1>17. ASSUME NEW i \in Cells, NEW j \in Cells, i # j, ids[i] # Size
       PROVE  ids[i] # ids[j]
  <2>1. CASE i \in moved /\ j \in moved
    <3>1. /\ i \in take /\ j \in take /\ i \in Int /\ j \in Int
          /\ ids[i] = i0 + rank(i) /\ ids[j] = i0 + rank(j)
      BY <1>8, <1>11, <2>1
    <3>2. i < j \/ j < i
      BY <1>17, <3>1
    <3>3. rank(i) \in Int /\ rank(j) \in Int /\ i0 \in Int
      BY <1>5, <1>6, <1>8, <1>10, <3>1
    <3>4. rank(i) # rank(j)
      BY <1>10, <3>1, <3>2, <3>3
    <3>5. \A a, b \in Int : a # b => i0 + a # i0 + b
      BY <3>3
    <3>6. i0 + rank(i) # i0 + rank(j)
      BY <3>3, <3>4, <3>5
    <3> QED
      BY <3>1, <3>6
  <2>2. CASE i \in moved /\ j \notin moved
    <3>1. ids[i] \in Cells /\ ids[i] >= i0
      BY <1>11, <1>12, <2>2
    <3>2. ids[j] # Size => ids[j] < i0
      BY <1>16, <2>2
    <3>3. ids[i] \in Int /\ i0 \in Int
      BY <1>5, <1>6, <3>1, KvAssumption DEF Cells
    <3> QED
      BY <1>17, <3>1, <3>2, <3>3
  <2>3. CASE i \notin moved /\ j \in moved
    <3>1. ids[j] \in Cells /\ ids[j] >= i0
      BY <1>11, <1>12, <2>3
    <3>2. ids[i] < i0
      BY <1>16, <1>17, <2>3
    <3>3. ids[j] \in Int /\ i0 \in Int
      BY <1>5, <1>6, <3>1, KvAssumption DEF Cells
    <3> QED
      BY <3>1, <3>2, <3>3
  <2>4. CASE i \notin moved /\ j \notin moved
    BY <1>13, <1>17, <2>4 DEF Planned
  <2> QED
    BY <2>1, <2>2, <2>3, <2>4
<1>18. Planned(c, ids, i0 + 1)
  BY <1>14, <1>15, <1>17 DEF Planned
<1> QED
  BY <1>18 DEF ids

\* The decisions of defrag_prepare, cell by cell.
Plans(f, n, c) ==
    f = [k \in 0 .. n |->
            IF k = 0 THEN [ids |-> [i \in Cells |-> Size], moves |-> 0]
            ELSE IF k - 1 \in Holes(c) THEN FillHole(c, f[k - 1], k - 1)
            ELSE f[k - 1]]

\* There are such decisions.
LEMMA PlansExist ==
    ASSUME NEW n \in Nat, NEW c
    PROVE  \E f : Plans(f, n, c)
<1> DEFINE none == [ids |-> [i \in Cells |-> Size], moves |-> 0]
           Round(x, k) == IF k - 1 \in Holes(c) THEN FillHole(c, x, k - 1)
                          ELSE x
           P == {m \in Nat : \E f : f = [k \in 0 .. m |->
                                IF k = 0 THEN none ELSE Round(f[k - 1], k)]}
<1> HIDE DEF none, Round
<1>1. 0 \in P
  <2> DEFINE g == [k \in 0 .. 0 |-> none]
  <2>1. g = [k \in 0 .. 0 |-> IF k = 0 THEN none ELSE Round(g[k - 1], k)]
    OBVIOUS
  <2> QED
    BY <2>1
<1>2. ASSUME NEW m \in 1 .. n, m - 1 \in P
      PROVE  m \in P
  <2>1. PICK f : f = [k \in 0 .. m - 1 |->
                         IF k = 0 THEN none ELSE Round(f[k - 1], k)]
    BY <1>2
  <2> DEFINE g == [k \in 0 .. m |-> IF k <= m - 1 THEN f[k]
                                    ELSE Round(f[m - 1], m)]
  <2>2. g = [k \in 0 .. m |-> IF k = 0 THEN none ELSE Round(g[k - 1], k)]
    BY <2>1
  <2>3. m \in Nat
    OBVIOUS
  <2> HIDE DEF g
  <2> QED
    BY <2>2, <2>3
<1> HIDE DEF P
<1>3. n \in P
  BY <1>1, <1>2, Upward
<1> QED
  BY <1>3 DEF P, Plans, none, Round

\* defrag_prepare
LEMMA DefragPrepareIsMovable ==
    ASSUME NEW c, Sound(c)
    PROVE  Movable(c, DefragPrepare(c))
<1> DEFINE n == Cardinality(c.used)
           f == CHOOSE f : Plans(f, n, c)
<1>1. c.used \in SUBSET Cells /\ c.used = {i \in Cells : c.pos[i] # Empty}
  BY SoundFields
<1>2. n \in Nat
  <2>1. IsFiniteSet(c.used)
    BY <1>1, CellsFinite
  <2> QED
    BY <2>1, FS_CardinalityType
<1>3. DefragPrepare(c) = f[n].ids
  BY DEF DefragPrepare, Plans
<1> HIDE DEF n
<1>4. Plans(f, n, c)
  BY <1>2, PlansExist
<1> HIDE DEF f
<1>5. /\ f[0] = [ids |-> [i \in Cells |-> Size], moves |-> 0]
      /\ \A k \in 1 .. n :
            f[k] = IF k - 1 \in Holes(c) THEN FillHole(c, f[k - 1], k - 1)
                   ELSE f[k - 1]
  BY <1>2, <1>4 DEF Plans
<1> DEFINE P == {k \in Nat : Planned(c, f[k].ids, k)}
<1>6. 0 \in P
  BY <1>5 DEF Planned
<1>7. ASSUME NEW k \in 1 .. n, k - 1 \in P
      PROVE  k \in P
  <2>1. Planned(c, f[k - 1].ids, k - 1)
    BY <1>7
  <2>2. CASE k - 1 \in Holes(c)
    <3>1. Planned(c, FillHole(c, f[k - 1], k - 1).ids, (k - 1) + 1)
      BY <2>1, <2>2, FillHolePlans
    <3>2. f[k] = FillHole(c, f[k - 1], k - 1) /\ (k - 1) + 1 = k /\ k \in Nat
      BY <1>2, <1>5, <2>2
    <3> QED
      BY <3>1, <3>2
  <2>3. CASE k - 1 \notin Holes(c)
    <3>1. f[k] = f[k - 1] /\ k \in Nat
      BY <1>2, <1>5, <2>3
    <3>2. \A h \in 0 .. (k - 1) - 1 : h \in 0 .. k - 1
      BY <3>1
    <3>3. Planned(c, f[k - 1].ids, k)
      BY <2>1, <3>2 DEF Planned
    <3> QED
      BY <3>1, <3>3
  <2> QED
    BY <2>2, <2>3
<1> HIDE DEF P
<1>8. n \in P
  BY <1>2, <1>6, <1>7, Upward
<1>9. Planned(c, f[n].ids, n)
  BY <1>8 DEF P
<1>10. ASSUME NEW i \in Cells, f[n].ids[i] # Size
       PROVE  c.pos[i] # Empty /\ c.pos[f[n].ids[i]] = Empty
  <2>1. i \in c.used
    BY <1>9, <1>10 DEF Planned
  <2>2. f[n].ids[i] \in Cells
    BY <1>9, <1>10 DEF Planned
  <2>3. PICK h \in 0 .. n - 1 :
            /\ h <= f[n].ids[i]
            /\ \A j \in h .. f[n].ids[i] : c.pos[j] = Empty
    BY <1>9, <1>10 DEF Planned
  <2>4. f[n].ids[i] \in h .. f[n].ids[i]
    BY <1>2, <2>2, <2>3, KvAssumption DEF Cells
  <2> QED
    BY <1>1, <2>1, <2>3, <2>4
<1>11. Movable(c, f[n].ids)
  BY <1>9, <1>10 DEF Movable, Planned
<1> QED
  BY <1>3, <1>11

-----------------------------------------------------------------------------
(* Batches.                                                                *)

\* find_slot
LEMMA FindSlotIsFree ==
    ASSUME NEW c, NEW h0, NEW n
    PROVE  FindSlot(c, h0, n) = -1 \/ FindSlot(c, h0, n) \in Free(c, n)
<1>1. Free(c, n) \subseteq Nat /\ Ahead(c, h0, n) \subseteq Free(c, n)
  BY DEF Free, Ahead
<1>2. CASE Free(c, n) = {}
  BY <1>2 DEF FindSlot
<1>3. CASE Free(c, n) # {} /\ Ahead(c, h0, n) = {}
  BY <1>1, <1>3, MinIsIn DEF FindSlot
<1>4. CASE Free(c, n) # {} /\ Ahead(c, h0, n) # {}
  <2>1. Ahead(c, h0, n) \subseteq Nat
    BY <1>1
  <2>2. Min(Ahead(c, h0, n)) \in Ahead(c, h0, n)
    BY <1>4, <2>1, MinIsIn
  <2> QED
    BY <1>1, <1>4, <2>2 DEF FindSlot
<1> QED
  BY <1>2, <1>3, <1>4

\* A part of a batch: some tokens, whose positions are not too large.
BatchParts == {part \in [first : Nat, n : Nat \ {0}] :
                  part.first + part.n - 1 <= MaxPos}

\* split_simple: every part has a token, and none goes beyond the batch.
LEMMA PartsOfBatch ==
    ASSUME NEW first \in Nat, NEW n \in Nat \ {0}, first + n - 1 <= MaxPos
    PROVE  /\ Len(Parts(first, n)) \in Nat \ {0}
           /\ DOMAIN Parts(first, n) = 1 .. Len(Parts(first, n))
           /\ \A k \in 1 .. Len(Parts(first, n)) :
                 Parts(first, n)[k] \in BatchParts
<1> DEFINE m == (n + UBatch - 1) \div UBatch
<1>1. UBatch \in Nat /\ UBatch > 0
  BY KvAssumption
<1>2. m \in Nat \ {0} /\ m * UBatch <= n + UBatch - 1
  BY <1>1
<1>3. DOMAIN Parts(first, n) = 1 .. m /\ Len(Parts(first, n)) = m
  BY <1>2 DEF Parts
<1>4. ASSUME NEW k \in 1 .. m
      PROVE  Parts(first, n)[k] \in BatchParts
  <2> DEFINE before == (k - 1) * UBatch
  <2>1. before \in Nat /\ before <= n - 1
    <3>1. k * UBatch <= m * UBatch
      BY <1>1, <1>2
    <3>2. before = k * UBatch - UBatch /\ before \in Nat
      BY <1>1, <1>2
    <3> QED
      BY <1>1, <1>2, <3>1, <3>2
  <2> HIDE DEF before
  <2>2. /\ Min({UBatch, n - before}) \in {UBatch, n - before}
        /\ \A y \in {UBatch, n - before} : Min({UBatch, n - before}) <= y
    <3>1. {UBatch, n - before} \subseteq Nat
      BY <1>1, <2>1
    <3> QED
      BY <3>1, MinIsIn
  <2>3. Parts(first, n)[k] = [first |-> first + before,
                              n |-> Min({UBatch, n - before})]
    BY <1>3 DEF Parts, before
  <2>4. /\ Min({UBatch, n - before}) \in Nat \ {0}
        /\ Min({UBatch, n - before}) <= n - before
    BY <1>1, <2>1, <2>2
  <2>5. first + before \in Nat
        /\ first + before + Min({UBatch, n - before}) - 1 <= MaxPos
    BY <2>1, <2>4, KvAssumption
  <2> DEFINE a == first + before
             b == Min({UBatch, n - before})
  <2>6. Parts(first, n)[k] = [first |-> a, n |-> b]
    BY <2>3
  <2>7. a \in Nat /\ b \in Nat \ {0} /\ a + b - 1 <= MaxPos
    BY <2>4, <2>5
  <2> HIDE DEF a, b
  <2> QED
    BY <2>6, <2>7 DEF BatchParts
<1> QED
  BY <1>2, <1>3, <1>4

\* Cells d that have what c has, or nothing, but where the first n slots are.
From(d, c, slots, n) ==
    /\ d.has_shift = c.has_shift
    /\ \A i \in Cells : \/ d.pos[i] \in {Empty, c.pos[i]}
                        \/ \E j \in 1 .. n : i \in slots[j].cells
Traced(acc, c) ==
    /\ From(acc.cells, c, acc.slots, Len(acc.slots))
    /\ \A m \in 1 .. Len(acc.slots) : From(acc.old[m], c, acc.slots, m - 1)

\* The cells after k parts: each part was put into a slot that was usable.
At(acc, k) == IF k < Len(acc.slots) THEN acc.old[k + 1] ELSE acc.cells
Played(acc, ss) ==
    \A k \in 1 .. Len(acc.slots) :
        /\ At(acc, k) = ApplyUbatch(At(acc, k - 1), acc.slots[k], ss)
        /\ \A i \in acc.slots[k].cells : Usable(At(acc, k - 1), i)

\* What is known when prepare has used k parts, in the cells c.
SoundStates == {c \in CellStates : Exact(c)}
Rehearsals == [cells : SoundStates, head : Nat, fits : BOOLEAN,
               slots : Seq(Slots), old : Seq(SoundStates)]
Rehearsed(acc, c, ss, k) ==
    /\ acc \in Rehearsals /\ Len(acc.old) = Len(acc.slots)
    /\ acc.fits => Len(acc.slots) = k
    /\ Traced(acc, c) /\ Played(acc, ss)

\* One slot more.
LEMMA UseSlotIsTraced ==
    ASSUME NEW acc, NEW c, acc.slots \in Seq(Slots),
           acc.old \in Seq(SoundStates), Len(acc.old) = Len(acc.slots),
           Sound(acc.cells), Traced(acc, c),
           NEW slot \in Slots, NEW ss \in SUBSET Seqs, ss # {}
    PROVE  Traced(UseSlot(acc, slot, ss), c)
<1> DEFINE n == Len(acc.slots)
           d == ApplyUbatch(acc.cells, slot, ss)
           q == Append(acc.slots, slot)
           o == Append(acc.old, acc.cells)
           u == UseSlot(acc, slot, ss)
<1>1. u.cells = d /\ u.slots = q /\ u.old = o
  BY DEF UseSlot
<1>2. /\ n \in Nat /\ Len(q) = n + 1 /\ q[n + 1] = slot /\ o[n + 1] = acc.cells
      /\ \A j \in 1 .. n : q[j] = acc.slots[j] /\ o[j] = acc.old[j]
  OBVIOUS
<1>3. /\ d.has_shift = acc.cells.has_shift
      /\ \A i \in Cells \ slot.cells : Same(d, acc.cells, i)
  BY ApplyIsSound
<1>4. /\ From(acc.cells, c, acc.slots, n)
      /\ \A m \in 1 .. n : From(acc.old[m], c, acc.slots, m - 1)
  BY DEF Traced
<1> HIDE DEF d, q, o, u, n
<1>5. From(d, c, q, n + 1)
  <2>1. d.has_shift = c.has_shift
    BY <1>3, <1>4 DEF From
  <2>2. ASSUME NEW i \in Cells
        PROVE  \/ d.pos[i] \in {Empty, c.pos[i]}
               \/ \E j \in 1 .. n + 1 : i \in q[j].cells
    <3>1. CASE i \in slot.cells
      BY <1>2, <3>1
    <3>2. CASE d.pos[i] = acc.cells.pos[i]
      <4>1. \/ acc.cells.pos[i] \in {Empty, c.pos[i]}
            \/ \E j \in 1 .. n : i \in acc.slots[j].cells
        BY <1>4 DEF From
      <4> QED
        BY <1>2, <3>2, <4>1
    <3> QED
      BY <1>3, <3>1, <3>2 DEF Same
  <2> QED
    BY <2>1, <2>2 DEF From
<1>6. ASSUME NEW m \in 1 .. n + 1
      PROVE  From(o[m], c, q, m - 1)
  <2> DEFINE x == o[m]
  <2>1. From(x, c, acc.slots, m - 1) /\ m - 1 \in 0 .. n
    BY <1>2, <1>4
  <2>2. \A j \in 1 .. m - 1 : q[j] = acc.slots[j]
    BY <1>2, <2>1
  <2> HIDE DEF x
  <2>3. From(x, c, q, m - 1)
    BY <2>1, <2>2 DEF From
  <2> QED
    BY <2>3 DEF x
<1> QED
  BY <1>1, <1>2, <1>5, <1>6 DEF Traced, u

\* It was usable, like those before.
LEMMA UseSlotIsPlayed ==
    ASSUME NEW acc, acc.slots \in Seq(Slots), acc.old \in Seq(SoundStates),
           Len(acc.old) = Len(acc.slots), NEW slot, slot \in Slots, NEW ss,
           Played(acc, ss), \A i \in slot.cells : Usable(acc.cells, i)
    PROVE  Played(UseSlot(acc, slot, ss), ss)
<1> DEFINE n == Len(acc.slots)
           d == ApplyUbatch(acc.cells, slot, ss)
           q == Append(acc.slots, slot)
           o == Append(acc.old, acc.cells)
           u == UseSlot(acc, slot, ss)
<1>1. u.cells = d /\ u.slots = q /\ u.old = o
  BY DEF UseSlot
<1>2. /\ n \in Nat /\ Len(q) = n + 1 /\ q[n + 1] = slot /\ o[n + 1] = acc.cells
      /\ \A j \in 1 .. n : q[j] = acc.slots[j] /\ o[j] = acc.old[j]
  OBVIOUS
<1>3. \A k \in 1 .. n :
         /\ At(acc, k) = ApplyUbatch(At(acc, k - 1), acc.slots[k], ss)
         /\ \A i \in acc.slots[k].cells : Usable(At(acc, k - 1), i)
  BY DEF Played
<1>d. d = ApplyUbatch(acc.cells, slot, ss)
  OBVIOUS
<1> HIDE DEF d, q, o, u
<1>4. ASSUME NEW k \in 0 .. n PROVE At(u, k) = At(acc, k)
  <2>1. CASE k < n
    BY <1>1, <1>2, <2>1 DEF At
  <2>2. CASE k = n
    BY <1>1, <1>2, <2>2 DEF At
  <2> QED
    BY <1>2, <2>1, <2>2
<1>5. At(u, n + 1) = d /\ At(acc, n) = acc.cells
  BY <1>1, <1>2 DEF At
<1> HIDE DEF n
<1>6. ASSUME NEW k \in 1 .. n + 1
      PROVE  /\ At(u, k) = ApplyUbatch(At(u, k - 1), q[k], ss)
             /\ \A i \in q[k].cells : Usable(At(u, k - 1), i)
  <2>1. CASE k \in 1 .. n
    <3>1. k \in 0 .. n /\ k - 1 \in 0 .. n
      BY <1>2, <2>1
    <3>2. At(u, k) = At(acc, k) /\ At(u, k - 1) = At(acc, k - 1)
      BY <1>4, <3>1
    <3>3. q[k] = acc.slots[k]
      BY <1>2, <2>1
    <3> QED
      BY <1>3, <2>1, <3>2, <3>3
  <2>2. CASE k = n + 1
    <3>1. k - 1 = n /\ n \in 0 .. n
      BY <1>2, <2>2
    <3>2. At(u, k - 1) = acc.cells
      BY <1>4, <1>5, <3>1
    <3> QED
      BY <1>d, <1>2, <1>5, <2>2, <3>2
  <2> QED
    BY <1>2, <2>1, <2>2
<1> QED
  BY <1>1, <1>2, <1>6 DEF Played, u

\* A part of the batch is given a slot, or the batch does not fit.
LEMMA UsePartIsSound ==
    ASSUME NEW acc, NEW c, NEW k \in Nat, NEW ss \in SUBSET Seqs, ss # {},
           Rehearsed(acc, c, ss, k), NEW part \in BatchParts
    PROVE  Rehearsed(UsePart(acc, part, ss), c, ss, k + 1)
<1> DEFINE at == FindSlot(acc.cells, acc.head, part.n)
           slot == [cells |-> at .. at + part.n - 1, first |-> part.first]
<1>1. CASE ~acc.fits
  BY <1>1 DEF UsePart, Rehearsed
<1>2. CASE acc.fits /\ at < 0
  <2>1. UsePart(acc, part, ss) = [acc EXCEPT !.fits = FALSE]
    BY <1>2 DEF UsePart, UseCellsAt
  <2>2. FALSE \in BOOLEAN
    OBVIOUS
  <2> HIDE DEF at, slot
  <2> DEFINE u == [acc EXCEPT !.fits = FALSE]
  <2>3. /\ u \in Rehearsals /\ ~u.fits /\ u.slots = acc.slots
        /\ u.old = acc.old /\ u.cells = acc.cells
    BY <2>2 DEF Rehearsed, Rehearsals
  <2>4. Traced(u, c) /\ Played(u, ss)
    BY <2>3 DEF Rehearsed, Traced, Played, At
  <2> QED
    BY <2>1, <2>3, <2>4 DEF Rehearsed
<1>3. CASE acc.fits /\ ~(at < 0)
  <2>1. UsePart(acc, part, ss) = UseSlot(acc, slot, ss)
    BY <1>3 DEF UsePart, UseCellsAt
  <2>2. at \in Free(acc.cells, part.n)
    BY <1>3, FindSlotIsFree
  <2>3. /\ at \in 0 .. Size - part.n /\ part.n \in Nat \ {0}
        /\ part.first \in Nat /\ part.first + part.n - 1 <= MaxPos
    BY <2>2 DEF Free, BatchParts
  <2> HIDE DEF at
  <2>u. \A i \in slot.cells : Usable(acc.cells, i)
    BY <2>2, <2>3 DEF Free
  <2>4. slot \in Slots
    <3>1. at \in Cells /\ at + part.n - 1 \in Cells /\ at <= at + part.n - 1
      BY <2>3, KvAssumption DEF Cells
    <3>2. slot.cells \in SUBSET Cells
      BY <2>3, KvAssumption DEF Cells
    <3>3. slot.first + (at + part.n - 1) - at <= MaxPos
      BY <2>3, KvAssumption
    <3> QED
      BY <2>3, <3>1, <3>2, <3>3 DEF Slots
  <2> HIDE DEF slot
  <2>5. Sound(acc.cells) /\ acc.cells \in SoundStates
    BY DEF Rehearsed, Rehearsals, SoundStates, Sound
  <2>6. ApplyUbatch(acc.cells, slot, ss) \in SoundStates
    <3>1. Sound(ApplyUbatch(acc.cells, slot, ss))
      BY <2>4, <2>5, ApplyIsSound
    <3> QED
      BY <3>1 DEF Sound, SoundStates
  <2>7. NextHead(slot) \in Nat
    BY <2>4, SlotShape
  <2>8. /\ Append(acc.slots, slot) \in Seq(Slots)
        /\ Len(Append(acc.slots, slot)) = Len(acc.slots) + 1
        /\ Append(acc.old, acc.cells) \in Seq(SoundStates)
        /\ Len(Append(acc.old, acc.cells)) = Len(acc.old) + 1
    BY <2>4, <2>5 DEF Rehearsed, Rehearsals
  <2>9. Len(acc.slots) = k /\ Len(acc.old) = k
    BY <1>3 DEF Rehearsed
  <2>10. Traced(UseSlot(acc, slot, ss), c)
    BY <2>4, <2>5, UseSlotIsTraced DEF Rehearsed, Rehearsals
  <2>11. Played(UseSlot(acc, slot, ss), ss)
    BY <2>4, <2>u, UseSlotIsPlayed DEF Rehearsed, Rehearsals
  <2> QED
    BY <2>1, <2>6, <2>7, <2>8, <2>9, <2>10, <2>11
       DEF UseSlot, Rehearsed, Rehearsals
<1> QED
  BY <1>1, <1>2, <1>3

\* The states after each part.
Rehearses(f, n, c, h, parts, ss) ==
    f = [k \in 0 .. n |->
            IF k = 0
            THEN [cells |-> c, head |-> h, fits |-> TRUE,
                  slots |-> <<>>, old |-> <<>>]
            ELSE UsePart(f[k - 1], parts[k], ss)]

\* There are such states.
LEMMA RehearsesExist ==
    ASSUME NEW c, NEW h, NEW parts, NEW n \in Nat, NEW ss
    PROVE  \E f : Rehearses(f, n, c, h, parts, ss)
<1> DEFINE none == [cells |-> c, head |-> h, fits |-> TRUE,
                    slots |-> <<>>, old |-> <<>>]
           Round(x, k) == UsePart(x, parts[k], ss)
           P == {m \in Nat : \E f : f = [k \in 0 .. m |->
                                IF k = 0 THEN none ELSE Round(f[k - 1], k)]}
<1> HIDE DEF none, Round
<1>1. 0 \in P
  <2> DEFINE g == [k \in 0 .. 0 |-> none]
  <2>1. g = [k \in 0 .. 0 |-> IF k = 0 THEN none ELSE Round(g[k - 1], k)]
    OBVIOUS
  <2> QED
    BY <2>1
<1>2. ASSUME NEW m \in 1 .. n, m - 1 \in P
      PROVE  m \in P
  <2>1. PICK f : f = [k \in 0 .. m - 1 |->
                         IF k = 0 THEN none ELSE Round(f[k - 1], k)]
    BY <1>2
  <2> DEFINE g == [k \in 0 .. m |-> IF k <= m - 1 THEN f[k]
                                    ELSE Round(f[m - 1], m)]
  <2>2. g = [k \in 0 .. m |-> IF k = 0 THEN none ELSE Round(g[k - 1], k)]
    BY <2>1
  <2>3. m \in Nat
    OBVIOUS
  <2> HIDE DEF g
  <2> QED
    BY <2>2, <2>3
<1> HIDE DEF P
<1>3. n \in P
  BY <1>1, <1>2, Upward
<1> QED
  BY <1>3 DEF P, Rehearses, none, Round

\* From each to the next.
LEMMA RehearsesStep ==
    ASSUME NEW f, NEW n \in Nat, NEW c, NEW h, NEW parts, NEW ss,
           Rehearses(f, n, c, h, parts, ss)
    PROVE  /\ f[0] = [cells |-> c, head |-> h, fits |-> TRUE,
                      slots |-> <<>>, old |-> <<>>]
           /\ \A k \in 1 .. n : f[k] = UsePart(f[k - 1], parts[k], ss)
<1> DEFINE none == [cells |-> c, head |-> h, fits |-> TRUE,
                    slots |-> <<>>, old |-> <<>>]
<1>1. f = [k \in 0 .. n |-> IF k = 0 THEN none
                            ELSE UsePart(f[k - 1], parts[k], ss)]
  BY DEF Rehearses
<1> HIDE DEF none
<1>2. f[0] = none /\ \A k \in 1 .. n : f[k] = UsePart(f[k - 1], parts[k], ss)
  BY <1>1
<1> QED
  BY <1>2 DEF none

\* What is known when prepare has used the parts, k of n.
LEMMA RoundsAreSound ==
    ASSUME NEW n \in Nat, NEW f, NEW c, Sound(c), NEW h \in Nat, NEW parts,
           \A k \in 1 .. n : parts[k] \in BatchParts,
           NEW ss \in SUBSET Seqs, ss # {}, Rehearses(f, n, c, h, parts, ss)
    PROVE  \A k \in 0 .. n : Rehearsed(f[k], c, ss, k)
<1>1. /\ f[0] = [cells |-> c, head |-> h, fits |-> TRUE,
                 slots |-> <<>>, old |-> <<>>]
      /\ \A k \in 1 .. n : f[k] = UsePart(f[k - 1], parts[k], ss)
  BY RehearsesStep
<1> DEFINE P == {k \in Nat : Rehearsed(f[k], c, ss, k)}
<1>2. 0 \in P
  <2>1. c \in SoundStates
    BY DEF Sound, SoundStates
  <2>2. <<>> \in Seq(Slots) /\ <<>> \in Seq(SoundStates) /\ Len(<<>>) = 0
    OBVIOUS
  <2>3. f[0] \in Rehearsals
    BY <1>1, <2>1, <2>2 DEF Rehearsals
  <2>4. Len(f[0].slots) = 0 /\ Len(f[0].old) = 0
    BY <1>1, <2>2
  <2>5. f[0].cells = c
    BY <1>1
  <2>6. Traced(f[0], c) /\ Played(f[0], ss)
    BY <2>4, <2>5 DEF Traced, Played, From
  <2> QED
    BY <2>3, <2>4, <2>6 DEF Rehearsed
<1>3. ASSUME NEW k \in 1 .. n, k - 1 \in P
      PROVE  k \in P
  <2>1. k - 1 \in Nat /\ k \in Nat /\ (k - 1) + 1 = k
    OBVIOUS
  <2>2. Rehearsed(f[k - 1], c, ss, k - 1)
    BY <1>3
  <2>3. Rehearsed(UsePart(f[k - 1], parts[k], ss), c, ss, (k - 1) + 1)
    BY <2>1, <2>2, UsePartIsSound
  <2> QED
    BY <1>1, <2>1, <2>3
<1> HIDE DEF P
<1>4. \A k \in 0 .. n : k \in P
  BY <1>2, <1>3, Upward
<1> QED
  BY <1>4 DEF P

\* prepare, first half
LEMMA RehearseIsSound ==
    ASSUME NEW c, Sound(c), NEW h \in Nat, NEW parts, Len(parts) \in Nat,
           \A k \in 1 .. Len(parts) : parts[k] \in BatchParts,
           NEW ss \in SUBSET Seqs, ss # {}
    PROVE  Rehearsed(Rehearse(c, h, parts, ss), c, ss, Len(parts))
<1> DEFINE n == Len(parts)
           f == CHOOSE f : Rehearses(f, n, c, h, parts, ss)
<1>1. Rehearse(c, h, parts, ss) = f[n]
  BY DEF Rehearse, Rehearses
<1>2. n \in Nat /\ \A k \in 1 .. n : parts[k] \in BatchParts
  OBVIOUS
<1> HIDE DEF n
<1>3. Rehearses(f, n, c, h, parts, ss)
  BY <1>2, RehearsesExist
<1> HIDE DEF f
<1>4. Rehearsed(f[n], c, ss, n)
  <2>1. \A k \in 0 .. n : Rehearsed(f[k], c, ss, k)
    BY <1>2, <1>3, RoundsAreSound
  <2> QED
    BY <1>2, <2>1
<1> QED
  BY <1>1, <1>4 DEF n

\* The states while the slots are restored.
Undoes(f, there, n) ==
    f = [k \in 0 .. n |->
            IF k = 0 THEN there.cells
            ELSE Set(f[k - 1], there.slots[n + 1 - k].cells,
                     there.old[n + 1 - k])]

\* There are such states.
LEMMA UndoesExist ==
    ASSUME NEW there, NEW n \in Nat
    PROVE  \E f : Undoes(f, there, n)
<1> DEFINE none == there.cells
           Round(x, k) == Set(x, there.slots[n + 1 - k].cells,
                              there.old[n + 1 - k])
           P == {m \in Nat : \E f : f = [k \in 0 .. m |->
                                IF k = 0 THEN none ELSE Round(f[k - 1], k)]}
<1> HIDE DEF none, Round
<1>1. 0 \in P
  <2> DEFINE g == [k \in 0 .. 0 |-> none]
  <2>1. g = [k \in 0 .. 0 |-> IF k = 0 THEN none ELSE Round(g[k - 1], k)]
    OBVIOUS
  <2> QED
    BY <2>1
<1>2. ASSUME NEW m \in 1 .. n, m - 1 \in P
      PROVE  m \in P
  <2>1. PICK f : f = [k \in 0 .. m - 1 |->
                         IF k = 0 THEN none ELSE Round(f[k - 1], k)]
    BY <1>2
  <2> DEFINE g == [k \in 0 .. m |-> IF k <= m - 1 THEN f[k]
                                    ELSE Round(f[m - 1], m)]
  <2>2. g = [k \in 0 .. m |-> IF k = 0 THEN none ELSE Round(g[k - 1], k)]
    BY <2>1
  <2>3. m \in Nat
    OBVIOUS
  <2> HIDE DEF g
  <2> QED
    BY <2>2, <2>3
<1> HIDE DEF P
<1>3. n \in P
  BY <1>1, <1>2, Upward
<1> QED
  BY <1>3 DEF P, Undoes, none, Round

\* Cells d that each have what they had after part j, or after a later one
\* where no slot between was theirs.
Like(d, c, i) == d.pos[i] = c.pos[i] /\ d.seq[i] = c.seq[i]
Later(d, acc, j) ==
    \A i \in Cells : \E k \in j .. Len(acc.slots) :
        /\ Like(d, At(acc, k), i)
        /\ \A m \in j + 1 .. k : i \notin acc.slots[m].cells

\* prepare, second half
LEMMA UndoneIsSound ==
    ASSUME NEW there, NEW c, NEW ss, NEW m, Rehearsed(there, c, ss, m)
    PROVE  /\ Sound(Undone(there).cells)
           /\ From(Undone(there).cells, c, there.slots, 0)
           /\ Later(Undone(there).cells, there, 0)
           /\ Undone(there).fits = there.fits
           /\ Undone(there).slots = there.slots
<1> DEFINE n == Len(there.slots)
           f == CHOOSE f : Undoes(f, there, n)
<1>1. there \in Rehearsals /\ Len(there.old) = n
  BY DEF Rehearsed
<1>2. n \in Nat /\ \A j \in 1 .. n : /\ there.slots[j] \in Slots
                                     /\ there.old[j] \in SoundStates
  BY <1>1 DEF Rehearsals
<1>3. Undone(there) = [fits |-> there.fits, slots |-> there.slots,
                       cells |-> f[n]]
  BY DEF Undone, Undoes
<1> HIDE DEF n
<1>4. Undoes(f, there, n)
  BY <1>2, UndoesExist
<1> HIDE DEF f
<1>5. /\ f[0] = there.cells
      /\ \A k \in 1 .. n : f[k] = Set(f[k - 1], there.slots[n + 1 - k].cells,
                                      there.old[n + 1 - k])
  BY <1>2, <1>4 DEF Undoes
<1> DEFINE P == {k \in Nat : /\ Sound(f[k])
                            /\ From(f[k], c, there.slots, n - k)
                            /\ Later(f[k], there, n - k)}
<1>t. /\ From(there.cells, c, there.slots, n)
      /\ \A j \in 1 .. n : From(there.old[j], c, there.slots, j - 1)
  BY DEF Rehearsed, Traced, n
<1>6. 0 \in P
  <2>1. Sound(f[0])
    BY <1>1, <1>5 DEF Rehearsals, SoundStates, Sound
  <2>2. From(f[0], c, there.slots, n - 0)
    BY <1>2, <1>5, <1>t
  <2>3. Later(f[0], there, n - 0)
    <3>1. n - 0 = n /\ n \in n .. n /\ \A m_1 \in n + 1 .. n : FALSE
      BY <1>2
    <3>2. At(there, n) = f[0] /\ n = Len(there.slots)
      BY <1>2, <1>5 DEF At, n
    <3> QED
      BY <3>1, <3>2 DEF Later, Like
  <2> QED
    BY <2>1, <2>2, <2>3
<1>7. ASSUME NEW k \in 1 .. n, k - 1 \in P
      PROVE  k \in P
  <2>1. n + 1 - k \in 1 .. n /\ k \in Nat
    BY <1>2
  <2> DEFINE j == n + 1 - k
  <2>2. there.slots[j] \in Slots /\ there.old[j] \in SoundStates
    BY <1>2, <2>1
  <2>3. there.slots[j].cells \in SUBSET Cells /\ Sound(there.old[j])
    BY <2>2 DEF Slots, SoundStates, Sound
  <2>4. f[k] = Set(f[k - 1], there.slots[j].cells, there.old[j])
    BY <1>5
  <2>5. /\ Sound(f[k - 1]) /\ From(f[k - 1], c, there.slots, n - (k - 1))
        /\ Later(f[k - 1], there, n - (k - 1))
    BY <1>7
  <2>6. From(there.old[j], c, there.slots, j - 1)
    BY <1>t, <2>1
  <2>7. j \in 1 .. n /\ n - (k - 1) = j /\ n - k = j - 1
    BY <1>2, <2>1
  <2> DEFINE g == f[k - 1]
             I == there.slots[j].cells
             o == there.old[j]
             d == Set(g, I, o)
  <2> HIDE DEF j
  <2>8. /\ Sound(d) /\ d.has_shift = g.has_shift
        /\ \A i \in Cells : d.pos[i] = IF i \in I THEN o.pos[i] ELSE g.pos[i]
        /\ \A i \in Cells : d.seq[i] = IF i \in I THEN o.seq[i] ELSE g.seq[i]
    <3> HIDE DEF g, I, o
    <3>1. Sound(g) /\ I \in SUBSET Cells /\ Sound(o)
      BY <2>3, <2>5 DEF g, I, o
    <3> QED
      BY <3>1, SetIsSound
  <2>9. From(d, c, there.slots, j - 1)
    <3>1. From(g, c, there.slots, j) /\ From(o, c, there.slots, j - 1)
      BY <2>5, <2>6, <2>7
    <3>2. \A i \in Cells : i \notin I =>
             ((\E m_1 \in 1 .. j : i \in there.slots[m_1].cells)
                 => (\E m_1 \in 1 .. j - 1 : i \in there.slots[m_1].cells))
      BY <2>7
    <3> HIDE DEF d, g, I, o
    <3> QED
      BY <2>8, <3>1, <3>2 DEF From
  <2>10. f[k] = d
    BY <2>4
  <2>11. Later(d, there, j - 1)
    <3>1. Later(g, there, j)
      BY <2>5, <2>7
    <3>2. o = At(there, j - 1) /\ n = Len(there.slots) /\ n \in Nat
      BY <1>2, <2>7 DEF At, n
    <3>i. I = there.slots[j].cells
      OBVIOUS
    <3> HIDE DEF d, g, I, o
    <3> SUFFICES ASSUME NEW i \in Cells
                 PROVE  \E t \in j - 1 .. n :
                           /\ Like(d, At(there, t), i)
                           /\ \A m_1 \in (j - 1) + 1 .. t :
                                 i \notin there.slots[m_1].cells
      BY <3>2 DEF Later
    <3>3. CASE i \in I
      <4>1. j - 1 \in j - 1 .. n /\ \A m_1 \in (j - 1) + 1 .. j - 1 : FALSE
        BY <2>7, <3>2
      <4>2. Like(d, At(there, j - 1), i)
        BY <2>8, <3>2, <3>3 DEF Like
      <4> QED
        BY <4>1, <4>2
    <3>4. CASE i \notin I
      <4>1. PICK t \in j .. n :
                /\ Like(g, At(there, t), i)
                /\ \A m_1 \in j + 1 .. t : i \notin there.slots[m_1].cells
        BY <3>1, <3>2 DEF Later
      <4>2. Like(d, At(there, t), i)
        BY <2>8, <3>4, <4>1 DEF Like
      <4>3. /\ t \in j - 1 .. n
            /\ \A m_1 \in (j - 1) + 1 .. t : m_1 = j \/ m_1 \in j + 1 .. t
        BY <2>7, <4>1
      <4> QED
        BY <3>i, <3>4, <4>1, <4>2, <4>3
    <3> QED
      BY <3>3, <3>4
  <2> HIDE DEF d
  <2> QED
    BY <2>1, <2>7, <2>8, <2>9, <2>10, <2>11
<1> HIDE DEF P
<1>8. n \in P
  BY <1>2, <1>6, <1>7, Upward
<1>9. /\ Sound(f[n]) /\ From(f[n], c, there.slots, 0)
      /\ Later(f[n], there, 0)
  <2>1. n - n = 0
    BY <1>2
  <2> QED
    BY <1>8, <2>1 DEF P
<1> QED
  BY <1>3, <1>9

\* prepare: what it leaves is sound, and nothing that was not there, and it has
\* a slot for each part.
LEMMA PrepareIsSound ==
    ASSUME NEW c, Sound(c), NEW h \in Nat, NEW first \in Nat,
           NEW n \in Nat \ {0}, first + n - 1 <= MaxPos,
           NEW ss \in SUBSET Seqs, ss # {}
    PROVE  LET there == Prepare(c, h, Parts(first, n), ss)
           IN  /\ Sound(there.cells)
               /\ From(there.cells, c, there.slots, 0)
               /\ there.slots \in Seq(Slots)
               /\ there.fits => there.slots # <<>>
<1> DEFINE parts == Parts(first, n)
           r == Rehearse(c, h, parts, ss)
<1>1. /\ Len(parts) \in Nat \ {0}
      /\ \A k \in 1 .. Len(parts) : parts[k] \in BatchParts
  BY PartsOfBatch
<1> HIDE DEF parts
<1>2. Rehearsed(r, c, ss, Len(parts))
  BY <1>1, RehearseIsSound
<1>3. Prepare(c, h, parts, ss) = Undone(r)
  BY DEF Prepare
<1> HIDE DEF r
<1>4. /\ Sound(Undone(r).cells)
      /\ From(Undone(r).cells, c, r.slots, 0)
      /\ Undone(r).fits = r.fits /\ Undone(r).slots = r.slots
  BY <1>2, UndoneIsSound
<1>5. r.slots \in Seq(Slots) /\ (r.fits => r.slots # <<>>)
  BY <1>1, <1>2 DEF Rehearsed, Rehearsals
<1> QED
  BY <1>3, <1>4, <1>5 DEF parts

\* prepare: each cell has what it had at some point of the rehearsal.
LEMMA PrepareIsPlayed ==
    ASSUME NEW c, Sound(c), NEW h \in Nat, NEW first \in Nat,
           NEW n \in Nat \ {0}, first + n - 1 <= MaxPos,
           NEW ss \in SUBSET Seqs, ss # {}
    PROVE  LET there == Prepare(c, h, Parts(first, n), ss)
           IN  \E acc, m : /\ Rehearsed(acc, c, ss, m)
                           /\ acc.slots = there.slots
                           /\ Later(there.cells, acc, 0)
<1> DEFINE parts == Parts(first, n)
           r == Rehearse(c, h, parts, ss)
<1>1. /\ Len(parts) \in Nat \ {0}
      /\ \A k \in 1 .. Len(parts) : parts[k] \in BatchParts
  BY PartsOfBatch
<1> HIDE DEF parts
<1>2. Rehearsed(r, c, ss, Len(parts))
  BY <1>1, RehearseIsSound
<1>3. Prepare(c, h, parts, ss) = Undone(r)
  BY DEF Prepare
<1> HIDE DEF r
<1>4. Later(Undone(r).cells, r, 0) /\ Undone(r).slots = r.slots
  BY <1>2, UndoneIsSound
<1> QED
  BY <1>2, <1>3, <1>4 DEF parts

-----------------------------------------------------------------------------
(* Every action.                                                           *)

\* A batch in progress has sequences, and slots for the parts to come.
RunOK ==
    \/ run = Idle
    \/ /\ run \in [seqs : SUBSET Seqs, slots : Seq(Slots)]
       /\ run.seqs # {} /\ run.slots # <<>>

\* The inductive invariant, without the number of calls.
KvInv == /\ Sound(cells) /\ head \in 0 .. Size
         /\ keys \in [Cells -> Int] /\ RunOK

\* Keys, of whatever cells, are numbers.
LEMMA KeysAreNumbers ==
    ASSUME NEW c, NEW k \in [Cells -> Int]
    PROVE  /\ Known(c, k) \in [Cells -> Int]
           /\ c.shift \in [Cells -> Int] => ShiftedKeys(c, k) \in [Cells -> Int]
<1>1. Garbage \in Int
  BY DEF Garbage
<1>2. Known(c, k) \in [Cells -> Int]
  BY <1>1 DEF Known
<1>3. c.shift \in [Cells -> Int] => ShiftedKeys(c, k) \in [Cells -> Int]
  BY DEF ShiftedKeys
<1> QED
  BY <1>2, <1>3

\* So are the keys that were moved.
LEMMA MovedKeysAreNumbers ==
    ASSUME NEW k \in [Cells -> Int], NEW ids
    PROVE  Moved(k, ids, Garbage) \in [Cells -> Int]
BY DEF Moved, Garbage

\* The head is where cells have become empty, if that is before it.
LEMMA HeadIsACell ==
    ASSUME NEW T \in SUBSET Cells, NEW h \in 0 .. Size
    PROVE  Min({h} \cup T) \in 0 .. Size
<1>1. {h} \cup T \subseteq 0 .. Size /\ {h} \cup T \subseteq Nat
  BY KvAssumption DEF Cells
<1> QED
  BY <1>1, MinIsIn

\* The cells at first, and after a reset.
LEMMA NoCellsIsSound == Sound(NoCells)
<1>1. /\ NoCells.pos = [i \in Cells |-> Empty]
      /\ NoCells.shift = [i \in Cells |-> 0]
      /\ NoCells.seq = [i \in Cells |-> {}]
      /\ NoCells.has_shift = FALSE /\ NoCells.used = {}
      /\ NoCells.seq_pos = [s \in Seqs |-> [p \in Positions |-> 0]]
  BY DEF NoCells
<1>2. NoCells \in RawStates
  <2>1. [p \in Positions |-> 0] \in [Positions -> Int] /\ FALSE \in BOOLEAN
    OBVIOUS
  <2> QED
    BY <2>1 DEF NoCells, RawStates
<1>3. \A s \in Seqs, p \in Positions :
          NoCells.seq_pos[s][p] = Count(NoCells, Cells, s, p)
  <2>1. \A s, p : Count(NoCells, Cells, s, p) = 0
    BY <1>1, CountNone
  <2> QED
    BY <1>1, <2>1
<1> QED
  BY <1>1, <1>2, <1>3, SoundBy

\* llama_kv_cache_unified::clear
LEMMA ClearIsSound ==
    ASSUME KvInv, Clear
    PROVE  KvInv'
<1>1. [i \in Cells |-> Garbage] \in [Cells -> Int]
  BY DEF Garbage
<1> QED
  BY <1>1, NoCellsIsSound, KvAssumption DEF Clear, KvInv, RunOK

\* llama_kv_cache_unified::seq_rm
LEMMA SeqRmKeeps ==
    ASSUME KvInv, NEW s \in Seqs, NEW p0, NEW p1, SeqRm(s, p0, p1)
    PROVE  KvInv'
<1>1. InRange(cells, s, p0, p1) \in SUBSET Cells
  BY DEF InRange
<1>2. Sound(cells')
  BY <1>1, SeqRmIsSound DEF SeqRm, KvInv
<1>3. head' \in 0 .. Size
  <2>1. BecomeEmpty(cells') \in SUBSET Cells
    BY DEF BecomeEmpty
  <2> QED
    BY <2>1, HeadIsACell DEF SeqRm, HeadAtFreed, KvInv
<1>4. keys' \in [Cells -> Int]
  BY KeysAreNumbers DEF SeqRm, KvInv
<1> QED
  BY <1>2, <1>3, <1>4 DEF SeqRm, KvInv, RunOK

\* llama_kv_cache_unified::seq_keep
LEMMA SeqKeepKeeps ==
    ASSUME KvInv, NEW s \in Seqs, SeqKeep(s)
    PROVE  KvInv'
<1>1. Sound(cells')
  BY SeqKeepIsSound DEF SeqKeep, KvInv
<1>2. head' \in 0 .. Size
  <2>1. BecomeEmpty(cells') \in SUBSET Cells
    BY DEF BecomeEmpty
  <2> QED
    BY <2>1, HeadIsACell DEF SeqKeep, HeadAtFreed, KvInv
<1>3. keys' \in [Cells -> Int]
  BY KeysAreNumbers DEF SeqKeep, KvInv
<1> QED
  BY <1>1, <1>2, <1>3 DEF SeqKeep, KvInv, RunOK

\* llama_kv_cache_unified::seq_cp
LEMMA SeqCpKeeps ==
    ASSUME KvInv, Apart, NEW s \in Seqs, NEW t \in Seqs, NEW p0, NEW p1,
           SeqCp(s, t, p0, p1)
    PROVE  KvInv'
<1>1. Sound(cells')
  BY SeqCpIsSound DEF KvInv
<1>2. head' = head /\ keys' = keys /\ run' = run
  BY DEF SeqCp
<1> QED
  BY <1>1, <1>2 DEF KvInv, RunOK

\* llama_kv_cache_unified::seq_add
LEMMA SeqAddKeeps ==
    ASSUME KvInv, NEW s \in Seqs, NEW p0, NEW p1, NEW d \in Int,
           SeqAdd(s, p0, p1, d)
    PROVE  KvInv'
<1>1. Sound(cells') /\ head' \in 0 .. Size
  BY SeqAddIsSound DEF KvInv
<1>2. keys' = Known(cells', keys) /\ run' = run
  BY DEF SeqAdd
<1>3. keys' \in [Cells -> Int]
  BY <1>2, KeysAreNumbers DEF KvInv
<1> QED
  BY <1>1, <1>2, <1>3 DEF KvInv, RunOK

\* llama_kv_cache_unified::seq_div
LEMMA SeqDivKeeps ==
    ASSUME KvInv, NEW s \in Seqs, NEW p0, NEW p1, SeqDiv(s, p0, p1, 2)
    PROVE  KvInv'
<1>1. Sound(cells')
  BY SeqDivIsSound DEF KvInv
<1>2. /\ head' = head /\ run' = run
      /\ keys' = IF "divide" \in Mishaps THEN keys
                 ELSE [i \in Cells |-> IF i \in InRange(cells, s, p0, p1)
                                       THEN Unknown ELSE keys[i]]
  BY DEF SeqDiv
<1>3. keys' \in [Cells -> Int]
  <2>1. Unknown \in Int /\ keys \in [Cells -> Int]
    BY DEF Unknown, KvInv
  <2> QED
    BY <1>2, <2>1
<1> QED
  BY <1>1, <1>2, <1>3 DEF KvInv, RunOK

\* llama_kv_cache_unified::update
LEMMA DefragKeeps ==
    ASSUME KvInv, Defrag
    PROVE  KvInv'
<1> DEFINE c1 == Shifted(cells)
           k1 == ShiftedKeys(cells, keys)
           ids == DefragPrepare(c1)
<1>1. /\ cells' = Defragged(c1, ids)
      /\ keys' = Moved(k1, ids, Garbage) \/ keys' = k1
      /\ head' = 0 \/ head' = head
      /\ run' = run
  BY DEF Defrag, Update
<1>2. Sound(c1) /\ Movable(c1, ids)
  <2>1. Sound(c1)
    BY ShiftedIsSound DEF KvInv
  <2> QED
    BY <2>1, DefragPrepareIsMovable
<1>3. k1 \in [Cells -> Int]
  BY KeysAreNumbers, SoundFields DEF KvInv
<1> HIDE DEF c1, k1, ids
<1>4. Sound(cells')
  BY <1>1, <1>2, DefraggedIsSound
<1>5. keys' \in [Cells -> Int]
  BY <1>1, <1>3, MovedKeysAreNumbers
<1>6. head' \in 0 .. Size
  BY <1>1, KvAssumption DEF KvInv
<1> QED
  BY <1>1, <1>4, <1>5, <1>6 DEF KvInv, RunOK

\* A batch that goes on from the last position of its sequences.
LEMMA FreshBatch ==
    ASSUME Sound(cells), NEW ss \in SUBSET Seqs, NEW n \in Nat \ {0},
           Fresh(ss, n)
    PROVE  \E first \in Nat : /\ first + n - 1 <= MaxPos
                              /\ Batch(ss, n) = Parts(first, n)
<1> DEFINE s == CHOOSE s \in ss : TRUE
           last == SeqPosMax(cells, s)
<1>1. s \in ss
  BY DEF Fresh
<1>2. last + n <= MaxPos
  BY <1>1 DEF Fresh
<1>3. Batch(ss, n) = Parts(last + 1, n)
  BY DEF Batch
<1>4. last \in -1 .. MaxPos
  BY SeqPosMaxType
<1> HIDE DEF last
<1>5. last + 1 \in Nat /\ last + 1 + n - 1 <= MaxPos
  BY <1>2, <1>4, KvAssumption
<1> QED
  BY <1>3, <1>5

\* decode, of a batch that fits
LEMMA DecodeKeeps ==
    ASSUME KvInv, NEW ss \in SUBSET Seqs, NEW n \in 1 .. MaxBatch,
           Decode(ss, n)
    PROVE  KvInv'
<1> DEFINE there == Prepare(Shifted(cells), head, Batch(ss, n), ss)
<1>1. /\ Fresh(ss, n) /\ there.fits /\ cells' = there.cells /\ head' = head
      /\ keys' = Known(cells', ShiftedKeys(cells, keys))
      /\ run' = [seqs |-> ss, slots |-> there.slots]
  BY DEF Decode
<1>2. n \in Nat \ {0} /\ head \in Nat /\ ss # {}
  BY <1>1 DEF KvInv, Fresh
<1>3. Sound(there.cells) /\ there.slots \in Seq(Slots) /\ there.slots # <<>>
  <2>1. PICK first \in Nat : /\ first + n - 1 <= MaxPos
                             /\ Batch(ss, n) = Parts(first, n)
    BY <1>1, <1>2, FreshBatch DEF KvInv
  <2>2. Sound(Shifted(cells))
    BY ShiftedIsSound DEF KvInv
  <2> QED
    BY <1>1, <1>2, <2>1, <2>2, PrepareIsSound
<1> HIDE DEF there
<1>4. keys' \in [Cells -> Int]
  <2>1. ShiftedKeys(cells, keys) \in [Cells -> Int]
    BY KeysAreNumbers, SoundFields DEF KvInv
  <2> QED
    BY <1>1, <2>1, KeysAreNumbers
<1>5. RunOK'
  BY <1>1, <1>2, <1>3 DEF RunOK
<1> QED
  BY <1>1, <1>3, <1>4, <1>5 DEF KvInv

\* decode, after a defragmentation
LEMMA DecodeNoSlotKeeps ==
    ASSUME KvInv, NEW ss \in SUBSET Seqs, NEW n \in 1 .. MaxBatch,
           DecodeNoSlot(ss, n)
    PROVE  KvInv'
<1> DEFINE there == Prepare(Shifted(cells), head, Batch(ss, n), ss)
           ids == DefragPrepare(there.cells)
           c == Defragged(there.cells, ids)
           again == Prepare(c, 0, Batch(ss, n), ss)
           moves == \E i \in Cells : ids[i] # Size
           k == Known(there.cells, ShiftedKeys(cells, keys))
<1>1. /\ Fresh(ss, n)
      /\ cells' = IF moves THEN again.cells ELSE there.cells
      /\ \/ keys' = Known(cells', Moved(k, ids, Garbage))
         \/ keys' = Known(cells', k)
      /\ head' = IF moves THEN 0 ELSE head
      /\ run' = IF moves /\ again.fits
                THEN [seqs |-> ss, slots |-> again.slots] ELSE Idle
  BY DEF DecodeNoSlot
<1>2. n \in Nat \ {0} /\ head \in Nat /\ 0 \in Nat /\ ss # {}
  BY <1>1 DEF KvInv, Fresh
<1>3. PICK first \in Nat : /\ first + n - 1 <= MaxPos
                           /\ Batch(ss, n) = Parts(first, n)
  BY <1>1, <1>2, FreshBatch DEF KvInv
<1>4. Sound(there.cells)
  <2>1. Sound(Shifted(cells))
    BY ShiftedIsSound DEF KvInv
  <2> QED
    BY <1>2, <1>3, <2>1, PrepareIsSound
<1>5. k \in [Cells -> Int]
  <2>1. ShiftedKeys(cells, keys) \in [Cells -> Int]
    BY KeysAreNumbers, SoundFields DEF KvInv
  <2> HIDE DEF there
  <2> QED
    BY <2>1, KeysAreNumbers
<1> HIDE DEF there, k
<1>6. Sound(c)
  BY <1>4, DefragPrepareIsMovable, DefraggedIsSound
<1> HIDE DEF c, ids
<1>7. /\ Sound(again.cells) /\ again.slots \in Seq(Slots)
      /\ again.fits => again.slots # <<>>
  BY <1>2, <1>3, <1>6, PrepareIsSound
<1> HIDE DEF again, moves
<1>8. keys' \in [Cells -> Int]
  <2>1. Moved(k, ids, Garbage) \in [Cells -> Int]
    BY <1>5, MovedKeysAreNumbers
  <2> QED
    BY <1>1, <1>5, <2>1, KeysAreNumbers
<1>9. RunOK'
  BY <1>1, <1>2, <1>7 DEF RunOK
<1>10. head' \in 0 .. Size
  BY <1>1, KvAssumption DEF KvInv
<1> QED
  BY <1>1, <1>4, <1>7, <1>8, <1>9, <1>10 DEF KvInv

\* The part whose turn it is goes to its slot.
LEMMA ApplyKeeps ==
    ASSUME KvInv, run # Idle
    PROVE  /\ run.seqs \in SUBSET Seqs /\ run.slots \in Seq(Slots)
           /\ run.slots # <<>> /\ run = [seqs |-> run.seqs, slots |-> run.slots]
           /\ Slot \in Slots /\ Sound(Apply)
<1>1. /\ run \in [seqs : SUBSET Seqs, slots : Seq(Slots)]
      /\ run.seqs # {} /\ run.slots # <<>>
  BY DEF KvInv, RunOK
<1>2. Slot \in Slots
  BY <1>1 DEF Slot
<1>3. Sound(Apply)
  BY <1>1, <1>2, ApplyIsSound DEF Apply, KvInv
<1> QED
  BY <1>1, <1>2, <1>3

\* process_ubatch, of a part that is computed
LEMMA ComputeKeeps ==
    ASSUME KvInv, Compute
    PROVE  KvInv'
<1>1. /\ run # Idle /\ cells' = Apply /\ head' = NextHead(Slot)
      /\ keys' = [i \in Cells |-> IF i \in Slot.cells THEN cells'.pos[i]
                                  ELSE Known(cells', keys)[i]]
      /\ run' = IF Len(run.slots) = 1 THEN Idle
                ELSE [run EXCEPT !.slots = Tail(@)]
  BY DEF Compute
<1>2. /\ run.seqs \in SUBSET Seqs /\ run.slots \in Seq(Slots)
      /\ run.slots # <<>> /\ run = [seqs |-> run.seqs, slots |-> run.slots]
      /\ Slot \in Slots /\ Sound(cells')
  BY <1>1, ApplyKeeps
<1>3. head' \in 0 .. Size
  BY <1>1, <1>2, SlotShape
<1>4. keys' \in [Cells -> Int]
  <2>1. Known(cells', keys) \in [Cells -> Int]
    BY KeysAreNumbers DEF KvInv
  <2>2. \A i \in Cells : cells'.pos[i] \in Int
    <3>1. cells'.pos \in [Cells -> Positions \cup {Empty}]
      BY <1>2, SoundFields
    <3>2. Positions \cup {Empty} \subseteq Int
      BY KvAssumption DEF Positions, Empty
    <3> QED
      BY <3>1, <3>2
  <2> QED
    BY <1>1, <2>1, <2>2
<1>5. RunOK'
  <2>1. CASE Len(run.slots) = 1
    BY <1>1, <2>1 DEF RunOK
  <2>2. CASE Len(run.slots) # 1
    <3>1. Tail(run.slots) \in Seq(Slots) /\ Tail(run.slots) # <<>>
      <4>1. \A q \in Seq(Slots) : q # <<>> /\ Len(q) # 1 =>
                Tail(q) \in Seq(Slots) /\ Len(Tail(q)) # 0
        OBVIOUS
      <4> QED
        BY <1>2, <2>2, <4>1
    <3>2. run' = [seqs |-> run.seqs, slots |-> Tail(run.slots)]
      BY <1>1, <1>2, <2>2
    <3>3. run.seqs # {}
      BY <1>1 DEF KvInv, RunOK
    <3> QED
      BY <1>2, <3>1, <3>2, <3>3 DEF RunOK
  <2> QED
    BY <2>1, <2>2
<1> QED
  BY <1>2, <1>3, <1>4, <1>5 DEF KvInv

\* process_ubatch, of a part that fails
LEMMA ComputeFailsKeeps ==
    ASSUME KvInv, ComputeFails
    PROVE  KvInv'
<1>1. /\ run # Idle /\ run' = Idle
      /\ keys' = [i \in Cells |-> IF i \in Slot.cells THEN Garbage
                                  ELSE Known(cells', keys)[i]]
  BY DEF ComputeFails
<1>2. PICK s \in run.seqs :
         LET I == InRange(Apply, s, Slot.first, -1)
         IN  /\ cells' = CellsSeqRm(Apply, I, s)
             /\ head' = Min({NextHead(Slot)} \cup Only(Apply, I, s))
  BY DEF ComputeFails
<1> DEFINE I == InRange(Apply, s, Slot.first, -1)
<1>3. I \in SUBSET Cells /\ Only(Apply, I, s) \in SUBSET Cells
  BY DEF InRange, Only
<1>4. run.seqs \in SUBSET Seqs /\ Slot \in Slots /\ Sound(Apply)
  BY <1>1, ApplyKeeps
<1> HIDE DEF I
<1>5. Sound(cells')
  <2>1. s \in Seqs /\ cells' = CellsSeqRm(Apply, I, s)
    BY <1>2, <1>4 DEF I
  <2> QED
    BY <1>3, <1>4, <2>1, SeqRmIsSound
<1>6. head' \in 0 .. Size
  <2>1. head' = Min({NextHead(Slot)} \cup Only(Apply, I, s))
    BY <1>2 DEF I
  <2>2. NextHead(Slot) \in 0 .. Size
    BY <1>4, SlotShape
  <2> QED
    BY <1>3, <2>1, <2>2, HeadIsACell
<1>7. keys' \in [Cells -> Int]
  <2>1. Known(cells', keys) \in [Cells -> Int] /\ Garbage \in Int
    BY KeysAreNumbers DEF KvInv, Garbage
  <2> QED
    BY <1>1, <2>1
<1> QED
  BY <1>1, <1>5, <1>6, <1>7 DEF KvInv, RunOK

\* Whatever is done keeps it.
LEMMA KvInvIsKept ==
    ASSUME Apart, KvInv, [KvNext]_kvVars
    PROVE  KvInv'
<1>1. CASE UNCHANGED kvVars
  BY <1>1 DEF KvInv, RunOK, kvVars
<1>2. CASE Call
  <2>1. CASE Clear
    BY <2>1, ClearIsSound
  <2>2. CASE \E s \in Seqs, p0, p1 \in Ends : SeqRm(s, p0, p1)
    BY <2>2, SeqRmKeeps
  <2>3. CASE \E s, t \in Seqs, p0, p1 \in Ends : SeqCp(s, t, p0, p1)
    BY <2>3, SeqCpKeeps
  <2>4. CASE \E s \in Seqs : SeqKeep(s)
    BY <2>4, SeqKeepKeeps
  <2>5. CASE \E s \in Seqs, p0, p1 \in Ends, d \in {-1, 1} :
                SeqAdd(s, p0, p1, d)
    <3>1. PICK s \in Seqs, p0 \in Ends, p1 \in Ends, d \in {-1, 1} :
              SeqAdd(s, p0, p1, d)
      BY <2>5
    <3>2. d \in Int
      OBVIOUS
    <3> QED
      BY <3>1, <3>2, SeqAddKeeps
  <2>6. CASE \E s \in Seqs, p0, p1 \in Ends : SeqDiv(s, p0, p1, 2)
    BY <2>6, SeqDivKeeps
  <2>7. CASE Defrag
    BY <2>7, DefragKeeps
  <2> QED
    BY <1>2, <2>1, <2>2, <2>3, <2>4, <2>5, <2>6, <2>7 DEF Call
<1>3. CASE Decoding
  <2>1. CASE \E ss \in SUBSET Seqs, n \in 1 .. MaxBatch :
                Decode(ss, n) \/ DecodeNoSlot(ss, n)
    BY <2>1, DecodeKeeps, DecodeNoSlotKeeps
  <2>2. CASE Compute
    BY <2>2, ComputeKeeps
  <2>3. CASE ComputeFails
    BY <2>3, ComputeFailsKeeps
  <2> QED
    BY <1>3, <2>1, <2>2, <2>3 DEF Decoding
<1> QED
  BY <1>1, <1>2, <1>3 DEF KvNext

\* It holds at first.
LEMMA KvInvAtFirst ==
    ASSUME KvInit
    PROVE  KvInv
<1>1. [i \in Cells |-> Garbage] \in [Cells -> Int]
  BY DEF Garbage
<1> QED
  BY <1>1, NoCellsIsSound, KvAssumption DEF KvInit, KvInv, RunOK

\* The indexes of the cache are exact, whatever is called and however a batch
\* ends, in a program that never gives a sequence a cell that it has (where
\* assertions are on, seq_add stops it).
THEOREM IndexesAreExact == Apart => (KvSpec => []IndexesExact)
<1> SUFFICES ASSUME Apart PROVE KvSpec => []IndexesExact
  OBVIOUS
<1> DEFINE Inv == KvInv /\ calls \in 0 .. MaxCalls
<1>1. KvInit => Inv
  BY KvInvAtFirst, KvAssumption DEF KvInit
<1>2. Inv /\ [KvNext]_kvVars => Inv'
  <2> SUFFICES ASSUME Inv, [KvNext]_kvVars PROVE Inv'
    OBVIOUS
  <2>1. KvInv'
    BY KvInvIsKept
  <2>2. calls' \in 0 .. MaxCalls
    BY KvAssumption DEF KvNext, Call, Decoding, kvVars
  <2> QED
    BY <2>1, <2>2
<1>3. Inv => IndexesExact
  <2> SUFFICES ASSUME Inv PROVE IndexesExact
    OBVIOUS
  <2>1. /\ run.seqs \subseteq Seqs
        /\ \A k \in DOMAIN run.slots : run.slots[k].cells \subseteq Cells
    <3>1. CASE run = Idle
      BY <3>1 DEF Idle
    <3>2. CASE run # Idle
      <4>1. run.seqs \in SUBSET Seqs /\ run.slots \in Seq(Slots)
        BY <3>2, ApplyKeeps
      <4>2. \A k \in DOMAIN run.slots : run.slots[k] \in Slots
        BY <4>1
      <4> QED
        BY <4>1, <4>2 DEF Slots
    <3> QED
      BY <3>1, <3>2
  <2> QED
    BY <2>1 DEF IndexesExact, KvTypeOK, KvInv, Sound
<1> HIDE DEF Inv
<1> QED
  BY <1>1, <1>2, <1>3, PTL DEF KvSpec

-----------------------------------------------------------------------------
(* The keys.                                                               *)

\* What KeysFollow says of a cell, and that the key has been computed.
Kept(c, k, i) == \/ k[i] = Unknown
                 \/ k[i] >= 0 /\ k[i] + c.shift[i] = c.pos[i]
Follows(c, k) == \A i \in Cells : c.pos[i] # Empty => Kept(c, k, i)

\* No shift is pending while a batch is computed.
KeysInv == Follows(cells, keys) /\ (run # Idle => ~cells.has_shift)

\* Cells that lose tokens, and gain none.
LEMMA StillFollows ==
    ASSUME NEW c, NEW k, Follows(c, k),
           NEW d, \A i \in Cells : Same(d, c, i)
    PROVE  Follows(d, k) /\ Follows(d, Known(d, k))
BY DEF Follows, Kept, Same, Known

\* The K-shift turns the keys by what was pending.
LEMMA ShiftedFollows ==
    ASSUME NEW c, Sound(c), NEW k \in [Cells -> Int], Follows(c, k)
    PROVE  Follows(Shifted(c), ShiftedKeys(c, k))
<1> DEFINE d == Shifted(c)
           h == ShiftedKeys(c, k)
<1>1. /\ d.pos = c.pos /\ d.shift = [i \in Cells |-> 0]
      /\ \A i \in Cells : h[i] = IF c.pos[i] # Empty /\ k[i] >= 0
                                 THEN k[i] + c.shift[i] ELSE k[i]
  BY DEF Shifted, ShiftedKeys, Sound, CellStates
<1>2. ASSUME NEW i \in Cells, c.pos[i] # Empty
      PROVE  c.pos[i] >= 0 /\ c.pos[i] \in Int
  <2>1. c.pos \in [Cells -> Positions \cup {Empty}]
    BY SoundFields
  <2> QED
    BY <1>2, <2>1, KvAssumption DEF Positions
<1> HIDE DEF d, h
<1>3. ASSUME NEW i \in Cells, d.pos[i] # Empty
      PROVE  Kept(d, h, i)
  <2>1. Kept(c, k, i) /\ c.pos[i] # Empty
    BY <1>1, <1>3 DEF Follows
  <2>2. CASE k[i] = Unknown
    BY <1>1, <2>2 DEF Kept, Unknown
  <2>3. CASE k[i] >= 0 /\ k[i] + c.shift[i] = c.pos[i]
    BY <1>1, <1>2, <2>1, <2>3 DEF Kept
  <2> QED
    BY <2>1, <2>2, <2>3 DEF Kept
<1> QED
  BY <1>3 DEF Follows, d, h

\* The key moves with its cell.
LEMMA DefraggedFollows ==
    ASSUME NEW c, Sound(c), NEW k, Follows(c, k), NEW ids, Movable(c, ids)
    PROVE  Follows(Defragged(c, ids), Moved(k, ids, Garbage))
<1> DEFINE d == Defragged(c, ids)
           h == Moved(k, ids, Garbage)
<1>1. d.pos = Moved(c.pos, ids, Empty) /\ d.shift = Moved(c.shift, ids, 0)
  BY DEF Defragged, Sound, CellStates
<1>2. /\ Size \notin Cells
      /\ \A j \in Cells : ids[j] # Size => ids[j] \in Cells
  BY KvAssumption DEF Cells, Movable
<1>3. ASSUME NEW j \in Cells, ids[j] # Size
      PROVE  /\ d.pos[ids[j]] = c.pos[j] /\ d.shift[ids[j]] = c.shift[j]
             /\ h[ids[j]] = k[j] /\ d.pos[j] = Empty
  BY <1>1, <1>3, MovedIs
<1>4. ASSUME NEW i \in Cells, ids[i] = Size, \A j \in Cells : ids[j] # i
      PROVE  d.pos[i] = c.pos[i] /\ d.shift[i] = c.shift[i] /\ h[i] = k[i]
  BY <1>1, <1>4, MovedIs
<1> HIDE DEF d, h
<1>5. ASSUME NEW i \in Cells, d.pos[i] # Empty
      PROVE  Kept(d, h, i)
  <2>1. CASE \E j \in Cells : ids[j] = i
    <3>1. PICK j \in Cells : ids[j] = i
      BY <2>1
    <3>2. ids[j] # Size
      BY <1>2, <3>1
    <3>3. d.pos[i] = c.pos[j] /\ d.shift[i] = c.shift[j] /\ h[i] = k[j]
      BY <1>3, <3>1, <3>2
    <3>4. Kept(c, k, j)
      BY <1>5, <3>3 DEF Follows
    <3> QED
      BY <3>3, <3>4 DEF Kept
  <2>2. CASE \A j \in Cells : ids[j] # i
    <3>1. ids[i] = Size
      BY <1>3, <1>5
    <3>2. d.pos[i] = c.pos[i] /\ d.shift[i] = c.shift[i] /\ h[i] = k[i]
      BY <1>4, <2>2, <3>1
    <3>3. Kept(c, k, i)
      BY <1>5, <3>2 DEF Follows
    <3> QED
      BY <3>2, <3>3 DEF Kept
  <2> QED
    BY <2>1, <2>2
<1> QED
  BY <1>5 DEF Follows, d, h

\* Where no shift is pending, a rehearsal that was undone leaves each cell as
\* it was, or empty.
LEMMA PrepareLosesOnly ==
    ASSUME NEW c, Sound(c), ~c.has_shift, NEW d, Sound(d), NEW slots,
           From(d, c, slots, 0)
    PROVE  ~d.has_shift /\ \A i \in Cells : Same(d, c, i)
<1>1. ~d.has_shift
  BY DEF From
<1>2. \A i \in Cells : c.shift[i] = 0 /\ d.shift[i] = 0
  BY <1>1 DEF Sound, Exact
<1>3. \A i \in Cells : d.pos[i] \in {Empty, c.pos[i]}
  BY DEF From
<1> QED
  BY <1>1, <1>2, <1>3 DEF Same

\* What a caller does to the positions it does to the shifts, or the key is
\* not followed any more.
LEMMA CallFollows ==
    ASSUME Mishaps = {}, KvInv, KeysInv, Call
    PROVE  KeysInv'
<1>1. Follows(cells, keys) /\ Sound(cells) /\ keys \in [Cells -> Int]
  BY DEF KeysInv, KvInv
<1>2. CASE Clear
  <2>1. cells' = NoCells /\ run' = Idle
    BY <1>2 DEF Clear
  <2>2. \A i \in Cells : cells'.pos[i] = Empty
    BY <2>1 DEF NoCells
  <2> QED
    BY <2>1, <2>2 DEF KeysInv, Follows
<1>3. ASSUME NEW s \in Seqs, NEW p0, NEW p1, SeqRm(s, p0, p1)
      PROVE  KeysInv'
  <2> DEFINE I == InRange(cells, s, p0, p1)
  <2>1. /\ cells' = CellsSeqRm(cells, I, s) /\ keys' = Known(cells', keys)
        /\ run' = Idle
    BY <1>3 DEF SeqRm
  <2> HIDE DEF I
  <2>2. \A i \in Cells : Same(cells', cells, i)
    BY <1>1, <2>1 DEF CellsSeqRm, Sound, CellStates, Same
  <2>3. Follows(cells', keys')
    BY <1>1, <2>1, <2>2, StillFollows
  <2> QED
    BY <2>1, <2>3 DEF KeysInv, Follows, Kept
<1>4. ASSUME NEW s \in Seqs, NEW t \in Seqs, NEW p0, NEW p1,
             SeqCp(s, t, p0, p1)
      PROVE  KeysInv'
  <2>1. keys' = keys /\ run' = Idle
    BY <1>4 DEF SeqCp
  <2>2. \A i \in Cells : Same(cells', cells, i)
    BY <1>1, <1>4, SeqCpIsSound DEF Apart
  <2>3. Follows(cells', keys')
    BY <1>1, <2>1, <2>2, StillFollows
  <2> QED
    BY <2>1, <2>3 DEF KeysInv, Follows, Kept
<1>5. ASSUME NEW s \in Seqs, SeqKeep(s)
      PROVE  KeysInv'
  <2>1. /\ cells' = CellsSeqKeep(cells, s) /\ keys' = Known(cells', keys)
        /\ run' = Idle
    BY <1>5 DEF SeqKeep
  <2>2. \A i \in Cells : Same(cells', cells, i)
    BY <1>1, <2>1, SeqKeepIsSound DEF Same
  <2>3. Follows(cells', keys')
    BY <1>1, <2>1, <2>2, StillFollows
  <2> QED
    BY <2>1, <2>3 DEF KeysInv, Follows, Kept
<1>6. ASSUME NEW s \in Seqs, NEW p0, NEW p1, NEW n \in Int,
             SeqAdd(s, p0, p1, n)
      PROVE  KeysInv'
  <2>1. keys' = Known(cells', keys) /\ run' = Idle
    BY <1>6 DEF SeqAdd
  <2>2. /\ \A i \in Cells : \/ Same(cells', cells, i)
                            \/ /\ cells.pos[i] # Empty
                               /\ cells'.pos[i] = cells.pos[i] + n
                               /\ cells'.shift[i] = cells.shift[i] + n
    BY <1>1, <1>6, SeqAddIsSound
  <2>3. ASSUME NEW i \in Cells, cells'.pos[i] # Empty
        PROVE  Kept(cells', keys', i)
    <3>1. keys'[i] = keys[i] /\ keys[i] \in Int
      BY <1>1, <2>1, <2>3 DEF Known
    <3>2. CASE Same(cells', cells, i)
      BY <1>1, <2>3, <3>1, <3>2 DEF Same, Follows, Kept
    <3>3. CASE /\ cells.pos[i] # Empty
               /\ cells'.pos[i] = cells.pos[i] + n
               /\ cells'.shift[i] = cells.shift[i] + n
      <4>1. Kept(cells, keys, i)
        BY <1>1, <3>3 DEF Follows
      <4>2. cells.shift[i] \in Int
        BY <1>1, SoundFields
      <4> QED
        BY <3>1, <3>3, <4>1, <4>2 DEF Kept
    <3> QED
      BY <2>2, <3>2, <3>3
  <2> QED
    BY <2>1, <2>3 DEF KeysInv, Follows, Kept
<1>7. ASSUME NEW s \in Seqs, NEW p0, NEW p1, SeqDiv(s, p0, p1, 2)
      PROVE  KeysInv'
  <2> DEFINE I == InRange(cells, s, p0, p1)
  <2>1. /\ keys' = [i \in Cells |-> IF i \in I THEN Unknown ELSE keys[i]]
        /\ run' = Idle
    BY <1>7 DEF SeqDiv
  <2>2. \A i \in Cells \ I : Same(cells', cells, i)
    BY <1>1, <1>7, SeqDivIsSound
  <2> HIDE DEF I
  <2>3. ASSUME NEW i \in Cells, cells'.pos[i] # Empty
        PROVE  Kept(cells', keys', i)
    <3>1. CASE i \in I
      BY <2>1, <3>1 DEF Kept
    <3>2. CASE i \notin I
      BY <1>1, <2>1, <2>2, <2>3, <3>2 DEF Same, Follows, Kept
    <3> QED
      BY <3>1, <3>2
  <2> QED
    BY <2>1, <2>3 DEF KeysInv, Follows, Kept
<1>8. CASE Defrag
  <2> DEFINE c == Shifted(cells)
             k == ShiftedKeys(cells, keys)
             ids == DefragPrepare(c)
  <2>1. /\ cells' = Defragged(c, ids) /\ keys' = Moved(k, ids, Garbage)
        /\ run' = Idle
    BY <1>8 DEF Defrag, Update
  <2>2. Sound(c) /\ Follows(c, k)
    BY <1>1, ShiftedIsSound, ShiftedFollows
  <2>3. Movable(c, ids)
    BY <2>2, DefragPrepareIsMovable
  <2> HIDE DEF c, k, ids
  <2>4. Follows(cells', keys')
    BY <2>1, <2>2, <2>3, DefraggedFollows
  <2> QED
    BY <2>1, <2>4 DEF KeysInv, Follows, Kept
<1> QED
  <2>1. \A d \in {-1, 1} : d \in Int
    OBVIOUS
  <2> QED
    BY <1>2, <1>3, <1>4, <1>5, <1>6, <1>7, <1>8, <2>1 DEF Call

\* A batch that fits begins without a pending shift.
LEMMA DecodeFollows ==
    ASSUME KvInv, KeysInv, NEW ss \in SUBSET Seqs, NEW n \in 1 .. MaxBatch,
           Decode(ss, n)
    PROVE  KeysInv'
<1> DEFINE c == Shifted(cells)
           k == ShiftedKeys(cells, keys)
           there == Prepare(c, head, Batch(ss, n), ss)
<1>1. /\ Fresh(ss, n) /\ cells' = there.cells
      /\ keys' = Known(cells', k)
  BY DEF Decode
<1>2. n \in Nat \ {0} /\ head \in Nat /\ ss # {}
  BY <1>1 DEF KvInv, Fresh
<1>3. PICK first \in Nat : /\ first + n - 1 <= MaxPos
                           /\ Batch(ss, n) = Parts(first, n)
  BY <1>1, <1>2, FreshBatch DEF KvInv
<1>4. Sound(c) /\ ~c.has_shift /\ Follows(c, k)
  BY ShiftedIsSound, ShiftedFollows DEF KvInv, KeysInv
<1> HIDE DEF c, k
<1>5. Sound(there.cells) /\ From(there.cells, c, there.slots, 0)
  BY <1>2, <1>3, <1>4, PrepareIsSound
<1> HIDE DEF there
<1>6. ~cells'.has_shift /\ \A i \in Cells : Same(cells', c, i)
  BY <1>1, <1>4, <1>5, PrepareLosesOnly
<1>7. Follows(cells', keys')
  BY <1>1, <1>4, <1>6, StillFollows
<1> QED
  BY <1>6, <1>7 DEF KeysInv, Follows, Kept

\* The same after a defragmentation that is done in the cells and the keys.
LEMMA DecodeNoSlotFollows ==
    ASSUME Mishaps = {}, KvInv, KeysInv,
           NEW ss \in SUBSET Seqs, NEW n \in 1 .. MaxBatch, DecodeNoSlot(ss, n)
    PROVE  KeysInv'
<1> DEFINE b == Shifted(cells)
           there == Prepare(b, head, Batch(ss, n), ss)
           ids == DefragPrepare(there.cells)
           c == Defragged(there.cells, ids)
           again == Prepare(c, 0, Batch(ss, n), ss)
           moves == \E i \in Cells : ids[i] # Size
           k0 == ShiftedKeys(cells, keys)
           k == Known(there.cells, k0)
           m == Moved(k, ids, Garbage)
<1>1. /\ Fresh(ss, n)
      /\ cells' = IF moves THEN again.cells ELSE there.cells
      /\ keys' = Known(cells', m)
  BY DEF DecodeNoSlot
<1>2. n \in Nat \ {0} /\ head \in Nat /\ 0 \in Nat /\ ss # {}
  BY <1>1 DEF KvInv, Fresh
<1>3. PICK first \in Nat : /\ first + n - 1 <= MaxPos
                           /\ Batch(ss, n) = Parts(first, n)
  BY <1>1, <1>2, FreshBatch DEF KvInv
<1>4. Sound(b) /\ ~b.has_shift /\ Follows(b, k0)
  BY ShiftedIsSound, ShiftedFollows DEF KvInv, KeysInv
<1> HIDE DEF b, k0
<1>5. Sound(there.cells) /\ From(there.cells, b, there.slots, 0)
  BY <1>2, <1>3, <1>4, PrepareIsSound
<1> HIDE DEF there
<1>6. ~there.cells.has_shift /\ \A i \in Cells : Same(there.cells, b, i)
  BY <1>4, <1>5, PrepareLosesOnly
<1>7. Follows(there.cells, k)
  BY <1>4, <1>6, StillFollows
<1> HIDE DEF k
<1>8. Movable(there.cells, ids)
  BY <1>5, DefragPrepareIsMovable
<1> HIDE DEF ids
<1>9. Sound(c) /\ ~c.has_shift /\ Follows(c, m)
  BY <1>5, <1>6, <1>7, <1>8, DefraggedIsSound, DefraggedFollows
<1>10. ASSUME ~moves
       PROVE  \A i \in Cells : Same(there.cells, c, i)
  <2>1. c.pos = Moved(there.cells.pos, ids, Empty)
        /\ c.shift = Moved(there.cells.shift, ids, 0)
    BY <1>5 DEF Defragged, Sound, CellStates
  <2>2. \A i \in Cells : ids[i] = Size
    BY <1>10
  <2>3. \A i, j \in Cells : ids[j] # i
    BY <2>2, KvAssumption DEF Cells
  <2> HIDE DEF c
  <2> QED
    BY <1>8, <2>1, <2>2, <2>3, MovedIs DEF Same
<1> HIDE DEF c, m
<1>11. Sound(again.cells) /\ From(again.cells, c, again.slots, 0)
  BY <1>2, <1>3, <1>9, PrepareIsSound
<1> HIDE DEF again
<1>12. ~again.cells.has_shift /\ \A i \in Cells : Same(again.cells, c, i)
  BY <1>9, <1>11, PrepareLosesOnly
<1> HIDE DEF moves
<1>13. ~cells'.has_shift /\ \A i \in Cells : Same(cells', c, i)
  BY <1>1, <1>6, <1>10, <1>12
<1>14. Follows(cells', keys')
  BY <1>1, <1>9, <1>13, StillFollows
<1> QED
  BY <1>13, <1>14 DEF KeysInv, Follows, Kept

\* Where the part goes, and what it leaves elsewhere.
LEMMA ApplyCells ==
    ASSUME KvInv, run # Idle
    PROVE  /\ Sound(Apply) /\ Apply.has_shift = cells.has_shift
           /\ Slot \in Slots /\ run.seqs \in SUBSET Seqs
           /\ \A i \in Cells \ Slot.cells : Same(Apply, cells, i)
           /\ \A i \in Slot.cells :
                 /\ Apply.seq[i] \subseteq run.seqs
                 /\ Apply.pos[i] \in {Empty, Slot.first + i - Min(Slot.cells)}
<1>1. Slot \in Slots /\ run.seqs \in SUBSET Seqs /\ run.seqs # {}
  BY ApplyKeeps DEF KvInv, RunOK
<1> DEFINE q == Slot
           ss == run.seqs
<1>2. Sound(cells) /\ Apply = ApplyUbatch(cells, q, ss)
  BY DEF KvInv, Apply
<1>3. q \in Slots /\ ss \in SUBSET Seqs /\ ss # {}
  BY <1>1
<1> HIDE DEF q, ss
<1>4. /\ Sound(ApplyUbatch(cells, q, ss))
      /\ ApplyUbatch(cells, q, ss).has_shift = cells.has_shift
      /\ \A i \in Cells \ q.cells : Same(ApplyUbatch(cells, q, ss), cells, i)
      /\ \A i \in q.cells :
            /\ ApplyUbatch(cells, q, ss).seq[i] \subseteq ss
            /\ ApplyUbatch(cells, q, ss).pos[i]
                  \in {Empty, q.first + i - Min(q.cells)}
  BY <1>2, <1>3, ApplyIsSound
<1> QED
  BY <1>1, <1>2, <1>4 DEF q, ss

\* A part that is computed has the keys of its positions.
LEMMA ComputeFollows ==
    ASSUME KvInv, KeysInv, Compute
    PROVE  KeysInv'
<1>1. /\ run # Idle /\ cells' = Apply
      /\ keys' = [i \in Cells |-> IF i \in Slot.cells THEN cells'.pos[i]
                                  ELSE Known(cells', keys)[i]]
  BY DEF Compute
<1>2. /\ Sound(cells') /\ ~cells'.has_shift
      /\ \A i \in Cells \ Slot.cells : Same(cells', cells, i)
  BY <1>1, ApplyCells DEF KeysInv
<1>3. ASSUME NEW i \in Cells, cells'.pos[i] # Empty
      PROVE  Kept(cells', keys', i)
  <2>1. CASE i \in Slot.cells
    <3>1. keys'[i] = cells'.pos[i] /\ cells'.shift[i] = 0
      BY <1>1, <1>2, <2>1 DEF Sound, Exact
    <3>2. cells'.pos[i] \in Positions
      <4>1. cells'.pos \in [Cells -> Positions \cup {Empty}]
        BY <1>2, SoundFields
      <4> QED
        BY <1>3, <4>1
    <3> QED
      BY <3>1, <3>2, KvAssumption DEF Kept, Positions
  <2>2. CASE i \notin Slot.cells
    <3>1. keys'[i] = keys[i]
      BY <1>1, <1>3, <2>2 DEF Known
    <3> QED
      BY <1>2, <1>3, <2>2, <3>1 DEF Same, KeysInv, Follows, Kept
  <2> QED
    BY <2>1, <2>2
<1> QED
  BY <1>2, <1>3 DEF KeysInv, Follows, Kept

\* The cells of a part that failed are empty, if its tokens have one sequence.
LEMMA ComputeFailsFollows ==
    ASSUME Mishaps = {}, KvInv, KeysInv, ComputeFails
    PROVE  KeysInv'
<1>1. /\ run # Idle /\ run' = Idle /\ Cardinality(run.seqs) = 1
      /\ keys' = [i \in Cells |-> IF i \in Slot.cells THEN Garbage
                                  ELSE Known(cells', keys)[i]]
  BY DEF ComputeFails
<1>2. PICK s \in run.seqs :
         cells' = CellsSeqRm(Apply, InRange(Apply, s, Slot.first, -1), s)
  BY DEF ComputeFails
<1> DEFINE a == Apply
           I == InRange(a, s, Slot.first, -1)
<1>3. /\ Sound(a) /\ Slot \in Slots
      /\ \A i \in Cells \ Slot.cells : Same(a, cells, i)
      /\ \A i \in Slot.cells :
            /\ a.seq[i] \subseteq run.seqs
            /\ a.pos[i] \in {Empty, Slot.first + i - Min(Slot.cells)}
  BY <1>1, ApplyCells
<1>4. run.seqs = {s}
  <2>1. IsFiniteSet(run.seqs)
    BY <1>1, ApplyCells, KvAssumption, FS_Subset
  <2> QED
    BY <1>1, <1>2, <2>1, FS_Singleton
<1>5. /\ Slot.first \in Nat /\ Slot.cells \in SUBSET Cells
      /\ \A i \in Slot.cells :
            /\ Slot.first + i - Min(Slot.cells) \in Positions
            /\ Slot.first <= Slot.first + i - Min(Slot.cells)
  BY <1>3, SlotShape
<1>6. ASSUME NEW i \in Slot.cells, a.pos[i] # Empty
      PROVE  i \in Only(a, I, s)
  <2>1. a.seq[i] = {s}
    <3>1. a.seq[i] # {}
      BY <1>3, <1>5, <1>6 DEF Sound, Exact
    <3> QED
      BY <1>3, <1>4, <3>1
  <2>2. a.pos[i] >= Slot.first /\ ~(Slot.first < 0) /\ -1 < 0
    BY <1>3, <1>5, <1>6
  <2> HIDE DEF a
  <2>3. i \in I
    BY <1>5, <2>1, <2>2 DEF InRange
  <2> HIDE DEF I
  <2> QED
    BY <2>1, <2>3 DEF Only
<1>7. cells' = CellsSeqRm(a, I, s)
  BY <1>2
<1> HIDE DEF a, I
<1>8. \A i \in Cells : /\ Same(cells', a, i)
                       /\ i \in Only(a, I, s) => cells'.pos[i] = Empty
  BY <1>3, <1>7 DEF CellsSeqRm, Sound, CellStates, Same
<1>9. ASSUME NEW i \in Cells, cells'.pos[i] # Empty
      PROVE  Kept(cells', keys', i)
  <2>1. i \notin Slot.cells
    BY <1>6, <1>8, <1>9 DEF Same
  <2>2. keys'[i] = keys[i]
    BY <1>1, <1>9, <2>1 DEF Known
  <2>3. Same(cells', cells, i)
    BY <1>3, <1>8, <2>1 DEF Same
  <2> QED
    BY <1>9, <2>2, <2>3 DEF Same, KeysInv, Follows, Kept
<1> QED
  BY <1>1, <1>9 DEF KeysInv, Follows, Kept

\* Each cell has the key of its token, rotated for its position but for the
\* shift that is still to come, whatever is called and however a batch ends:
\* where no graph of a defragmentation fails, no part with coupled sequences
\* fails, and no sequence is given a cell that it has.
THEOREM KeysAlwaysFollow == Mishaps = {} => (KvSpec => []KeysFollow)
<1> SUFFICES ASSUME Mishaps = {} PROVE KvSpec => []KeysFollow
  OBVIOUS
<1> DEFINE Inv == KvInv /\ KeysInv
<1>1. KvInit => Inv
  <2> SUFFICES ASSUME KvInit PROVE Inv
    OBVIOUS
  <2>1. cells = NoCells /\ run = Idle
    BY DEF KvInit
  <2>2. \A i \in Cells : cells.pos[i] = Empty
    BY <2>1 DEF NoCells
  <2> QED
    BY <2>1, <2>2, KvInvAtFirst DEF KeysInv, Follows
<1>2. Inv /\ [KvNext]_kvVars => Inv'
  <2> SUFFICES ASSUME Inv, [KvNext]_kvVars PROVE Inv'
    OBVIOUS
  <2>1. KvInv'
    BY KvInvIsKept DEF Apart
  <2>2. CASE UNCHANGED kvVars
    BY <2>1, <2>2 DEF KeysInv, Follows, Kept, kvVars
  <2>3. CASE Call
    BY <2>1, <2>3, CallFollows
  <2>4. CASE Decoding
    <3>1. CASE \E ss \in SUBSET Seqs, n \in 1 .. MaxBatch :
                  Decode(ss, n) \/ DecodeNoSlot(ss, n)
      BY <2>1, <3>1, DecodeFollows, DecodeNoSlotFollows
    <3>2. CASE Compute
      BY <2>1, <3>2, ComputeFollows
    <3>3. CASE ComputeFails
      BY <2>1, <3>3, ComputeFailsFollows
    <3> QED
      BY <2>4, <3>1, <3>2, <3>3 DEF Decoding
  <2> QED
    BY <2>2, <2>3, <2>4 DEF KvNext
<1>3. Inv => KeysFollow
  <2> SUFFICES ASSUME Inv PROVE KeysFollow
    OBVIOUS
  <2>1. cells.used = {i \in Cells : cells.pos[i] # Empty}
    BY SoundFields DEF KvInv
  <2> QED
    BY <2>1 DEF KeysFollow, KeysInv, Follows, Kept
<1> HIDE DEF Inv
<1> QED
  BY <1>1, <1>2, <1>3, PTL DEF KvSpec

-----------------------------------------------------------------------------
(* The slots of a rehearsal, used again.                                   *)

\* The cells that a slot overwrites decide which sequences lose what.
LEMMA OverwrittenLike ==
    ASSUME NEW c, NEW r, NEW slot, \A i \in slot.cells : Like(r, c, i)
    PROVE  /\ \A s : Overwritten(r, slot, s) = Overwritten(c, slot, s)
           /\ Losers(r, slot) = Losers(c, slot)
           /\ \A t, p : Losing(r, slot, t, p) = Losing(c, slot, t, p)
<1>1. \A s : Only(r, slot.cells, s) = Only(c, slot.cells, s)
  BY DEF Like, Only
<1>2. \A s : \A i \in Only(c, slot.cells, s) : r.pos[i] = c.pos[i]
  BY DEF Like, Only
<1>3. ASSUME NEW s
      PROVE  Overwritten(r, slot, s) = Overwritten(c, slot, s)
  BY <1>1, <1>2 DEF Overwritten
<1> QED
  BY <1>3 DEF Losers, Losing

\* Two states that agree on the slot agree, after the part has been put there,
\* on it and wherever they agreed.
LEMMA ApplyLike ==
    ASSUME NEW c, Sound(c), NEW r, Sound(r), NEW slot \in Slots,
           NEW ss \in SUBSET Seqs, ss # {},
           \A i \in slot.cells : Like(r, c, i),
           NEW i \in Cells, Like(r, c, i)
    PROVE  Like(ApplyUbatch(r, slot, ss), ApplyUbatch(c, slot, ss), i)
<1> DEFINE L == Losers(c, slot)
           rr == ApplyUbatch(r, slot, ss)
           cc == ApplyUbatch(c, slot, ss)
<1>1. /\ Sound(cc)
      /\ cc.seq[i] = SeqPut(c, slot, ss, i)
                        \ Losing(c, slot, L, PosPut(c, slot, i))
      /\ cc.pos[i] \in {Empty, PosPut(c, slot, i)}
  BY ApplyIsSound
<1>2. /\ Sound(rr)
      /\ rr.seq[i] = SeqPut(r, slot, ss, i)
                        \ Losing(r, slot, Losers(r, slot), PosPut(r, slot, i))
      /\ rr.pos[i] \in {Empty, PosPut(r, slot, i)}
  BY ApplyIsSound
<1>3. /\ SeqPut(r, slot, ss, i) = SeqPut(c, slot, ss, i)
      /\ PosPut(r, slot, i) = PosPut(c, slot, i)
  BY DEF SeqPut, PosPut, Like
<1>4. Losing(r, slot, Losers(r, slot), PosPut(r, slot, i))
         = Losing(c, slot, L, PosPut(c, slot, i))
  BY <1>3, OverwrittenLike
<1>5. rr.seq[i] = cc.seq[i]
  BY <1>1, <1>2, <1>3, <1>4
<1>6. /\ rr.pos[i] = Empty <=> rr.seq[i] = {}
      /\ cc.pos[i] = Empty <=> cc.seq[i] = {}
  BY <1>1, <1>2, SoundFields
<1> HIDE DEF rr, cc
<1>7. Like(rr, cc, i)
  BY <1>1, <1>2, <1>3, <1>5, <1>6 DEF Like
<1> QED
  BY <1>7 DEF rr, cc

\* A cell that has what a later part will leave loses nothing more.
LEMMA ApplyLeaves ==
    ASSUME NEW c, Sound(c), NEW r, Sound(r), NEW d, Sound(d),
           NEW slot \in Slots, NEW ss \in SUBSET Seqs, ss # {},
           \A i \in slot.cells : Like(r, c, i),
           NEW i \in Cells \ slot.cells, Like(r, d, i),
           d.seq[i] \subseteq ApplyUbatch(c, slot, ss).seq[i],
           d.pos[i] \in {Empty, ApplyUbatch(c, slot, ss).pos[i]}
    PROVE  Like(ApplyUbatch(r, slot, ss), d, i)
<1> DEFINE L == Losers(c, slot)
           rr == ApplyUbatch(r, slot, ss)
           cc == ApplyUbatch(c, slot, ss)
<1>1. /\ cc.seq[i] = SeqPut(c, slot, ss, i)
                        \ Losing(c, slot, L, PosPut(c, slot, i))
      /\ cc.pos[i] \in {Empty, PosPut(c, slot, i)}
  BY ApplyIsSound
<1>2. /\ Sound(rr)
      /\ rr.seq[i] = SeqPut(r, slot, ss, i)
                        \ Losing(r, slot, Losers(r, slot), PosPut(r, slot, i))
      /\ rr.pos[i] \in {Empty, PosPut(r, slot, i)}
  BY ApplyIsSound
<1>3. /\ SeqPut(r, slot, ss, i) = d.seq[i] /\ PosPut(r, slot, i) = d.pos[i]
      /\ PosPut(c, slot, i) = c.pos[i]
  BY DEF SeqPut, PosPut, Like
<1>4. Losing(r, slot, Losers(r, slot), d.pos[i]) = Losing(c, slot, L, d.pos[i])
  BY OverwrittenLike
<1>5. /\ rr.pos[i] = Empty <=> rr.seq[i] = {}
      /\ d.pos[i] = Empty <=> d.seq[i] = {}
  BY <1>2, SoundFields
<1>6. d.seq[i] \subseteq cc.seq[i] /\ d.pos[i] \in {Empty, cc.pos[i]}
  OBVIOUS
<1> HIDE DEF rr, cc, L
<1>7. Like(rr, d, i)
  <2>1. rr.seq[i] = d.seq[i] \ Losing(c, slot, L, d.pos[i])
    BY <1>2, <1>3, <1>4
  <2>2. CASE d.pos[i] = Empty
    BY <1>5, <2>1, <2>2 DEF Like
  <2>3. CASE d.pos[i] # Empty
    <3>1. d.pos[i] = c.pos[i]
      BY <1>1, <1>3, <1>6, <2>3
    <3>2. rr.seq[i] = d.seq[i]
      BY <1>1, <1>3, <1>6, <2>1, <3>1
    <3> QED
      BY <1>2, <1>3, <1>5, <2>3, <3>2 DEF Like
  <2> QED
    BY <2>2, <2>3
<1> QED
  BY <1>7 DEF rr

\* The states of a rehearsal.
LEMMA RehearsedStates ==
    ASSUME NEW acc, NEW c, NEW ss, NEW m, Rehearsed(acc, c, ss, m)
    PROVE  /\ Len(acc.slots) \in Nat
           /\ \A k \in 0 .. Len(acc.slots) : Sound(At(acc, k))
           /\ \A k \in 1 .. Len(acc.slots) :
                 /\ acc.slots[k] \in Slots
                 /\ At(acc, k) = ApplyUbatch(At(acc, k - 1), acc.slots[k], ss)
                 /\ \A i \in acc.slots[k].cells : Usable(At(acc, k - 1), i)
<1>1. /\ acc.slots \in Seq(Slots) /\ acc.old \in Seq(SoundStates)
      /\ Len(acc.old) = Len(acc.slots) /\ acc.cells \in SoundStates
      /\ Played(acc, ss)
  BY DEF Rehearsed, Rehearsals
<1>2. /\ Len(acc.slots) \in Nat
      /\ \A k \in 1 .. Len(acc.slots) : /\ acc.slots[k] \in Slots
                                       /\ acc.old[k] \in SoundStates
  BY <1>1
<1>3. ASSUME NEW k \in 0 .. Len(acc.slots)
      PROVE  Sound(At(acc, k))
  <2>1. At(acc, k) \in SoundStates
    BY <1>1, <1>2 DEF At
  <2> QED
    BY <2>1 DEF SoundStates, Sound
<1> QED
  BY <1>1, <1>2, <1>3 DEF Played

\* A cell only loses, while it is in no slot.
LEMMA RehearsedLoses ==
    ASSUME NEW acc, NEW c, NEW ss \in SUBSET Seqs, ss # {}, NEW m0,
           Rehearsed(acc, c, ss, m0), NEW u \in Nat, NEW i \in Cells,
           NEW v \in Nat, u + v <= Len(acc.slots),
           \A m \in u + 1 .. u + v : i \notin acc.slots[m].cells
    PROVE  /\ At(acc, u + v).seq[i] \subseteq At(acc, u).seq[i]
           /\ At(acc, u + v).pos[i] \in {Empty, At(acc, u).pos[i]}
<1> DEFINE Loses(k) == /\ At(acc, u + k).seq[i] \subseteq At(acc, u).seq[i]
                       /\ At(acc, u + k).pos[i] \in {Empty, At(acc, u).pos[i]}
           P == {k \in Nat : Loses(k)}
<1>1. 0 \in P
  BY DEF Loses
<1>2. ASSUME NEW k \in 1 .. v, k - 1 \in P
      PROVE  k \in P
  <2> DEFINE b == At(acc, u + (k - 1))
             slot == acc.slots[u + k]
  <2>1. /\ u + k \in 1 .. Len(acc.slots) /\ u + (k - 1) \in 0 .. Len(acc.slots)
        /\ (u + k) - 1 = u + (k - 1) /\ u + k \in u + 1 .. u + v
    BY RehearsedStates
  <2>2. /\ At(acc, u + k) = ApplyUbatch(b, slot, ss)
        /\ Sound(b) /\ slot \in Slots /\ i \in Cells \ slot.cells
    BY <2>1, RehearsedStates
  <2>3. /\ b.seq[i] \subseteq At(acc, u).seq[i]
        /\ b.pos[i] \in {Empty, At(acc, u).pos[i]}
    BY <1>2
  <2> HIDE DEF b, slot
  <2>4. /\ Same(ApplyUbatch(b, slot, ss), b, i)
        /\ ApplyUbatch(b, slot, ss).seq[i]
              = SeqPut(b, slot, ss, i)
                  \ Losing(b, slot, Losers(b, slot), PosPut(b, slot, i))
    BY <2>2, ApplyIsSound
  <2>5. ApplyUbatch(b, slot, ss).seq[i] \subseteq b.seq[i]
    BY <2>2, <2>4 DEF SeqPut
  <2>6. Loses(k)
    BY <2>2, <2>3, <2>4, <2>5 DEF Same
  <2> QED
    BY <2>6
<1> HIDE DEF P
<1>3. \A k \in 0 .. v : k \in P
  BY <1>1, <1>2, Upward
<1>4. v \in P
  BY <1>3
<1> QED
  BY <1>4 DEF P

\* The part that is computed next does to the cells what it did in the
\* rehearsal, but to those that have already what a later part left.
LEMMA LaterStep ==
    ASSUME NEW acc, NEW c, NEW ss \in SUBSET Seqs, ss # {}, NEW m0,
           Rehearsed(acc, c, ss, m0), NEW j \in Nat, j + 1 <= Len(acc.slots),
           NEW r, Sound(r), Later(r, acc, j)
    PROVE  Later(ApplyUbatch(r, acc.slots[j + 1], ss), acc, j + 1)
<1> DEFINE n == Len(acc.slots)
           slot == acc.slots[j + 1]
           b == At(acc, j)
           rr == ApplyUbatch(r, slot, ss)
           bb == ApplyUbatch(b, slot, ss)
<1>1. /\ n \in Nat /\ j \in 0 .. n /\ j + 1 \in 1 .. n /\ (j + 1) - 1 = j
      /\ Sound(b) /\ slot \in Slots /\ At(acc, j + 1) = bb
      /\ slot.cells \in SUBSET Cells
  BY RehearsedStates, SlotShape
<1>2. ASSUME NEW i \in slot.cells
      PROVE  Like(r, b, i)
  <2>1. PICK k \in j .. n : /\ Like(r, At(acc, k), i)
                            /\ \A m \in j + 1 .. k : i \notin acc.slots[m].cells
    BY <1>1 DEF Later
  <2>2. k = j
    BY <1>1, <1>2, <2>1
  <2> QED
    BY <2>1, <2>2
<1> SUFFICES ASSUME NEW i \in Cells
             PROVE  \E k \in j + 1 .. n :
                       /\ Like(rr, At(acc, k), i)
                       /\ \A m \in (j + 1) + 1 .. k :
                             i \notin acc.slots[m].cells
  BY DEF Later
<1>3. PICK k \in j .. n : /\ Like(r, At(acc, k), i)
                          /\ \A m \in j + 1 .. k : i \notin acc.slots[m].cells
  BY DEF Later
<1>4. CASE k = j
  <2>1. Like(r, b, i)
    BY <1>3, <1>4
  <2> HIDE DEF b, slot
  <2>2. Like(rr, bb, i)
    BY <1>1, <1>2, <2>1, ApplyLike
  <2>3. j + 1 \in j + 1 .. n /\ \A m \in (j + 1) + 1 .. j + 1 : FALSE
    BY <1>1
  <2> HIDE DEF rr, bb
  <2> QED
    BY <1>1, <2>2, <2>3
<1>5. CASE k # j
  <2> DEFINE d == At(acc, k)
  <2>1. /\ j + 1 \in Nat /\ k - (j + 1) \in Nat /\ k \in j + 1 .. n
        /\ (j + 1) + (k - (j + 1)) = k /\ j + 1 \in j + 1 .. k
        /\ \A m \in (j + 1) + 1 .. k : m \in j + 1 .. k
    BY <1>1, <1>5
  <2>2. Sound(d) /\ i \in Cells \ slot.cells
    BY <1>1, <1>3, <2>1, RehearsedStates
  <2>3. /\ d.seq[i] \subseteq At(acc, j + 1).seq[i]
        /\ d.pos[i] \in {Empty, At(acc, j + 1).pos[i]}
    <3> DEFINE v == k - (j + 1)
               u == j + 1
    <3>1. u \in Nat /\ v \in Nat /\ u + v = k /\ u + v <= Len(acc.slots)
      BY <1>1, <2>1
    <3>2. \A m \in u + 1 .. u + v : i \notin acc.slots[m].cells
      BY <1>3, <2>1, <3>1
    <3> HIDE DEF u, v
    <3>3. /\ At(acc, u + v).seq[i] \subseteq At(acc, u).seq[i]
          /\ At(acc, u + v).pos[i] \in {Empty, At(acc, u).pos[i]}
      BY <3>1, <3>2, RehearsedLoses
    <3>4. u = j + 1
      BY DEF u
    <3> QED
      BY <3>1, <3>3, <3>4
  <2>4. Like(r, d, i)
    BY <1>3
  <2> HIDE DEF d, b, slot
  <2>5. /\ d.seq[i] \subseteq ApplyUbatch(b, slot, ss).seq[i]
        /\ d.pos[i] \in {Empty, ApplyUbatch(b, slot, ss).pos[i]}
    BY <1>1, <2>3
  <2>6. Like(rr, d, i)
    BY <1>1, <1>2, <2>2, <2>4, <2>5, ApplyLeaves
  <2>7. \A m \in (j + 1) + 1 .. k : i \notin acc.slots[m].cells
    BY <1>3, <2>1
  <2> HIDE DEF rr
  <2> QED
    BY <2>1, <2>6, <2>7 DEF d
<1> QED
  BY <1>4, <1>5

\* When the last slot's turn comes its cells are usable, as find_slot saw
\* them: their sequences still end where they did.
LEMMA LaterUsable ==
    ASSUME NEW acc, NEW c, NEW ss \in SUBSET Seqs, ss # {}, NEW m0,
           Rehearsed(acc, c, ss, m0), NEW j \in Nat, j + 1 = Len(acc.slots),
           NEW r, Sound(r), Later(r, acc, j),
           NEW i \in acc.slots[j + 1].cells
    PROVE  Usable(r, i)
<1> DEFINE n == Len(acc.slots)
           slot == acc.slots[j + 1]
           b == At(acc, j)
           bb == ApplyUbatch(b, slot, ss)
<1>1. /\ n \in Nat /\ j \in 0 .. n /\ j + 1 \in 1 .. n /\ (j + 1) - 1 = j
      /\ Sound(b) /\ slot \in Slots /\ At(acc, j + 1) = bb
      /\ slot.cells \in SUBSET Cells /\ Usable(b, i)
  BY RehearsedStates, SlotShape
<1>2. ASSUME NEW x \in Cells
      PROVE  Like(r, b, x) \/ (x \notin slot.cells /\ Like(r, bb, x))
  <2>1. PICK k \in j .. n : /\ Like(r, At(acc, k), x)
                            /\ \A m \in j + 1 .. k : x \notin acc.slots[m].cells
    BY DEF Later
  <2>2. CASE k = j
    BY <2>1, <2>2
  <2>3. CASE k # j
    <3>1. k = j + 1 /\ j + 1 \in j + 1 .. k
      BY <1>1, <2>3
    <3> QED
      BY <1>1, <2>1, <3>1
  <2> QED
    BY <2>2, <2>3
<1>3. ASSUME NEW x \in slot.cells
      PROVE  Like(r, b, x)
  BY <1>1, <1>2
<1>i. i \in slot.cells
  OBVIOUS
<1>4. \A x \in Cells :
         bb.seq[x] = SeqPut(b, slot, ss, x)
                        \ Losing(b, slot, Losers(b, slot), PosPut(b, slot, x))
  BY <1>1, ApplyIsSound
<1>5. Sound(bb) /\ \A x \in Cells : bb.pos[x] \in {Empty, PosPut(b, slot, x)}
  BY <1>1, ApplyIsSound
<1> HIDE DEF b, slot, bb
<1>6. CASE b.pos[i] = Empty
  BY <1>3, <1>i, <1>6 DEF Like, Usable
<1>7. CASE b.pos[i] # Empty
  <2>1. PICK s \in Seqs : /\ b.seq[i] = {s}
                         /\ Masked(b.pos[i], SeqPosMax(b, s) + 1)
    BY <1>1, <1>7 DEF Usable
  <2>2. i \in Cells /\ r.seq[i] = {s} /\ r.pos[i] = b.pos[i]
    BY <1>1, <1>3, <1>i, <2>1 DEF Like
  <2>3. PICK x \in Cells : s \in b.seq[x] /\ b.pos[x] = SeqPosMax(b, s)
    BY <1>1, <2>1, <2>2, SeqPosEnds
  <2>4. \E y \in Cells : s \in r.seq[y] /\ r.pos[y] >= SeqPosMax(b, s)
                                      /\ r.pos[y] \in Int
    <3>0. SeqPosMax(b, s) \in Int
      BY SeqPosMaxType, KvAssumption
    <3>1. CASE Like(r, b, x)
      BY <2>3, <3>0, <3>1 DEF Like
    <3>2. CASE x \notin slot.cells /\ Like(r, bb, x)
      <4>1. PosPut(b, slot, x) = b.pos[x] /\ SeqPut(b, slot, ss, x) = b.seq[x]
        BY <3>2 DEF PosPut, SeqPut
      <4>2. CASE s \in bb.seq[x]
        <5>1. bb.pos[x] # Empty
          BY <1>5, <4>2, SoundFields
        <5>2. bb.pos[x] = b.pos[x]
          BY <1>5, <4>1, <5>1
        <5> QED
          BY <2>3, <3>0, <3>2, <4>2, <5>2 DEF Like
      <4>3. CASE s \notin bb.seq[x]
        <5>1. s \in Losing(b, slot, Losers(b, slot), b.pos[x])
          BY <1>4, <2>3, <4>1, <4>3
        <5> DEFINE lost == Overwritten(b, slot, s)
        <5>2. lost # {} /\ b.pos[x] <= Max(lost)
          BY <5>1 DEF Losing, Losers
        <5>3. \A y \in Only(b, slot.cells, s) :
                 y \in slot.cells /\ y \in Cells /\ s \in b.seq[y]
          BY <1>1 DEF Only
        <5>4. lost \subseteq 0 .. MaxPos /\ MaxPos \in Nat
          <6>1. \A y \in Only(b, slot.cells, s) : b.pos[y] \in Positions
            BY <1>1, <5>3, SeqPosEnds
          <6> QED
            BY <6>1, KvAssumption DEF Positions, Overwritten
        <5>5. Max(lost) \in lost
          <6> HIDE DEF lost
          <6> QED
            BY <5>2, <5>4, MaxIsIn
        <5>6. PICK y \in Only(b, slot.cells, s) : b.pos[y] = Max(lost)
          BY <5>5 DEF Overwritten
        <5>7. Like(r, b, y) /\ s \in b.seq[y] /\ y \in Cells
          BY <1>3, <5>3
        <5>8. Max(lost) \in Int
          BY <5>4, <5>5
        <5> HIDE DEF lost
        <5> QED
          BY <2>3, <3>0, <5>2, <5>6, <5>7, <5>8 DEF Like
      <4> QED
        BY <4>2, <4>3
    <3> QED
      BY <1>2, <3>1, <3>2
  <2>5. PICK y \in Cells : s \in r.seq[y] /\ r.pos[y] >= SeqPosMax(b, s)
                                        /\ r.pos[y] \in Int
    BY <2>4
  <2>6. SeqPosMax(r, s) >= SeqPosMax(b, s)
    <3>1. r.pos[y] <= SeqPosMax(r, s)
      BY <2>5, SeqPosEnds
    <3>2. SeqPosMax(r, s) \in Int /\ SeqPosMax(b, s) \in Int
      BY SeqPosMaxType, KvAssumption
    <3> QED
      BY <2>5, <3>1, <3>2
  <2>7. Masked(r.pos[i], SeqPosMax(r, s) + 1)
    <3>1. SeqPosMax(r, s) \in Int /\ SeqPosMax(b, s) \in Int
      BY SeqPosMaxType, KvAssumption
    <3>2. b.pos[i] \in Int
      <4>1. b.pos[i] \in Positions
        BY <1>1, <2>1, <2>2, SeqPosEnds
      <4> QED
        BY <4>1, KvAssumption DEF Positions
    <3> QED
      BY <2>1, <2>2, <2>6, <3>1, <3>2, KvAssumption DEF Masked
  <2> QED
    BY <2>2, <2>7 DEF Usable
<1> QED
  BY <1>6, <1>7

\* What the cells become when the slots are used in turn.
Plays(f, c, slots, ss) ==
    /\ f[0] = c
    /\ \A k \in 1 .. Len(slots) : f[k] = ApplyUbatch(f[k - 1], slots[k], ss)

\* The cells of the last slot will be usable when it is used.
WillBeUsable(c, slots, ss) ==
    \A f : Plays(f, c, slots, ss) =>
              \A i \in slots[Len(slots)].cells : Usable(f[Len(slots) - 1], i)

\* So they will after a rehearsal that was undone.
LEMMA LaterWillBeUsable ==
    ASSUME NEW acc, NEW c, NEW ss \in SUBSET Seqs, ss # {}, NEW m0,
           Rehearsed(acc, c, ss, m0), NEW d, Sound(d), Later(d, acc, 0),
           acc.slots # <<>>
    PROVE  WillBeUsable(d, acc.slots, ss)
<1> SUFFICES ASSUME NEW f, Plays(f, d, acc.slots, ss)
             PROVE  \A i \in acc.slots[Len(acc.slots)].cells :
                       Usable(f[Len(acc.slots) - 1], i)
  BY DEF WillBeUsable
<1> DEFINE n == Len(acc.slots)
           P == {k \in Nat : Sound(f[k]) /\ Later(f[k], acc, k)}
<1>1. n \in Nat /\ n # 0
  BY DEF Rehearsed, Rehearsals
<1>2. 0 \in P
  BY DEF Plays
<1>3. ASSUME NEW k \in 1 .. n, k - 1 \in P
      PROVE  k \in P
  <2> DEFINE j == k - 1
             r == f[k - 1]
  <2>1. /\ j \in Nat /\ j + 1 = k /\ j + 1 <= Len(acc.slots)
        /\ Sound(r) /\ Later(r, acc, j)
    BY <1>1, <1>3
  <2>2. f[k] = ApplyUbatch(r, acc.slots[k], ss)
    BY DEF Plays
  <2>3. acc.slots[k] \in Slots
    BY RehearsedStates
  <2> HIDE DEF j, r
  <2>4. Later(ApplyUbatch(r, acc.slots[j + 1], ss), acc, j + 1)
    BY <2>1, LaterStep
  <2>5. Sound(ApplyUbatch(r, acc.slots[k], ss))
    BY <2>1, <2>3, ApplyIsSound
  <2> QED
    BY <2>1, <2>2, <2>4, <2>5
<1>4. \A k \in 0 .. n : k \in P
  <2> HIDE DEF n, P
  <2> QED
    BY <1>1, <1>2, <1>3, Upward
<1> DEFINE j == n - 1
           r == f[j]
<1>5. /\ j \in Nat /\ j + 1 = Len(acc.slots)
      /\ Sound(r) /\ Later(r, acc, j)
  <2>1. j \in 0 .. n
    BY <1>1
  <2> QED
    BY <1>1, <1>4, <2>1
<1> HIDE DEF r, j
<1>6. \A i \in acc.slots[j + 1].cells : Usable(r, i)
  BY <1>5, LaterUsable
<1> QED
  BY <1>5, <1>6 DEF r, j

\* prepare: so they will when it is done.
LEMMA PrepareWillBeUsable ==
    ASSUME NEW c, Sound(c), NEW h \in Nat, NEW first \in Nat,
           NEW n \in Nat \ {0}, first + n - 1 <= MaxPos,
           NEW ss \in SUBSET Seqs, ss # {}
    PROVE  LET there == Prepare(c, h, Parts(first, n), ss)
           IN  there.fits => WillBeUsable(there.cells, there.slots, ss)
<1> DEFINE there == Prepare(c, h, Parts(first, n), ss)
<1> SUFFICES ASSUME there.fits
             PROVE  WillBeUsable(there.cells, there.slots, ss)
  OBVIOUS
<1>1. Sound(there.cells) /\ (there.fits => there.slots # <<>>)
  BY PrepareIsSound
<1>2. \E acc, m : /\ Rehearsed(acc, c, ss, m)
                  /\ acc.slots = there.slots
                  /\ Later(there.cells, acc, 0)
  BY PrepareIsPlayed
<1> HIDE DEF there
<1>3. PICK acc, m : /\ Rehearsed(acc, c, ss, m)
                    /\ acc.slots = there.slots
                    /\ Later(there.cells, acc, 0)
  BY <1>2
<1>4. WillBeUsable(there.cells, acc.slots, ss)
  BY <1>1, <1>3, LaterWillBeUsable
<1> QED
  BY <1>3, <1>4

\* What there is to know of a batch in progress.
LastInv == run # Idle => WillBeUsable(cells, run.slots, run.seqs)

\* decode, of a batch that fits
LEMMA DecodeWillBeUsable ==
    ASSUME KvInv, NEW ss \in SUBSET Seqs, NEW n \in 1 .. MaxBatch,
           Decode(ss, n)
    PROVE  LastInv'
<1> DEFINE c == Shifted(cells)
           there == Prepare(c, head, Batch(ss, n), ss)
<1>1. /\ Fresh(ss, n) /\ there.fits /\ cells' = there.cells
      /\ run' = [seqs |-> ss, slots |-> there.slots]
  BY DEF Decode
<1>2. n \in Nat \ {0} /\ head \in Nat /\ ss # {}
  BY <1>1 DEF KvInv, Fresh
<1>3. PICK first \in Nat : /\ first + n - 1 <= MaxPos
                           /\ Batch(ss, n) = Parts(first, n)
  BY <1>1, <1>2, FreshBatch DEF KvInv
<1>4. Sound(c)
  BY ShiftedIsSound DEF KvInv
<1> HIDE DEF c
<1>5. WillBeUsable(there.cells, there.slots, ss)
  BY <1>1, <1>2, <1>3, <1>4, PrepareWillBeUsable
<1> HIDE DEF there
<1>6. run'.slots = there.slots /\ run'.seqs = ss
  BY <1>1
<1> QED
  BY <1>1, <1>5, <1>6 DEF LastInv

\* decode, after a defragmentation
LEMMA DecodeNoSlotWillBeUsable ==
    ASSUME KvInv, NEW ss \in SUBSET Seqs, NEW n \in 1 .. MaxBatch,
           DecodeNoSlot(ss, n)
    PROVE  LastInv'
<1> DEFINE b == Shifted(cells)
           there == Prepare(b, head, Batch(ss, n), ss)
           ids == DefragPrepare(there.cells)
           c == Defragged(there.cells, ids)
           again == Prepare(c, 0, Batch(ss, n), ss)
           moves == \E i \in Cells : ids[i] # Size
<1>1. /\ Fresh(ss, n)
      /\ cells' = IF moves THEN again.cells ELSE there.cells
      /\ run' = IF moves /\ again.fits
                THEN [seqs |-> ss, slots |-> again.slots] ELSE Idle
  BY DEF DecodeNoSlot
<1>2. n \in Nat \ {0} /\ head \in Nat /\ 0 \in Nat /\ ss # {}
  BY <1>1 DEF KvInv, Fresh
<1>3. PICK first \in Nat : /\ first + n - 1 <= MaxPos
                           /\ Batch(ss, n) = Parts(first, n)
  BY <1>1, <1>2, FreshBatch DEF KvInv
<1>4. Sound(b)
  BY ShiftedIsSound DEF KvInv
<1> HIDE DEF b
<1>5. Sound(there.cells)
  BY <1>2, <1>3, <1>4, PrepareIsSound
<1> HIDE DEF there
<1>6. Sound(c)
  BY <1>5, DefragPrepareIsMovable, DefraggedIsSound
<1> HIDE DEF c, ids
<1>7. again.fits => WillBeUsable(again.cells, again.slots, ss)
  BY <1>2, <1>3, <1>6, PrepareWillBeUsable
<1> HIDE DEF again, moves
<1>8. CASE moves /\ again.fits
  <2>1. run'.slots = again.slots /\ run'.seqs = ss /\ cells' = again.cells
    BY <1>1, <1>8
  <2> QED
    BY <1>7, <1>8, <2>1 DEF LastInv
<1>9. CASE ~(moves /\ again.fits)
  BY <1>1, <1>9 DEF LastInv
<1> QED
  BY <1>8, <1>9

\* process_ubatch: what is left is used as it would have been.
LEMMA ComputeWillBeUsable ==
    ASSUME KvInv, LastInv, Compute
    PROVE  LastInv'
<1>1. /\ run # Idle /\ cells' = Apply
      /\ run' = IF Len(run.slots) = 1 THEN Idle
                ELSE [run EXCEPT !.slots = Tail(@)]
  BY DEF Compute
<1>2. /\ run.slots \in Seq(Slots) /\ run.slots # <<>>
      /\ run = [seqs |-> run.seqs, slots |-> run.slots]
  BY <1>1, ApplyKeeps
<1>3. CASE Len(run.slots) = 1
  BY <1>1, <1>3 DEF LastInv
<1>4. CASE Len(run.slots) # 1
  <2> DEFINE q == run.slots
             t == Tail(q)
             n == Len(q)
             ss == run.seqs
  <2>1. /\ n \in Nat /\ n > 1 /\ Len(t) = n - 1
        /\ \A k \in 1 .. n - 1 : t[k] = q[k + 1]
    <3>1. q \in Seq(Slots) /\ q # <<>> /\ n # 1
      BY <1>2, <1>4
    <3> HIDE DEF q
    <3>2. n \in Nat /\ n # 0 /\ Len(t) = n - 1
      BY <3>1
    <3>3. \A k \in 1 .. Len(t) : t[k] = q[k + 1]
      BY <3>1
    <3> QED
      BY <3>1, <3>2, <3>3
  <2>2. run'.slots = t /\ run'.seqs = ss
    BY <1>1, <1>2, <1>4
  <2>3. WillBeUsable(cells, q, ss)
    BY <1>1 DEF LastInv
  <2>4. cells' = ApplyUbatch(cells, q[1], ss)
    BY <1>1, <1>2 DEF Apply, Slot
  <2> HIDE DEF q, t, n, ss
  <2>5. ASSUME NEW g, Plays(g, cells', t, ss)
        PROVE  \A i \in t[Len(t)].cells : Usable(g[Len(t) - 1], i)
    <3> DEFINE f == [k \in 0 .. n |-> IF k = 0 THEN cells ELSE g[k - 1]]
    <3>1. n = Len(q)
      BY DEF n
    <3>2. f[0] = cells
      BY <2>1
    <3>3. ASSUME NEW k \in 1 .. n
          PROVE  f[k] = ApplyUbatch(f[k - 1], q[k], ss)
      <4>1. f[k] = g[k - 1]
        BY <2>1
      <4>2. CASE k = 1
        <5>1. g[0] = cells' /\ k - 1 = 0
          BY <2>5, <4>2 DEF Plays
        <5> HIDE DEF f
        <5> QED
          BY <2>4, <3>2, <4>1, <4>2, <5>1
      <4>3. CASE k # 1
        <5>1. /\ k - 1 \in 1 .. Len(t) /\ k - 1 \in 1 .. n - 1
              /\ (k - 1) + 1 = k
          BY <2>1, <4>3
        <5>2. g[k - 1] = ApplyUbatch(g[(k - 1) - 1], t[k - 1], ss)
          BY <2>5, <5>1 DEF Plays
        <5>3. t[k - 1] = q[k]
          BY <2>1, <5>1
        <5>4. f[k - 1] = g[(k - 1) - 1]
          BY <2>1, <5>1
        <5> HIDE DEF f
        <5> QED
          BY <4>1, <5>2, <5>3, <5>4
      <4> QED
        BY <4>2, <4>3
    <3>4. Plays(f, cells, q, ss)
      <4> HIDE DEF f
      <4> QED
        BY <3>1, <3>2, <3>3 DEF Plays
    <3>5. f[n - 1] = g[Len(t) - 1]
      BY <2>1
    <3>6. t[Len(t)] = q[n]
      BY <2>1
    <3> HIDE DEF f
    <3>7. \A i \in q[n].cells : Usable(f[n - 1], i)
      BY <2>3, <3>1, <3>4 DEF WillBeUsable
    <3> QED
      BY <3>5, <3>6, <3>7
  <2>6. WillBeUsable(cells', t, ss)
    BY <2>5 DEF WillBeUsable
  <2> QED
    BY <2>2, <2>6 DEF LastInv
<1> QED
  BY <1>3, <1>4

\* The last part: the play is of one slot.
LEMMA LastIsUsable ==
    ASSUME KvInv, LastInv
    PROVE  LastSlotUsable
<1> SUFFICES ASSUME Len(run.slots) = 1, NEW i \in Slot.cells
             PROVE  Usable(cells, i)
  BY DEF LastSlotUsable
<1>1. run # Idle
  BY DEF Idle
<1>2. run.slots \in Seq(Slots) /\ run.slots # <<>>
  BY <1>1, ApplyKeeps
<1>3. Slot = run.slots[1]
  BY <1>2 DEF Slot
<1> DEFINE f == [k \in 0 .. 1 |->
                    IF k = 0 THEN cells
                    ELSE ApplyUbatch(cells, run.slots[1], run.seqs)]
<1>4. f[0] = cells /\ f[1] = ApplyUbatch(cells, run.slots[1], run.seqs)
  OBVIOUS
<1> HIDE DEF f
<1>5. Plays(f, cells, run.slots, run.seqs)
  BY <1>4 DEF Plays
<1>6. \A j \in run.slots[1].cells : Usable(f[0], j)
  BY <1>1, <1>5 DEF LastInv, WillBeUsable
<1> QED
  BY <1>3, <1>4, <1>6

\* Between calls nothing is to come.
LEMMA CallIsIdle ==
    ASSUME Call
    PROVE  run' = run /\ run = Idle
<1>1. /\ Clear => run' = run /\ run = Idle
      /\ \A s, p0, p1 : SeqRm(s, p0, p1) => run' = run /\ run = Idle
      /\ \A s : SeqKeep(s) => run' = run /\ run = Idle
      /\ Defrag => run' = run /\ run = Idle
  BY DEF Clear, SeqRm, SeqKeep, Defrag
<1>2. \A s, t, p0, p1 : SeqCp(s, t, p0, p1) => run' = run /\ run = Idle
  BY DEF SeqCp
<1>3. ASSUME NEW s, NEW p0, NEW p1, NEW d, SeqAdd(s, p0, p1, d)
      PROVE  run' = run /\ run = Idle
  BY <1>3, Zenon DEF SeqAdd
<1>4. \A s, p0, p1, d : SeqDiv(s, p0, p1, d) => run' = run /\ run = Idle
  BY DEF SeqDiv
<1> QED
  BY <1>1, <1>2, <1>3, <1>4 DEF Call

\* find_slot saw the last slot of a batch in a rehearsal that was undone, and
\* without what the rehearsal had purged elsewhere: it is still usable when its
\* turn comes, in a program that never gives a sequence a cell that it has.
THEOREM LastSlotStaysUsable == Apart => (KvSpec => []LastSlotUsable)
<1> SUFFICES ASSUME Apart PROVE KvSpec => []LastSlotUsable
  OBVIOUS
<1> DEFINE Inv == KvInv /\ LastInv
<1>1. KvInit => Inv
  BY KvInvAtFirst DEF KvInit, LastInv
<1>2. Inv /\ [KvNext]_kvVars => Inv'
  <2> SUFFICES ASSUME Inv, [KvNext]_kvVars PROVE Inv'
    OBVIOUS
  <2>1. KvInv'
    BY KvInvIsKept
  <2>2. CASE UNCHANGED kvVars
    BY <2>1, <2>2 DEF LastInv, WillBeUsable, kvVars
  <2>3. CASE Call
    BY <2>1, <2>3, CallIsIdle DEF LastInv
  <2>4. CASE Decoding
    <3>1. CASE \E ss \in SUBSET Seqs, n \in 1 .. MaxBatch :
                  Decode(ss, n) \/ DecodeNoSlot(ss, n)
      BY <2>1, <3>1, DecodeWillBeUsable, DecodeNoSlotWillBeUsable
    <3>2. CASE Compute
      BY <2>1, <3>2, ComputeWillBeUsable
    <3>3. CASE ComputeFails
      BY <2>1, <3>3 DEF ComputeFails, LastInv
    <3> QED
      BY <2>4, <3>1, <3>2, <3>3 DEF Decoding
  <2> QED
    BY <2>2, <2>3, <2>4 DEF KvNext
<1>3. Inv => LastSlotUsable
  BY LastIsUsable
<1> HIDE DEF Inv
<1> QED
  BY <1>1, <1>2, <1>3, PTL DEF KvSpec

-----------------------------------------------------------------------------
(* What the window keeps.                                                  *)

\* What is masked for one token is for every later one, and so is what is
\* before it.
LEMMA MaskedWider ==
    ASSUME NEW x \in Int, NEW y \in Int, NEW p \in Int, NEW q \in Int,
           x <= y, p <= q, Masked(y, p)
    PROVE  Masked(x, q) /\ x < q
BY KvAssumption DEF Masked

\* A cell has the position.
LEMMA HasPosIs ==
    ASSUME NEW c, NEW s, NEW q
    PROVE  q \in HasPos(c, s) <=> \E i \in Cells : s \in c.seq[i]
                                                   /\ c.pos[i] = q
BY DEF HasPos

\* The positions of a sequence.
LEMMA HasPosType ==
    ASSUME NEW c, Sound(c), NEW s \in Seqs
    PROVE  /\ HasPos(c, s) \subseteq 0 .. MaxPos
           /\ \A q \in HasPos(c, s) : q \in Nat /\ q <= SeqPosMax(c, s)
           /\ HasPos(c, s) # {} => SeqPosMax(c, s) \in HasPos(c, s)
<1>1. ASSUME NEW q \in HasPos(c, s)
      PROVE  /\ q \in Positions /\ q <= SeqPosMax(c, s)
             /\ SeqPosMax(c, s) \in HasPos(c, s)
  <2>1. PICK i \in Cells : s \in c.seq[i] /\ c.pos[i] = q
    BY HasPosIs
  <2>2. /\ c.pos[i] \in Positions /\ c.pos[i] <= SeqPosMax(c, s)
        /\ \E x \in Cells : s \in c.seq[x] /\ c.pos[x] = SeqPosMax(c, s)
    BY <2>1, SeqPosEnds
  <2> QED
    BY <2>1, <2>2, HasPosIs
<1> QED
  BY <1>1, KvAssumption DEF Positions

\* The last position that a sequence loses is one of a cell of the slot.
LEMMA LastLost ==
    ASSUME NEW c, Sound(c), NEW slot \in Slots, NEW s \in Seqs,
           Overwritten(c, slot, s) # {}
    PROVE  /\ Max(Overwritten(c, slot, s)) \in Nat
           /\ \E y \in slot.cells : /\ y \in Cells /\ c.seq[y] = {s}
                                    /\ c.pos[y] = Max(Overwritten(c, slot, s))
           /\ \A q \in Overwritten(c, slot, s) :
                 q <= Max(Overwritten(c, slot, s))
<1> DEFINE lost == Overwritten(c, slot, s)
<1>1. \A y \in Only(c, slot.cells, s) :
         y \in slot.cells /\ y \in Cells /\ c.seq[y] = {s}
  BY SlotShape DEF Only
<1>2. lost \subseteq 0 .. MaxPos /\ MaxPos \in Nat
  <2>1. \A y \in Only(c, slot.cells, s) : c.pos[y] \in Positions
    BY <1>1, SeqPosEnds
  <2> QED
    BY <2>1, KvAssumption DEF Positions, Overwritten
<1>3. Max(lost) \in lost /\ \A q \in lost : q <= Max(lost)
  <2> HIDE DEF lost
  <2> QED
    BY <1>2, MaxIsIn DEF lost
<1>4. PICK y \in Only(c, slot.cells, s) : c.pos[y] = Max(lost)
  BY <1>3 DEF Overwritten
<1> HIDE DEF lost
<1> QED
  BY <1>1, <1>2, <1>3, <1>4 DEF lost

\* The cells of the slot that have the sequence have no other, and a position
\* that p does not attend to.
Spent(c, slot, s, p) ==
    \A i \in slot.cells :
        s \in c.seq[i] => c.seq[i] = {s} /\ Masked(c.pos[i], p)

\* Every token of the sequence that p attends to is still in its cell.
Holds(d, c, s, p) ==
    \A i \in Cells : s \in c.seq[i] /\ ~Masked(c.pos[i], p) =>
                        s \in d.seq[i] /\ d.pos[i] = c.pos[i]

\* Then every position that p attends to is present.
LEMMA HoldsPositions ==
    ASSUME NEW c, NEW d, NEW s, NEW p, Holds(d, c, s, p)
    PROVE  \A q \in HasPos(c, s) : Masked(q, p) \/ q \in HasPos(d, s)
<1> SUFFICES ASSUME NEW q \in HasPos(c, s), ~Masked(q, p)
             PROVE  q \in HasPos(d, s)
  OBVIOUS
<1>1. PICK i \in Cells : s \in c.seq[i] /\ c.pos[i] = q
  BY HasPosIs
<1>2. s \in d.seq[i] /\ d.pos[i] = q
  BY <1>1 DEF Holds
<1> QED
  BY <1>2, HasPosIs

\* A part that is put into such a slot takes nothing that p attends to.
LEMMA ApplyHolds ==
    ASSUME NEW c, Sound(c), NEW slot \in Slots, NEW ss \in SUBSET Seqs,
           ss # {}, NEW s \in Seqs, NEW p \in Int, Spent(c, slot, s, p)
    PROVE  Holds(ApplyUbatch(c, slot, ss), c, s, p)
<1> DEFINE rr == ApplyUbatch(c, slot, ss)
           lost == Overwritten(c, slot, s)
<1> SUFFICES ASSUME NEW i \in Cells, s \in c.seq[i], ~Masked(c.pos[i], p)
             PROVE  s \in rr.seq[i] /\ rr.pos[i] = c.pos[i]
  BY DEF Holds
<1>1. i \notin slot.cells
  BY DEF Spent
<1>2. /\ Sound(rr)
      /\ rr.seq[i] = SeqPut(c, slot, ss, i)
                      \ Losing(c, slot, Losers(c, slot), PosPut(c, slot, i))
      /\ rr.pos[i] \in {Empty, PosPut(c, slot, i)}
  BY ApplyIsSound
<1>3. SeqPut(c, slot, ss, i) = c.seq[i] /\ PosPut(c, slot, i) = c.pos[i]
  BY <1>1 DEF SeqPut, PosPut
<1>4. s \notin Losing(c, slot, Losers(c, slot), c.pos[i])
  <2> SUFFICES ASSUME s \in Losing(c, slot, Losers(c, slot), c.pos[i])
               PROVE  FALSE
    OBVIOUS
  <2>1. lost # {} /\ c.pos[i] <= Max(lost)
    BY DEF Losing, Losers
  <2>2. /\ Max(lost) \in Nat
        /\ \E y \in slot.cells : /\ y \in Cells /\ c.seq[y] = {s}
                                 /\ c.pos[y] = Max(lost)
    BY <2>1, LastLost
  <2>3. Masked(Max(lost), p)
    BY <2>2 DEF Spent
  <2>4. c.pos[i] \in Int
    BY SeqPosEnds, KvAssumption DEF Positions
  <2> HIDE DEF lost
  <2> QED
    BY <2>1, <2>2, <2>3, <2>4, MaskedWider
<1>5. s \in rr.seq[i]
  BY <1>2, <1>3, <1>4
<1>6. rr.pos[i] # Empty
  BY <1>2, <1>5, SoundFields
<1> HIDE DEF rr
<1> QED
  BY <1>2, <1>3, <1>5, <1>6

\* The position of the last token of a slot.
LastOf(slot) == slot.first + Max(slot.cells) - Min(slot.cells)

\* The cells of a slot, and the positions, one for one.
LEMMA SlotPositions ==
    ASSUME NEW slot \in Slots
    PROVE  /\ LastOf(slot) \in Nat /\ slot.first <= LastOf(slot)
           /\ \A q \in slot.first .. LastOf(slot) :
                 \E i \in slot.cells : slot.first + i - Min(slot.cells) = q
           /\ \A i \in slot.cells : slot.first + i - Min(slot.cells)
                                       \in slot.first .. LastOf(slot)
<1>1. PICK a, b \in Cells : a <= b /\ slot.cells = a .. b
  BY DEF Slots
<1>2. a \in Nat /\ b \in Nat /\ slot.first \in Nat
  BY KvAssumption DEF Cells, Slots
<1>3. Min(slot.cells) = a /\ Max(slot.cells) = b
  BY <1>1, <1>2, EndsOfInterval
<1>4. LastOf(slot) = slot.first + b - a
  BY <1>3 DEF LastOf
<1>5. ASSUME NEW q \in slot.first .. LastOf(slot)
      PROVE  \E i \in slot.cells : slot.first + i - Min(slot.cells) = q
  <2>1. a + q - slot.first \in slot.cells
    BY <1>1, <1>2, <1>4
  <2>2. slot.first + (a + q - slot.first) - a = q
    BY <1>2, <1>4
  <2> QED
    BY <1>3, <2>1, <2>2
<1>6. \A i \in slot.cells : slot.first + i - Min(slot.cells)
                               \in slot.first .. LastOf(slot)
  BY <1>1, <1>2, <1>3, <1>4
<1> QED
  BY <1>1, <1>2, <1>4, <1>5, <1>6

\* The cut that a part makes: nothing, or all up to the last position lost.
Cut(c, slot, s, q) == Overwritten(c, slot, s) # {} =>
                         q > Max(Overwritten(c, slot, s))

\* The positions of a sequence after a part was put into its slot: what it had
\* after the cut, and those of the part.
LEMMA ApplyHas ==
    ASSUME NEW c, Sound(c), NEW slot \in Slots, NEW ss \in SUBSET Seqs,
           ss # {}, NEW s \in Seqs, NEW p \in Int, Spent(c, slot, s, p),
           s \in ss => p <= slot.first, NEW q
    PROVE  q \in HasPos(ApplyUbatch(c, slot, ss), s)
              <=> \/ q \in HasPos(c, s) /\ Cut(c, slot, s, q)
                  \/ s \in ss /\ q \in slot.first .. LastOf(slot)
<1> DEFINE rr == ApplyUbatch(c, slot, ss)
           lost == Overwritten(c, slot, s)
<1>1. /\ Sound(rr)
      /\ \A i \in Cells :
            /\ rr.seq[i] = SeqPut(c, slot, ss, i)
                      \ Losing(c, slot, Losers(c, slot), PosPut(c, slot, i))
            /\ rr.pos[i] \in {Empty, PosPut(c, slot, i)}
  BY ApplyIsSound
<1> HIDE DEF rr
<1>2. ASSUME NEW i \in Cells
      PROVE  s \in rr.seq[i] => rr.pos[i] = PosPut(c, slot, i)
  <2>1. s \in rr.seq[i] => rr.pos[i] # Empty
    BY <1>1, SoundFields
  <2> QED
    BY <1>1, <2>1
<1>3. /\ lost # {} => Max(lost) \in Nat
      /\ \A y \in lost : y <= Max(lost)
      /\ lost # {} => \E y \in slot.cells : c.seq[y] = {s}
                                            /\ c.pos[y] = Max(lost)
  BY LastLost
<1>4. ASSUME NEW i \in Cells, NEW x \in Nat
      PROVE  s \in Losing(c, slot, Losers(c, slot), x)
                <=> lost # {} /\ ~(x > Max(lost))
  BY <1>3 DEF Losing, Losers
<1>5. slot.cells \in SUBSET Cells
  BY SlotShape
<1>6. ASSUME q \in HasPos(c, s), Cut(c, slot, s, q)
      PROVE  q \in HasPos(rr, s)
  <2>1. PICK i \in Cells : s \in c.seq[i] /\ c.pos[i] = q
    BY <1>6, HasPosIs
  <2>2. i \notin slot.cells
    <3> SUFFICES ASSUME i \in slot.cells PROVE FALSE
      OBVIOUS
    <3>1. c.seq[i] = {s}
      BY <2>1 DEF Spent
    <3>2. q \in lost
      BY <2>1, <3>1 DEF Overwritten, Only
    <3>3. q > Max(lost) /\ q <= Max(lost) /\ Max(lost) \in Nat
      BY <1>3, <1>6, <3>2 DEF Cut
    <3>4. q \in Nat
      BY <1>6, HasPosType
    <3> HIDE DEF lost
    <3> QED
      BY <3>3, <3>4
  <2>3. SeqPut(c, slot, ss, i) = c.seq[i] /\ PosPut(c, slot, i) = q
    BY <2>1, <2>2 DEF SeqPut, PosPut
  <2>4. q \in Nat
    BY <1>6, HasPosType
  <2>5. s \in rr.seq[i]
    BY <1>1, <1>4, <1>6, <2>1, <2>3, <2>4 DEF Cut
  <2> QED
    BY <1>2, <2>3, <2>5, HasPosIs
<1>7. ASSUME s \in ss, q \in slot.first .. LastOf(slot)
      PROVE  q \in HasPos(rr, s)
  <2>1. PICK i \in slot.cells : slot.first + i - Min(slot.cells) = q
    BY <1>7, SlotPositions
  <2>2. i \in Cells /\ SeqPut(c, slot, ss, i) = ss /\ PosPut(c, slot, i) = q
    BY <1>5, <2>1 DEF SeqPut, PosPut
  <2>3. slot.first \in Nat /\ q \in Nat /\ slot.first <= q
    <3>1. slot.first \in Nat /\ LastOf(slot) \in Nat
      BY SlotShape, SlotPositions
    <3> QED
      BY <1>7, <3>1
  <2>4. lost # {} => q > Max(lost)
    <3> SUFFICES ASSUME lost # {} PROVE q > Max(lost)
      OBVIOUS
    <3>1. Max(lost) \in Nat /\ Masked(Max(lost), p)
      BY <1>3 DEF Spent
    <3>2. Max(lost) < p
      BY <3>1, MaskedWider
    <3> HIDE DEF lost
    <3> QED
      BY <1>7, <2>3, <3>1, <3>2
  <2>5. s \in rr.seq[i]
    BY <1>1, <1>4, <1>7, <2>2, <2>3, <2>4
  <2> QED
    BY <1>2, <2>2, <2>5, HasPosIs
<1>8. ASSUME q \in HasPos(rr, s)
      PROVE  \/ q \in HasPos(c, s) /\ Cut(c, slot, s, q)
             \/ s \in ss /\ q \in slot.first .. LastOf(slot)
  <2>1. PICK i \in Cells : s \in rr.seq[i] /\ rr.pos[i] = q
    BY <1>8, HasPosIs
  <2>2. PosPut(c, slot, i) = q /\ s \in SeqPut(c, slot, ss, i)
    BY <1>1, <1>2, <2>1
  <2>3. CASE i \in slot.cells
    <3>1. s \in ss /\ q = slot.first + i - Min(slot.cells)
      BY <2>2, <2>3 DEF SeqPut, PosPut
    <3> QED
      BY <2>3, <3>1, SlotPositions
  <2>4. CASE i \notin slot.cells
    <3>1. s \in c.seq[i] /\ c.pos[i] = q
      BY <2>2, <2>4 DEF SeqPut, PosPut
    <3>2. q \in HasPos(c, s)
      BY <3>1, HasPosIs
    <3>3. q \in Nat
      BY <3>2, HasPosType
    <3>4. lost # {} => q > Max(lost)
      BY <1>1, <1>4, <2>1, <2>2, <3>3
    <3> QED
      BY <3>2, <3>4 DEF Cut
  <2> QED
    BY <2>3, <2>4
<1> QED
  BY <1>6, <1>7, <1>8 DEF rr

\* A set of naturals without gaps.
Convex(H) == \A x, z \in H : \A y \in x .. z : y \in H

\* Such a set is empty or an interval.
LEMMA ConvexIs ==
    ASSUME NEW n \in Nat, NEW H, H \subseteq 0 .. n
    PROVE  (H = {} \/ H = Min(H) .. Max(H)) <=> Convex(H)
<1>1. CASE H = {}
  BY <1>1 DEF Convex
<1>2. CASE H # {}
  <2> DEFINE a == Min(H)
             b == Max(H)
  <2>1. b \in H /\ \A y \in H : y <= b
    BY <1>2, MaxIsIn
  <2>2. a \in H /\ \A y \in H : a <= y
    <3>1. H \subseteq Nat
      OBVIOUS
    <3> QED
      BY <1>2, <3>1, MinIsIn
  <2> HIDE DEF a, b
  <2>3. a \in Nat /\ b \in Nat /\ \A y \in H : y \in Nat
    BY <2>1, <2>2
  <2>4. ASSUME H = a .. b
        PROVE  Convex(H)
    <3> SUFFICES ASSUME NEW x \in H, NEW z \in H, NEW y \in x .. z
                 PROVE  y \in H
      BY DEF Convex
    <3>1. x \in Nat /\ z \in Nat /\ a <= x /\ z <= b
      BY <2>1, <2>2, <2>3
    <3>2. y \in a .. b
      BY <2>3, <3>1
    <3> QED
      BY <2>4, <3>2
  <2>5. ASSUME Convex(H)
        PROVE  H = a .. b
    <3>1. \A y \in a .. b : y \in H
      BY <2>1, <2>2, <2>5 DEF Convex
    <3>2. \A y \in H : y \in a .. b
      BY <2>1, <2>2, <2>3
    <3> QED
      BY <3>1, <3>2
  <2> QED
    BY <1>2, <2>4, <2>5 DEF a, b
<1> QED
  BY <1>1, <1>2

\* A sequence without gaps.
LEMMA GaplessIs ==
    ASSUME NEW c, Sound(c), NEW s \in Seqs
    PROVE  Gapless(c, s) <=> Convex(HasPos(c, s))
<1> DEFINE H == HasPos(c, s)
<1>1. H \subseteq 0 .. MaxPos /\ MaxPos \in Nat
  BY HasPosType, KvAssumption
<1> HIDE DEF H
<1>2. (H = {} \/ H = Min(H) .. Max(H)) <=> Convex(H)
  BY <1>1, ConvexIs
<1> QED
  BY <1>2 DEF H, Gapless

\* A part leaves no gap in a sequence without one that it follows on.
LEMMA ApplyLeavesNoGap ==
    ASSUME NEW c, Sound(c), NEW slot \in Slots, NEW ss \in SUBSET Seqs,
           ss # {}, NEW s \in Seqs, NEW p \in Int, Spent(c, slot, s, p),
           s \in ss => p <= slot.first, Gapless(c, s),
           s \in ss => SeqPosMax(c, s) \in {-1, slot.first - 1}
    PROVE  Gapless(ApplyUbatch(c, slot, ss), s)
<1> DEFINE rr == ApplyUbatch(c, slot, ss)
           H == HasPos(c, s)
           New == HasPos(rr, s)
           lost == Overwritten(c, slot, s)
           a == slot.first
           b == LastOf(slot)
           m == Max(lost)
<1>1. Sound(rr)
  BY ApplyIsSound
<1>2. \A q : q \in New <=> \/ q \in H /\ (lost # {} => q > m)
                           \/ s \in ss /\ q \in a .. b
  BY ApplyHas DEF Cut
<1>3. /\ \A q \in H : q \in Nat /\ q <= SeqPosMax(c, s)
      /\ H # {} => SeqPosMax(c, s) \in H
  BY HasPosType
<1>4. /\ a \in Nat /\ b \in Nat /\ (lost # {} => m \in Nat)
      /\ \A x, z \in H : \A y \in x .. z : y \in H
  BY SlotShape, SlotPositions, LastLost, GaplessIs DEF Convex
<1> HIDE DEF rr, H, New, lost, a, b, m
<1>5. ASSUME NEW x \in New, NEW z \in New, NEW y \in x .. z
      PROVE  y \in New
  <2>1. x \in Nat /\ z \in Nat /\ y \in Nat /\ x <= y /\ y <= z
    BY <1>2, <1>3, <1>4
  <2>2. CASE s \in ss /\ y \in a .. b
    BY <1>2, <2>2
  <2>3. CASE ~(s \in ss /\ y \in a .. b) /\ z \in H
    <3>1. x \in H
      <4> SUFFICES ASSUME x \notin H PROVE FALSE
        OBVIOUS
      <4>1. s \in ss /\ x \in a .. b
        BY <1>2
      <4>2. SeqPosMax(c, s) = a - 1
        <5>1. z <= SeqPosMax(c, s)
          BY <1>3, <2>3
        <5> QED
          BY <4>1, <5>1, <2>1 DEF a
      <4> QED
        BY <1>3, <1>4, <2>1, <2>3, <4>1, <4>2
    <3>2. y \in H
      BY <1>4, <2>3, <3>1
    <3>3. lost # {} => x > m
      <4>1. ~(s \in ss /\ x \in a .. b)
        <5> SUFFICES ASSUME s \in ss, x \in a .. b PROVE FALSE
          OBVIOUS
        <5>1. SeqPosMax(c, s) = a - 1
          BY <1>3, <2>1, <2>3 DEF a
        <5> QED
          BY <1>3, <1>4, <3>1, <5>1
      <4> QED
        BY <1>2, <4>1
    <3> QED
      BY <1>2, <1>4, <2>1, <3>2, <3>3
  <2>4. CASE ~(s \in ss /\ y \in a .. b) /\ z \notin H
    <3>1. s \in ss /\ z \in a .. b
      BY <1>2, <2>4
    <3>2. y < a
      BY <1>4, <2>1, <2>4, <3>1
    <3>3. x \in H /\ (lost # {} => x > m)
      BY <1>2, <1>4, <2>1, <3>2
    <3>4. SeqPosMax(c, s) = a - 1 /\ a - 1 \in H
      <4>1. SeqPosMax(c, s) \in Nat /\ SeqPosMax(c, s) \in H
        BY <1>3, <3>3
      <4> QED
        BY <3>1, <4>1 DEF a
    <3>5. y \in H
      <4>1. y \in x .. a - 1
        BY <1>4, <2>1, <3>2
      <4> QED
        BY <1>4, <3>3, <3>4, <4>1
    <3> QED
      BY <1>2, <1>4, <2>1, <3>3, <3>5
  <2> QED
    BY <2>2, <2>3, <2>4
<1>6. Convex(New)
  BY <1>5 DEF Convex
<1> QED
  BY <1>1, <1>6, GaplessIs DEF rr, New

\* The next token of a sequence, when the part of slot is put there.
NextOf(c, slot, ss, t) == IF t \in ss THEN slot.first ELSE SeqPosMax(c, t) + 1

\* The cells of a slot are empty, or no next token attends to what they have.
Expired(c, slot, ss) ==
    \A i \in slot.cells :
        \/ c.pos[i] = Empty
        \/ \E t \in Seqs : c.seq[i] = {t}
                           /\ Masked(c.pos[i], NextOf(c, slot, ss, t))

\* That is what its cells must be for the window to be kept.
LEMMA ExpiredIsSpent ==
    ASSUME NEW c, Sound(c), NEW slot \in Slots, NEW ss, Expired(c, slot, ss),
           NEW s \in Seqs
    PROVE  /\ Spent(c, slot, s, NextOf(c, slot, ss, s))
           /\ NextOf(c, slot, ss, s) \in Int
<1>1. NextOf(c, slot, ss, s) \in Int
  BY SlotShape, SeqPosMaxType, KvAssumption DEF NextOf
<1>2. ASSUME NEW i \in slot.cells, s \in c.seq[i]
      PROVE  c.seq[i] = {s} /\ Masked(c.pos[i], NextOf(c, slot, ss, s))
  <2>1. c.pos[i] # Empty
    BY <1>2, SlotShape, SoundFields
  <2>2. PICK t \in Seqs : c.seq[i] = {t}
                          /\ Masked(c.pos[i], NextOf(c, slot, ss, t))
    BY <2>1 DEF Expired
  <2>3. t = s
    BY <1>2, <2>2
  <2> QED
    BY <2>2, <2>3
<1> QED
  BY <1>1, <1>2 DEF Spent

\* process_ubatch, of a part whose slot has expired
LEMMA ComputeKeepsWindow ==
    ASSUME KvInv, Compute, Expired(cells, Slot, run.seqs), NEW s \in Seqs
    PROVE  PartKeeps(s)
<1> DEFINE slot == Slot
           ss == run.seqs
           p == NextOf(cells, slot, ss, s)
<1>1. /\ run # Idle /\ cells' = ApplyUbatch(cells, slot, ss)
      /\ Sound(cells)
  BY DEF Compute, Apply, KvInv
<1>2. slot \in Slots /\ ss \in SUBSET Seqs /\ ss # {}
  BY <1>1, ApplyKeeps DEF KvInv, RunOK
<1>3. Expired(cells, slot, ss)
  OBVIOUS
<1>s. slot = Slot /\ ss = run.seqs
  OBVIOUS
<1> HIDE DEF slot, ss
<1>4. Spent(cells, slot, s, p) /\ p \in Int
  BY <1>1, <1>2, <1>3, ExpiredIsSpent
<1>5. s \in ss => p = slot.first
  BY DEF NextOf
<1>p. p = IF s \in ss THEN slot.first ELSE SeqPosMax(cells, s) + 1
  BY DEF NextOf
<1> HIDE DEF p
<1>6. Holds(cells', cells, s, p)
  BY <1>1, <1>2, <1>4, ApplyHolds
<1>7. KeepsFor(s, p)
  BY <1>6, HoldsPositions DEF KeepsFor
<1>8. ASSUME Gapless(cells, s), FollowsOn(s)
      PROVE  Gapless(cells', s)
  <2>1. s \in ss => SeqPosMax(cells, s) \in {-1, slot.first - 1}
    BY <1>8, <1>s DEF FollowsOn
  <2>2. s \in ss => p <= slot.first
    BY <1>4, <1>5
  <2>3. Gapless(ApplyUbatch(cells, slot, ss), s)
    BY <1>1, <1>2, <1>4, <1>8, <2>1, <2>2, ApplyLeavesNoGap
  <2> QED
    BY <1>1, <2>3
<1> QED
  BY <1>7, <1>8, <1>p, <1>s DEF PartKeeps

-----------------------------------------------------------------------------
(* What a rehearsal leaves.                                                *)

\* Parts follow on each other, and the last one ends with the batch.
InRow(parts, first, n) ==
    /\ parts[1].first = first
    /\ \A k \in 1 .. Len(parts) - 1 :
          parts[k + 1].first = parts[k].first + parts[k].n
    /\ \A k \in 1 .. Len(parts) : parts[k].first + parts[k].n <= first + n
    /\ parts[Len(parts)].first + parts[Len(parts)].n = first + n

\* split_simple
LEMMA PartsAreInRow ==
    ASSUME NEW first \in Nat, NEW n \in Nat \ {0}
    PROVE  InRow(Parts(first, n), first, n)
<1> DEFINE parts == Parts(first, n)
           m == (n + UBatch - 1) \div UBatch
           before(k) == (k - 1) * UBatch
<1>1. UBatch \in Nat /\ UBatch > 0
  BY KvAssumption
<1>2. /\ m \in Nat \ {0} /\ m * UBatch <= n + UBatch - 1
      /\ n + UBatch - 1 < (m + 1) * UBatch
  BY <1>1
<1>3. Len(parts) = m
      /\ \A k \in 1 .. m : parts[k] = [first |-> first + before(k),
                                       n |-> Min({UBatch, n - before(k)})]
  BY <1>2 DEF Parts
<1> HIDE DEF parts, m
<1>4. ASSUME NEW k \in 1 .. m
      PROVE  /\ before(k) \in Nat /\ before(k) <= n - 1
             /\ k < m => n - before(k) > UBatch
             /\ k = m => n - before(k) <= UBatch
  <2>1. before(k) = k * UBatch - UBatch /\ before(k) \in Nat
        /\ k * UBatch \in Nat /\ m * UBatch \in Nat
    BY <1>1, <1>2
  <2>2. k * UBatch <= m * UBatch
    BY <1>1, <1>2
  <2>3. k < m => k * UBatch + UBatch <= m * UBatch
    <3> SUFFICES ASSUME k < m PROVE k * UBatch + UBatch <= m * UBatch
      OBVIOUS
    <3>1. k + 1 <= m /\ k + 1 \in Nat
      BY <1>2
    <3>2. (k + 1) * UBatch <= m * UBatch
      BY <1>1, <1>2, <3>1
    <3>3. (k + 1) * UBatch = k * UBatch + UBatch
      BY <1>1
    <3> QED
      BY <3>2, <3>3
  <2>4. (m + 1) * UBatch = m * UBatch + UBatch
    BY <1>1, <1>2
  <2>5. n \in Nat
    OBVIOUS
  <2> HIDE DEF before
  <2> QED
    BY <1>1, <1>2, <2>1, <2>2, <2>3, <2>4, <2>5
<1>5. ASSUME NEW k \in 1 .. m
      PROVE  /\ Min({UBatch, n - before(k)}) \in {UBatch, n - before(k)}
             /\ Min({UBatch, n - before(k)}) <= UBatch
             /\ Min({UBatch, n - before(k)}) <= n - before(k)
  <2> HIDE DEF before
  <2>1. {UBatch, n - before(k)} \subseteq Nat
    BY <1>1, <1>4
  <2> QED
    BY <2>1, MinIsIn
<1>6. ASSUME NEW k \in 1 .. m
      PROVE  /\ parts[k].first = first + before(k)
             /\ parts[k].n \in Nat /\ parts[k].n <= n - before(k)
             /\ k < m => parts[k].n = UBatch
             /\ k = m => parts[k].n = n - before(k)
  <2> HIDE DEF before
  <2>1. /\ parts[k].first = first + before(k)
        /\ parts[k].n = Min({UBatch, n - before(k)})
    <3> DEFINE a == first + before(k)
               b == Min({UBatch, n - before(k)})
    <3>1. parts[k] = [first |-> a, n |-> b]
      BY <1>3
    <3> HIDE DEF a, b
    <3>2. parts[k].first = a /\ parts[k].n = b
      BY <3>1
    <3> QED
      BY <3>2 DEF a, b
  <2>2. n \in Nat
    OBVIOUS
  <2> QED
    BY <1>1, <1>4, <1>5, <2>1, <2>2
<1>7. parts[1].first = first
  <2>1. before(1) = 0
    BY <1>1
  <2>2. 1 \in 1 .. m
    BY <1>2
  <2> HIDE DEF before
  <2> QED
    BY <1>6, <2>1, <2>2
<1>8. ASSUME NEW k \in 1 .. m - 1
      PROVE  parts[k + 1].first = parts[k].first + parts[k].n
  <2>1. k \in 1 .. m /\ k + 1 \in 1 .. m /\ k < m
    BY <1>2
  <2>2. before(k + 1) = before(k) + UBatch
    BY <1>1
  <2>3. before(k) \in Nat
    BY <1>4, <2>1
  <2>4. parts[k + 1].first = first + before(k + 1)
    BY <1>6, <2>1
  <2>5. parts[k].first = first + before(k) /\ parts[k].n = UBatch
    BY <1>6, <2>1
  <2> HIDE DEF before
  <2> QED
    BY <1>1, <2>2, <2>3, <2>4, <2>5
<1>9. ASSUME NEW k \in 1 .. m
      PROVE  /\ parts[k].first + parts[k].n <= first + n
             /\ k = m => parts[k].first + parts[k].n = first + n
  <2> HIDE DEF before
  <2>1. n \in Nat
    OBVIOUS
  <2> QED
    BY <1>4, <1>6, <2>1
<1>10. m \in 1 .. m
  BY <1>2
<1> QED
  BY <1>3, <1>7, <1>8, <1>9, <1>10 DEF InRow, parts

\* A rehearsal of the cells c has given the parts slots of their size.
Seated(acc, c, parts) ==
    /\ At(acc, 0) = c /\ Len(acc.slots) <= Len(parts)
    /\ \A k \in 1 .. Len(acc.slots) :
          /\ acc.slots[k].first = parts[k].first
          /\ LastOf(acc.slots[k]) = parts[k].first + parts[k].n - 1

\* One more part is seated, or the batch does not fit.
LEMMA UsePartIsSeated ==
    ASSUME NEW acc, NEW c, NEW k \in Nat, NEW ss \in SUBSET Seqs, ss # {},
           Rehearsed(acc, c, ss, k), NEW parts, Seated(acc, c, parts),
           parts[k + 1] \in BatchParts, k + 1 <= Len(parts)
    PROVE  Seated(UsePart(acc, parts[k + 1], ss), c, parts)
<1> DEFINE part == parts[k + 1]
           at == FindSlot(acc.cells, acc.head, part.n)
           slot == [cells |-> at .. at + part.n - 1, first |-> part.first]
           u == UsePart(acc, part, ss)
<1>p. part = parts[k + 1] /\ part \in BatchParts
  OBVIOUS
<1>1. CASE ~acc.fits
  BY <1>1 DEF UsePart
<1>2. CASE acc.fits /\ at < 0
  <2>1. u = [acc EXCEPT !.fits = FALSE]
    BY <1>2 DEF UsePart, UseCellsAt
  <2> HIDE DEF u, at, slot
  <2>2. u.slots = acc.slots /\ u.old = acc.old /\ u.cells = acc.cells
    BY <2>1 DEF Rehearsed, Rehearsals
  <2>3. Seated(u, c, parts)
    BY <2>2 DEF Seated, At
  <2> QED
    BY <2>3 DEF u
<1>3. CASE acc.fits /\ ~(at < 0)
  <2>1. u = UseSlot(acc, slot, ss)
    BY <1>3 DEF UsePart, UseCellsAt
  <2>2. at \in Free(acc.cells, part.n)
    BY <1>3, FindSlotIsFree
  <2> HIDE DEF part
  <2>3. at \in Nat /\ part.n \in Nat \ {0} /\ part.first \in Nat
    BY <1>p, <2>2 DEF Free, BatchParts
  <2> HIDE DEF at
  <2>4. LastOf(slot) = part.first + part.n - 1
    <3>1. Min(slot.cells) = at /\ Max(slot.cells) = at + part.n - 1
      <4>1. at \in Int /\ at + part.n - 1 \in Int /\ at <= at + part.n - 1
        BY <2>3
      <4> QED
        BY <4>1, EndsOfInterval
    <3> QED
      BY <2>3, <3>1 DEF LastOf
  <2>5. slot.first = part.first
    OBVIOUS
  <2> HIDE DEF slot, u
  <2>6. /\ u.slots = Append(acc.slots, slot)
        /\ u.old = Append(acc.old, acc.cells)
    BY <2>1 DEF UseSlot
  <2>7. /\ acc.slots \in Seq(Slots) /\ acc.old \in Seq(SoundStates)
        /\ Len(acc.slots) = k /\ Len(acc.old) = k
    BY <1>3 DEF Rehearsed, Rehearsals
  <2>8. /\ Len(u.slots) = k + 1 /\ u.slots[k + 1] = slot
        /\ \A j \in 1 .. k : u.slots[j] = acc.slots[j]
    BY <2>6, <2>7
  <2>9. At(u, 0) = c
    <3>1. At(acc, 0) = c
      BY DEF Seated
    <3>2. CASE k = 0
      <4>1. u.old[1] = acc.cells
        BY <2>6, <2>7, <3>2
      <4> QED
        BY <2>7, <2>8, <3>1, <3>2, <4>1 DEF At
    <3>3. CASE k # 0
      <4>1. u.old[1] = acc.old[1]
        BY <2>6, <2>7, <3>3
      <4> QED
        BY <2>7, <2>8, <3>1, <3>3, <4>1 DEF At
    <3> QED
      BY <3>2, <3>3
  <2>10. ASSUME NEW j \in 1 .. k + 1
         PROVE  /\ u.slots[j].first = parts[j].first
                /\ LastOf(u.slots[j]) = parts[j].first + parts[j].n - 1
    <3>1. CASE j = k + 1
      BY <1>p, <2>4, <2>5, <2>8, <3>1
    <3>2. CASE j \in 1 .. k
      BY <2>7, <2>8, <3>2 DEF Seated
    <3> QED
      BY <3>1, <3>2
  <2>11. Seated(u, c, parts)
    BY <2>8, <2>9, <2>10 DEF Seated
  <2> QED
    BY <2>11, <1>p DEF u
<1> QED
  BY <1>1, <1>2, <1>3

\* All the parts are, or those before the batch did not fit.
LEMMA RoundsAreSeated ==
    ASSUME NEW n \in Nat, NEW f, NEW c, Sound(c), NEW h \in Nat, NEW parts,
           n = Len(parts), \A k \in 1 .. n : parts[k] \in BatchParts,
           NEW ss \in SUBSET Seqs, ss # {}, Rehearses(f, n, c, h, parts, ss)
    PROVE  Seated(f[n], c, parts)
<1>1. /\ f[0] = [cells |-> c, head |-> h, fits |-> TRUE,
                 slots |-> <<>>, old |-> <<>>]
      /\ \A k \in 1 .. n : f[k] = UsePart(f[k - 1], parts[k], ss)
  BY RehearsesStep
<1>2. \A k \in 0 .. n : Rehearsed(f[k], c, ss, k)
  BY RoundsAreSound
<1> DEFINE P == {k \in Nat : Seated(f[k], c, parts)}
<1>3. 0 \in P
  <2>1. f[0].cells = c /\ Len(f[0].slots) = 0
    BY <1>1
  <2> QED
    BY <2>1 DEF Seated, At
<1>4. ASSUME NEW k \in 1 .. n, k - 1 \in P
      PROVE  k \in P
  <2>1. k - 1 \in Nat /\ k \in Nat /\ (k - 1) + 1 = k /\ k - 1 \in 0 .. n
    OBVIOUS
  <2>2. Rehearsed(f[k - 1], c, ss, k - 1) /\ Seated(f[k - 1], c, parts)
    BY <1>2, <1>4, <2>1
  <2> DEFINE j == k - 1
  <2>3. /\ parts[j + 1] \in BatchParts /\ j \in Nat /\ j + 1 = k
        /\ j + 1 <= Len(parts)
    BY <2>1
  <2>4. Rehearsed(f[j], c, ss, j) /\ Seated(f[j], c, parts)
    BY <2>2
  <2>5. f[k] = UsePart(f[j], parts[j + 1], ss)
    BY <1>1, <2>3
  <2> HIDE DEF j
  <2>6. Seated(UsePart(f[j], parts[j + 1], ss), c, parts)
    BY <2>3, <2>4, UsePartIsSeated
  <2> QED
    BY <2>1, <2>5, <2>6
<1> HIDE DEF P
<1>5. \A k \in 0 .. n : k \in P
  BY <1>3, <1>4, Upward
<1>6. n \in P
  BY <1>5
<1> QED
  BY <1>6 DEF P

\* prepare: all that is known of the rehearsal of a batch.
LEMMA PrepareIsSeated ==
    ASSUME NEW c, Sound(c), NEW h \in Nat, NEW first \in Nat,
           NEW n \in Nat \ {0}, first + n - 1 <= MaxPos,
           NEW ss \in SUBSET Seqs, ss # {}
    PROVE  LET there == Prepare(c, h, Parts(first, n), ss)
               parts == Parts(first, n)
           IN  \E acc : /\ Rehearsed(acc, c, ss, Len(parts))
                        /\ Seated(acc, c, parts)
                        /\ acc.fits = there.fits /\ acc.slots = there.slots
                        /\ Later(there.cells, acc, 0)
<1> DEFINE parts == Parts(first, n)
           m == Len(parts)
           f == CHOOSE f : Rehearses(f, m, c, h, parts, ss)
           r == Rehearse(c, h, parts, ss)
<1>1. /\ m \in Nat \ {0} /\ \A k \in 1 .. m : parts[k] \in BatchParts
  BY PartsOfBatch
<1>2. r = f[m]
  BY DEF Rehearse, Rehearses
<1>3. Prepare(c, h, parts, ss) = Undone(r)
  BY DEF Prepare
<1> HIDE DEF parts
<1>4. Rehearsed(r, c, ss, m)
  BY <1>1, RehearseIsSound
<1> HIDE DEF r
<1>m. m = Len(parts)
  OBVIOUS
<1> HIDE DEF m
<1>5. Rehearses(f, m, c, h, parts, ss)
  BY <1>1, RehearsesExist
<1> HIDE DEF f
<1>6. Seated(r, c, parts)
  BY <1>1, <1>2, <1>5, <1>m, RoundsAreSeated
<1>7. /\ Later(Undone(r).cells, r, 0) /\ Undone(r).slots = r.slots
      /\ Undone(r).fits = r.fits
  BY <1>4, UndoneIsSound
<1> QED
  BY <1>3, <1>4, <1>6, <1>7, <1>m DEF parts

\* All the positions of a sequence are before p.
Under(c, s, p) == \A q \in HasPos(c, s) : q < p

\* A sequence is under what is after its last position.
LEMMA UnderNext ==
    ASSUME NEW c, Sound(c), NEW s \in Seqs, NEW p \in Int,
           SeqPosMax(c, s) + 1 <= p
    PROVE  Under(c, s, p)
<1>1. \A q \in HasPos(c, s) : q \in Nat /\ q <= SeqPosMax(c, s)
  BY HasPosType
<1>2. SeqPosMax(c, s) \in Int
  BY SeqPosMaxType, KvAssumption
<1> QED
  BY <1>1, <1>2 DEF Under

\* What is usable has no token that p attends to.
LEMMA UsableIsSpent ==
    ASSUME NEW c, Sound(c), NEW slot \in Slots,
           \A i \in slot.cells : Usable(c, i),
           NEW s \in Seqs, NEW p \in Int, Under(c, s, p)
    PROVE  Spent(c, slot, s, p)
<1> SUFFICES ASSUME NEW i \in slot.cells, s \in c.seq[i]
             PROVE  c.seq[i] = {s} /\ Masked(c.pos[i], p)
  BY DEF Spent
<1>1. i \in Cells /\ c.pos[i] # Empty
  BY SlotShape, SoundFields
<1>2. PICK t \in Seqs : /\ c.seq[i] = {t}
                        /\ Masked(c.pos[i], SeqPosMax(c, t) + 1)
  BY <1>1 DEF Usable
<1>3. t = s
  BY <1>2
<1>4. c.pos[i] \in HasPos(c, s)
  BY <1>1, HasPosIs
<1>5. SeqPosMax(c, s) \in HasPos(c, s) /\ c.pos[i] \in Nat
  BY <1>4, HasPosType
<1>6. SeqPosMax(c, s) < p
  BY <1>5 DEF Under
<1>7. SeqPosMax(c, s) \in Nat
  BY <1>5, HasPosType
<1>8. SeqPosMax(c, s) + 1 <= p /\ SeqPosMax(c, s) + 1 \in Int
  BY <1>6, <1>7
<1>9. Masked(c.pos[i], p)
  BY <1>2, <1>3, <1>5, <1>8, MaskedWider
<1> QED
  BY <1>2, <1>3, <1>9

\* How far a part takes a sequence.
LEMMA ApplyUnder ==
    ASSUME NEW c, Sound(c), NEW slot \in Slots, NEW ss \in SUBSET Seqs,
           ss # {}, NEW s \in Seqs, NEW p \in Int, Under(c, s, p),
           NEW q \in Int, p <= q, s \in ss => LastOf(slot) < q
    PROVE  Under(ApplyUbatch(c, slot, ss), s, q)
<1> DEFINE rr == ApplyUbatch(c, slot, ss)
<1>1. /\ Sound(rr)
      /\ \A i \in Cells :
            /\ rr.seq[i] = SeqPut(c, slot, ss, i)
                      \ Losing(c, slot, Losers(c, slot), PosPut(c, slot, i))
            /\ rr.pos[i] \in {Empty, PosPut(c, slot, i)}
  BY ApplyIsSound
<1> HIDE DEF rr
<1>2. ASSUME NEW x \in HasPos(rr, s)
      PROVE  x < q
  <2>1. PICK i \in Cells : s \in rr.seq[i] /\ rr.pos[i] = x
    BY HasPosIs
  <2>2. rr.pos[i] # Empty
    BY <1>1, <2>1, SoundFields
  <2>3. x = PosPut(c, slot, i) /\ s \in SeqPut(c, slot, ss, i)
    BY <1>1, <2>1, <2>2
  <2>4. CASE i \in slot.cells
    <3>1. s \in ss /\ x = slot.first + i - Min(slot.cells)
      BY <2>3, <2>4 DEF SeqPut, PosPut
    <3>2. x \in slot.first .. LastOf(slot)
      BY <2>4, <3>1, SlotPositions
    <3>3. slot.first \in Nat /\ LastOf(slot) \in Nat
      BY SlotShape, SlotPositions
    <3> QED
      BY <3>1, <3>2, <3>3
  <2>5. CASE i \notin slot.cells
    <3>1. x \in HasPos(c, s)
      <4>1. s \in c.seq[i] /\ c.pos[i] = x
        BY <2>3, <2>5 DEF SeqPut, PosPut
      <4> QED
        BY <4>1, HasPosIs
    <3>2. x < p /\ x \in Nat
      BY <3>1, HasPosType DEF Under
    <3> QED
      BY <3>2
  <2> QED
    BY <2>4, <2>5
<1> QED
  BY <1>2 DEF Under, rr

\* Where the sequences of a batch end after k parts of it.
EndAfter(parts, first, k) == IF k = 0 THEN first
                             ELSE parts[k].first + parts[k].n

\* The slots of a rehearsal and the ends of the parts before.
LEMMA SeatedEnds ==
    ASSUME NEW acc, NEW c, NEW ss, NEW first \in Nat,
           NEW n \in Nat \ {0}, first + n - 1 <= MaxPos, NEW m,
           Rehearsed(acc, c, ss, m), Seated(acc, c, Parts(first, n)),
           NEW k \in 1 .. Len(acc.slots)
    PROVE  /\ EndAfter(Parts(first, n), first, k - 1) = acc.slots[k].first
           /\ EndAfter(Parts(first, n), first, k) = LastOf(acc.slots[k]) + 1
           /\ EndAfter(Parts(first, n), first, k - 1)
                 <= EndAfter(Parts(first, n), first, k)
           /\ EndAfter(Parts(first, n), first, k) <= first + n
           /\ EndAfter(Parts(first, n), first, k - 1) \in Nat
           /\ EndAfter(Parts(first, n), first, k) \in Nat
<1> DEFINE parts == Parts(first, n)
           m_ == Len(parts)
<1>1. /\ m_ \in Nat \ {0} /\ InRow(parts, first, n)
      /\ \A j \in 1 .. m_ : parts[j] \in BatchParts
  BY PartsOfBatch, PartsAreInRow
<1> HIDE DEF parts
<1>2. Len(acc.slots) \in Nat /\ acc.slots[k] \in Slots
  BY RehearsedStates
<1>3. k \in 1 .. m_ /\ k \in Nat
  BY <1>1, <1>2 DEF parts, Seated
<1>4. /\ acc.slots[k].first = parts[k].first
      /\ LastOf(acc.slots[k]) = parts[k].first + parts[k].n - 1
      /\ parts[k].first \in Nat /\ parts[k].n \in Nat
  BY <1>1, <1>3 DEF Seated, parts, BatchParts
<1>5. EndAfter(parts, first, k - 1) = parts[k].first
  <2>1. CASE k = 1
    BY <1>1, <2>1 DEF EndAfter, InRow
  <2>2. CASE k # 1
    <3>1. k - 1 \in 1 .. m_ - 1 /\ (k - 1) + 1 = k /\ k - 1 # 0
      BY <1>1, <1>3, <2>2
    <3> DEFINE j == k - 1
    <3>2. j \in 1 .. m_ - 1 /\ j + 1 = k /\ j # 0
      BY <3>1
    <3> HIDE DEF j
    <3>3. parts[k].first = parts[j].first + parts[j].n
      BY <1>1, <3>2 DEF InRow
    <3>4. EndAfter(parts, first, j) = parts[k].first
      BY <3>2, <3>3 DEF EndAfter
    <3> QED
      BY <3>4 DEF j
  <2> QED
    BY <2>1, <2>2
<1>6. EndAfter(parts, first, k) = parts[k].first + parts[k].n
  BY <1>3 DEF EndAfter
<1>7. parts[k].first + parts[k].n <= first + n
  BY <1>1, <1>3 DEF InRow
<1> DEFINE a == EndAfter(parts, first, k - 1)
           b == EndAfter(parts, first, k)
<1>8. /\ a = acc.slots[k].first /\ b = LastOf(acc.slots[k]) + 1 /\ a <= b
      /\ b <= first + n /\ a \in Nat /\ b \in Nat
  <2>1. a = parts[k].first /\ b = parts[k].first + parts[k].n
    BY <1>5, <1>6
  <2> DEFINE x == parts[k].first
             y == parts[k].n
  <2>2. /\ a = x /\ b = x + y /\ x \in Nat /\ y \in Nat /\ x + y <= first + n
        /\ acc.slots[k].first = x /\ LastOf(acc.slots[k]) = x + y - 1
    BY <1>4, <1>7, <2>1
  <2> HIDE DEF a, b, x, y, m_
  <2> QED
    BY <2>2
<1> QED
  BY <1>8 DEF parts

\* Before which position a sequence ends after k parts of the batch.
Reach(parts, ss, first, s, p, k) == IF s \in ss THEN EndAfter(parts, first, k)
                                    ELSE p

\* Where the batch begins, the sequences it has end; p is after the others.
Starts(c, s, ss, first, p) == Under(c, s, IF s \in ss THEN first ELSE p)

\* How far the sequences reach in the rehearsal.
LEMMA RehearsalReaches ==
    ASSUME NEW acc, NEW c, NEW ss \in SUBSET Seqs, ss # {}, NEW first \in Nat,
           NEW n \in Nat \ {0}, first + n - 1 <= MaxPos, NEW m,
           Rehearsed(acc, c, ss, m), Seated(acc, c, Parts(first, n)),
           NEW s \in Seqs, NEW p \in Int,
           Starts(c, s, ss, first, p),
           NEW k \in 0 .. Len(acc.slots)
    PROVE  /\ Under(At(acc, k), s, Reach(Parts(first, n), ss, first, s, p, k))
           /\ Reach(Parts(first, n), ss, first, s, p, k) \in Int
<1> DEFINE R(x) == Reach(Parts(first, n), ss, first, s, p, x)
           P == {x \in Nat : Under(At(acc, x), s, R(x)) /\ R(x) \in Int}
           l == Len(acc.slots)
<1>1. l \in Nat
  BY RehearsedStates
<1>2. 0 \in P
  <2>1. At(acc, 0) = c
    BY DEF Seated
  <2>2. R(0) = IF s \in ss THEN first ELSE p
    BY DEF Reach, EndAfter
  <2>3. R(0) \in Int
    BY <2>2
  <2> HIDE DEF R
  <2> QED
    BY <2>1, <2>2, <2>3 DEF Starts
<1>3. ASSUME NEW x \in 1 .. l, x - 1 \in P
      PROVE  x \in P
  <2> DEFINE b == At(acc, x - 1)
             slot == acc.slots[x]
             u == R(x - 1)
             v == R(x)
  <2>1. /\ slot \in Slots /\ At(acc, x) = ApplyUbatch(b, slot, ss)
        /\ Sound(b)
    <3>1. x \in 1 .. Len(acc.slots) /\ x - 1 \in 0 .. Len(acc.slots)
      BY <1>1
    <3> QED
      BY <3>1, RehearsedStates
  <2>2. Under(b, s, u) /\ u \in Int
    BY <1>3
  <2>3. /\ v \in Int /\ u <= v /\ (s \in ss => LastOf(slot) < v)
    <3>1. CASE s \in ss
      <4>1. /\ u = EndAfter(Parts(first, n), first, x - 1)
            /\ v = EndAfter(Parts(first, n), first, x)
        BY <3>1 DEF Reach
      <4>2. /\ EndAfter(Parts(first, n), first, x - 1)
                  <= EndAfter(Parts(first, n), first, x)
            /\ EndAfter(Parts(first, n), first, x) = LastOf(slot) + 1
            /\ EndAfter(Parts(first, n), first, x) \in Nat
            /\ EndAfter(Parts(first, n), first, x - 1) \in Nat
        BY SeatedEnds
      <4>3. LastOf(slot) \in Nat
        BY <2>1, SlotPositions
      <4> HIDE DEF u, v, slot
      <4> QED
        BY <4>1, <4>2, <4>3
    <3>2. CASE s \notin ss
      BY <3>2 DEF Reach
    <3> QED
      BY <3>1, <3>2
  <2> HIDE DEF b, slot, u, v
  <2>4. Under(ApplyUbatch(b, slot, ss), s, v)
    BY <2>1, <2>2, <2>3, ApplyUnder
  <2>5. Under(At(acc, x), s, v) /\ x \in Nat
    BY <2>1, <2>4
  <2> QED
    BY <2>3, <2>5 DEF v
<1> HIDE DEF P
<1>4. \A x \in 0 .. l : x \in P
  BY <1>1, <1>2, <1>3, Upward
<1>5. k \in P
  BY <1>4
<1> QED
  BY <1>5 DEF P

\* What the token after the batch attends to is kept all along.
LEMMA RehearsalHolds ==
    ASSUME NEW acc, NEW c, NEW ss \in SUBSET Seqs, ss # {}, NEW first \in Nat,
           NEW n \in Nat \ {0}, first + n - 1 <= MaxPos, NEW m,
           Rehearsed(acc, c, ss, m), Seated(acc, c, Parts(first, n)),
           NEW s \in Seqs, NEW p \in Int,
           Starts(c, s, ss, first, p),
           s \in ss => p = first + n, NEW k \in 0 .. Len(acc.slots)
    PROVE  Holds(At(acc, k), c, s, p)
<1> DEFINE R(x) == Reach(Parts(first, n), ss, first, s, p, x)
           P == {x \in Nat : Holds(At(acc, x), c, s, p)}
           l == Len(acc.slots)
<1>1. l \in Nat
  BY RehearsedStates
<1>2. 0 \in P
  BY DEF Seated, Holds
<1>3. ASSUME NEW x \in 1 .. l, x - 1 \in P
      PROVE  x \in P
  <2> DEFINE b == At(acc, x - 1)
             d == At(acc, x)
             slot == acc.slots[x]
             u == R(x - 1)
  <2>1. /\ slot \in Slots /\ d = ApplyUbatch(b, slot, ss)
        /\ Sound(b) /\ \A i \in slot.cells : Usable(b, i)
    <3>1. x \in 1 .. Len(acc.slots) /\ x - 1 \in 0 .. Len(acc.slots)
      BY <1>1
    <3> QED
      BY <3>1, RehearsedStates
  <2>2. Under(b, s, u) /\ u \in Int
    <3> DEFINE j == x - 1
    <3>1. j \in 0 .. Len(acc.slots)
      BY <1>1
    <3> HIDE DEF j
    <3>2. Under(At(acc, j), s, R(j)) /\ R(j) \in Int
      BY <3>1, RehearsalReaches
    <3> QED
      BY <3>2 DEF j
  <2>3. u <= p
    <3>1. CASE s \in ss
      <4>1. u = EndAfter(Parts(first, n), first, x - 1)
        BY <3>1 DEF Reach
      <4>2. /\ EndAfter(Parts(first, n), first, x - 1)
                  <= EndAfter(Parts(first, n), first, x)
            /\ EndAfter(Parts(first, n), first, x) <= first + n
            /\ EndAfter(Parts(first, n), first, x) \in Nat
            /\ EndAfter(Parts(first, n), first, x - 1) \in Nat
        BY SeatedEnds
      <4> HIDE DEF u
      <4> QED
        BY <3>1, <4>1, <4>2
    <3>2. CASE s \notin ss
      BY <3>2 DEF Reach
    <3> QED
      BY <3>1, <3>2
  <2> HIDE DEF u, slot
  <2>4. Under(b, s, p)
    <3>1. \A q \in HasPos(b, s) : q \in Nat /\ q < u
      BY <2>1, <2>2, HasPosType DEF Under
    <3> HIDE DEF b
    <3> QED
      BY <2>2, <2>3, <3>1 DEF Under
  <2>5. Holds(b, c, s, p)
    BY <1>3
  <2> HIDE DEF b, d
  <2>6. Holds(d, b, s, p)
    <3>1. Spent(b, slot, s, p)
      BY <2>1, <2>4, UsableIsSpent
    <3> QED
      BY <2>1, <3>1, ApplyHolds
  <2>7. Holds(d, c, s, p)
    BY <2>5, <2>6 DEF Holds
  <2> QED
    BY <2>7 DEF d
<1> HIDE DEF P
<1>4. \A x \in 0 .. l : x \in P
  BY <1>1, <1>2, <1>3, Upward
<1>5. k \in P
  BY <1>4
<1> QED
  BY <1>5 DEF P

\* prepare: what the token after the batch attends to is still there, and no
\* sequence has got further.
LEMMA PrepareHolds ==
    ASSUME NEW c, Sound(c), NEW h \in Nat, NEW first \in Nat,
           NEW n \in Nat \ {0}, first + n - 1 <= MaxPos,
           NEW ss \in SUBSET Seqs, ss # {}, NEW s \in Seqs, NEW p \in Int,
           Starts(c, s, ss, first, p),
           s \in ss => p = first + n
    PROVE  LET there == Prepare(c, h, Parts(first, n), ss)
           IN  /\ Holds(there.cells, c, s, p)
               /\ \A q \in HasPos(there.cells, s) : q \in HasPos(c, s)
<1> DEFINE there == Prepare(c, h, Parts(first, n), ss)
           d == there.cells
<1>1. PICK acc : /\ Rehearsed(acc, c, ss, Len(Parts(first, n)))
                 /\ Seated(acc, c, Parts(first, n))
                 /\ Later(d, acc, 0)
  BY PrepareIsSeated
<1>2. Sound(d)
  BY PrepareIsSound
<1> HIDE DEF there, d
<1>3. ASSUME NEW i \in Cells
      PROVE  \E k \in 0 .. Len(acc.slots) :
                /\ Like(d, At(acc, k), i)
                /\ \A x \in 1 .. k : i \notin acc.slots[x].cells
  BY <1>1 DEF Later
<1>4. Holds(d, c, s, p)
  <2> SUFFICES ASSUME NEW i \in Cells, s \in c.seq[i], ~Masked(c.pos[i], p)
               PROVE  s \in d.seq[i] /\ d.pos[i] = c.pos[i]
    BY DEF Holds
  <2>1. PICK k \in 0 .. Len(acc.slots) : Like(d, At(acc, k), i)
    BY <1>3
  <2>2. Holds(At(acc, k), c, s, p)
    BY <1>1, RehearsalHolds
  <2> QED
    BY <2>1, <2>2 DEF Holds, Like
<1>5. ASSUME NEW q \in HasPos(d, s)
      PROVE  q \in HasPos(c, s)
  <2>1. PICK i \in Cells : s \in d.seq[i] /\ d.pos[i] = q
    BY HasPosIs
  <2>2. PICK k \in 0 .. Len(acc.slots) :
           /\ Like(d, At(acc, k), i)
           /\ \A x \in 1 .. k : i \notin acc.slots[x].cells
    BY <1>3
  <2>3. At(acc, 0) = c /\ Len(acc.slots) \in Nat /\ k \in Nat
    BY <1>1, RehearsedStates DEF Seated
  <2>4. /\ At(acc, k).seq[i] \subseteq c.seq[i]
        /\ At(acc, k).pos[i] \in {Empty, c.pos[i]}
    <3> DEFINE u == 0
    <3>1. /\ u \in Nat /\ u + k <= Len(acc.slots) /\ u + k = k
          /\ \A x \in u + 1 .. u + k : i \notin acc.slots[x].cells
      BY <2>2, <2>3
    <3>2. u = 0
      OBVIOUS
    <3> HIDE DEF u
    <3>3. /\ At(acc, u + k).seq[i] \subseteq At(acc, u).seq[i]
          /\ At(acc, u + k).pos[i] \in {Empty, At(acc, u).pos[i]}
      BY <1>1, <2>3, <3>1, RehearsedLoses
    <3> QED
      BY <2>3, <3>1, <3>2, <3>3
  <2>5. d.pos[i] # Empty
    BY <1>2, <2>1, SoundFields
  <2>6. s \in c.seq[i] /\ c.pos[i] = q
    BY <2>1, <2>2, <2>4, <2>5 DEF Like
  <2> QED
    BY <2>6, HasPosIs
<1> QED
  BY <1>4, <1>5 DEF d, there

\* The moves change no position of a sequence.
LEMMA DefraggedHas ==
    ASSUME NEW c, Sound(c), NEW ids, Movable(c, ids), NEW s \in Seqs, NEW q
    PROVE  q \in HasPos(Defragged(c, ids), s) <=> q \in HasPos(c, s)
<1> DEFINE d == Defragged(c, ids)
<1>1. d.pos = Moved(c.pos, ids, Empty) /\ d.seq = Moved(c.seq, ids, {})
  BY DEF Defragged, Sound, CellStates
<1> HIDE DEF d
<1>2. ASSUME q \in HasPos(c, s)
      PROVE  q \in HasPos(d, s)
  <2>1. PICK i \in Cells : s \in c.seq[i] /\ c.pos[i] = q
    BY <1>2, HasPosIs
  <2>2. c.pos[i] # Empty
    BY <2>1, SoundFields
  <2>3. CASE ids[i] # Size
    <3>1. ids[i] \in Cells
      BY <2>3 DEF Movable
    <3>2. d.pos[ids[i]] = q /\ s \in d.seq[ids[i]]
      BY <1>1, <2>1, <2>3, MovedIs
    <3> QED
      BY <3>1, <3>2, HasPosIs
  <2>4. CASE ids[i] = Size
    <3>1. \A j \in Cells : ids[j] # i
      BY <2>2, KvAssumption DEF Movable, Cells
    <3>2. d.pos[i] = q /\ s \in d.seq[i]
      BY <1>1, <2>1, <2>4, <3>1, MovedIs
    <3> QED
      BY <3>2, HasPosIs
  <2> QED
    BY <2>3, <2>4
<1>3. ASSUME q \in HasPos(d, s)
      PROVE  q \in HasPos(c, s)
  <2>1. PICK i \in Cells : s \in d.seq[i] /\ d.pos[i] = q
    BY <1>3, HasPosIs
  <2>2. CASE \E j \in Cells : ids[j] = i
    <3>1. PICK j \in Cells : ids[j] = i
      BY <2>2
    <3>2. ids[j] # Size
      BY <3>1, KvAssumption DEF Cells
    <3>3. d.pos[i] = c.pos[j] /\ d.seq[i] = c.seq[j]
      BY <1>1, <3>1, <3>2, MovedIs
    <3> QED
      BY <2>1, <3>3, HasPosIs
  <2>3. CASE ~ \E j \in Cells : ids[j] = i
    <3>1. ids[i] = Size
      <4> SUFFICES ASSUME ids[i] # Size PROVE FALSE
        OBVIOUS
      <4>1. d.seq[i] = {}
        BY <1>1, MovedIs
      <4> QED
        BY <2>1, <4>1
    <3>2. d.pos[i] = c.pos[i] /\ d.seq[i] = c.seq[i]
      BY <1>1, <2>3, <3>1, MovedIs
    <3> QED
      BY <2>1, <3>2, HasPosIs
  <2> QED
    BY <2>2, <2>3
<1> QED
  BY <1>2, <1>3 DEF d

\* The ends of a slot are numbers.
LEMMA SlotEnds ==
    ASSUME NEW slot \in Slots
    PROVE  /\ Min(slot.cells) \in Nat /\ Max(slot.cells) \in Nat
           /\ slot.first \in Nat
<1>1. PICK a, b \in Cells : a <= b /\ slot.cells = a .. b
  BY DEF Slots
<1>2. a \in Nat /\ b \in Nat /\ slot.first \in Nat
  BY KvAssumption DEF Cells, Slots
<1> QED
  BY <1>1, <1>2, EndsOfInterval

\* The last slot of a rehearsal of all the parts has the last token.
LEMMA SeatedEnd ==
    ASSUME NEW acc, NEW c, NEW ss, NEW first \in Nat,
           NEW n \in Nat \ {0}, first + n - 1 <= MaxPos, NEW m,
           Rehearsed(acc, c, ss, m), Seated(acc, c, Parts(first, n)),
           Len(acc.slots) = Len(Parts(first, n))
    PROVE  /\ Last(acc.slots) \in Slots
           /\ LastOf(Last(acc.slots)) + 1 = first + n
<1> DEFINE k == Len(acc.slots)
<1>1. k \in Nat \ {0}
  BY PartsOfBatch
<1>2. k \in 1 .. Len(acc.slots)
  BY <1>1
<1>3. k = Len(acc.slots) /\ k = Len(Parts(first, n))
  OBVIOUS
<1> HIDE DEF k
<1>4. InRow(Parts(first, n), first, n)
  BY PartsAreInRow
<1> DEFINE part == Parts(first, n)[k]
<1>5. LastOf(acc.slots[k]) + 1 = first + n
  <2>1. LastOf(acc.slots[k]) = part.first + part.n - 1
    BY <1>2 DEF Seated
  <2>2. part.first + part.n = first + n
    BY <1>3, <1>4 DEF InRow
  <2>3. part \in BatchParts
    BY <1>2, <1>3, PartsOfBatch
  <2>4. part.first \in Nat /\ part.n \in Nat
    BY <2>3 DEF BatchParts
  <2> HIDE DEF part
  <2> QED
    BY <2>1, <2>2, <2>4
<1>6. acc.slots[k] \in Slots
  BY <1>2, RehearsedStates
<1>7. Last(acc.slots) = acc.slots[k]
  BY <1>3 DEF Last
<1> QED
  BY <1>5, <1>6, <1>7

\* prepare: the last slot has the last token of the batch.
LEMMA PrepareEnds ==
    ASSUME NEW c, Sound(c), NEW h \in Nat, NEW first \in Nat,
           NEW n \in Nat \ {0}, first + n - 1 <= MaxPos,
           NEW ss \in SUBSET Seqs, ss # {}
    PROVE  LET there == Prepare(c, h, Parts(first, n), ss)
           IN  there.fits => /\ Last(there.slots) \in Slots
                             /\ LastOf(Last(there.slots)) + 1 = first + n
<1> DEFINE parts == Parts(first, n)
           there == Prepare(c, h, parts, ss)
           m == Len(parts)
<1> SUFFICES ASSUME there.fits
             PROVE  /\ Last(there.slots) \in Slots
                    /\ LastOf(Last(there.slots)) + 1 = first + n
  OBVIOUS
<1>1. \E acc : /\ Rehearsed(acc, c, ss, m) /\ Seated(acc, c, parts)
               /\ acc.fits = there.fits /\ acc.slots = there.slots
               /\ Later(there.cells, acc, 0)
  BY PrepareIsSeated
<1> HIDE DEF there
<1>2. PICK acc : /\ Rehearsed(acc, c, ss, m) /\ Seated(acc, c, parts)
                 /\ acc.fits = there.fits /\ acc.slots = there.slots
  BY <1>1
<1>3. Len(acc.slots) = Len(parts)
  BY <1>2 DEF Rehearsed
<1>4. /\ Last(acc.slots) \in Slots
      /\ LastOf(Last(acc.slots)) + 1 = first + n
  BY <1>2, <1>3, SeatedEnd
<1> QED
  BY <1>2, <1>4

\* A batch that passes follows on what all its sequences have.
LEMMA FreshFollows ==
    ASSUME Sound(cells), NEW ss \in SUBSET Seqs, NEW n \in Nat \ {0},
           Fresh(ss, n)
    PROVE  \E first \in Nat : /\ first + n - 1 <= MaxPos
                              /\ Batch(ss, n) = Parts(first, n)
                              /\ \A s \in ss : Under(cells, s, first)
<1> DEFINE s0 == CHOOSE s \in ss : TRUE
           last == SeqPosMax(cells, s0)
<1>1. s0 \in ss
  BY DEF Fresh
<1>2. last + n <= MaxPos /\ \A s \in ss : SeqPosMax(cells, s) = last
  BY <1>1 DEF Fresh, Coupled
<1>3. Batch(ss, n) = Parts(last + 1, n)
  BY DEF Batch
<1>4. last \in -1 .. MaxPos
  BY SeqPosMaxType
<1> HIDE DEF last, s0
<1>5. last + 1 \in Nat /\ last + 1 + n - 1 <= MaxPos
  BY <1>2, <1>4, KvAssumption
<1>6. ASSUME NEW s \in ss
      PROVE  Under(cells, s, last + 1)
  <2>1. s \in Seqs /\ SeqPosMax(cells, s) + 1 <= last + 1
        /\ last + 1 \in Int
    BY <1>2, <1>5
  <2> QED
    BY <2>1, UnderNext
<1> QED
  BY <1>3, <1>5, <1>6

\* Pending shifts change no position.
LEMMA ShiftedHas ==
    ASSUME NEW c, Sound(c)
    PROVE  \A s : HasPos(Shifted(c), s) = HasPos(c, s)
BY ShiftedIsSound DEF HasPos

\* The position after the batch, for the sequences it has and for the others.
LEMMA EndOfBatch ==
    ASSUME Sound(cells), NEW r, NEW ss \in SUBSET Seqs, r.seqs = ss,
           Last(r.slots) \in Slots, NEW first \in Nat, NEW n \in Nat,
           LastOf(Last(r.slots)) + 1 = first + n, NEW s \in Seqs,
           \A t \in ss : Under(cells, t, first)
    PROVE  /\ EndOf(r, s) + 1 \in Int
           /\ s \in ss => EndOf(r, s) + 1 = first + n
           /\ Starts(cells, s, ss, first, EndOf(r, s) + 1)
<1>1. CASE s \in ss
  <2> DEFINE slot == Last(r.slots)
  <2>1. EndOf(r, s) = Max(slot.cells) - Min(slot.cells) + slot.first
    BY <1>1 DEF EndOf
  <2>2. /\ Min(slot.cells) \in Nat /\ Max(slot.cells) \in Nat
        /\ slot.first \in Nat
    BY SlotEnds
  <2>3. LastOf(slot) = slot.first + Max(slot.cells) - Min(slot.cells)
    BY DEF LastOf
  <2> DEFINE a == Min(slot.cells)
             b == Max(slot.cells)
             o == slot.first
             e == EndOf(r, s)
             l == LastOf(slot)
  <2>4. /\ e = b - a + o /\ a \in Nat /\ b \in Nat /\ o \in Nat
        /\ l = o + b - a /\ l + 1 = first + n
    BY <2>1, <2>2, <2>3
  <2> HIDE DEF a, b, o, e, l
  <2>5. e + 1 = first + n
    BY <2>4
  <2> QED
    BY <1>1, <2>5 DEF e, Starts
<1>2. CASE s \notin ss
  <2>1. EndOf(r, s) = SeqPosMax(cells, s)
    BY <1>2 DEF EndOf
  <2>2. EndOf(r, s) \in Int
    BY <2>1, SeqPosMaxType, KvAssumption
  <2>3. Under(cells, s, EndOf(r, s) + 1)
    <3>1. SeqPosMax(cells, s) + 1 <= EndOf(r, s) + 1
          /\ EndOf(r, s) + 1 \in Int
      BY <2>1, <2>2
    <3> QED
      BY <3>1, UnderNext
  <2> QED
    BY <1>2, <2>2, <2>3 DEF Starts
<1> QED
  BY <1>1, <1>2

\* decode, of a batch that fits
LEMMA DecodeKeepsBatch ==
    ASSUME KvInv, NEW ss \in SUBSET Seqs, NEW n \in 1 .. MaxBatch,
           Decode(ss, n), NEW s \in Seqs
    PROVE  BatchKeeps(s)
<1> DEFINE c == Shifted(cells)
           there == Prepare(c, head, Batch(ss, n), ss)
           p == EndOf(run', s) + 1
           d == there.cells
<1>1. /\ Fresh(ss, n) /\ there.fits /\ cells' = d
      /\ run' = [seqs |-> ss, slots |-> there.slots]
  BY DEF Decode
<1>2. n \in Nat \ {0} /\ head \in Nat /\ ss # {} /\ Sound(cells)
  BY <1>1 DEF KvInv, Fresh
<1>3. PICK first \in Nat : /\ first + n - 1 <= MaxPos
                           /\ Batch(ss, n) = Parts(first, n)
                           /\ \A t \in ss : Under(cells, t, first)
  BY <1>1, <1>2, FreshFollows
<1>4. Sound(c) /\ \A t : HasPos(c, t) = HasPos(cells, t)
  BY <1>2, ShiftedIsSound, ShiftedHas
<1> HIDE DEF c
<1>o. there = Prepare(c, head, Parts(first, n), ss)
  BY <1>3
<1>5. /\ Last(there.slots) \in Slots
      /\ LastOf(Last(there.slots)) + 1 = first + n
  <2> DEFINE o == Prepare(c, head, Parts(first, n), ss)
  <2>1. o.fits => /\ Last(o.slots) \in Slots
                  /\ LastOf(Last(o.slots)) + 1 = first + n
    BY <1>2, <1>3, <1>4, PrepareEnds
  <2>2. there = o
    BY <1>o
  <2> HIDE DEF there, o
  <2> QED
    BY <1>1, <2>1, <2>2
<1>6. run'.seqs = ss /\ run'.slots = there.slots
  BY <1>1
<1>7. /\ p \in Int
      /\ s \in ss => p = first + n
      /\ Starts(cells, s, ss, first, p)
  <2> DEFINE r == run'
  <2>1. /\ r.seqs = ss /\ Last(r.slots) \in Slots
        /\ LastOf(Last(r.slots)) + 1 = first + n
    BY <1>5, <1>6
  <2> HIDE DEF r, there
  <2>2. /\ EndOf(r, s) + 1 \in Int
        /\ s \in ss => EndOf(r, s) + 1 = first + n
        /\ Starts(cells, s, ss, first, EndOf(r, s) + 1)
    BY <1>2, <1>3, <2>1, EndOfBatch
  <2> QED
    BY <2>2 DEF r
<1>p. p = EndOf(run', s) + 1
  OBVIOUS
<1> HIDE DEF p
<1>8. Starts(c, s, ss, first, p)
  BY <1>4, <1>7 DEF Under, Starts
<1>9. Holds(d, c, s, p)
  <2>1. Holds(Prepare(c, head, Parts(first, n), ss).cells, c, s, p)
    BY <1>2, <1>3, <1>4, <1>7, <1>8, PrepareHolds
  <2> HIDE DEF there
  <2> QED
    BY <1>o, <2>1
<1> HIDE DEF d
<1>10. \A q \in HasPos(cells, s) : Masked(q, p) \/ q \in HasPos(d, s)
  BY <1>4, <1>9, HoldsPositions
<1> QED
  BY <1>1, <1>10, <1>p DEF BatchKeeps, KeepsFor

\* decode, after a defragmentation
LEMMA DecodeNoSlotKeepsBatch ==
    ASSUME KvInv, NEW ss \in SUBSET Seqs, NEW n \in 1 .. MaxBatch,
           DecodeNoSlot(ss, n), run' # Idle, NEW s \in Seqs
    PROVE  BatchKeeps(s)
<1> DEFINE b == Shifted(cells)
           there == Prepare(b, head, Batch(ss, n), ss)
           o == there.cells
           ids == DefragPrepare(o)
           c == Defragged(o, ids)
           again == Prepare(c, 0, Batch(ss, n), ss)
           d == again.cells
           moves == \E i \in Cells : ids[i] # Size
           p == EndOf(run', s) + 1
<1>1. /\ Fresh(ss, n)
      /\ cells' = IF moves THEN d ELSE o
      /\ run' = IF moves /\ again.fits
                THEN [seqs |-> ss, slots |-> again.slots] ELSE Idle
  BY DEF DecodeNoSlot
<1>2. n \in Nat \ {0} /\ head \in Nat /\ 0 \in Nat /\ ss # {} /\ Sound(cells)
  BY <1>1 DEF KvInv, Fresh
<1>3. PICK first \in Nat : /\ first + n - 1 <= MaxPos
                           /\ Batch(ss, n) = Parts(first, n)
                           /\ \A t \in ss : Under(cells, t, first)
  BY <1>1, <1>2, FreshFollows
<1>4. Sound(b) /\ \A t : HasPos(b, t) = HasPos(cells, t)
  BY <1>2, ShiftedIsSound, ShiftedHas
<1> HIDE DEF b
<1>5. Sound(o)
  BY <1>2, <1>3, <1>4, PrepareIsSound
<1>o. o = Prepare(b, head, Parts(first, n), ss).cells
  BY <1>3
<1> HIDE DEF there, o
<1>6. /\ Sound(c) /\ Movable(o, ids)
  BY <1>5, DefragPrepareIsMovable, DefraggedIsSound
<1>c. \A q : q \in HasPos(c, s) <=> q \in HasPos(o, s)
  <2> HIDE DEF ids
  <2> QED
    BY <1>5, <1>6, DefraggedHas
<1> HIDE DEF c, ids
<1>7. /\ moves /\ again.fits /\ cells' = d
      /\ run' = [seqs |-> ss, slots |-> again.slots]
  BY <1>1
<1>a. again = Prepare(c, 0, Parts(first, n), ss)
  BY <1>3
<1>8. /\ Last(again.slots) \in Slots
      /\ LastOf(Last(again.slots)) + 1 = first + n
  <2> DEFINE r == Prepare(c, 0, Parts(first, n), ss)
  <2>1. r.fits => /\ Last(r.slots) \in Slots
                  /\ LastOf(Last(r.slots)) + 1 = first + n
    BY <1>2, <1>3, <1>6, PrepareEnds
  <2>2. again = r
    BY <1>a
  <2> HIDE DEF again, r
  <2> QED
    BY <1>7, <2>1, <2>2
<1>9. run'.seqs = ss /\ run'.slots = again.slots
  BY <1>7
<1>10. /\ p \in Int
       /\ s \in ss => p = first + n
       /\ Starts(cells, s, ss, first, p)
  <2> DEFINE r == run'
  <2>1. /\ r.seqs = ss /\ Last(r.slots) \in Slots
        /\ LastOf(Last(r.slots)) + 1 = first + n
    BY <1>8, <1>9
  <2> HIDE DEF r, again, moves, p
  <2>2. /\ EndOf(r, s) + 1 \in Int
        /\ s \in ss => EndOf(r, s) + 1 = first + n
        /\ Starts(cells, s, ss, first, EndOf(r, s) + 1)
    BY <1>2, <1>3, <2>1, EndOfBatch
  <2> QED
    BY <2>2 DEF r, p
<1>p. p = EndOf(run', s) + 1
  OBVIOUS
<1> HIDE DEF p
<1>11. Starts(b, s, ss, first, p)
  BY <1>4, <1>10 DEF Under, Starts
<1>12. /\ Holds(o, b, s, p)
       /\ \A q \in HasPos(o, s) : q \in HasPos(b, s)
  <2> DEFINE x == Prepare(b, head, Parts(first, n), ss).cells
  <2>1. Holds(x, b, s, p) /\ \A q \in HasPos(x, s) : q \in HasPos(b, s)
    BY <1>2, <1>3, <1>4, <1>10, <1>11, PrepareHolds
  <2> HIDE DEF x
  <2>2. o = x
    BY <1>o DEF x
  <2> QED
    BY <2>1, <2>2
<1>13. Starts(c, s, ss, first, p)
  BY <1>c, <1>11, <1>12 DEF Under, Starts
<1>14. Holds(d, c, s, p)
  <2>1. Holds(Prepare(c, 0, Parts(first, n), ss).cells, c, s, p)
    BY <1>2, <1>3, <1>6, <1>10, <1>13, PrepareHolds
  <2> HIDE DEF again
  <2> QED
    BY <1>a, <2>1
<1> HIDE DEF d, again
<1>15. \A q \in HasPos(b, s) : Masked(q, p) \/ q \in HasPos(o, s)
  BY <1>12, HoldsPositions
<1>16. \A q \in HasPos(c, s) : Masked(q, p) \/ q \in HasPos(d, s)
  BY <1>14, HoldsPositions
<1> QED
  BY <1>c, <1>4, <1>7, <1>15, <1>16, <1>p DEF BatchKeeps, KeepsFor

-----------------------------------------------------------------------------
(* The slots of a batch, when their turn comes.                            *)

\* A cell has the token of the sequence in the state d, and in b.
HasAlso(b, d, t, x) == t \in b.seq[x] /\ b.pos[x] = d.pos[x]

\* What a cell has, of a sequence that is not in the batch, it has had all
\* along.
LEMMA HadBefore ==
    ASSUME NEW acc, NEW c, NEW ss \in SUBSET Seqs, ss # {}, NEW m,
           Rehearsed(acc, c, ss, m), NEW t, t \notin ss, NEW x \in Cells,
           NEW u \in Nat, NEW l \in Nat, u <= l, l <= Len(acc.slots),
           t \in At(acc, l).seq[x]
    PROVE  HasAlso(At(acc, u), At(acc, l), t, x)
<1> DEFINE v == l - u
           Had(k) == HasAlso(At(acc, l - k), At(acc, l), t, x)
           P == {k \in Nat : Had(k)}
<1>1. 0 \in P
  BY DEF Had, HasAlso
<1>2. ASSUME NEW k \in 1 .. v, k - 1 \in P
      PROVE  k \in P
  <2> DEFINE i == l - (k - 1)
             b == At(acc, i - 1)
             slot == acc.slots[i]
             d == At(acc, i)
  <2>1. /\ i \in 1 .. Len(acc.slots) /\ i \in 0 .. Len(acc.slots)
        /\ i - 1 \in 0 .. Len(acc.slots) /\ i - 1 = l - k
    BY RehearsedStates
  <2> HIDE DEF i
  <2>2. /\ slot \in Slots /\ d = ApplyUbatch(b, slot, ss)
        /\ Sound(b) /\ Sound(d)
    BY <2>1, RehearsedStates
  <2>3. t \in d.seq[x] /\ d.pos[x] = At(acc, l).pos[x]
    BY <1>2 DEF i, HasAlso
  <2> HIDE DEF d, b, slot
  <2>4. /\ d.seq[x] = SeqPut(b, slot, ss, x)
                        \ Losing(b, slot, Losers(b, slot), PosPut(b, slot, x))
        /\ d.pos[x] \in {Empty, PosPut(b, slot, x)}
    BY <2>2, ApplyIsSound
  <2>5. d.pos[x] # Empty
    BY <2>2, <2>3, SoundFields
  <2>6. t \in b.seq[x] /\ b.pos[x] = d.pos[x]
    BY <2>3, <2>4, <2>5 DEF SeqPut, PosPut
  <2>7. Had(k)
    BY <2>1, <2>3, <2>6 DEF b, HasAlso
  <2> QED
    BY <2>7
<1> HIDE DEF P
<1>v. v \in Nat /\ l - v = u
  OBVIOUS
<1> HIDE DEF v
<1>3. \A k \in 0 .. v : k \in P
  BY <1>v, <1>1, <1>2, Upward
<1>4. v \in P
  BY <1>v, <1>3
<1> QED
  BY <1>v, <1>4 DEF P

\* A sequence that is not in the batch reaches as far, when the turn of a part
\* comes, as it did in the rehearsal: what a later part took from it there,
\* which was not restored, had a later position beside it that was.
LEMMA LaterReaches ==
    ASSUME NEW acc, NEW c, NEW ss \in SUBSET Seqs, ss # {}, NEW m0,
           Rehearsed(acc, c, ss, m0), NEW j \in Nat, j <= Len(acc.slots),
           NEW r, Sound(r), Later(r, acc, j), NEW t \in Seqs, t \notin ss,
           NEW x0 \in Cells, t \in At(acc, j).seq[x0]
    PROVE  \E y \in Cells : t \in r.seq[y] /\ At(acc, j).pos[x0] <= r.pos[y]
<1> DEFINE n == Len(acc.slots)
           p == At(acc, j).pos[x0]
           Has(k) == \E x \in Cells : t \in At(acc, k).seq[x]
                                      /\ p <= At(acc, k).pos[x]
           P == {v \in Nat : Has(j + v)}
<1> SUFFICES ASSUME \A y \in Cells : t \in r.seq[y] => ~(p <= r.pos[y])
             PROVE  FALSE
  OBVIOUS
<1>1. n \in Nat /\ j \in 0 .. n /\ Sound(At(acc, j))
  <2>1. n \in Nat /\ j \in 0 .. n
    BY RehearsedStates
  <2> QED
    BY <2>1, RehearsedStates
<1>2. p \in Nat
  <2>1. p \in Positions
    BY <1>1, SeqPosEnds
  <2> QED
    BY <2>1, KvAssumption DEF Positions
<1> HIDE DEF p
<1>3. ASSUME NEW k \in j .. n, NEW x \in Cells, t \in At(acc, k).seq[x],
             p <= At(acc, k).pos[x],
             k = n \/ x \in acc.slots[k + 1].cells
      PROVE  FALSE
  <2>1. PICK l \in j .. n : /\ Like(r, At(acc, l), x)
                            /\ \A m \in j + 1 .. l : x \notin acc.slots[m].cells
    BY DEF Later
  <2>2. l <= k
    <3>1. CASE k = n
      BY <1>1, <3>1
    <3>2. CASE x \in acc.slots[k + 1].cells
      <4>1. ~(k + 1 \in j + 1 .. l)
        BY <2>1, <3>2
      <4> QED
        BY <1>1, <4>1
    <3> QED
      BY <1>3, <3>1, <3>2
  <2>3. l \in Nat /\ k \in Nat /\ k <= Len(acc.slots)
    BY <1>1
  <2> HIDE DEF n
  <2>4. t \in At(acc, l).seq[x] /\ At(acc, l).pos[x] = At(acc, k).pos[x]
    <3>1. t \in At(acc, k).seq[x]
      BY <1>3
    <3>2. HasAlso(At(acc, l), At(acc, k), t, x)
      BY <2>2, <2>3, <3>1, HadBefore
    <3> QED
      BY <3>2 DEF HasAlso
  <2>5. t \in r.seq[x] /\ p <= r.pos[x]
    BY <1>3, <2>1, <2>4 DEF Like
  <2> QED
    BY <2>5
<1>4. 0 \in P
  BY <1>2 DEF p
<1>5. ASSUME NEW v \in 1 .. n - j, v - 1 \in P
      PROVE  v \in P
  <2> DEFINE k == j + (v - 1)
             b == At(acc, k)
             slot == acc.slots[k + 1]
             d == At(acc, k + 1)
  <2>1. /\ k + 1 = j + v /\ k \in j .. n /\ k \in 0 .. n /\ k + 1 \in 0 .. n
        /\ k + 1 \in 1 .. n /\ (k + 1) - 1 = k
    BY <1>1
  <2>2. PICK x \in Cells : t \in b.seq[x] /\ p <= b.pos[x]
    BY <1>5
  <2> HIDE DEF k
  <2>3. /\ slot \in Slots /\ d = ApplyUbatch(b, slot, ss)
        /\ Sound(b) /\ Sound(d) /\ slot.cells \in SUBSET Cells
    BY <2>1, RehearsedStates, SlotShape
  <2>4. ASSUME NEW y \in slot.cells, t \in b.seq[y], p <= b.pos[y]
        PROVE  FALSE
    BY <1>3, <2>1, <2>3, <2>4
  <2>5. x \notin slot.cells
    BY <2>2, <2>4
  <2> HIDE DEF b, d, slot
  <2>6. /\ d.seq[x] = b.seq[x]
                        \ Losing(b, slot, Losers(b, slot), b.pos[x])
        /\ d.pos[x] \in {Empty, b.pos[x]}
    <3>1. /\ d.seq[x] = SeqPut(b, slot, ss, x)
                        \ Losing(b, slot, Losers(b, slot), PosPut(b, slot, x))
          /\ d.pos[x] \in {Empty, PosPut(b, slot, x)}
      BY <2>3, ApplyIsSound
    <3>2. SeqPut(b, slot, ss, x) = b.seq[x] /\ PosPut(b, slot, x) = b.pos[x]
      BY <2>5 DEF SeqPut, PosPut
    <3> QED
      BY <3>1, <3>2
  <2>7. t \notin Losing(b, slot, Losers(b, slot), b.pos[x])
    <3> DEFINE lost == Overwritten(b, slot, t)
    <3> SUFFICES ASSUME t \in Losing(b, slot, Losers(b, slot), b.pos[x])
                 PROVE  FALSE
      OBVIOUS
    <3>1. lost # {} /\ b.pos[x] <= Max(lost)
      BY DEF Losing, Losers
    <3>2. /\ Max(lost) \in Nat
          /\ \E y \in slot.cells : /\ y \in Cells /\ b.seq[y] = {t}
                                   /\ b.pos[y] = Max(lost)
      BY <2>3, <3>1, LastLost
    <3>3. b.pos[x] \in Int
      BY <2>2, <2>3, SeqPosEnds, KvAssumption DEF Positions
    <3> HIDE DEF lost
    <3>4. p <= Max(lost)
      BY <1>2, <2>2, <3>1, <3>2, <3>3
    <3> QED
      BY <2>4, <3>2, <3>4
  <2>8. t \in d.seq[x]
    BY <2>2, <2>6, <2>7
  <2>9. d.pos[x] # Empty
    BY <2>3, <2>8, SoundFields
  <2>10. p <= d.pos[x]
    BY <2>2, <2>6, <2>9
  <2>11. d = At(acc, j + v) /\ v \in Nat
    BY <1>1, <2>1 DEF d
  <2> QED
    BY <2>8, <2>10, <2>11
<1> HIDE DEF P
<1>6. \A v \in 0 .. n - j : v \in P
  <2> DEFINE w == n - j
  <2>1. w \in Nat
    BY <1>1
  <2>2. \A v \in 1 .. w : v - 1 \in P => v \in P
    BY <1>5
  <2> HIDE DEF w
  <2>3. \A v \in 0 .. w : v \in P
    BY <1>4, <2>1, <2>2, Upward
  <2> QED
    BY <2>3 DEF w
<1>7. Has(n)
  <2>1. n - j \in P /\ j + (n - j) = n
    BY <1>1, <1>6
  <2> QED
    BY <2>1 DEF P
<1> QED
  BY <1>1, <1>3, <1>7

\* When the turn of a part comes its slot has nothing that is attended to.
LEMMA LaterExpired ==
    ASSUME NEW acc, NEW c, NEW ss \in SUBSET Seqs, ss # {}, NEW first \in Nat,
           NEW n \in Nat \ {0}, first + n - 1 <= MaxPos, NEW m0,
           Rehearsed(acc, c, ss, m0), Seated(acc, c, Parts(first, n)),
           \A t \in ss : Under(c, t, first),
           NEW j \in Nat, j + 1 <= Len(acc.slots),
           NEW r, Sound(r), Later(r, acc, j)
    PROVE  Expired(r, acc.slots[j + 1], ss)
<1> DEFINE l == Len(acc.slots)
           slot == acc.slots[j + 1]
           b == At(acc, j)
<1>1. /\ l \in Nat /\ j \in 0 .. l /\ j + 1 \in 1 .. l /\ (j + 1) - 1 = j
      /\ Sound(b) /\ slot \in Slots /\ slot.cells \in SUBSET Cells
      /\ \A i \in slot.cells : Usable(b, i)
  BY RehearsedStates, SlotShape
<1>2. ASSUME NEW i \in slot.cells
      PROVE  Like(r, b, i)
  <2>1. PICK k \in j .. l : /\ Like(r, At(acc, k), i)
                            /\ \A m \in j + 1 .. k : i \notin acc.slots[m].cells
    BY <1>1 DEF Later
  <2>2. k = j
    BY <1>1, <1>2, <2>1
  <2> QED
    BY <2>1, <2>2
<1>3. slot.first \in Nat
  BY <1>1, SlotShape
<1>4. ASSUME NEW t \in ss
      PROVE  Under(b, t, slot.first)
  <2> DEFINE p == 0
  <2>1. p \in Int /\ Starts(c, t, ss, first, p) /\ t \in Seqs
    BY DEF Starts
  <2> HIDE DEF p
  <2>2. Under(At(acc, j), t, Reach(Parts(first, n), ss, first, t, p, j))
    BY <1>1, <2>1, RehearsalReaches
  <2>3. EndAfter(Parts(first, n), first, (j + 1) - 1) = slot.first
    <3> DEFINE k == j + 1
    <3>1. k \in 1 .. Len(acc.slots)
      BY <1>1
    <3>2. slot = acc.slots[k] /\ k = j + 1
      OBVIOUS
    <3> HIDE DEF k, slot
    <3>3. EndAfter(Parts(first, n), first, k - 1) = acc.slots[k].first
      BY <3>1, SeatedEnds
    <3> QED
      BY <3>2, <3>3
  <2> QED
    BY <1>1, <2>2, <2>3 DEF Reach
<1> SUFFICES ASSUME NEW i \in slot.cells
             PROVE  \/ r.pos[i] = Empty
                    \/ \E t \in Seqs : r.seq[i] = {t}
                                /\ Masked(r.pos[i], NextOf(r, slot, ss, t))
  BY DEF Expired
<1>5. Like(r, b, i) /\ Usable(b, i) /\ i \in Cells
  BY <1>1, <1>2
<1> HIDE DEF b, slot
<1>6. CASE b.pos[i] = Empty
  BY <1>5, <1>6 DEF Like
<1>7. CASE b.pos[i] # Empty
  <2>1. PICK t \in Seqs : /\ b.seq[i] = {t}
                         /\ Masked(b.pos[i], SeqPosMax(b, t) + 1)
    BY <1>5, <1>7 DEF Usable
  <2>2. /\ b.pos[i] \in Positions
        /\ \E x \in Cells : t \in b.seq[x] /\ b.pos[x] = SeqPosMax(b, t)
    BY <1>1, <1>5, <2>1, SeqPosEnds
  <2>3. /\ b.pos[i] \in Int /\ SeqPosMax(b, t) \in Int
        /\ SeqPosMax(r, t) \in Int
    BY <2>2, SeqPosMaxType, KvAssumption DEF Positions
  <2>4. NextOf(r, slot, ss, t) \in Int
        /\ SeqPosMax(b, t) + 1 <= NextOf(r, slot, ss, t)
    <3>1. CASE t \in ss
      <4>1. SeqPosMax(b, t) \in HasPos(b, t)
        BY <2>2, HasPosIs
      <4>2. SeqPosMax(b, t) < slot.first
        BY <1>4, <3>1, <4>1 DEF Under
      <4> QED
        BY <1>3, <2>3, <3>1, <4>2 DEF NextOf
    <3>2. CASE t \notin ss
      <4>1. PICK x \in Cells : t \in b.seq[x] /\ b.pos[x] = SeqPosMax(b, t)
        BY <2>2
      <4>2. \E y \in Cells : t \in r.seq[y] /\ b.pos[x] <= r.pos[y]
        <5>1. t \in At(acc, j).seq[x] /\ j <= Len(acc.slots)
          BY <1>1, <4>1 DEF b
        <5>2. \E y \in Cells : t \in r.seq[y] /\ At(acc, j).pos[x] <= r.pos[y]
          BY <3>2, <5>1, LaterReaches
        <5> QED
          BY <5>2 DEF b
      <4>3. PICK y \in Cells : t \in r.seq[y] /\ SeqPosMax(b, t) <= r.pos[y]
        BY <4>1, <4>2
      <4>4. r.pos[y] <= SeqPosMax(r, t) /\ r.pos[y] \in Positions
        BY <4>3, SeqPosEnds
      <4>5. r.pos[y] \in Int
        BY <4>4, KvAssumption DEF Positions
      <4>6. SeqPosMax(b, t) <= SeqPosMax(r, t)
        BY <2>3, <4>3, <4>4, <4>5
      <4> QED
        BY <2>3, <3>2, <4>6 DEF NextOf
    <3> QED
      BY <3>1, <3>2
  <2>5. Masked(b.pos[i], NextOf(r, slot, ss, t))
    <3> DEFINE x == b.pos[i]
               p == SeqPosMax(b, t) + 1
               q == NextOf(r, slot, ss, t)
    <3>1. /\ x \in Int /\ p \in Int /\ q \in Int /\ x <= x /\ p <= q
          /\ Masked(x, p)
      BY <2>1, <2>3, <2>4
    <3> HIDE DEF x, p, q
    <3>2. Masked(x, q)
      BY <3>1, MaskedWider
    <3> QED
      BY <3>2 DEF x, q
  <2> QED
    BY <1>5, <2>1, <2>5 DEF Like
<1> QED
  BY <1>6, <1>7

\* What the cells become when the first k slots are used in turn.
PlaysTo(f, c, slots, ss, k) ==
    /\ f[0] = c
    /\ \A i \in 1 .. k : f[i] = ApplyUbatch(f[i - 1], slots[i], ss)

\* Every slot has expired when its turn comes.
WillExpire(c, slots, ss) ==
    \A f : \A k \in 1 .. Len(slots) :
        PlaysTo(f, c, slots, ss, k - 1) => Expired(f[k - 1], slots[k], ss)

\* So they will after a rehearsal that was undone.
LEMMA LaterWillExpire ==
    ASSUME NEW acc, NEW c, NEW ss \in SUBSET Seqs, ss # {}, NEW first \in Nat,
           NEW n \in Nat \ {0}, first + n - 1 <= MaxPos, NEW m0,
           Rehearsed(acc, c, ss, m0), Seated(acc, c, Parts(first, n)),
           \A t \in ss : Under(c, t, first),
           NEW d, Sound(d), Later(d, acc, 0)
    PROVE  WillExpire(d, acc.slots, ss)
<1> SUFFICES ASSUME NEW f, NEW k \in 1 .. Len(acc.slots),
                    PlaysTo(f, d, acc.slots, ss, k - 1)
             PROVE  Expired(f[k - 1], acc.slots[k], ss)
  BY DEF WillExpire
<1> DEFINE P == {i \in Nat : Sound(f[i]) /\ Later(f[i], acc, i)}
           l == k - 1
<1>1. /\ Len(acc.slots) \in Nat /\ l \in Nat /\ l + 1 = k
      /\ l + 1 <= Len(acc.slots)
  BY RehearsedStates
<1>2. 0 \in P
  BY DEF PlaysTo
<1>3. ASSUME NEW i \in 1 .. l, i - 1 \in P
      PROVE  i \in P
  <2> DEFINE j == i - 1
             r == f[i - 1]
  <2>1. /\ j \in Nat /\ j + 1 = i /\ j + 1 <= Len(acc.slots)
        /\ Sound(r) /\ Later(r, acc, j) /\ i \in 1 .. Len(acc.slots)
    BY <1>1, <1>3
  <2>2. f[i] = ApplyUbatch(r, acc.slots[i], ss)
    BY DEF PlaysTo
  <2>3. acc.slots[i] \in Slots
    BY <2>1, RehearsedStates
  <2> HIDE DEF j, r
  <2>4. Later(ApplyUbatch(r, acc.slots[j + 1], ss), acc, j + 1)
    BY <2>1, LaterStep
  <2>5. Sound(ApplyUbatch(r, acc.slots[i], ss))
    BY <2>1, <2>3, ApplyIsSound
  <2> QED
    BY <2>1, <2>2, <2>4, <2>5
<1> HIDE DEF P, l
<1>4. \A i \in 0 .. l : i \in P
  BY <1>1, <1>2, <1>3, Upward
<1> DEFINE r == f[l]
<1>5. Sound(r) /\ Later(r, acc, l)
  BY <1>1, <1>4 DEF P
<1> HIDE DEF r
<1>6. Expired(r, acc.slots[l + 1], ss)
  BY <1>1, <1>5, LaterExpired
<1> QED
  BY <1>1, <1>6 DEF r, l

\* prepare: so they will when it is done.
LEMMA PrepareWillExpire ==
    ASSUME NEW c, Sound(c), NEW h \in Nat, NEW first \in Nat,
           NEW n \in Nat \ {0}, first + n - 1 <= MaxPos,
           NEW ss \in SUBSET Seqs, ss # {}, \A t \in ss : Under(c, t, first)
    PROVE  LET there == Prepare(c, h, Parts(first, n), ss)
           IN  WillExpire(there.cells, there.slots, ss)
<1> DEFINE parts == Parts(first, n)
           there == Prepare(c, h, parts, ss)
<1>1. Sound(there.cells)
  BY PrepareIsSound
<1>2. \E acc : /\ Rehearsed(acc, c, ss, Len(parts)) /\ Seated(acc, c, parts)
               /\ acc.fits = there.fits /\ acc.slots = there.slots
               /\ Later(there.cells, acc, 0)
  BY PrepareIsSeated
<1> HIDE DEF there
<1>3. PICK acc : /\ Rehearsed(acc, c, ss, Len(parts)) /\ Seated(acc, c, parts)
                 /\ acc.slots = there.slots
                 /\ Later(there.cells, acc, 0)
  BY <1>2
<1> DEFINE d == there.cells
<1>4. Sound(d) /\ Later(d, acc, 0)
  BY <1>1, <1>3
<1> HIDE DEF d
<1>5. WillExpire(d, acc.slots, ss)
  BY <1>3, <1>4, LaterWillExpire
<1> QED
  BY <1>3, <1>5 DEF d, there

\* What there is to know of the parts to come.
PartsInv == run # Idle => WillExpire(cells, run.slots, run.seqs)

\* decode, of a batch that fits
LEMMA DecodeWillExpire ==
    ASSUME KvInv, NEW ss \in SUBSET Seqs, NEW n \in 1 .. MaxBatch,
           Decode(ss, n)
    PROVE  PartsInv'
<1> DEFINE c == Shifted(cells)
           there == Prepare(c, head, Batch(ss, n), ss)
<1>1. /\ Fresh(ss, n) /\ cells' = there.cells
      /\ run' = [seqs |-> ss, slots |-> there.slots]
  BY DEF Decode
<1>2. n \in Nat \ {0} /\ head \in Nat /\ ss # {} /\ Sound(cells)
  BY <1>1 DEF KvInv, Fresh
<1>3. PICK first \in Nat : /\ first + n - 1 <= MaxPos
                           /\ Batch(ss, n) = Parts(first, n)
                           /\ \A t \in ss : Under(cells, t, first)
  BY <1>1, <1>2, FreshFollows
<1>4. Sound(c) /\ \A t \in ss : Under(c, t, first)
  BY <1>2, <1>3, ShiftedIsSound, ShiftedHas DEF Under
<1> HIDE DEF c
<1>5. WillExpire(there.cells, there.slots, ss)
  <2> DEFINE o == Prepare(c, head, Parts(first, n), ss)
  <2>1. WillExpire(o.cells, o.slots, ss)
    BY <1>2, <1>3, <1>4, PrepareWillExpire
  <2>2. there = o
    BY <1>3
  <2> HIDE DEF o, there
  <2> QED
    BY <2>1, <2>2
<1> HIDE DEF there
<1>6. run'.slots = there.slots /\ run'.seqs = ss
  BY <1>1
<1> QED
  BY <1>1, <1>5, <1>6 DEF PartsInv

\* decode, after a defragmentation
LEMMA DecodeNoSlotWillExpire ==
    ASSUME KvInv, NEW ss \in SUBSET Seqs, NEW n \in 1 .. MaxBatch,
           DecodeNoSlot(ss, n)
    PROVE  PartsInv'
<1> DEFINE b == Shifted(cells)
           there == Prepare(b, head, Batch(ss, n), ss)
           o == there.cells
           ids == DefragPrepare(o)
           c == Defragged(o, ids)
           again == Prepare(c, 0, Batch(ss, n), ss)
           moves == \E i \in Cells : ids[i] # Size
<1>1. /\ Fresh(ss, n)
      /\ cells' = IF moves THEN again.cells ELSE o
      /\ run' = IF moves /\ again.fits
                THEN [seqs |-> ss, slots |-> again.slots] ELSE Idle
  BY DEF DecodeNoSlot
<1>2. n \in Nat \ {0} /\ head \in Nat /\ 0 \in Nat /\ ss # {} /\ Sound(cells)
  BY <1>1 DEF KvInv, Fresh
<1>3. PICK first \in Nat : /\ first + n - 1 <= MaxPos
                           /\ Batch(ss, n) = Parts(first, n)
                           /\ \A t \in ss : Under(cells, t, first)
  BY <1>1, <1>2, FreshFollows
<1>4. Sound(b) /\ \A t \in ss : Under(b, t, first)
  BY <1>2, <1>3, ShiftedIsSound, ShiftedHas DEF Under
<1> HIDE DEF b
<1>o. o = Prepare(b, head, Parts(first, n), ss).cells
  BY <1>3
<1>5. Sound(o)
  BY <1>2, <1>3, <1>4, PrepareIsSound
<1> HIDE DEF there, o
<1>6. ASSUME NEW t \in ss
      PROVE  Under(o, t, first)
  <2> DEFINE x == Prepare(b, head, Parts(first, n), ss).cells
             p == first + n
  <2>1. Starts(b, t, ss, first, p) /\ p \in Int /\ t \in Seqs
    BY <1>2, <1>4 DEF Starts
  <2>p. p = first + n
    OBVIOUS
  <2> HIDE DEF p
  <2>2. Holds(x, b, t, p) /\ \A q \in HasPos(x, t) : q \in HasPos(b, t)
    BY <1>2, <1>3, <1>4, <2>1, <2>p, PrepareHolds
  <2> HIDE DEF x
  <2>3. o = x
    BY <1>o DEF x
  <2> QED
    BY <1>4, <2>2, <2>3 DEF Under
<1>7. /\ Sound(c) /\ Movable(o, ids)
  BY <1>5, DefragPrepareIsMovable, DefraggedIsSound
<1>8. ASSUME NEW t \in ss
      PROVE  Under(c, t, first)
  <2>1. \A q : q \in HasPos(c, t) <=> q \in HasPos(o, t)
    <3> HIDE DEF ids
    <3> QED
      BY <1>5, <1>7, DefraggedHas
  <2> HIDE DEF c
  <2> QED
    BY <1>6, <2>1 DEF Under
<1> HIDE DEF c, ids
<1>9. WillExpire(again.cells, again.slots, ss)
  <2> DEFINE r == Prepare(c, 0, Parts(first, n), ss)
  <2>1. WillExpire(r.cells, r.slots, ss)
    BY <1>2, <1>3, <1>7, <1>8, PrepareWillExpire
  <2>2. again = r
    BY <1>3
  <2> HIDE DEF r, again
  <2> QED
    BY <2>1, <2>2
<1> HIDE DEF again, moves
<1>10. CASE moves /\ again.fits
  <2>1. run'.slots = again.slots /\ run'.seqs = ss /\ cells' = again.cells
    BY <1>1, <1>10
  <2> QED
    BY <1>9, <2>1 DEF PartsInv
<1>11. CASE ~(moves /\ again.fits)
  BY <1>1, <1>11 DEF PartsInv
<1> QED
  BY <1>10, <1>11

\* process_ubatch: what is left is used as it would have been.
LEMMA ComputeWillExpire ==
    ASSUME KvInv, PartsInv, Compute
    PROVE  PartsInv'
<1>1. /\ run # Idle /\ cells' = Apply
      /\ run' = IF Len(run.slots) = 1 THEN Idle
                ELSE [run EXCEPT !.slots = Tail(@)]
  BY DEF Compute
<1>2. /\ run.slots \in Seq(Slots) /\ run.slots # <<>>
      /\ run = [seqs |-> run.seqs, slots |-> run.slots]
  BY <1>1, ApplyKeeps
<1>3. CASE Len(run.slots) = 1
  BY <1>1, <1>3 DEF PartsInv
<1>4. CASE Len(run.slots) # 1
  <2> DEFINE q == run.slots
             t == Tail(q)
             n == Len(q)
             ss == run.seqs
  <2>1. /\ n \in Nat /\ n > 1 /\ Len(t) = n - 1
        /\ \A k \in 1 .. n - 1 : t[k] = q[k + 1]
    <3>1. q \in Seq(Slots) /\ q # <<>> /\ n # 1
      BY <1>2, <1>4
    <3> HIDE DEF q
    <3>2. n \in Nat /\ n # 0 /\ Len(t) = n - 1
      BY <3>1
    <3>3. \A k \in 1 .. Len(t) : t[k] = q[k + 1]
      BY <3>1
    <3> QED
      BY <3>1, <3>2, <3>3
  <2>2. run'.slots = t /\ run'.seqs = ss
    BY <1>1, <1>2, <1>4
  <2>3. WillExpire(cells, q, ss)
    BY <1>1 DEF PartsInv
  <2>4. cells' = ApplyUbatch(cells, q[1], ss)
    BY <1>1, <1>2 DEF Apply, Slot
  <2>n. n = Len(q)
    OBVIOUS
  <2> HIDE DEF q, t, n, ss
  <2>5. ASSUME NEW g, NEW m \in 1 .. Len(t), PlaysTo(g, cells', t, ss, m - 1)
        PROVE  Expired(g[m - 1], t[m], ss)
    <3> DEFINE f == [k \in 0 .. n |-> IF k = 0 THEN cells ELSE g[k - 1]]
    <3>1. m \in Nat /\ m # 0 /\ m + 1 \in 1 .. Len(q) /\ m \in 1 .. n - 1
          /\ (m + 1) - 1 = m
      BY <2>1, <2>n
    <3>2. f[0] = cells
      BY <2>1
    <3>3. ASSUME NEW k \in 1 .. m
          PROVE  f[k] = ApplyUbatch(f[k - 1], q[k], ss)
      <4>1. f[k] = g[k - 1]
        BY <2>1
      <4>2. CASE k = 1
        <5>1. g[0] = cells' /\ k - 1 = 0
          BY <2>5, <4>2 DEF PlaysTo
        <5> HIDE DEF f
        <5> QED
          BY <2>4, <3>2, <4>1, <4>2, <5>1
      <4>3. CASE k # 1
        <5>1. /\ k - 1 \in 1 .. m - 1 /\ k - 1 \in 1 .. n - 1
              /\ (k - 1) + 1 = k
          BY <2>1, <3>1, <4>3
        <5>2. g[k - 1] = ApplyUbatch(g[(k - 1) - 1], t[k - 1], ss)
          BY <2>5, <5>1 DEF PlaysTo
        <5>3. t[k - 1] = q[k]
          BY <2>1, <5>1
        <5>4. f[k - 1] = g[(k - 1) - 1]
          BY <2>1, <5>1
        <5> HIDE DEF f
        <5> QED
          BY <4>1, <5>2, <5>3, <5>4
      <4> QED
        BY <4>2, <4>3
    <3>4. PlaysTo(f, cells, q, ss, m)
      <4> HIDE DEF f
      <4> QED
        BY <3>2, <3>3 DEF PlaysTo
    <3>5. f[m] = g[m - 1] /\ t[m] = q[m + 1]
      BY <2>1, <3>1
    <3> HIDE DEF f
    <3>6. Expired(f[m], q[m + 1], ss)
      <4> DEFINE k == m + 1
      <4>1. k \in 1 .. Len(q) /\ k - 1 = m
        BY <3>1
      <4>2. PlaysTo(f, cells, q, ss, k - 1)
        BY <3>4, <4>1
      <4>k. k = m + 1
        OBVIOUS
      <4> HIDE DEF k
      <4>3. Expired(f[k - 1], q[k], ss)
        BY <2>3, <4>1, <4>2 DEF WillExpire
      <4> QED
        BY <4>1, <4>3, <4>k
    <3> QED
      BY <3>5, <3>6
  <2>6. WillExpire(cells', t, ss)
    BY <2>5 DEF WillExpire
  <2> QED
    BY <2>2, <2>6 DEF PartsInv
<1> QED
  BY <1>3, <1>4

\* The part whose turn it is: the play is of no slot.
LEMMA NextHasExpired ==
    ASSUME KvInv, PartsInv, run # Idle
    PROVE  Expired(cells, Slot, run.seqs)
<1>1. run.slots \in Seq(Slots) /\ run.slots # <<>>
  BY ApplyKeeps
<1>2. Slot = run.slots[1] /\ 1 \in 1 .. Len(run.slots)
  BY <1>1 DEF Slot
<1> DEFINE f == [k \in 0 .. 0 |-> cells]
           k == 1
<1>3. f[k - 1] = cells
  OBVIOUS
<1>4. PlaysTo(f, cells, run.slots, run.seqs, k - 1)
  BY DEF PlaysTo
<1>5. k = 1
  OBVIOUS
<1> HIDE DEF f, k
<1>6. Expired(f[k - 1], run.slots[k], run.seqs)
  BY <1>2, <1>4, <1>5 DEF PartsInv, WillExpire
<1> QED
  BY <1>2, <1>3, <1>5, <1>6

\* No part takes from any sequence what its next token attends to, no
\* rehearsal what the token after the batch does, and a part that overwrites
\* leaves no gap of its own: for every cache, window and batch, in a program
\* that never gives a sequence a cell that it has.
THEOREM DecodeAlwaysKeepsTheWindow ==
    Apart => (KvSpec => DecodeKeepsTheWindow)
<1> SUFFICES ASSUME Apart PROVE KvSpec => DecodeKeepsTheWindow
  OBVIOUS
<1> DEFINE Inv == KvInv /\ PartsInv
           Keeps == /\ Compute => \A s \in Seqs : PartKeeps(s)
                    /\ run = Idle /\ run' # Idle =>
                          \A s \in Seqs : BatchKeeps(s)
<1>1. KvInit => Inv
  BY KvInvAtFirst DEF KvInit, PartsInv
<1>2. Inv /\ [KvNext]_kvVars => Inv'
  <2> SUFFICES ASSUME Inv, [KvNext]_kvVars PROVE Inv'
    OBVIOUS
  <2>1. KvInv'
    BY KvInvIsKept
  <2>2. CASE UNCHANGED kvVars
    BY <2>1, <2>2 DEF PartsInv, WillExpire, PlaysTo, Expired, NextOf, kvVars
  <2>3. CASE Call
    BY <2>1, <2>3, CallIsIdle DEF PartsInv
  <2>4. CASE Decoding
    <3>1. CASE \E ss \in SUBSET Seqs, n \in 1 .. MaxBatch :
                  Decode(ss, n) \/ DecodeNoSlot(ss, n)
      BY <2>1, <3>1, DecodeWillExpire, DecodeNoSlotWillExpire
    <3>2. CASE Compute
      BY <2>1, <3>2, ComputeWillExpire
    <3>3. CASE ComputeFails
      BY <2>1, <3>3 DEF ComputeFails, PartsInv
    <3> QED
      BY <2>4, <3>1, <3>2, <3>3 DEF Decoding
  <2> QED
    BY <2>2, <2>3, <2>4 DEF KvNext
<1>3. Inv /\ [KvNext]_kvVars => [Keeps]_kvVars
  <2> SUFFICES ASSUME Inv, KvNext PROVE Keeps
    OBVIOUS
  <2>1. ASSUME Compute, NEW s \in Seqs PROVE PartKeeps(s)
    <3>1. run # Idle
      BY <2>1 DEF Compute
    <3> QED
      BY <2>1, <3>1, NextHasExpired, ComputeKeepsWindow
  <2>2. ASSUME run = Idle, run' # Idle, NEW s \in Seqs PROVE BatchKeeps(s)
    <3>1. ~Call
      BY <2>2, CallIsIdle
    <3>2. ~Compute /\ ~ComputeFails
      BY <2>2 DEF Compute, ComputeFails
    <3>3. PICK ss \in SUBSET Seqs, n \in 1 .. MaxBatch :
              Decode(ss, n) \/ DecodeNoSlot(ss, n)
      BY <3>1, <3>2 DEF KvNext, Decoding
    <3> QED
      BY <2>2, <3>3, DecodeKeepsBatch, DecodeNoSlotKeepsBatch
  <2> QED
    BY <2>1, <2>2
<1>4. KvSpec => [][Keeps]_kvVars
  <2> HIDE DEF Inv, Keeps
  <2> QED
    BY <1>1, <1>2, <1>3, PTL DEF KvSpec
<1> QED
  BY <1>4 DEF DecodeKeepsTheWindow

-----------------------------------------------------------------------------
(* What a defragmentation with room for all its moves leaves.              *)

\* How many there are of two sets without a common element.
LEMMA TwoSets ==
    ASSUME NEW A, NEW B, IsFiniteSet(A), IsFiniteSet(B), A \cap B = {}
    PROVE  /\ IsFiniteSet(A \cup B)
           /\ Cardinality(A) \in Nat /\ Cardinality(B) \in Nat
           /\ Cardinality(A \cup B) = Cardinality(A) + Cardinality(B)
<1>1. /\ IsFiniteSet(A \cup B)
      /\ Cardinality(A \cup B)
            = Cardinality(A) + Cardinality(B) - Cardinality(A \cap B)
  BY FS_Union
<1>2. Cardinality(A \cap B) = 0
  BY FS_EmptySet
<1>3. Cardinality(A) \in Nat /\ Cardinality(B) \in Nat
  BY FS_CardinalityType
<1> QED
  BY <1>1, <1>2, <1>3

\* The numbers below n.
LEMMA Below ==
    ASSUME NEW n \in Nat
    PROVE  IsFiniteSet(0 .. n - 1) /\ Cardinality(0 .. n - 1) = n
<1>1. 0 \in Int /\ n - 1 \in Int
  OBVIOUS
<1>2. /\ IsFiniteSet(0 .. n - 1)
      /\ Cardinality(0 .. n - 1) = IF 0 > n - 1 THEN 0 ELSE n - 1 - 0 + 1
  BY <1>1, FS_Interval
<1> QED
  BY <1>2

\* There are as many used cells as are said to be, and not more than cells.
LEMMA UsedCount ==
    ASSUME NEW c, Sound(c)
    PROVE  /\ c.used \in SUBSET Cells
           /\ c.used = {i \in Cells : c.pos[i] # Empty}
           /\ IsFiniteSet(c.used) /\ Cardinality(c.used) \in Nat
           /\ Cardinality(c.used) <= Size
<1>1. c.used \in SUBSET Cells /\ c.used = {i \in Cells : c.pos[i] # Empty}
  BY SoundFields
<1>2. IsFiniteSet(Cells) /\ Cardinality(Cells) = Size
  BY Below, KvAssumption DEF Cells
<1>3. IsFiniteSet(c.used) /\ Cardinality(c.used) <= Cardinality(Cells)
  BY <1>1, <1>2, FS_Subset
<1> QED
  BY <1>1, <1>2, <1>3, FS_CardinalityType

\* Where there are enough cells to be taken, a hole takes as many as it has
\* room for.
LEMMA TakenFill ==
    ASSUME NEW left \in SUBSET Cells, NEW room \in Nat,
           room <= Cardinality(left)
    PROVE  LET take == {i \in left : Cardinality({j \in left : j >= i})
                                        <= room}
           IN  Cardinality(take) = room
<1> DEFINE Above(i) == {j \in left : j >= i}
           take == {i \in left : Cardinality(Above(i)) <= room}
<1>1. /\ IsFiniteSet(left) /\ IsFiniteSet(take) /\ take \subseteq left
      /\ Cardinality(take) \in Nat /\ Cardinality(take) <= room
  <2>1. IsFiniteSet(take) /\ Cardinality(take) <= room
    BY TakenFit
  <2>2. IsFiniteSet(left) /\ take \subseteq left
    BY CellsFinite
  <2> HIDE DEF take
  <2> QED
    BY <2>1, <2>2, FS_CardinalityType
<1>2. SUFFICES ASSUME Cardinality(take) < room PROVE FALSE
  BY <1>1
<1>3. left \ take # {} /\ left \ take \subseteq 0 .. Size - 1
  <2> HIDE DEF take
  <2>1. left # take
    BY <1>1, <1>2, FS_CardinalityType
  <2> QED
    BY <1>1, <2>1 DEF Cells
<1>4. PICK x \in left \ take : \A y \in left \ take : y <= x
  <2> DEFINE T == left \ take
  <2>1. T # {} /\ T \subseteq 0 .. Size - 1 /\ Size - 1 \in Nat
    BY <1>3, KvAssumption
  <2> HIDE DEF T
  <2>2. Max(T) \in T /\ \A y \in T : y <= Max(T)
    BY <2>1, MaxIsIn
  <2> QED
    BY <2>2 DEF T
<1>5. Above(x) \in SUBSET (take \cup {x})
  <2> SUFFICES ASSUME NEW j \in left, j >= x, j \notin take PROVE j = x
    OBVIOUS
  <2>1. j <= x /\ j \in Int /\ x \in Int
    BY <1>4, KvAssumption DEF Cells
  <2> QED
    BY <2>1
<1>6. /\ IsFiniteSet(take \cup {x})
      /\ Cardinality(take \cup {x}) = Cardinality(take) + 1
  <2>1. x \notin take
    BY <1>4
  <2> HIDE DEF take
  <2> QED
    BY <1>1, <2>1, FS_AddElement
<1>7. Cardinality(Above(x)) \in Nat
      /\ Cardinality(Above(x)) <= Cardinality(take) + 1
  <2>1. IsFiniteSet(Above(x)) /\ Cardinality(Above(x)) <= Cardinality(take) + 1
    <3> HIDE DEF take, Above
    <3> QED
      BY <1>5, <1>6, FS_Subset
  <2> HIDE DEF take, Above
  <2> QED
    BY <2>1, FS_CardinalityType
<1>8. Cardinality(Above(x)) <= room
  <2> HIDE DEF take, Above
  <2> QED
    BY <1>1, <1>2, <1>7
<1> QED
  BY <1>4, <1>8

\* The empty cells that the moves have filled when defrag_prepare comes to the
\* cell k: those of holes that begin before it.
Filled(c, k) ==
    {e \in 0 .. Cardinality(c.used) - 1 :
        \E h \in 0 .. k - 1 : h <= e /\ \A j \in h .. e : c.pos[j] = Empty}

\* A cell is filled that follows the begin of such a hole.
LEMMA IsFilled ==
    ASSUME NEW c, NEW k, NEW e \in 0 .. Cardinality(c.used) - 1,
           NEW h \in 0 .. k - 1, h <= e, \A j \in h .. e : c.pos[j] = Empty
    PROVE  e \in Filled(c, k)
BY DEF Filled

\* The empty cells from i0 on, below the number of used cells.
Hole(c, i0) == {i \in i0 .. Cardinality(c.used) - 1 :
                   \A j \in i0 .. i : c.pos[j] = Empty}

\* A cell where no hole begins.
LEMMA NoHoleIsNext ==
    ASSUME NEW c, Sound(c), NEW k \in 0 .. Cardinality(c.used) - 1,
           k \notin Holes(c)
    PROVE  Filled(c, k + 1) = Filled(c, k)
<1> DEFINE n == Cardinality(c.used)
<1>1. n \in Nat
  BY UsedCount
<1>2. c.pos[k] # Empty \/ (k > 0 /\ c.pos[k - 1] = Empty)
  BY DEF Holes
<1> HIDE DEF n
<1>3. k \in Nat /\ k \in Int /\ k + 1 - 1 = k
  BY <1>1 DEF n
<1>4. ASSUME NEW e \in 0 .. n - 1, NEW h \in 0 .. k + 1 - 1, h <= e,
             \A j \in h .. e : c.pos[j] = Empty
      PROVE  \E g \in 0 .. k - 1 : g <= e
                                   /\ \A j \in g .. e : c.pos[j] = Empty
  <2>1. CASE h # k
    <3>1. h \in 0 .. k - 1
      BY <1>3, <2>1
    <3> QED
      BY <1>4, <3>1
  <2>2. CASE h = k
    <3>1. k \in h .. e
      BY <1>1, <1>3, <1>4, <2>2
    <3>2. k > 0 /\ c.pos[k - 1] = Empty
      BY <1>2, <1>4, <3>1
    <3>3. k - 1 \in 0 .. k - 1 /\ k - 1 <= e
      BY <1>1, <1>3, <1>4, <2>2, <3>2
    <3>4. \A j \in k - 1 .. e : j = k - 1 \/ j \in h .. e
      BY <1>3, <2>2
    <3> QED
      BY <1>4, <3>2, <3>3, <3>4
  <2> QED
    BY <2>1, <2>2
<1>5. \A h \in 0 .. k - 1 : h \in 0 .. k + 1 - 1
  BY <1>3
<1>6. ASSUME NEW e \in Filled(c, k + 1)
      PROVE  e \in Filled(c, k)
  <2>1. PICK h \in 0 .. k + 1 - 1 : /\ h <= e /\ e \in 0 .. n - 1
                                   /\ \A j \in h .. e : c.pos[j] = Empty
    BY <1>6 DEF Filled, n
  <2>2. PICK g \in 0 .. k - 1 : g <= e /\ \A j \in g .. e : c.pos[j] = Empty
    BY <1>4, <2>1
  <2> QED
    BY <2>1, <2>2 DEF Filled, n
<1>7. ASSUME NEW e \in Filled(c, k)
      PROVE  e \in Filled(c, k + 1)
  <2>1. PICK h \in 0 .. k - 1 : /\ h <= e /\ e \in 0 .. n - 1
                               /\ \A j \in h .. e : c.pos[j] = Empty
    BY <1>7 DEF Filled, n
  <2>2. h \in 0 .. k + 1 - 1
    BY <1>5
  <2> QED
    BY <2>1, <2>2 DEF Filled, n
<1> QED
  BY <1>6, <1>7

\* Before a hole all that is empty is filled, and the hole is next.
LEMMA HoleIsNext ==
    ASSUME NEW c, Sound(c), NEW i0 \in Holes(c)
    PROVE  /\ Filled(c, i0) = {e \in 0 .. i0 - 1 : c.pos[e] = Empty}
           /\ Filled(c, i0 + 1) = Filled(c, i0) \cup Hole(c, i0)
           /\ Filled(c, i0) \cap Hole(c, i0) = {}
<1> DEFINE n == Cardinality(c.used)
<1>1. /\ n \in Nat /\ i0 \in 0 .. n - 1 /\ c.pos[i0] = Empty
      /\ (i0 > 0 => c.pos[i0 - 1] # Empty)
  BY UsedCount DEF Holes
<1> HIDE DEF n
<1>2. i0 \in Nat /\ i0 + 1 - 1 = i0
  BY <1>1
<1>3. ASSUME NEW e \in 0 .. n - 1, NEW h \in 0 .. i0 - 1, h <= e,
             \A j \in h .. e : c.pos[j] = Empty
      PROVE  e \in 0 .. i0 - 1 /\ c.pos[e] = Empty
  <2>1. e \in h .. e
    BY <1>1, <1>2, <1>3
  <2>2. SUFFICES ASSUME e >= i0 PROVE FALSE
    BY <1>1, <1>2, <1>3, <2>1
  <2>3. i0 - 1 \in h .. e /\ i0 > 0
    BY <1>1, <1>2, <1>3, <2>2
  <2> QED
    BY <1>1, <1>3, <2>3
<1>4. ASSUME NEW e \in 0 .. i0 - 1, c.pos[e] = Empty
      PROVE  /\ e \in 0 .. n - 1
             /\ \E h \in 0 .. i0 - 1 :
                   h <= e /\ \A j \in h .. e : c.pos[j] = Empty
  <2>1. e \in 0 .. n - 1 /\ e <= e
    BY <1>1, <1>2
  <2>2. \A j \in e .. e : j = e
    BY <1>2
  <2> QED
    BY <1>4, <2>1, <2>2
<1>5. Filled(c, i0) = {e \in 0 .. i0 - 1 : c.pos[e] = Empty}
  BY <1>3, <1>4 DEF Filled, n
<1>6. ASSUME NEW e \in Filled(c, i0 + 1), e \notin Filled(c, i0)
      PROVE  e \in Hole(c, i0)
  <2>1. PICK h \in 0 .. i0 : /\ h <= e /\ e \in 0 .. n - 1
                             /\ \A j \in h .. e : c.pos[j] = Empty
    BY <1>2, <1>6 DEF Filled, n
  <2>2. h = i0
    <3>1. h \notin 0 .. i0 - 1
      BY <1>6, <2>1 DEF Filled, n
    <3> QED
      BY <1>2, <3>1
  <2>3. e \in i0 .. n - 1
    BY <1>1, <1>2, <2>1, <2>2
  <2> QED
    BY <2>1, <2>2, <2>3 DEF Hole, n
<1>7. Filled(c, i0) \subseteq Filled(c, i0 + 1)
  <2>1. ASSUME NEW e \in 0 .. n - 1, NEW h \in 0 .. i0 - 1, h <= e,
               \A j \in h .. e : c.pos[j] = Empty
        PROVE  e \in Filled(c, i0 + 1)
    <3> DEFINE k == i0 + 1
    <3>1. h \in 0 .. k - 1 /\ k = i0 + 1
      BY <1>2
    <3> HIDE DEF k
    <3>2. e \in Filled(c, k)
      BY <2>1, <3>1, IsFilled DEF n
    <3> QED
      BY <3>1, <3>2
  <2> QED
    BY <2>1 DEF Filled, n
<1>8. Hole(c, i0) \subseteq Filled(c, i0 + 1)
  <2> SUFFICES ASSUME NEW e \in Hole(c, i0) PROVE e \in Filled(c, i0 + 1)
    OBVIOUS
  <2>1. e \in i0 .. n - 1 /\ \A j \in i0 .. e : c.pos[j] = Empty
    BY DEF Hole, n
  <2>2. e \in 0 .. n - 1 /\ i0 \in 0 .. i0 + 1 - 1 /\ i0 <= e
    BY <1>1, <1>2, <2>1
  <2>3. \E h \in 0 .. i0 + 1 - 1 : h <= e /\ \A j \in h .. e : c.pos[j] = Empty
    BY <2>1, <2>2
  <2> QED
    BY <2>2, <2>3 DEF Filled, n
<1>9. Filled(c, i0) \cap Hole(c, i0) = {}
  <2> SUFFICES ASSUME NEW e \in Hole(c, i0), e \in Filled(c, i0) PROVE FALSE
    OBVIOUS
  <2>1. e \in i0 .. n - 1 /\ e \in 0 .. i0 - 1
    BY <1>5 DEF Hole, n
  <2> QED
    BY <1>1, <1>2, <2>1
<1> QED
  BY <1>5, <1>6, <1>7, <1>8, <1>9

\* Behind the begin of a hole there are at least as many used cells as there
\* is room, and those that went to earlier holes.
LEMMA RoomBehind ==
    ASSUME NEW c, Sound(c), NEW i0 \in Holes(c)
    PROVE  /\ IsFiniteSet({i \in c.used : i > i0})
           /\ Cardinality(Filled(c, i0)) \in Nat
           /\ Cardinality({i \in c.used : i > i0})
                 = Cardinality(c.used) - i0 + Cardinality(Filled(c, i0))
           /\ IsFiniteSet(Hole(c, i0)) /\ Cardinality(Hole(c, i0)) \in Nat
           /\ Cardinality(Hole(c, i0)) <= Cardinality(c.used) - i0
<1> DEFINE n == Cardinality(c.used)
           Low == {i \in c.used : i < i0}
           High == {i \in c.used : i > i0}
           F == Filled(c, i0)
<1>1. /\ c.used \in SUBSET Cells /\ c.used = {i \in Cells : c.pos[i] # Empty}
      /\ IsFiniteSet(c.used) /\ n \in Nat /\ n <= Size
  BY UsedCount
<1>2. i0 \in 0 .. n - 1 /\ c.pos[i0] = Empty
  BY DEF Holes
<1>3. i0 \in Nat /\ \A i \in Cells : i \in Int
  BY <1>1, <1>2 DEF Cells
<1>4. c.used = Low \cup High /\ Low \cap High = {}
  <2>1. i0 \notin c.used
    BY <1>1, <1>2
  <2> QED
    BY <1>1, <1>3, <2>1
<1>5. 0 .. i0 - 1 = Low \cup F /\ Low \cap F = {}
  <2>1. F = {e \in 0 .. i0 - 1 : c.pos[e] = Empty}
    BY HoleIsNext
  <2>2. Low = {e \in 0 .. i0 - 1 : c.pos[e] # Empty}
    <3>1. \A e : e \in Cells /\ e < i0 <=> e \in 0 .. i0 - 1
      BY <1>1, <1>2, <1>3, KvAssumption DEF Cells
    <3> QED
      BY <1>1, <3>1
  <2> HIDE DEF Low, F
  <2> QED
    BY <2>1, <2>2
<1>6. IsFiniteSet(0 .. i0 - 1) /\ Cardinality(0 .. i0 - 1) = i0
  BY <1>3, Below
<1>7. Low \subseteq c.used /\ High \subseteq c.used
  OBVIOUS
<1> HIDE DEF Low, High, F
<1>8. IsFiniteSet(Low) /\ IsFiniteSet(High) /\ IsFiniteSet(F)
  <2>1. F \subseteq 0 .. i0 - 1
    BY <1>5
  <2> QED
    BY <1>1, <1>6, <1>7, <2>1, FS_Subset
<1>9. /\ Cardinality(Low) \in Nat /\ Cardinality(High) \in Nat
      /\ Cardinality(c.used) = Cardinality(Low) + Cardinality(High)
  BY <1>4, <1>8, TwoSets
<1>10. Cardinality(F) \in Nat /\ i0 = Cardinality(Low) + Cardinality(F)
  BY <1>5, <1>6, <1>8, TwoSets
<1>11. Cardinality(High) = n - i0 + Cardinality(F)
  BY <1>3, <1>9, <1>10
<1>12. IsFiniteSet(i0 .. n - 1) /\ Cardinality(i0 .. n - 1) = n - i0
  <2>1. i0 \in Int /\ n - 1 \in Int
    BY <1>1, <1>3
  <2>2. /\ IsFiniteSet(i0 .. n - 1)
        /\ Cardinality(i0 .. n - 1)
              = IF i0 > n - 1 THEN 0 ELSE n - 1 - i0 + 1
    BY <2>1, FS_Interval
  <2> QED
    BY <1>1, <1>2, <2>2
<1>13. /\ IsFiniteSet(Hole(c, i0)) /\ Cardinality(Hole(c, i0)) <= n - i0
       /\ Cardinality(Hole(c, i0)) \in Nat
  <2>1. Hole(c, i0) \in SUBSET (i0 .. n - 1)
    BY DEF Hole
  <2> QED
    BY <1>12, <2>1, FS_Subset, FS_CardinalityType
<1> QED
  BY <1>8, <1>10, <1>11, <1>13 DEF High, F

\* The cells that move.
MovedBy(ids) == {i \in Cells : ids[i] # Size}

\* Where there is room for all the moves, defrag_prepare has moved the last
\* used cells, as many as it has filled.
Closing(c, acc, k) ==
    /\ Planned(c, acc.ids, k)
    /\ acc.moves \in Nat /\ acc.moves <= Cardinality(MovedBy(acc.ids))
    /\ Cardinality(MovedBy(acc.ids)) = Cardinality(Filled(c, k))
    /\ \A i \in MovedBy(acc.ids) :
          /\ acc.ids[i] < Cardinality(c.used)
          /\ \A j \in c.used : j > i => j \in MovedBy(acc.ids)

\* A hole is filled, all of it.
LEMMA FillHoleCloses ==
    ASSUME NEW c, Sound(c), MaxMoves >= Size, NEW acc, NEW i0 \in Holes(c),
           Closing(c, acc, i0)
    PROVE  Closing(c, FillHole(c, acc, i0), i0 + 1)
<1> DEFINE n == Cardinality(c.used)
           hole == Hole(c, i0)
           high == {i \in c.used : i > i0}
           left == {i \in c.used : i > i0 /\ acc.ids[i] = Size}
           take == {i \in left : Cardinality({j \in left : j >= i})
                                    <= Cardinality(hole)}
           Block(i) == Cardinality({j \in take : j <= i /\ j - 1 \notin take})
           moved == {i \in take : Block(i) <= MaxMoves - acc.moves}
           rank(i) == Cardinality({j \in take : j < i})
           new == FillHole(c, acc, i0)
           blocks == {0} \cup {Block(i) : i \in moved}
           M == MovedBy(acc.ids)
<1>1. /\ new.ids = [i \in Cells |-> IF i \in moved THEN i0 + rank(i)
                                                   ELSE acc.ids[i]]
      /\ new.moves = acc.moves + Max(blocks)
  BY DEF FillHole, Hole
<1>2. /\ c.used \in SUBSET Cells /\ IsFiniteSet(c.used)
      /\ n \in Nat /\ n <= Size
  BY UsedCount
<1>3. Planned(c, new.ids, i0 + 1)
  BY FillHolePlans DEF Closing
<1>4. /\ IsFiniteSet(high) /\ Cardinality(Filled(c, i0)) \in Nat
      /\ Cardinality(high) = n - i0 + Cardinality(Filled(c, i0))
      /\ IsFiniteSet(hole) /\ Cardinality(hole) \in Nat
      /\ Cardinality(hole) <= n - i0
  BY RoomBehind
<1>5. i0 \in 0 .. n - 1 /\ i0 \in Nat
  BY <1>2 DEF Holes
<1>6. /\ M \in SUBSET c.used /\ IsFiniteSet(M)
      /\ Cardinality(M) = Cardinality(Filled(c, i0))
      /\ acc.moves \in Nat /\ acc.moves <= Cardinality(M)
  <2>1. M \in SUBSET c.used
    BY DEF Closing, Planned, MovedBy
  <2>2. IsFiniteSet(M)
    BY <1>2, <2>1, FS_Subset
  <2> QED
    BY <2>1, <2>2 DEF Closing
<1>7. left = high \ M /\ left \in SUBSET Cells
  BY <1>2 DEF MovedBy
<1>8. Cardinality(left) \in Nat /\ Cardinality(hole) <= Cardinality(left)
  <2> HIDE DEF n, hole, high, left, M
  <2>1. /\ IsFiniteSet(left) /\ IsFiniteSet(high \cap M)
        /\ high = left \cup (high \cap M) /\ left \cap (high \cap M) = {}
    BY <1>4, <1>6, <1>7, FS_Subset
  <2>2. /\ Cardinality(left) \in Nat /\ Cardinality(high \cap M) \in Nat
        /\ Cardinality(high) = Cardinality(left) + Cardinality(high \cap M)
    BY <2>1, TwoSets
  <2>3. Cardinality(high \cap M) <= Cardinality(M)
    BY <1>6, FS_Subset
  <2> QED
    BY <1>2, <1>4, <1>5, <1>6, <2>2, <2>3
<1>9. /\ Cardinality(take) = Cardinality(hole) /\ IsFiniteSet(take)
  <2>1. Cardinality(take) = Cardinality(hole)
    <3> HIDE DEF hole, left
    <3> QED
      BY <1>4, <1>7, <1>8, TakenFill
  <2> QED
    BY <1>7, <2>1, CellsFinite
<1>10. take \in SUBSET c.used /\ take \cap M = {} /\ take \in SUBSET Int
       /\ \A i \in take : i > i0
  BY <1>2, KvAssumption DEF MovedBy, Cells
<1>11. \A i \in take : /\ rank(i) \in 0 .. Cardinality(take) - 1
  <2> HIDE DEF take
  <2> QED
    BY <1>9, <1>10, Ranks
<1>12. \A i \in take : Block(i) \in Nat /\ Block(i) <= Cardinality(take)
  <2> SUFFICES ASSUME NEW i \in take
               PROVE  Block(i) \in Nat /\ Block(i) <= Cardinality(take)
    OBVIOUS
  <2>1. {j \in take : j <= i /\ j - 1 \notin take} \in SUBSET take
    OBVIOUS
  <2> HIDE DEF take
  <2> QED
    BY <1>9, <2>1, FS_Subset, FS_CardinalityType
<1>13. /\ Cardinality(take) \in Nat /\ Cardinality(M) \in Nat
       /\ IsFiniteSet(M \cup take)
       /\ Cardinality(M \cup take) = Cardinality(M) + Cardinality(take)
       /\ Cardinality(M \cup take) <= n
  <2> HIDE DEF take, M
  <2>1. M \cup take \in SUBSET c.used
    BY <1>6, <1>10
  <2>2. Cardinality(M \cup take) <= n
    BY <1>2, <2>1, FS_Subset
  <2> QED
    BY <1>6, <1>9, <1>10, <2>2, TwoSets
<1>14. moved = take
  <2> HIDE DEF Block, take, M, n
  <2>1. \A i \in take : Block(i) <= MaxMoves - acc.moves
    BY <1>2, <1>6, <1>12, <1>13, KvAssumption
  <2> QED
    BY <2>1
<1>15. Max(blocks) \in 0 .. Cardinality(take)
  <2>1. blocks \subseteq 0 .. Cardinality(take)
    <3> HIDE DEF Block, take
    <3> QED
      BY <1>12, <1>13, <1>14
  <2>2. blocks # {}
    OBVIOUS
  <2> HIDE DEF blocks, take
  <2> QED
    BY <1>13, <2>1, <2>2, MaxIsIn
<1> HIDE DEF moved, blocks, Block, new, rank
<1>16. \A i \in take : new.ids[i] = i0 + rank(i) /\ new.ids[i] < n
  <2> SUFFICES ASSUME NEW i \in take
               PROVE  new.ids[i] = i0 + rank(i) /\ new.ids[i] < n
    OBVIOUS
  <2>1. new.ids[i] = i0 + rank(i)
    BY <1>1, <1>2, <1>10, <1>14
  <2>2. rank(i) \in 0 .. Cardinality(take) - 1
    BY <1>11
  <2> HIDE DEF take, n, hole
  <2> QED
    BY <1>2, <1>4, <1>5, <1>9, <2>1, <2>2
<1>17. \A i \in Cells \ take : new.ids[i] = acc.ids[i]
  BY <1>1, <1>14
<1>18. MovedBy(new.ids) = M \cup take
  <2>1. \A i \in take : i \in Cells /\ new.ids[i] # Size
    BY <1>2, <1>4, <1>5, <1>10, <1>11, <1>16, KvAssumption
  <2> HIDE DEF take, n
  <2> QED
    BY <1>17, <2>1 DEF MovedBy
<1>19. Cardinality(Filled(c, i0 + 1)) = Cardinality(M) + Cardinality(take)
  <2> DEFINE f == Filled(c, i0)
             g == Filled(c, i0 + 1)
  <2>1. g = f \cup hole /\ f \cap hole = {}
    BY HoleIsNext
  <2>2. IsFiniteSet(f)
    <3>1. f \in SUBSET (0 .. n - 1) /\ IsFiniteSet(0 .. n - 1)
      BY <1>2, Below DEF Filled
    <3> HIDE DEF f
    <3> QED
      BY <3>1, FS_Subset
  <2> HIDE DEF f, g, hole, take, M
  <2>3. Cardinality(g) = Cardinality(f) + Cardinality(hole)
    BY <1>4, <2>1, <2>2, TwoSets
  <2>4. Cardinality(f) = Cardinality(M)
    BY <1>6 DEF f
  <2> QED
    BY <1>9, <2>3, <2>4 DEF g
<1>20. ASSUME NEW i \in M \cup take
       PROVE  /\ new.ids[i] < n
              /\ \A j \in c.used : j > i => j \in M \cup take
  <2>1. CASE i \in take
    <3> SUFFICES ASSUME NEW j \in c.used, j > i, j \notin M
                 PROVE  j \in take
      BY <1>16, <2>1
    <3>1. /\ i \in Int /\ j \in Int /\ i0 \in Int /\ i > i0 /\ j > i0
          /\ i \in left
      BY <1>2, <1>5, <1>10, <2>1, KvAssumption DEF Cells
    <3>2. j \in left
      BY <1>7, <3>1
    <3>3. /\ {m \in left : m >= j} \in SUBSET {m \in left : m >= i}
          /\ {m \in left : m >= i} \in SUBSET Cells
          /\ Cardinality({m \in left : m >= i}) <= Cardinality(hole)
      <4>1. \A m \in left : m \in Int
        BY <1>7, KvAssumption DEF Cells
      <4>2. \A m \in left : m >= j => m >= i
        BY <3>1, <4>1
      <4> QED
        BY <1>7, <2>1, <4>2
    <3>4. Cardinality({m \in left : m >= j})
             <= Cardinality({m \in left : m >= i})
          /\ Cardinality({m \in left : m >= j}) \in Nat
          /\ Cardinality({m \in left : m >= i}) \in Nat
      <4> DEFINE p == {m \in left : m >= j}
                 q == {m \in left : m >= i}
      <4>1. p \in SUBSET q /\ q \in SUBSET Cells
        BY <3>3
      <4> HIDE DEF p, q
      <4>2. IsFiniteSet(q) /\ IsFiniteSet(p)
        BY <4>1, CellsFinite
      <4>3. /\ Cardinality(p) <= Cardinality(q)
            /\ Cardinality(p) \in Nat /\ Cardinality(q) \in Nat
        BY <4>1, <4>2, FS_Subset, FS_CardinalityType
      <4> QED
        BY <4>3 DEF p, q
    <3>5. Cardinality({m \in left : m >= j}) <= Cardinality(hole)
      <4> HIDE DEF left, hole
      <4> QED
        BY <1>4, <3>3, <3>4
    <3> QED
      BY <3>2, <3>5
  <2>2. CASE i \in M /\ i \notin take
    <3>1. i \in Cells \ take
      BY <1>2, <1>6, <2>2
    <3>2. new.ids[i] = acc.ids[i]
      BY <1>17, <3>1
    <3>3. acc.ids[i] < n /\ \A j \in c.used : j > i => j \in M
      BY <2>2 DEF Closing
    <3> QED
      BY <3>2, <3>3
  <2> QED
    BY <2>1, <2>2
<1>21. new.moves \in Nat /\ new.moves <= Cardinality(M \cup take)
  <2> HIDE DEF take, M
  <2> QED
    BY <1>1, <1>6, <1>13, <1>15
<1> QED
  <2> HIDE DEF take, M
  <2> QED
    BY <1>3, <1>13, <1>18, <1>19, <1>20, <1>21 DEF Closing, new

\* defrag_prepare, with room for all the moves
LEMMA DefragPrepareCloses ==
    ASSUME NEW c, Sound(c), MaxMoves >= Size
    PROVE  \E acc : /\ Closing(c, acc, Cardinality(c.used))
                    /\ DefragPrepare(c) = acc.ids
<1> DEFINE n == Cardinality(c.used)
           f == CHOOSE f : Plans(f, n, c)
<1>1. n \in Nat
  BY UsedCount
<1>2. DefragPrepare(c) = f[n].ids
  BY DEF DefragPrepare, Plans
<1>n. n = Cardinality(c.used)
  OBVIOUS
<1> HIDE DEF n
<1>3. Plans(f, n, c)
  BY <1>1, PlansExist
<1> HIDE DEF f
<1>4. /\ f[0] = [ids |-> [i \in Cells |-> Size], moves |-> 0]
      /\ \A k \in 1 .. n :
            f[k] = IF k - 1 \in Holes(c) THEN FillHole(c, f[k - 1], k - 1)
                   ELSE f[k - 1]
  BY <1>1, <1>3 DEF Plans
<1> DEFINE P == {k \in Nat : Closing(c, f[k], k)}
<1>5. 0 \in P
  <2>1. f[0].ids = [i \in Cells |-> Size] /\ f[0].moves = 0
    BY <1>4
  <2>2. MovedBy(f[0].ids) = {} /\ Filled(c, 0) = {}
    BY <2>1 DEF MovedBy, Filled
  <2>3. Planned(c, f[0].ids, 0)
    BY <2>1 DEF Planned
  <2> QED
    BY <2>1, <2>2, <2>3, FS_EmptySet DEF Closing
<1>6. ASSUME NEW k \in 1 .. n, k - 1 \in P
      PROVE  k \in P
  <2> DEFINE j == k - 1
  <2>1. /\ Closing(c, f[j], j) /\ j + 1 = k /\ j \in 0 .. n - 1
        /\ k \in Nat /\ j \in Nat
    BY <1>1, <1>6
  <2>2. f[k] = IF j \in Holes(c) THEN FillHole(c, f[j], j) ELSE f[j]
    BY <1>4
  <2> HIDE DEF j, P
  <2>3. CASE j \in Holes(c)
    <3>1. Closing(c, FillHole(c, f[j], j), j + 1)
      BY <2>1, <2>3, FillHoleCloses
    <3> QED
      BY <2>1, <2>2, <2>3, <3>1 DEF P
  <2>4. CASE j \notin Holes(c)
    <3>1. Filled(c, j + 1) = Filled(c, j)
      BY <1>n, <2>1, <2>4, NoHoleIsNext
    <3>2. Planned(c, f[j].ids, k)
      <4>1. \A h \in 0 .. j - 1 : h \in 0 .. k - 1
        BY <2>1
      <4>2. Planned(c, f[j].ids, j)
        BY <2>1 DEF Closing
      <4> QED
        BY <4>1, <4>2 DEF Planned
    <3>3. Closing(c, f[j], k)
      BY <2>1, <3>1, <3>2 DEF Closing
    <3> QED
      BY <2>1, <2>2, <2>4, <3>3 DEF P
  <2> QED
    BY <2>3, <2>4
<1> HIDE DEF P
<1>7. n \in P
  BY <1>1, <1>5, <1>6, Upward
<1> QED
  BY <1>2, <1>7 DEF P, n

\* The moves make no cell and lose none.
LEMMA DefraggedCount ==
    ASSUME NEW c, Sound(c), NEW ids, Movable(c, ids)
    PROVE  Cardinality(Defragged(c, ids).used) = Cardinality(c.used)
<1> DEFINE d == Defragged(c, ids).used
           u == c.used
           g == [i \in u |-> IF ids[i] # Size THEN ids[i] ELSE i]
<1>1. d = {i \in Cells : \/ i \in u /\ ids[i] = Size
                         \/ \E j \in Cells : ids[j] = i}
  BY DEF Defragged, Sound, CellStates
<1>2. /\ u \in SUBSET Cells /\ u = {i \in Cells : c.pos[i] # Empty}
      /\ IsFiniteSet(u)
  BY UsedCount
<1>3. /\ Size \notin Cells
      /\ \A i \in Cells : ids[i] # Size => /\ ids[i] \in Cells
                                           /\ i \in u /\ ids[i] \notin u
      /\ \A i, j \in Cells : i # j /\ ids[i] # Size => ids[i] # ids[j]
  BY <1>2, KvAssumption DEF Movable, Cells
<1> HIDE DEF d, u
<1>4. g \in [u -> d]
  BY <1>1, <1>2, <1>3
<1>5. \A i, j \in u : g[i] = g[j] => i = j
  BY <1>2, <1>3
<1>6. \A x \in d : \E i \in u : g[i] = x
  <2> SUFFICES ASSUME NEW x \in d PROVE \E i \in u : g[i] = x
    OBVIOUS
  <2>1. CASE x \in u /\ ids[x] = Size
    BY <2>1
  <2>2. CASE \E j \in Cells : ids[j] = x
    <3>1. PICK j \in Cells : ids[j] = x
      BY <2>2
    <3>2. x \in Cells /\ ids[j] # Size /\ j \in u
      BY <1>1, <1>3, <3>1
    <3> QED
      BY <3>1, <3>2
  <2> QED
    BY <1>1, <2>1, <2>2
<1> HIDE DEF g
<1>7. g \in Bijection(u, d)
  BY <1>4, <1>5, <1>6 DEF Bijection, Injection, IsInjective, Surjection
<1>8. ExistsBijection(u, d)
  BY <1>7 DEF ExistsBijection
<1> QED
  BY <1>2, <1>8, FS_Bijection DEF d, u

\* What is used is then in front of what is not.
LEMMA DefragCloses ==
    ASSUME NEW c, Sound(c), MaxMoves >= Size
    PROVE  Defragged(c, DefragPrepare(c)).used = 0 .. Cardinality(c.used) - 1
<1> DEFINE n == Cardinality(c.used)
           ids == DefragPrepare(c)
           M == MovedBy(ids)
           F == Filled(c, n)
           d == Defragged(c, ids)
           Low == {i \in c.used : i < n}
           High == {i \in c.used : i >= n}
<1>1. /\ c.used \in SUBSET Cells /\ c.used = {i \in Cells : c.pos[i] # Empty}
      /\ IsFiniteSet(c.used) /\ n \in Nat /\ n <= Size
      /\ \A i \in Cells : i \in Nat
  BY UsedCount DEF Cells
<1>2. /\ Planned(c, ids, n) /\ Cardinality(M) = Cardinality(F)
      /\ \A i \in M : /\ ids[i] < n
                      /\ \A j \in c.used : j > i => j \in M
  <2>1. PICK acc : Closing(c, acc, n) /\ ids = acc.ids
    BY DefragPrepareCloses
  <2> HIDE DEF n, ids
  <2> QED
    BY <2>1 DEF Closing, n
<1>3. M \in SUBSET c.used
  BY <1>2 DEF Planned, MovedBy
<1>4. c.used = Low \cup High /\ Low \cap High = {}
  BY <1>1
<1>5. 0 .. n - 1 = Low \cup F /\ Low \cap F = {}
  <2>1. ASSUME NEW e \in 0 .. n - 1, c.pos[e] = Empty
        PROVE  e \in F
    <3>1. e \in 0 .. n - 1 /\ e <= e /\ \A j \in e .. e : c.pos[j] = Empty
      BY <1>1, <2>1
    <3> QED
      BY <3>1, IsFilled
  <2>2. ASSUME NEW e \in F
        PROVE  e \in 0 .. n - 1 /\ c.pos[e] = Empty
    <3>1. PICK h \in 0 .. n - 1 : /\ h <= e /\ e \in 0 .. n - 1
                                  /\ \A j \in h .. e : c.pos[j] = Empty
      BY DEF Filled
    <3>2. e \in h .. e
      BY <1>1, <3>1
    <3> QED
      BY <3>1, <3>2
  <2>3. \A e : e \in Low <=> e \in 0 .. n - 1 /\ c.pos[e] # Empty
    <3>1. \A e : e \in Cells /\ e < n <=> e \in 0 .. n - 1
      BY <1>1, KvAssumption DEF Cells
    <3> QED
      BY <1>1, <3>1
  <2> HIDE DEF F, Low, n
  <2> QED
    BY <2>1, <2>2, <2>3
<1>6. /\ Cardinality(High) = Cardinality(M) /\ IsFiniteSet(High)
      /\ IsFiniteSet(M) /\ Cardinality(M) \in Nat
  <2>1. IsFiniteSet(0 .. n - 1) /\ Cardinality(0 .. n - 1) = n
    BY <1>1, Below
  <2>2. /\ Low \subseteq c.used /\ High \subseteq c.used
    OBVIOUS
  <2>n. n = Cardinality(c.used)
    OBVIOUS
  <2> HIDE DEF Low, High, F, M, n
  <2>3. /\ IsFiniteSet(Low) /\ IsFiniteSet(High) /\ IsFiniteSet(M)
    BY <1>1, <1>3, <2>2, FS_Subset
  <2>4. IsFiniteSet(F)
    <3>1. F \in SUBSET (0 .. n - 1)
      BY <1>5
    <3> QED
      BY <2>1, <3>1, FS_Subset
  <2>5. /\ Cardinality(Low) \in Nat /\ Cardinality(High) \in Nat
        /\ n = Cardinality(Low) + Cardinality(High)
    BY <1>4, <2>3, <2>n, TwoSets
  <2>6. /\ Cardinality(F) \in Nat /\ n = Cardinality(Low) + Cardinality(F)
    BY <1>5, <2>1, <2>3, <2>4, TwoSets
  <2> QED
    BY <1>2, <2>3, <2>5, <2>6
\* A cell behind that did not move would be one more than have moved.
<1>7. ASSUME NEW x \in c.used, ids[x] = Size
      PROVE  x < n
  <2>1. SUFFICES ASSUME x >= n PROVE FALSE
    BY <1>1
  <2>2. x \notin M /\ x \in High
    BY <1>7, <2>1 DEF MovedBy
  <2>3. M \subseteq High
    <3> SUFFICES ASSUME NEW i \in M, i < n PROVE FALSE
      BY <1>1, <1>3
    <3>1. x > i
      BY <1>1, <1>3, <2>1
    <3> QED
      BY <1>2, <2>2, <3>1
  <2> HIDE DEF M, High
  <2>4. M = High
    BY <1>6, <2>3, FS_Subset
  <2> QED
    BY <2>2, <2>4
<1>8. d.used \subseteq 0 .. n - 1
  <2>1. d.used = {i \in Cells : \/ i \in c.used /\ ids[i] = Size
                                \/ \E j \in Cells : ids[j] = i}
    BY DEF Defragged, Sound, CellStates
  <2> HIDE DEF d, ids
  <2>0. d.used \subseteq Cells /\ \A i \in Cells : i < n => i \in 0 .. n - 1
    <3>1. d.used \subseteq Cells
      BY <2>1
    <3> HIDE DEF n
    <3>2. \A i \in Cells : i < n => i \in 0 .. n - 1
      BY <1>1
    <3> QED
      BY <3>1, <3>2
  <2> SUFFICES ASSUME NEW i \in d.used PROVE i < n
    BY <2>0
  <2>2. CASE i \in c.used /\ ids[i] = Size
    BY <1>7, <2>2
  <2>3. CASE \E j \in Cells : ids[j] = i
    <3>1. PICK j \in Cells : ids[j] = i
      BY <2>3
    <3>2. i \in Cells /\ i # Size
      BY <1>1, <2>0, KvAssumption DEF Cells
    <3>3. j \in M
      BY <3>1, <3>2 DEF MovedBy
    <3> QED
      BY <1>2, <3>1, <3>3
  <2> QED
    BY <2>1, <2>2, <2>3
<1>9. Cardinality(d.used) = n
  <2>1. Movable(c, ids)
    BY DefragPrepareIsMovable
  <2> HIDE DEF ids
  <2> QED
    BY <2>1, DefraggedCount
<1>10. IsFiniteSet(0 .. n - 1) /\ Cardinality(0 .. n - 1) = n
  BY <1>1, Below
<1> HIDE DEF d, n
<1>11. d.used = 0 .. n - 1
  BY <1>8, <1>9, <1>10, FS_Subset
<1> QED
  BY <1>11 DEF d, n

\* find_slot finds a slot where there is one.
LEMMA FindSlotFinds ==
    ASSUME NEW c, NEW h0, NEW n, FindSlot(c, h0, n) < 0
    PROVE  Free(c, n) = {}
<1>1. Free(c, n) \subseteq Nat
  BY DEF Free
<1> SUFFICES ASSUME Free(c, n) # {} PROVE FALSE
  OBVIOUS
<1>2. FindSlot(c, h0, n) = Min(IF Ahead(c, h0, n) = {} THEN Free(c, n)
                               ELSE Ahead(c, h0, n))
  BY DEF FindSlot
<1>3. Ahead(c, h0, n) \subseteq Nat
  BY <1>1 DEF Ahead
<1>4. FindSlot(c, h0, n) \in Nat
  <2>1. CASE Ahead(c, h0, n) = {}
    BY <1>1, <1>2, <2>1, MinIsIn
  <2>2. CASE Ahead(c, h0, n) # {}
    BY <1>2, <1>3, <2>2, MinIsIn
  <2> QED
    BY <2>1, <2>2
<1> QED
  BY <1>4

\* split_simple, of a batch that is one part
LEMMA OnePart ==
    ASSUME NEW first \in Nat, NEW n \in 1 .. UBatch
    PROVE  Len(Parts(first, n)) = 1 /\ Parts(first, n)[1].n = n
<1> DEFINE m == (n + UBatch - 1) \div UBatch
<1>1. UBatch \in Nat /\ UBatch > 0 /\ n \in Nat
  BY KvAssumption
<1>2. /\ m \in Nat /\ m * UBatch <= n + UBatch - 1
      /\ n + UBatch - 1 < (m + 1) * UBatch
  BY <1>1
<1> HIDE DEF m
<1>3. m = 1
  <2>1. m # 0
    BY <1>1, <1>2
  <2>2. SUFFICES ASSUME m >= 2 PROVE FALSE
    BY <1>2, <2>1
  <2>3. 2 * UBatch <= m * UBatch
    BY <1>1, <1>2, <2>2
  <2> QED
    BY <1>1, <1>2, <2>3
<1>4. Min({UBatch, n - (1 - 1) * UBatch}) = n
  <2>1. n - (1 - 1) * UBatch = n
    BY <1>1
  <2>2. {UBatch, n} \subseteq Nat
    BY <1>1
  <2>3. Min({UBatch, n}) \in {UBatch, n} /\ Min({UBatch, n}) <= n
    BY <2>2, MinIsIn
  <2>4. Min({UBatch, n}) = n
    BY <1>1, <2>3
  <2> QED
    BY <2>1, <2>4
<1>5. Parts(first, n) = [k \in 1 .. 1 |->
                           [first |-> first + (k - 1) * UBatch,
                            n |-> Min({UBatch, n - (k - 1) * UBatch})]]
  BY <1>3 DEF Parts, m
<1>6. Len(Parts(first, n)) = 1
  BY <1>5
<1>7. Parts(first, n)[1].n = Min({UBatch, n - (1 - 1) * UBatch})
  BY <1>5
<1> QED
  BY <1>4, <1>6, <1>7

\* prepare: a batch of one part that does not fit leaves everything as it is,
\* and there was no slot.
LEMMA OnePartDoesNotFit ==
    ASSUME NEW c, NEW h, NEW first \in Nat, NEW n \in 1 .. UBatch, NEW ss,
           ~Prepare(c, h, Parts(first, n), ss).fits
    PROVE  Free(c, n) = {} /\ Prepare(c, h, Parts(first, n), ss).cells = c
<1> DEFINE parts == Parts(first, n)
           f == CHOOSE f : Rehearses(f, 1, c, h, parts, ss)
           none == [cells |-> c, head |-> h, fits |-> TRUE,
                    slots |-> <<>>, old |-> <<>>]
           x == FindSlot(c, h, n)
           r == Rehearse(c, h, parts, ss)
           g == CHOOSE g : Undoes(g, r, 0)
<1>1. Len(parts) = 1 /\ parts[1].n = n
  BY OnePart
<1> HIDE DEF parts
<1>2. r = f[1]
  BY <1>1 DEF Rehearse, Rehearses
<1>3. Rehearses(f, 1, c, h, parts, ss)
  BY RehearsesExist
<1> HIDE DEF f
<1>4. f[0] = none /\ f[1] = UsePart(f[0], parts[1], ss)
  <2>1. f = [k \in 0 .. 1 |-> IF k = 0 THEN none
                             ELSE UsePart(f[k - 1], parts[k], ss)]
    BY <1>3 DEF Rehearses
  <2> HIDE DEF none
  <2>2. f[0] = none
    BY <2>1
  <2>3. f[1] = UsePart(f[1 - 1], parts[1], ss)
    BY <2>1
  <2> QED
    BY <2>2, <2>3
<1>5. r = UseCellsAt(none, parts[1], ss, x)
  <2>1. none.fits /\ none.cells = c /\ none.head = h
    OBVIOUS
  <2> HIDE DEF none, r
  <2> QED
    BY <1>1, <1>2, <1>4, <2>1 DEF UsePart
<1>6. Prepare(c, h, parts, ss) = Undone(r)
  BY DEF Prepare
<1> HIDE DEF r
<1>7. Undone(r).fits = r.fits
  BY DEF Undone
<1>8. x < 0
  <2> SUFFICES ASSUME ~(x < 0) PROVE FALSE
    OBVIOUS
  <2>1. r.fits
    BY <1>5 DEF UseCellsAt, UseSlot
  <2> QED
    BY <1>6, <1>7, <2>1 DEF parts
<1>9. r = [none EXCEPT !.fits = FALSE]
  BY <1>5, <1>8 DEF UseCellsAt
<1>10. r.cells = c /\ r.slots = <<>> /\ Len(r.slots) = 0
  BY <1>9
<1>11. Undone(r).cells = g[0]
  BY <1>10 DEF Undone, Undoes
<1>12. Undoes(g, r, 0)
  BY UndoesExist
<1> HIDE DEF g
<1>13. g[0] = c
  BY <1>10, <1>12 DEF Undoes
<1>14. Free(c, n) = {}
  BY <1>8, FindSlotFinds
<1> QED
  BY <1>6, <1>11, <1>13, <1>14 DEF parts

\* Where what is used is in front, what is not is one slot.
LEMMA FullWhenClosed ==
    ASSUME NEW c, Sound(c), c.used = 0 .. Cardinality(c.used) - 1,
           NEW n \in Nat \ {0}, Free(c, n) = {}
    PROVE  Size - Cardinality(c.used) < n
<1> DEFINE k == Cardinality(c.used)
<1>1. /\ k \in Nat /\ k <= Size /\ c.used = 0 .. k - 1
      /\ c.used = {i \in Cells : c.pos[i] # Empty}
  BY UsedCount
<1> HIDE DEF k
<1>2. SUFFICES ASSUME Size - k >= n PROVE FALSE
  BY <1>1, KvAssumption DEF k
<1>3. k \in 0 .. Size - n
  BY <1>1, <1>2, KvAssumption
<1>4. \A i \in k .. k + n - 1 : Usable(c, i)
  <2> SUFFICES ASSUME NEW i \in k .. k + n - 1 PROVE c.pos[i] = Empty
    BY DEF Usable
  <2>1. i \in Cells /\ i \notin 0 .. k - 1
    BY <1>1, <1>2, KvAssumption DEF Cells
  <2> QED
    BY <1>1, <2>1
<1>5. k \in Free(c, n)
  BY <1>3, <1>4 DEF Free
<1> QED
  BY <1>5

\* decode, of a batch that is refused
LEMMA DecodeRefuses ==
    ASSUME KvInv, MaxMoves >= Size, NEW ss \in SUBSET Seqs,
           NEW n \in 1 .. UBatch, DecodeNoSlot(ss, n), run' = Idle
    PROVE  Size - Cardinality(cells'.used) < n
<1> DEFINE b == Shifted(cells)
           there == Prepare(b, head, Batch(ss, n), ss)
           ids == DefragPrepare(there.cells)
           c == Defragged(there.cells, ids)
           again == Prepare(c, 0, Batch(ss, n), ss)
           moves == \E i \in Cells : ids[i] # Size
<1>1. /\ Fresh(ss, n) /\ ~there.fits
      /\ cells' = IF moves THEN again.cells ELSE there.cells
      /\ run' = IF moves /\ again.fits
                THEN [seqs |-> ss, slots |-> again.slots] ELSE Idle
  BY DEF DecodeNoSlot
<1>2. n \in Nat \ {0} /\ ss # {} /\ Sound(cells)
  BY <1>1, KvAssumption DEF KvInv, Fresh
<1>3. PICK first \in Nat : /\ first + n - 1 <= MaxPos
                           /\ Batch(ss, n) = Parts(first, n)
  BY <1>1, <1>2, FreshBatch
<1>4. Sound(b)
  BY <1>2, ShiftedIsSound
<1>5. Free(b, n) = {} /\ there.cells = b
  <2> HIDE DEF b
  <2> QED
    BY <1>1, <1>3, OnePartDoesNotFit
<1> HIDE DEF b, there
<1>6. /\ c = Defragged(b, ids) /\ ids = DefragPrepare(b)
      /\ Movable(b, ids) /\ Sound(c)
  BY <1>4, <1>5, DefragPrepareIsMovable, DefraggedIsSound
<1>7. c.used = 0 .. Cardinality(b.used) - 1
      /\ Cardinality(c.used) = Cardinality(b.used)
  BY <1>4, <1>6, DefragCloses, DefraggedCount
<1>8. CASE moves
  <2>1. ~again.fits
    <3>1. [seqs |-> ss, slots |-> again.slots] # Idle
      BY <1>2 DEF Idle
    <3> QED
      BY <1>1, <1>8, <3>1
  <2> HIDE DEF c, ids, moves
  <2>2. Free(c, n) = {} /\ again.cells = c
    BY <1>3, <2>1, OnePartDoesNotFit
  <2>3. Size - Cardinality(c.used) < n
    BY <1>2, <1>6, <1>7, <2>2, FullWhenClosed
  <2> QED
    BY <1>1, <1>8, <2>2, <2>3
<1>9. CASE ~moves
  <2>1. c.used = b.used
    <3>1. c.used = {i \in Cells : \/ i \in b.used /\ ids[i] = Size
                                  \/ \E j \in Cells : ids[j] = i}
      BY <1>4, <1>6 DEF Defragged, Sound, CellStates
    <3>2. \A i \in Cells : ids[i] = Size /\ i # Size
      BY <1>9, KvAssumption DEF Cells
    <3>3. b.used \subseteq Cells
      BY <1>4, SoundFields
    <3> HIDE DEF c, ids
    <3> QED
      BY <3>1, <3>2, <3>3
  <2>2. b.used = 0 .. Cardinality(b.used) - 1
    <3> HIDE DEF c, ids
    <3> QED
      BY <1>7, <2>1
  <2>3. Size - Cardinality(b.used) < n
    BY <1>2, <1>4, <1>5, <2>2, FullWhenClosed
  <2> QED
    BY <1>1, <1>5, <1>9, <2>3
<1> QED
  BY <1>8, <1>9

\* Where the graph of a defragmentation has room for a move of every cell, a
\* batch of one part is refused only when fewer cells are free than it has
\* tokens, whatever calls and batches there were before, in a program that
\* never gives a sequence a cell that it has.
THEOREM OnlyAFullCacheRefuses == Apart => (KvSpec => RefusedWhenFull)
<1> SUFFICES ASSUME Apart PROVE KvSpec => RefusedWhenFull
  OBVIOUS
<1> DEFINE Full == run = Idle /\ run' = Idle /\ calls' = calls
                   /\ MaxMoves >= Size =>
                      \A ss \in SUBSET Seqs, n \in 1 .. UBatch :
                          DecodeNoSlot(ss, n) =>
                              Size - Cardinality(cells'.used) < n
<1>1. KvInit => KvInv
  BY KvInvAtFirst
<1>2. KvInv /\ [KvNext]_kvVars => KvInv'
  BY KvInvIsKept
<1>3. KvInv => Full
  BY DecodeRefuses
<1>4. KvSpec => [][Full]_kvVars
  <2> HIDE DEF Full
  <2> QED
    BY <1>1, <1>2, <1>3, PTL DEF KvSpec
<1> QED
  BY <1>4 DEF RefusedWhenFull

=============================================================================
