-------------------------- MODULE EngineCacheProofs --------------------------
(* What TLAPS proves of EngineCache for every number of files, callers and  *)
(* engines and for every limit.                                             *)
EXTENDS EngineCache, TLAPS, FiniteSetTheorems

(***************************************************************************)
(* The inductive invariant.                                                *)
(***************************************************************************)

Lenders(h) == {c \in Callers : ~loan[c].spent /\ loan[c].db = h}

\* The map and the open handles are two views of the same set.
Matched(eng, ent, opened) ==
    /\ \A f \in Files : eng[f] # None => eng[f] \in opened /\ ent[eng[f]].file = f
    /\ \A h \in opened : ent[h].file \in Files /\ eng[ent[h].file] = h

\* refs counts the outstanding release closures.
Counted == \A h \in Engines : entry[h].refs = Cardinality(Lenders(h))

\* A lent engine is still the one the map holds for its file.
LentIsCached ==
    \A c \in Callers : ~loan[c].spent =>
        loan[c].file \in Files /\ loan[c].db \in Engines
        /\ engines[loan[c].file] = loan[c].db

\* Engines the clock has not reached were never opened.
Fresh == \A h \in open : h <= engineClock

\* Over the limit, and in a closed service, everything cached is lent.
NoSpareIdle ==
    closed \/ Cardinality(Cached) > Limit => Idle(engines, entry) = {}

Inv == /\ TypeOK
       /\ Matched(engines, entry, open)
       /\ Counted
       /\ LentIsCached
       /\ Fresh
       /\ NoSpareIdle

LEMMA InitInv == Init => Inv
<1> SUFFICES ASSUME Init PROVE Inv
  OBVIOUS
<1>1. TypeOK
  <2>1. 0 \in 0 .. MaxBorrows
    BY ConstantsOK
  <2>2. entry \in [Engines -> Entry]
    BY <2>1 DEF Init, Entry
  <2>3. loan \in [Callers -> Loan]
    BY DEF Init, Loan
  <2>4. QED
    BY <2>1, <2>2, <2>3 DEF Init, TypeOK
<1>2. Matched(engines, entry, open) /\ LentIsCached /\ Fresh
  BY DEF Init, Matched, LentIsCached, Fresh, None
<1>3. Counted
  <2>1. \A h \in Engines : Lenders(h) = {}
    BY DEF Init, Lenders
  <2>2. QED
    BY <2>1, FS_EmptySet DEF Init, Counted
<1>4. NoSpareIdle
  BY DEF Init, NoSpareIdle, Idle
<1>5. QED
  BY <1>1, <1>2, <1>3, <1>4 DEF Inv

\* Dropping entries closes exactly their engines.
LEMMA DropMatched ==
  ASSUME NEW eng \in [Files -> Engines \cup {None}], NEW ent, NEW opened \in SUBSET Engines,
         Matched(eng, ent, opened), NEW F \in SUBSET Files, Drop(eng, opened, F)
  PROVE  /\ Matched(engines', ent, open')
         /\ engines' \in [Files -> Engines \cup {None}] /\ open' \in SUBSET opened
         /\ \A f \in Files \ F : engines'[f] = eng[f]
<1>1. \A f \in Files : engines'[f] = IF f \in F THEN None ELSE eng[f]
  BY DEF Drop
<1>2. open' = opened \ {eng[f] : f \in F}
  BY DEF Drop
<1>3. \A f \in Files \ F : engines'[f] # None => engines'[f] \in open'
  BY <1>1, <1>2 DEF Matched
<1>4. ASSUME NEW h \in open' PROVE ent[h].file \in Files /\ engines'[ent[h].file] = h
  BY <1>1, <1>2 DEF Matched
<1>5. Matched(engines', ent, open')
  BY <1>1, <1>3, <1>4 DEF Matched
<1>6. engines' \in [Files -> Engines \cup {None}]
  BY DEF Drop
<1>7. QED
  BY <1>1, <1>2, <1>5, <1>6

\* What eviction leaves is within the limit or lent.
LEMMA EvictsEnough ==
  ASSUME NEW eng \in [Files -> Engines \cup {None}], NEW ent, NEW F \in SUBSET Files,
         Evicts(eng, ent, F), engines' = [f \in Files |-> IF f \in F THEN None ELSE eng[f]]
  PROVE  Cardinality(Cached') > Limit => Idle(engines', ent) = {}
<1> DEFINE cached == {f \in Files : eng[f] # None}
<1>1. Cached' = cached \ F
  BY DEF Cached, None
<1>2. Idle(engines', ent) = Idle(eng, ent) \ F
  BY DEF Idle, None
<1>3. Cardinality(cached) \in Nat /\ Cardinality(cached \ F) \in Nat
  BY ConstantsOK, FS_Subset, FS_CardinalityType
<1>4. CASE Cardinality(cached) <= Limit /\ F = {}
  <2>1. cached \ F = cached
    BY <1>4
  <2>2. QED
    BY <1>1, <1>3, <1>4, <2>1, ConstantsOK
<1>5. CASE Cardinality(cached \ F) = Limit
  BY <1>1, <1>3, <1>5, ConstantsOK
<1>6. CASE F = Idle(eng, ent)
  BY <1>2, <1>6
<1>7. QED
  BY <1>4, <1>5, <1>6 DEF Evicts

-----------------------------------------------------------------------------

\* Borrowing: the cached or the new engine, and what eviction then drops.
LEMMA BorrowInv ==
  ASSUME Inv, NEW c \in Callers, NEW f \in Files, Borrow(c, f)
  PROVE  Inv'
<1> DEFINE new == engines[f] = None
           h   == IF new THEN engineClock + 1 ELSE engines[f]
           eng == [engines EXCEPT ![f] = h]
           ent == [entry EXCEPT ![h] =
                     [file |-> f, refs |-> IF new THEN 1 ELSE @.refs + 1,
                      used |-> engineClock + 1]]
<1>0. /\ TypeOK /\ Matched(engines, entry, open) /\ Counted /\ LentIsCached
      /\ Fresh /\ NoSpareIdle
  BY DEF Inv
<1>1. PICK F \in SUBSET Files : Evicts(eng, ent, F) /\ Drop(eng, open \cup {h}, F)
  BY DEF Borrow
<1>2. /\ ~closed /\ loan[c].spent /\ engineClock < MaxBorrows
      /\ engineClock' = engineClock + 1 /\ entry' = ent /\ closed' = closed
      /\ loan' = [loan EXCEPT ![c] = [file |-> f, db |-> h, spent |-> FALSE]]
  BY DEF Borrow
<1>3. h \in Engines /\ engineClock + 1 \in 1 .. MaxBorrows /\ h <= engineClock + 1
  <2>1. engineClock + 1 \in 1 .. MaxBorrows /\ MaxBorrows \in Nat /\ engineClock \in Nat
    BY <1>0, <1>2, ConstantsOK DEF TypeOK
  <2>2. CASE new
    BY <2>1, <2>2 DEF Engines
  <2>3. CASE ~new
    <3>1. engines[f] \in Engines /\ engines[f] \in open
      BY <1>0, <2>3 DEF TypeOK, Matched
    <3>2. engines[f] <= engineClock
      BY <1>0, <3>1 DEF Fresh
    <3>3. QED
      BY <2>1, <2>3, <3>1, <3>2 DEF Engines
  <2>4. QED
    BY <2>2, <2>3
<1>4. new => h \notin open
  BY <1>0, ConstantsOK DEF Fresh, TypeOK
<1>5. new => Lenders(h) = {}
  BY <1>0, <1>4, <1>3 DEF Lenders, LentIsCached, Matched, None, Engines
<1>6. ~new => h = engines[f] /\ h \in open /\ entry[h].file = f /\ h \in Engines
  BY <1>0, <1>3 DEF Matched
<1>7. \A g \in Engines : g # h => ent[g] = entry[g]
  BY <1>0 DEF TypeOK
<1>8. /\ ent[h].file = f /\ ent[h].used = engineClock + 1
      /\ ent[h].refs = IF new THEN 1 ELSE entry[h].refs + 1
  BY <1>0, <1>3 DEF TypeOK
<1>9. eng[f] = h /\ \A g \in Files : g # f => eng[g] = engines[g]
  BY <1>0 DEF TypeOK
<1>10. eng \in [Files -> Engines \cup {None}]
  BY <1>0, <1>3 DEF TypeOK
<1>11. open \cup {h} \in SUBSET Engines
  BY <1>0, <1>3 DEF TypeOK
<1>12. Matched(eng, ent, open \cup {h})
  <2>0. None \notin Engines /\ \A g \in open : g \in Engines
    BY <1>0 DEF None, Engines, TypeOK
  <2> HIDE DEF eng, ent, h
  <2>1. ASSUME NEW g \in Files, eng[g] # None
        PROVE  eng[g] \in open \cup {h} /\ ent[eng[g]].file = g
    <3>1. CASE g = f
      BY <1>8, <1>9, <3>1
    <3>2. CASE g # f
      <4>1. eng[g] = engines[g] /\ engines[g] \in open /\ entry[engines[g]].file = g
        BY <1>0, <1>9, <2>1, <3>2 DEF Matched
      <4>2. engines[g] # h
        BY <1>4, <1>6, <3>2, <4>1
      <4>3. QED
        BY <1>7, <2>0, <4>1, <4>2
    <3>3. QED
      BY <3>1, <3>2
  <2>2. ASSUME NEW g \in open \cup {h}
        PROVE  ent[g].file \in Files /\ eng[ent[g].file] = g
    <3>1. CASE g = h
      BY <1>8, <1>9, <3>1
    <3>2. CASE g # h
      <4>1. ent[g] = entry[g] /\ entry[g].file \in Files /\ engines[entry[g].file] = g
        BY <1>0, <1>7, <2>0, <3>2 DEF Matched
      <4>2. entry[g].file # f
        BY <1>6, <2>0, <3>2, <4>1
      <4>3. QED
        BY <1>9, <4>1, <4>2
    <3>3. QED
      BY <3>1, <3>2
  <2>3. QED
    BY <2>1, <2>2 DEF Matched
<1> HIDE DEF h, eng, ent
<1>13. /\ Matched(engines', ent, open')
       /\ engines' \in [Files -> Engines \cup {None}] /\ open' \in SUBSET (open \cup {h})
       /\ \A g \in Files \ F : engines'[g] = eng[g]
  BY <1>1, <1>10, <1>11, <1>12, DropMatched
<1>14. Counted'
  <2>1. ASSUME NEW g \in Engines PROVE entry'[g].refs = Cardinality(Lenders(g)')
    <3>1. CASE g = h
      <4>1. Lenders(g)' = Lenders(h) \cup {c} /\ c \notin Lenders(h)
        BY <1>0, <1>2, <3>1 DEF Lenders, TypeOK
      <4>2. IsFiniteSet(Lenders(h))
        BY ConstantsOK, FS_Subset DEF Lenders
      <4>3. Cardinality(Lenders(g)') = Cardinality(Lenders(h)) + 1
        BY <4>1, <4>2, FS_AddElement
      <4>4. entry[h].refs = Cardinality(Lenders(h))
        BY <1>0, <1>3 DEF Counted
      <4>5. new => Cardinality(Lenders(h)) = 0
        BY <1>5, FS_EmptySet
      <4>6. QED
        BY <1>2, <1>8, <3>1, <4>3, <4>4, <4>5
    <3>2. CASE g # h
      <4>1. Lenders(g)' = Lenders(g)
        BY <1>0, <1>2, <3>2 DEF Lenders, TypeOK
      <4>2. QED
        BY <1>0, <1>2, <1>7, <3>2, <4>1 DEF Counted
    <3>3. QED
      BY <3>1, <3>2
  <2>2. QED
    BY <2>1 DEF Counted
<1>15. TypeOK'
  <2>1. ent[h] \in Entry
    <3>1. ent[h] = [file |-> f, refs |-> IF new THEN 1 ELSE entry[h].refs + 1,
                    used |-> engineClock + 1]
      BY <1>0, <1>3 DEF TypeOK, ent
    <3>2. entry[h].refs \in Nat
      BY <1>0, <1>3 DEF TypeOK, Entry
    <3>3. engineClock + 1 \in 0 .. MaxBorrows
      BY <1>3, ConstantsOK
    <3>4. QED
      BY <3>1, <3>2, <3>3 DEF Entry
  <2>2. entry' \in [Engines -> Entry]
    BY <1>0, <1>2, <2>1 DEF TypeOK, ent
  <2>3. loan' \in [Callers -> Loan]
    BY <1>0, <1>2, <1>3 DEF TypeOK, Loan
  <2>4. engineClock' \in 0 .. MaxBorrows /\ closed' \in BOOLEAN
    BY <1>0, <1>2, <1>3, ConstantsOK DEF TypeOK
  <2>5. QED
    BY <1>11, <1>13, <2>2, <2>3, <2>4 DEF TypeOK
<1>16. LentIsCached'
  <2>1. ASSUME NEW d \in Callers, ~loan'[d].spent
        PROVE  loan'[d].file \in Files /\ loan'[d].db \in Engines
               /\ engines'[loan'[d].file] = loan'[d].db
    <3>1. /\ loan'[d].file \in Files /\ loan'[d].db \in Engines
          /\ eng[loan'[d].file] = loan'[d].db
      <4>1. CASE d = c
        BY <1>0, <1>2, <1>3, <1>9, <4>1 DEF TypeOK
      <4>2. CASE d # c
        <5>1. loan'[d] = loan[d]
          BY <1>0, <1>2, <4>2 DEF TypeOK
        <5>2. /\ loan[d].file \in Files /\ loan[d].db \in Engines
              /\ engines[loan[d].file] = loan[d].db
          BY <1>0, <2>1, <5>1 DEF LentIsCached
        <5>3. loan[d].file = f => eng[f] = engines[f]
          BY <1>6, <1>9, <5>2 DEF None, Engines
        <5>4. QED
          BY <1>9, <5>1, <5>2, <5>3
      <4>3. QED
        BY <4>1, <4>2
    <3>2. ASSUME NEW g \in Engines, loan'[d].db = g PROVE ent[g].refs # 0
      <4>1. d \in Lenders(g)'
        BY <2>1, <3>2 DEF Lenders
      <4>2. IsFiniteSet(Lenders(g)')
        BY ConstantsOK, FS_Subset DEF Lenders
      <4>3. Cardinality(Lenders(g)') # 0
        BY <4>1, <4>2, FS_EmptySet
      <4>4. QED
        BY <1>2, <1>14, <4>3 DEF Counted
    <3>3. loan'[d].file \notin F
      BY <1>1, <3>1, <3>2 DEF Evicts, Idle
    <3>4. QED
      BY <1>13, <3>1, <3>3
  <2>2. QED
    BY <2>1 DEF LentIsCached
<1>17. Fresh'
  <2>1. ASSUME NEW g \in open' PROVE g <= engineClock'
    <3>1. CASE g = h
      BY <1>2, <1>3, <3>1
    <3>2. CASE g # h
      <4>1. g \in open /\ g \in Engines /\ g <= engineClock
        BY <1>0, <1>13, <3>2 DEF Fresh, TypeOK
      <4>2. g \in Nat /\ engineClock \in Nat
        BY <1>0, <4>1, ConstantsOK DEF TypeOK, Engines
      <4>3. QED
        BY <1>2, <4>1, <4>2
    <3>3. QED
      BY <3>1, <3>2
  <2>2. QED
    BY <2>1 DEF Fresh
<1>18. NoSpareIdle'
  <2>1. engines' = [g \in Files |-> IF g \in F THEN None ELSE eng[g]]
    BY <1>1 DEF Drop
  <2>2. Cardinality(Cached') > Limit => Idle(engines', ent) = {}
    BY <1>1, <1>10, <2>1, EvictsEnough
  <2>3. QED
    BY <1>2, <2>2 DEF NoSpareIdle
<1>19. QED
  BY <1>2, <1>13, <1>14, <1>15, <1>16, <1>17, <1>18 DEF Inv

LEMMA ReleaseInv ==
  ASSUME Inv, NEW c \in Callers, Release(c)
  PROVE  Inv'
<1> DEFINE h   == loan[c].db
           ent == [entry EXCEPT ![h].refs = @ - 1]
<1>0. /\ TypeOK /\ Matched(engines, entry, open) /\ Counted /\ LentIsCached
      /\ Fresh /\ NoSpareIdle
  BY DEF Inv
<1>1. /\ ~loan[c].spent /\ entry' = ent /\ loan' = [loan EXCEPT ![c].spent = TRUE]
      /\ engineClock' = engineClock /\ closed' = closed
  BY DEF Release
<1>2. h \in Engines /\ loan[c].file \in Files /\ engines[loan[c].file] = h
  BY <1>0, <1>1 DEF LentIsCached
<1>3. /\ ent[h].refs = entry[h].refs - 1 /\ ent[h].file = entry[h].file
      /\ ent[h].used = entry[h].used /\ \A g \in Engines : g # h => ent[g] = entry[g]
  BY <1>0, <1>2 DEF TypeOK, Entry
<1>4. Counted'
  <2>1. ASSUME NEW g \in Engines PROVE entry'[g].refs = Cardinality(Lenders(g)')
    <3>1. CASE g = h
      <4>1. Lenders(g)' = Lenders(h) \ {c} /\ c \in Lenders(h)
        BY <1>0, <1>1, <3>1 DEF Lenders, TypeOK, Loan
      <4>2. IsFiniteSet(Lenders(h))
        BY ConstantsOK, FS_Subset DEF Lenders
      <4>3. Cardinality(Lenders(h) \ {c}) = Cardinality(Lenders(h)) - 1
        BY <4>1, <4>2, FS_RemoveElement
      <4>4. entry[h].refs = Cardinality(Lenders(h))
        BY <1>0, <1>2 DEF Counted
      <4>5. entry'[g].refs = entry[h].refs - 1
        BY <1>1, <1>3, <3>1
      <4>6. QED
        BY <4>1, <4>3, <4>4, <4>5
    <3>2. CASE g # h
      <4>1. Lenders(g)' = Lenders(g)
        BY <1>0, <1>1, <3>2 DEF Lenders, TypeOK, Loan
      <4>2. QED
        BY <1>0, <1>1, <1>3, <3>2, <4>1 DEF Counted
    <3>3. QED
      BY <3>1, <3>2
  <2>2. QED
    BY <2>1 DEF Counted
<1>5. entry' \in [Engines -> Entry]
  <2>1. ent[h].refs \in Nat
    <3>1. \A g \in Engines : IsFiniteSet(Lenders(g)')
      BY ConstantsOK, FS_Subset DEF Lenders
    <3>2. \A g \in Engines : entry'[g].refs \in Nat
      BY <1>4, <3>1, FS_CardinalityType DEF Counted
    <3>3. QED
      BY <1>1, <1>2, <3>2
  <2>2. ent = [entry EXCEPT ![h] = [entry[h] EXCEPT !.refs = entry[h].refs - 1]]
    BY <1>0, <1>2 DEF TypeOK, Entry
  <2>3. [entry[h] EXCEPT !.refs = entry[h].refs - 1] \in Entry
    BY <1>0, <1>2, <1>3, <2>1 DEF TypeOK, Entry
  <2>4. QED
    BY <1>0, <1>1, <2>2, <2>3 DEF TypeOK
<1>6. loan' \in [Callers -> Loan]
  BY <1>0, <1>1 DEF TypeOK, Loan
<1>7. Matched(engines, ent, open)
  <2>1. \A g \in Engines : ent[g].file = entry[g].file
    BY <1>2, <1>3
  <2>2. open \subseteq Engines /\ \A f \in Files : engines[f] # None => engines[f] \in Engines
    BY <1>0 DEF TypeOK
  <2> HIDE DEF ent
  <2>3. QED
    BY <1>0, <2>1, <2>2 DEF Matched
<1> HIDE DEF h, ent
\* Whatever set of files is dropped, no lent engine is among them.
<1>8. PICK F \in SUBSET Files :
        /\ Drop(engines, open, F)
        /\ \A f \in F : engines[f] # None /\ ent[engines[f]].refs = 0
        /\ closed => F = IF ent[h].refs = 0 THEN {loan[c].file} ELSE {}
        /\ ~closed => Evicts(engines, ent, F)
  <2>1. CASE LastOfClosed(ent, h)
    <3>1. Drop(engines, open, {loan[c].file}) /\ closed /\ ent[h].refs = 0
      BY <2>1 DEF Release, LastOfClosed, h, ent
    <3>2. engines[loan[c].file] # None
      BY <1>2 DEF None, Engines
    <3>3. QED
      BY <1>2, <3>1, <3>2
  <2>2. CASE ~LastOfClosed(ent, h)
    <3>1. PICK F \in SUBSET Files : Evicts(engines, ent, F) /\ Drop(engines, open, F)
      BY <2>2 DEF Release, h, ent
    <3>2. \A f \in F : engines[f] # None /\ ent[engines[f]].refs = 0
      BY <3>1 DEF Evicts, Idle
    <3>3. closed => F = {}
      <4>1. SUFFICES ASSUME closed, NEW f \in F PROVE FALSE
        OBVIOUS
      <4>2. engines[f] # h
        BY <2>2, <3>2, <4>1 DEF LastOfClosed
      <4>3. engines[f] \in Engines /\ entry[engines[f]].refs = 0
        BY <1>0, <1>3, <3>2, <4>2 DEF TypeOK
      <4>4. f \in Idle(engines, entry)
        BY <3>2, <4>3 DEF Idle
      <4>5. QED
        BY <1>0, <4>1, <4>4 DEF NoSpareIdle
    <3>4. closed => ent[h].refs # 0
      BY <2>2 DEF LastOfClosed
    <3>5. QED
      BY <3>1, <3>2, <3>3, <3>4
  <2>3. QED
    BY <2>1, <2>2
<1>9. /\ Matched(engines', ent, open')
      /\ engines' \in [Files -> Engines \cup {None}] /\ open' \in SUBSET open
      /\ \A f \in Files \ F : engines'[f] = engines[f]
  BY <1>0, <1>7, <1>8, DropMatched DEF TypeOK
<1>10. TypeOK'
  BY <1>0, <1>1, <1>5, <1>6, <1>9 DEF TypeOK
<1>11. LentIsCached'
  <2>1. ASSUME NEW d \in Callers, ~loan'[d].spent
        PROVE  loan'[d].file \in Files /\ loan'[d].db \in Engines
               /\ engines'[loan'[d].file] = loan'[d].db
    <3>1. d # c /\ loan'[d] = loan[d]
      BY <1>0, <1>1, <2>1 DEF TypeOK, Loan
    <3>2. /\ loan[d].file \in Files /\ loan[d].db \in Engines
          /\ engines[loan[d].file] = loan[d].db
      BY <1>0, <2>1, <3>1 DEF LentIsCached
    <3>3. ent[loan[d].db].refs # 0
      <4>1. ASSUME NEW g \in Engines, g = loan[d].db PROVE ent[g].refs # 0
        <5>1. d \in Lenders(g)'
          BY <2>1, <3>1, <4>1 DEF Lenders
        <5>2. IsFiniteSet(Lenders(g)')
          BY ConstantsOK, FS_Subset DEF Lenders
        <5>3. Cardinality(Lenders(g)') # 0
          BY <5>1, <5>2, FS_EmptySet
        <5>4. QED
          BY <1>1, <1>4, <5>3 DEF Counted
      <4>2. QED
        BY <3>2, <4>1
    <3>4. loan[d].file \notin F
      BY <1>8, <3>2, <3>3
    <3>5. QED
      BY <1>9, <3>1, <3>2, <3>4
  <2>2. QED
    BY <2>1 DEF LentIsCached
<1>12. Fresh'
  BY <1>0, <1>1, <1>9 DEF Fresh
<1>13. NoSpareIdle'
  <2>1. engines' = [f \in Files |-> IF f \in F THEN None ELSE engines[f]]
    BY <1>8 DEF Drop
  <2>2. CASE ~closed
    <3>1. Cardinality(Cached') > Limit => Idle(engines', ent) = {}
      BY <1>0, <1>8, <2>1, <2>2, EvictsEnough DEF TypeOK
    <3>2. QED
      BY <1>1, <2>2, <3>1 DEF NoSpareIdle
  <2>3. CASE closed
    <3>1. ASSUME NEW f \in Idle(engines', ent) PROVE FALSE
      <4>1. f \in Files /\ f \notin F /\ engines[f] # None /\ ent[engines[f]].refs = 0
        BY <2>1, <3>1 DEF Idle
      <4>2. CASE engines[f] = h
        <5>1. F = {loan[c].file}
          BY <1>8, <2>3, <4>1, <4>2
        <5>2. f = loan[c].file
          BY <1>0, <1>2, <4>1, <4>2 DEF Matched
        <5>3. QED
          BY <4>1, <5>1, <5>2
      <4>3. CASE engines[f] # h
        <5>1. entry[engines[f]].refs = 0
          BY <1>0, <1>3, <4>1, <4>3 DEF TypeOK
        <5>2. QED
          BY <1>0, <2>3, <4>1, <5>1 DEF NoSpareIdle, Idle
      <4>4. QED
        BY <4>2, <4>3
    <3>2. QED
      BY <1>1, <3>1 DEF NoSpareIdle
  <2>4. QED
    BY <2>2, <2>3
<1>14. QED
  BY <1>1, <1>4, <1>9, <1>10, <1>11, <1>12, <1>13 DEF Inv

LEMMA CloseInv == Inv /\ Close => Inv'
<1> SUFFICES ASSUME Inv, Close PROVE Inv'
  OBVIOUS
<1> DEFINE F == Idle(engines, entry)
<1>0. /\ TypeOK /\ Matched(engines, entry, open) /\ Counted /\ LentIsCached
      /\ Fresh /\ NoSpareIdle
  BY DEF Inv
<1>1. /\ closed' = TRUE /\ Drop(engines, open, F) /\ F \in SUBSET Files
      /\ UNCHANGED <<entry, engineClock, loan>>
  BY DEF Close, Idle
<1>2. /\ Matched(engines', entry, open')
      /\ engines' \in [Files -> Engines \cup {None}] /\ open' \in SUBSET open
      /\ \A f \in Files \ F : engines'[f] = engines[f]
  BY <1>0, <1>1, DropMatched DEF TypeOK
<1>3. TypeOK'
  BY <1>0, <1>1, <1>2 DEF TypeOK
<1>4. Counted'
  BY <1>0, <1>1 DEF Counted, Lenders
<1>5. LentIsCached'
  <2>1. ASSUME NEW d \in Callers, ~loan[d].spent
        PROVE  loan[d].file \in Files \ F
    <3>1. /\ loan[d].file \in Files /\ loan[d].db \in Engines
          /\ engines[loan[d].file] = loan[d].db
      BY <1>0, <2>1 DEF LentIsCached
    <3>2. d \in Lenders(loan[d].db) /\ IsFiniteSet(Lenders(loan[d].db))
      BY <2>1, ConstantsOK, FS_Subset DEF Lenders
    <3>3. entry[loan[d].db].refs # 0
      BY <1>0, <3>1, <3>2, FS_EmptySet DEF Counted
    <3>4. QED
      BY <3>1, <3>3 DEF Idle
  <2>2. QED
    BY <1>0, <1>1, <1>2, <2>1 DEF LentIsCached
<1>6. Fresh'
  BY <1>0, <1>1, <1>2 DEF Fresh
<1>7. NoSpareIdle'
  <2>1. Idle(engines', entry) = {}
    BY <1>1 DEF Drop, Idle
  <2>2. QED
    BY <1>1, <2>1 DEF NoSpareIdle
<1>8. QED
  BY <1>1, <1>2, <1>3, <1>4, <1>5, <1>6, <1>7 DEF Inv

LEMMA NextInv == Inv /\ [Next]_vars => Inv'
<1>1. Inv /\ UNCHANGED vars => Inv'
  BY DEF vars, Inv, TypeOK, Matched, Counted, Lenders, LentIsCached, Fresh, NoSpareIdle,
         Idle, Cached
<1>2. QED
  BY <1>1, BorrowInv, ReleaseInv, CloseInv DEF Next

LEMMA Invariance == Spec => []Inv
  BY InitInv, NextInv, PTL DEF Spec

-----------------------------------------------------------------------------
\* Every variable keeps its type; in particular no reference count goes
\* below zero, however often a release closure is called.
THEOREM TypeCorrect == Spec => []TypeOK
<1>1. Inv => TypeOK
  BY DEF Inv
<1>2. QED
  BY <1>1, Invariance, PTL

\* No caller works on an engine that was closed under it.
THEOREM LentEnginesAreOpen == Spec => []LentIsOpen
<1>1. Inv => LentIsOpen
  BY DEF Inv, LentIsOpen, LentIsCached, Matched, None, Engines
<1>2. QED
  BY <1>1, Invariance, PTL

\* No file has two open engines.
THEOREM EnginesAreUnique == Spec => []OneEnginePerFile
<1>1. Inv => OneEnginePerFile
  BY DEF Inv, OneEnginePerFile, Matched
<1>2. QED
  BY <1>1, Invariance, PTL

\* With nothing idle in the map, every open engine is lent.
LEMMA AllLent ==
  ASSUME Inv, Idle(engines, entry) = {}, NEW h \in open
  PROVE  \E c \in Callers : ~loan[c].spent /\ loan[c].db = h
<1>1. h \in Engines /\ entry[h].file \in Files /\ engines[entry[h].file] = h
  BY DEF Inv, TypeOK, Matched
<1>2. entry[h].refs # 0
  BY <1>1 DEF Idle, None, Engines
<1>3. Lenders(h) # {}
  BY <1>1, <1>2, FS_EmptySet DEF Inv, Counted
<1>4. QED
  BY <1>3 DEF Lenders

\* A closed service has nothing open but what is lent.
THEOREM ClosedIsEmptied == Spec => []ClosedHoldsNothing
<1>1. Inv => ClosedHoldsNothing
  BY AllLent DEF Inv, ClosedHoldsNothing, NoSpareIdle
<1>2. QED
  BY <1>1, Invariance, PTL

\* More than Limit engines are open only while every one of them is lent.
THEOREM CacheIsBounded == Spec => []CacheBounded
<1>1. ASSUME Inv PROVE CacheBounded
  <2>1. CASE Cardinality(Cached) > Limit
    BY <1>1, <2>1, AllLent DEF Inv, NoSpareIdle, CacheBounded
  <2>2. CASE ~(Cardinality(Cached) > Limit)
    <3> DEFINE file == [h \in open |-> entry[h].file]
    <3>1. IsFiniteSet(Cached) /\ Cardinality(Cached) \in Nat
      BY ConstantsOK, FS_Subset, FS_CardinalityType DEF Cached
    <3>2. \A h \in open : entry[h].file \in Cached /\ engines[entry[h].file] = h
      BY <1>1 DEF Inv, Matched, Cached, TypeOK, None, Engines
    <3>3. file \in Injection(open, Cached)
      BY <3>2 DEF Injection, IsInjective
    <3>4. IsFiniteSet(open) /\ Cardinality(open) <= Cardinality(Cached)
      BY <3>1, <3>3, FS_Injection
    <3>5. Cardinality(open) \in Nat
      BY <3>4, FS_CardinalityType
    <3>6. QED
      BY <2>2, <3>1, <3>4, <3>5, ConstantsOK DEF CacheBounded
  <2>3. QED
    BY <2>1, <2>2
<1>2. QED
  BY <1>1, Invariance, PTL
=============================================================================
