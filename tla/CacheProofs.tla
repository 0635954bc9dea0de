------------------------------ MODULE CacheProofs ------------------------------
(***************************************************************************)
(* The cache implements flat memory, for every size of cache, of line and  *)
(* of address space.  The invariant is the shape of the state together     *)
(* with "one copy" and "clean is home"; each lemma below says of one of    *)
(* the helpers that it keeps both and which line's newest bytes it moves.  *)
(* Then the order of replacement: a line that had to make room was last    *)
(* used before those that stayed.  Last, the replay of a checked trace     *)
(* through the cache: what a packet published stays in its slot's lines    *)
(* whoever else stores, so no read of the replay fails.                    *)
(***************************************************************************)
EXTENDS CacheRecency, CacheReplayInvariants, FiniteSetTheorems, SequenceTheorems,
        WellFoundedInduction, TLAPS

Shape ==
    /\ lines \in [Indices -> [WayIds -> Lines \cup {NoLine}]]
    /\ older \in [Indices -> SUBSET (WayIds \X WayIds)]
    /\ backing \in [Addresses -> Data \cup {NoData}]

Coherent == Shape /\ OneCopy /\ CleanIsHome

(* The step leaves line a with these bytes and every other line alone.     *)
OnlyBecomes(a, data) ==
    \A b \in Addresses : Newest(b)' = IF b = a THEN data ELSE Newest(b)

NothingMoves == \A b \in Addresses : Newest(b)' = Newest(b)
--------------------------------------------------------------------------------
(* A store over a line gives a line.                                       *)
LEMMA OverlayIsLine ==
    ASSUME NEW data \in Data, NEW part \in Parts
    PROVE  Overlay(data, part) \in Data
<1>1. PICK lo \in Cells, hi \in Cells : part \in [lo..hi -> Values]
    BY DEF Parts
<1>2. DOMAIN part = lo..hi /\ \A c \in DOMAIN part : part[c] \in Values
    BY <1>1
<1>3. \A c \in Cells : data[c] \in Values
    BY DEF Data
<1> QED
    BY <1>2, <1>3 DEF Overlay, Data

(* Each line has a set.                                                    *)
LEMMA IndexIsSet == \A a \in Addresses : Index(a) \in Indices
<1>1. SUFFICES ASSUME NEW a \in Addresses PROVE Index(a) \in Indices
    OBVIOUS
<1>2. a \in Nat /\ Sets \in Nat /\ Sets > 0
    BY CacheAssumption
<1>3. a % Sets \in 0..(Sets - 1)
    BY <1>2, Z3
<1> QED
    BY <1>3 DEF Index, Indices

(* Where the newest bytes of a line are: in the way that has it, or else   *)
(* at its home.                                                            *)
NewestInCache ==
    \A a \in Addresses, w \in WayIds :
        OneCopy /\ Found(a, w) => Newest(a) = lines[Index(a)][w].data

NewestAtHome == \A a \in Addresses : ~Resident(a) => Newest(a) = backing[a]

(* With one copy of each line, the way that has it is the way looked up.   *)
LEMMA FoundIsNewest == NewestInCache
<1>1. SUFFICES ASSUME NEW a \in Addresses, NEW w \in WayIds, OneCopy, Found(a, w)
               PROVE  Newest(a) = lines[Index(a)][w].data
    BY DEF NewestInCache
<1>2. Resident(a)
    BY <1>1 DEF Resident
<1>3. PICK v \in WayIds : v = CHOOSE u \in WayIds : Found(a, u)
    BY <1>2 DEF Resident
<1>4. Found(a, v)
    BY <1>2, <1>3 DEF Resident
<1>5. v = w
    BY <1>1, <1>4, IndexIsSet DEF OneCopy, Found
<1> QED
    BY <1>2, <1>3, <1>5 DEF Newest

LEMMA AbsentIsHome == NewestAtHome
BY DEF NewestAtHome, Newest

(* The same of the state after a step.                                     *)
LEMMA FoundIsNewestNext == NewestInCache'
BY FoundIsNewest, PTL

LEMMA AbsentIsHomeNext == NewestAtHome'
BY AbsentIsHome, PTL

(* The newest bytes of a line that was defined are bytes, of the others    *)
(* there are none.                                                         *)
LEMMA NewestIsLine ==
    ASSUME Coherent, NEW a \in Addresses
    PROVE  /\ Defined(a) => Newest(a) \in Data
           /\ Newest(a) = NoData <=> ~Defined(a)
<1>0. NoData \notin Data /\ NoLine \notin Lines
    BY CacheAssumption DEF Data, Lines, Cells
<1>1. CASE Resident(a)
    <2>1. PICK w \in WayIds : Found(a, w)
        BY <1>1 DEF Resident
    <2>2. Newest(a) = lines[Index(a)][w].data
        BY <2>1, FoundIsNewest DEF Coherent, NewestInCache
    <2>3. lines[Index(a)][w] \in Lines
        BY <2>1, IndexIsSet DEF Coherent, Shape, Found
    <2>4. Defined(a)
        BY <2>1, IndexIsSet DEF Coherent, OneCopy, Found
    <2> QED
        BY <1>0, <2>2, <2>3, <2>4 DEF Lines
<1>2. CASE ~Resident(a)
    BY <1>0, <1>2, AbsentIsHome DEF Coherent, Shape, Defined, NewestAtHome
<1> QED
    BY <1>1, <1>2
--------------------------------------------------------------------------------
(* Bringing a line in: its bytes are the newest of it, and what it pushes  *)
(* out goes home if it is newer there.                                     *)
LEMMA AllocateKeeps ==
    ASSUME Coherent, NEW a \in Addresses, Defined(a), ~Resident(a),
           NEW data \in Data, NEW dirty \in BOOLEAN, NEW admission,
           dirty \/ data = backing[a],
           Allocate(a, data, dirty, admission)
    PROVE  Coherent' /\ OnlyBecomes(a, data)
<1>0. NoData \notin Data /\ NoLine \notin Lines
    BY CacheAssumption DEF Data, Lines, Cells
<1>1. PICK w \in WayIds :
        /\ backing' = WriteBackVictim(lines[Index(a)][w])
        /\ lines' = [lines EXCEPT ![Index(a)][w] =
                        [address |-> a, data |-> data, dirty |-> dirty]]
        /\ older' = [older EXCEPT ![Index(a)] = Touched(Index(a), w)]
    BY DEF Allocate
<1> DEFINE victim == lines[Index(a)][w]
<1>2. Index(a) \in Indices
    BY IndexIsSet
<1>3. victim \in Lines \cup {NoLine}
    BY <1>2 DEF Coherent, Shape
<1>4. victim # NoLine =>
        /\ victim.address \in Addresses /\ victim.address # a
        /\ Index(victim.address) = Index(a) /\ Defined(victim.address)
        /\ victim.data \in Data
    BY <1>2, <1>3 DEF Coherent, OneCopy, Resident, Found, Lines
<1>5. backing' \in [Addresses -> Data \cup {NoData}]
    BY <1>1, <1>3, <1>4 DEF WriteBackVictim, Coherent, Shape
<1>6. \A b \in Addresses : backing'[b] =
        IF victim # NoLine /\ victim.dirty /\ b = victim.address THEN victim.data
        ELSE backing[b]
    BY <1>1, <1>4 DEF WriteBackVictim, Coherent, Shape
<1>7. \A i \in Indices, v \in WayIds : lines'[i][v] =
        IF i = Index(a) /\ v = w THEN [address |-> a, data |-> data, dirty |-> dirty]
        ELSE lines[i][v]
    BY <1>1, <1>2 DEF Coherent, Shape
<1>8. lines' \in [Indices -> [WayIds -> Lines \cup {NoLine}]]
    BY <1>1, <1>2 DEF Coherent, Shape, Lines
<1>9. older' \in [Indices -> SUBSET (WayIds \X WayIds)]
    BY <1>1, <1>2 DEF Coherent, Shape, Touched
<1>10. \A b \in Addresses : Defined(b)' <=> Defined(b)
    BY <1>0, <1>4, <1>6 DEF Defined
<1>11. OneCopy'
    <2>1. SUFFICES ASSUME NEW i \in Indices, NEW u \in WayIds, NEW v \in WayIds,
                          lines'[i][u] # NoLine
                   PROVE  /\ Index(lines'[i][u].address) = i
                          /\ backing'[lines'[i][u].address] # NoData
                          /\ lines'[i][v] # NoLine
                                /\ lines'[i][v].address = lines'[i][u].address => u = v
        BY DEF OneCopy, Index, Defined
    <2>2. \A x \in WayIds : lines'[i][x] # NoLine => lines'[i][x].address \in Addresses
        BY <1>8 DEF Lines
    <2>3. \A x \in WayIds : lines[Index(a)][x] # NoLine => lines[Index(a)][x].address # a
        BY <1>2 DEF Resident, Found
    <2>4. Index(lines'[i][u].address) = i /\ Defined(lines'[i][u].address)
        BY <2>1, <1>7 DEF Coherent, OneCopy
    <2>5. ASSUME lines'[i][v] # NoLine, lines'[i][v].address = lines'[i][u].address
          PROVE  u = v
        BY <2>1, <2>3, <2>5, <1>7 DEF Coherent, OneCopy
    <2> QED
        BY <2>1, <2>2, <2>4, <2>5, <1>10 DEF Defined
<1>12. CleanIsHome'
    <2>1. SUFFICES ASSUME NEW i \in Indices, NEW v \in WayIds,
                          lines'[i][v] # NoLine, ~lines'[i][v].dirty
                   PROVE  lines'[i][v].data = backing'[lines'[i][v].address]
        BY DEF CleanIsHome
    <2>2. CASE i = Index(a) /\ v = w
        BY <2>1, <2>2, <1>4, <1>6, <1>7
    <2>3. CASE ~(i = Index(a) /\ v = w)
        <3>1. lines[i][v] # NoLine /\ ~lines[i][v].dirty /\ lines'[i][v] = lines[i][v]
            BY <2>1, <2>3, <1>7
        <3>2. lines[i][v].address \in Addresses
            BY <3>1 DEF Coherent, Shape, Lines
        <3>3. victim = NoLine \/ lines[i][v].address # victim.address
            BY <3>1, <2>3, <1>4 DEF Coherent, OneCopy
        <3> QED
            BY <3>1, <3>2, <3>3, <1>6 DEF Coherent, CleanIsHome
    <2> QED
        BY <2>2, <2>3
<1>13. Coherent'
    BY <1>5, <1>8, <1>9, <1>11, <1>12 DEF Coherent, Shape
<1>14. OnlyBecomes(a, data)
    <2>1. SUFFICES ASSUME NEW b \in Addresses
                   PROVE  Newest(b)' = IF b = a THEN data ELSE Newest(b)
        BY DEF OnlyBecomes
    <2>2. Index(b) \in Indices /\ Index(b)' = Index(b)
        BY IndexIsSet DEF Index
    <2>3. CASE b = a
        <3>1. Found(a, w)'
            BY <1>0, <1>2, <1>7 DEF Found, Lines, Index
        <3> QED
            BY <2>3, <3>1, <1>2, <1>7, <1>13, FoundIsNewestNext
            DEF NewestInCache, Coherent, Index
    <2>4. CASE b # a /\ b = victim.address /\ victim # NoLine
        <3>0. Found(b, w) /\ Index(b) = Index(a)
            BY <2>4, <1>4 DEF Found
        <3>1. Newest(b) = victim.data
            BY <3>0, FoundIsNewest DEF NewestInCache, Coherent
        <3>2. ASSUME NEW v \in WayIds PROVE ~Found(b, v)'
            <4>1. CASE v = w
                BY <2>2, <2>4, <3>0, <4>1, <1>2, <1>7 DEF Found
            <4>2. CASE v # w
                BY <2>2, <2>4, <3>0, <4>2, <1>2, <1>7 DEF Found, Coherent, OneCopy
            <4> QED
                BY <4>1, <4>2
        <3>3. backing'[b] = victim.data
            BY <2>4, <1>2, <1>4, <1>6 DEF Coherent, CleanIsHome
        <3>4. ~Resident(b)'
            BY <3>2 DEF Resident
        <3> QED
            BY <2>4, <3>1, <3>3, <3>4, AbsentIsHomeNext DEF NewestAtHome
    <2>5. CASE b # a /\ ~(b = victim.address /\ victim # NoLine)
        <3>1. backing'[b] = backing[b]
            BY <2>5, <1>6
        <3>2. \A v \in WayIds : Found(b, v)' <=> Found(b, v)
            BY <2>2, <2>5, <1>2, <1>7, <1>0 DEF Found, Index, Lines
        <3>3. CASE Resident(b)
            <4>1. PICK v \in WayIds : Found(b, v)
                BY <3>3 DEF Resident
            <4>2. lines'[Index(b)][v] = lines[Index(b)][v]
                BY <2>2, <2>5, <4>1, <1>7 DEF Found
            <4>3. Newest(b) = lines[Index(b)][v].data
                BY <4>1, FoundIsNewest DEF NewestInCache, Coherent
            <4>4. Newest(b)' = lines'[Index(b)][v].data
                BY <2>2, <4>1, <3>2, <1>13, FoundIsNewestNext
                DEF NewestInCache, Coherent
            <4> QED
                BY <2>5, <4>2, <4>3, <4>4
        <3>4. CASE ~Resident(b)
            <4>1. ~Resident(b)'
                BY <3>2, <3>4 DEF Resident
            <4> QED
                BY <2>5, <3>1, <3>4, <4>1, AbsentIsHome, AbsentIsHomeNext
                DEF NewestAtHome
        <3> QED
            BY <3>3, <3>4
    <2> QED
        BY <2>3, <2>4, <2>5
<1> QED
    BY <1>13, <1>14
--------------------------------------------------------------------------------
(* A store into a line that is in: its bytes change, it becomes dirty.     *)
LEMMA StoreHitKeeps ==
    ASSUME Coherent, NEW a \in Addresses, NEW part \in Parts, StoreHit(a, part)
    PROVE  /\ Resident(a) /\ Defined(a)
           /\ Coherent'
           /\ OnlyBecomes(a, Overlay(Newest(a), part))
<1>0. NoData \notin Data /\ NoLine \notin Lines
    BY CacheAssumption DEF Data, Lines, Cells
<1>1. PICK w \in WayIds :
        /\ Found(a, w)
        /\ lines' = [lines EXCEPT ![Index(a)][w] = Stored(@, part)]
        /\ older' = [older EXCEPT ![Index(a)] = Touched(Index(a), w)]
        /\ UNCHANGED backing
    BY DEF StoreHit
<1> DEFINE line == lines[Index(a)][w]
           stored == Stored(line, part)
<1>2. Index(a) \in Indices
    BY IndexIsSet
<1>3. line \in Lines /\ line # NoLine /\ line.address = a
    BY <1>1, <1>2 DEF Coherent, Shape, Found
<1>4. Newest(a) = line.data
    BY <1>1, FoundIsNewest DEF NewestInCache, Coherent
<1>5. /\ stored \in Lines /\ stored.address = a
      /\ stored.dirty = TRUE /\ stored.data = Overlay(Newest(a), part)
    <2>1. Overlay(line.data, part) \in Data
        BY <1>3, OverlayIsLine DEF Lines
    <2> QED
        BY <1>3, <1>4, <2>1 DEF Stored, Lines
<1>6. \A i \in Indices, v \in WayIds :
        lines'[i][v] = IF i = Index(a) /\ v = w THEN stored ELSE lines[i][v]
    BY <1>1, <1>2 DEF Coherent, Shape
<1>7. Resident(a) /\ Defined(a)
    BY <1>1, <1>2 DEF Resident, Found, Coherent, OneCopy
<1>8. Shape'
    <2>1. lines' \in [Indices -> [WayIds -> Lines \cup {NoLine}]]
        BY <1>1, <1>2, <1>5 DEF Coherent, Shape
    <2>2. older' \in [Indices -> SUBSET (WayIds \X WayIds)]
        BY <1>1, <1>2 DEF Coherent, Shape, Touched
    <2> QED
        BY <1>1, <2>1, <2>2 DEF Coherent, Shape
<1>9. \A i \in Indices, v \in WayIds :
        /\ lines'[i][v] = NoLine <=> lines[i][v] = NoLine
        /\ lines'[i][v] # NoLine => lines'[i][v].address = lines[i][v].address
    BY <1>0, <1>3, <1>5, <1>6
<1>10. OneCopy'
    BY <1>1, <1>9 DEF Coherent, OneCopy, Index, Defined
<1>11. CleanIsHome'
    BY <1>1, <1>5, <1>6 DEF Coherent, CleanIsHome
<1>12. Coherent'
    BY <1>8, <1>10, <1>11 DEF Coherent
<1>13. ASSUME NEW b \in Addresses
       PROVE  Newest(b)' = IF b = a THEN stored.data ELSE Newest(b)
    <2>1. Index(b) \in Indices /\ Index(b)' = Index(b)
        BY IndexIsSet DEF Index
    <2>2. \A v \in WayIds : Found(b, v)' <=> Found(b, v)
        BY <1>9, <2>1 DEF Found
    <2>3. CASE Resident(b)
        <3>1. PICK v \in WayIds : Found(b, v)
            BY <2>3 DEF Resident
        <3>2. Newest(b) = lines[Index(b)][v].data
            BY <3>1, FoundIsNewest DEF NewestInCache, Coherent
        <3>3. Newest(b)' = lines'[Index(b)][v].data
            BY <2>1, <2>2, <3>1, <1>12, FoundIsNewestNext DEF NewestInCache, Coherent
        <3>4. b = a => v = w
            BY <1>1, <1>2, <3>1 DEF Coherent, OneCopy, Found
        <3>5. b # a => ~(Index(b) = Index(a) /\ v = w)
            BY <1>3, <3>1 DEF Found
        <3> QED
            BY <1>6, <2>1, <3>2, <3>3, <3>4, <3>5
    <2>4. CASE ~Resident(b)
        <3>1. ~Resident(b)'
            BY <2>2, <2>4 DEF Resident
        <3>2. b # a
            BY <1>7, <2>4
        <3> QED
            BY <1>1, <2>4, <3>1, <3>2, AbsentIsHome, AbsentIsHomeNext DEF NewestAtHome
    <2> QED
        BY <2>3, <2>4
<1> QED
    BY <1>5, <1>7, <1>12, <1>13 DEF OnlyBecomes

(* A store that goes home, merged with the newest bytes, and takes the     *)
(* line out.                                                               *)
LEMMA BypassKeeps ==
    ASSUME Coherent, NEW a \in Addresses, Defined(a), NEW part \in Parts,
           Bypass(a, part)
    PROVE  Coherent' /\ OnlyBecomes(a, Overlay(Newest(a), part))
<1>0. NoData \notin Data /\ NoLine \notin Lines
    BY CacheAssumption DEF Data, Lines, Cells
<1> DEFINE merged == Overlay(Newest(a), part)
<1>1. merged \in Data
    BY NewestIsLine, OverlayIsLine
<1>2. /\ backing' = [backing EXCEPT ![a] = merged]
      /\ lines' = Invalidated(a)
      /\ older' = older
    BY DEF Bypass, MergeBase
<1> HIDE DEF merged
<1>3. Index(a) \in Indices
    BY IndexIsSet
<1>4. \A i \in Indices, w \in WayIds :
        lines'[i][w] = IF i = Index(a) /\ Found(a, w) THEN NoLine ELSE lines[i][w]
    BY <1>2, <1>3 DEF Invalidated, Coherent, Shape
<1>5. Shape'
    <2>1. lines' \in [Indices -> [WayIds -> Lines \cup {NoLine}]]
        BY <1>2, <1>3 DEF Invalidated, Coherent, Shape
    <2> QED
        BY <1>1, <1>2, <2>1 DEF Coherent, Shape
<1>6. \A i \in Indices, w \in WayIds : lines'[i][w] # NoLine =>
        /\ lines'[i][w] = lines[i][w] /\ lines[i][w] # NoLine
        /\ lines[i][w].address # a /\ lines[i][w].address \in Addresses
    BY <1>4 DEF Found, Coherent, OneCopy, Shape, Lines
<1>7. \A b \in Addresses : backing'[b] = IF b = a THEN merged ELSE backing[b]
    BY <1>2 DEF Coherent, Shape
<1>8. OneCopy'
    BY <1>6, <1>7 DEF Coherent, OneCopy, Index, Defined
<1>9. CleanIsHome'
    BY <1>6, <1>7 DEF Coherent, CleanIsHome
<1>10. Coherent'
    BY <1>5, <1>8, <1>9 DEF Coherent
<1>11. ASSUME NEW b \in Addresses
       PROVE  Newest(b)' = IF b = a THEN merged ELSE Newest(b)
    <2>1. Index(b) \in Indices /\ Index(b)' = Index(b)
        BY IndexIsSet DEF Index
    <2>2. CASE b = a
        <3>1. ASSUME NEW v \in WayIds PROVE ~Found(a, v)'
            BY <1>3, <1>6, <2>1, <2>2 DEF Found
        <3>2. ~Resident(b)'
            BY <2>2, <3>1 DEF Resident
        <3> QED
            BY <1>7, <2>2, <3>2, AbsentIsHomeNext DEF NewestAtHome
    <2>3. CASE b # a
        <3>1. \A v \in WayIds : /\ Found(b, v)' <=> Found(b, v)
                                /\ Found(b, v) => lines'[Index(b)][v] = lines[Index(b)][v]
            BY <1>4, <2>1, <2>3 DEF Found
        <3>2. CASE Resident(b)
            <4>1. PICK v \in WayIds : Found(b, v)
                BY <3>2 DEF Resident
            <4>2. Newest(b) = lines[Index(b)][v].data
                BY <4>1, FoundIsNewest DEF NewestInCache, Coherent
            <4>3. Newest(b)' = lines'[Index(b)][v].data
                BY <2>1, <3>1, <4>1, <1>10, FoundIsNewestNext DEF NewestInCache, Coherent
            <4> QED
                BY <2>3, <3>1, <4>1, <4>2, <4>3
        <3>3. CASE ~Resident(b)
            <4>1. ~Resident(b)'
                BY <3>1, <3>3 DEF Resident
            <4> QED
                BY <1>7, <2>3, <3>3, <4>1, AbsentIsHome, AbsentIsHomeNext DEF NewestAtHome
        <3> QED
            BY <3>2, <3>3
    <2> QED
        BY <2>2, <2>3
<1> QED
    BY <1>10, <1>11 DEF OnlyBecomes, merged

(* The first contents of a line: it was nowhere before.                    *)
LEMMA DefineKeeps ==
    ASSUME Coherent, NEW a \in Addresses, NEW data \in Data, Define(a, data)
    PROVE  Coherent' /\ OnlyBecomes(a, data)
<1>0. NoData \notin Data
    BY CacheAssumption DEF Data, Cells
<1>1. /\ ~Defined(a)
      /\ backing' = [backing EXCEPT ![a] = data]
      /\ lines' = lines /\ older' = older
    BY DEF Define
<1>2. \A b \in Addresses : backing'[b] = IF b = a THEN data ELSE backing[b]
    BY <1>1 DEF Coherent, Shape
<1>3. \A i \in Indices, w \in WayIds : lines[i][w] # NoLine =>
        lines[i][w].address # a /\ lines[i][w].address \in Addresses
    BY <1>1 DEF Coherent, Shape, OneCopy, Lines
<1>4. Shape'
    BY <1>1 DEF Coherent, Shape
<1>5. OneCopy'
    BY <1>1, <1>2, <1>3 DEF Coherent, OneCopy, Index, Defined
<1>6. CleanIsHome'
    BY <1>1, <1>2, <1>3 DEF Coherent, CleanIsHome
<1>7. ASSUME NEW b \in Addresses
       PROVE  Newest(b)' = IF b = a THEN data ELSE Newest(b)
    <2>1. \A v \in WayIds : Found(b, v)' <=> Found(b, v)
        BY <1>1 DEF Found, Index
    <2>2. Index(b) \in Indices /\ Index(b)' = Index(b)
        BY IndexIsSet DEF Index
    <2>3. CASE Resident(b)
        <3>1. PICK v \in WayIds : Found(b, v)
            BY <2>3 DEF Resident
        <3>2. b # a
            BY <1>3, <2>2, <3>1 DEF Found
        <3>3. Newest(b) = lines[Index(b)][v].data
            BY <3>1, FoundIsNewest DEF NewestInCache, Coherent
        <3>4. Newest(b)' = lines'[Index(b)][v].data
            BY <1>5, <2>1, <2>2, <3>1, FoundIsNewestNext DEF NewestInCache
        <3> QED
            BY <1>1, <3>2, <3>3, <3>4
    <2>4. CASE ~Resident(b)
        <3>1. ~Resident(b)'
            BY <2>1, <2>4 DEF Resident
        <3> QED
            BY <1>2, <2>4, <3>1, AbsentIsHome, AbsentIsHomeNext DEF NewestAtHome
    <2> QED
        BY <2>3, <2>4
<1> QED
    BY <1>4, <1>5, <1>6, <1>7 DEF Coherent, OnlyBecomes

(* Writing the dirty lines back moves no bytes that a reader could see.    *)
LEMMA FlushKeeps ==
    ASSUME Coherent, Flush
    PROVE  Coherent' /\ NothingMoves
<1>0. NoData \notin Data /\ NoLine \notin Lines
    BY CacheAssumption DEF Data, Lines, Cells
<1>1. /\ backing' = [b \in Addresses |->
            IF \E w \in WayIds : DirtyLine(b, w) THEN Newest(b) ELSE backing[b]]
      /\ lines' = [i \in Indices |-> [w \in WayIds |->
            IF lines[i][w] = NoLine THEN NoLine
            ELSE [lines[i][w] EXCEPT !.dirty = FALSE]]]
      /\ older' = older
    BY DEF Flush
<1>2. \A i \in Indices, w \in WayIds :
        /\ lines'[i][w] = NoLine <=> lines[i][w] = NoLine
        /\ lines'[i][w] # NoLine =>
            /\ lines'[i][w].address = lines[i][w].address
            /\ lines'[i][w].data = lines[i][w].data
            /\ lines'[i][w] \in Lines
    <2>1. SUFFICES ASSUME NEW i \in Indices, NEW w \in WayIds, lines[i][w] # NoLine
                   PROVE  /\ lines'[i][w] \in Lines
                          /\ lines'[i][w].address = lines[i][w].address
                          /\ lines'[i][w].data = lines[i][w].data
        BY <1>0, <1>1
    <2>2. lines'[i][w] = [lines[i][w] EXCEPT !.dirty = FALSE]
        BY <1>1, <2>1
    <2>3. lines[i][w] \in Lines
        BY <2>1 DEF Coherent, Shape
    <2> QED
        BY <2>2, <2>3 DEF Lines
<1>3. \A b \in Addresses, w \in WayIds : Found(b, w)' <=> Found(b, w)
    BY <1>2, IndexIsSet DEF Found, Index
<1>4. \A b \in Addresses : backing'[b] = Newest(b)
    <2>1. SUFFICES ASSUME NEW b \in Addresses, ~\E w \in WayIds : DirtyLine(b, w)
                   PROVE  backing[b] = Newest(b)
        BY <1>1
    <2>2. CASE Resident(b)
        <3>1. PICK w \in WayIds : Found(b, w)
            BY <2>2 DEF Resident
        <3>2. Newest(b) = lines[Index(b)][w].data
            BY <3>1, FoundIsNewest DEF NewestInCache, Coherent
        <3>3. ~lines[Index(b)][w].dirty
            BY <2>1, <3>1 DEF DirtyLine
        <3> QED
            BY <3>1, <3>2, <3>3, IndexIsSet DEF Coherent, CleanIsHome, Found
    <2>3. CASE ~Resident(b)
        BY <2>3, AbsentIsHome DEF NewestAtHome
    <2> QED
        BY <2>2, <2>3
<1>5. \A b \in Addresses : Defined(b) => backing'[b] \in Data
    BY <1>4, NewestIsLine
<1>6. \A b \in Addresses : ~Defined(b) => backing'[b] = NoData
    BY <1>4, NewestIsLine
<1>7. Shape'
    <2>1. backing' \in [Addresses -> Data \cup {NoData}]
        BY <1>1, <1>5, <1>6
    <2>2. lines' \in [Indices -> [WayIds -> Lines \cup {NoLine}]]
        BY <1>1, <1>2
    <2> QED
        BY <1>1, <2>1, <2>2 DEF Coherent, Shape
<1>8. OneCopy'
    <2>1. \A i \in Indices, w \in WayIds :
            lines[i][w] # NoLine => lines[i][w].address \in Addresses
        BY DEF Coherent, Shape, Lines
    <2>2. \A b \in Addresses : Defined(b) => backing'[b] # NoData
        BY <1>0, <1>5
    <2> QED
        BY <1>2, <2>1, <2>2 DEF Coherent, OneCopy, Index, Defined
<1>9. CleanIsHome'
    <2>1. SUFFICES ASSUME NEW i \in Indices, NEW w \in WayIds, lines[i][w] # NoLine
                   PROVE  lines'[i][w].data = backing'[lines'[i][w].address]
        BY <1>2 DEF CleanIsHome
    <2>2. PICK b \in Addresses : b = lines[i][w].address
        BY <2>1 DEF Coherent, Shape, Lines
    <2>3. Found(b, w) /\ Index(b) = i
        BY <2>1, <2>2 DEF Coherent, OneCopy, Found
    <2>4. Newest(b) = lines[i][w].data
        BY <2>3, FoundIsNewest DEF NewestInCache, Coherent
    <2> QED
        BY <1>2, <1>4, <2>1, <2>2, <2>4
<1>10. ASSUME NEW b \in Addresses PROVE Newest(b)' = Newest(b)
    <2>1. Index(b) \in Indices /\ Index(b)' = Index(b)
        BY IndexIsSet DEF Index
    <2>2. CASE Resident(b)
        <3>1. PICK v \in WayIds : Found(b, v)
            BY <2>2 DEF Resident
        <3>2. Newest(b) = lines[Index(b)][v].data
            BY <3>1, FoundIsNewest DEF NewestInCache, Coherent
        <3>3. Newest(b)' = lines'[Index(b)][v].data
            BY <1>3, <1>8, <2>1, <3>1, FoundIsNewestNext DEF NewestInCache
        <3> QED
            BY <1>2, <2>1, <3>1, <3>2, <3>3 DEF Found
    <2>3. CASE ~Resident(b)
        <3>1. ~Resident(b)'
            BY <1>3, <2>3 DEF Resident
        <3> QED
            BY <1>4, <3>1, AbsentIsHomeNext DEF NewestAtHome
    <2> QED
        BY <2>2, <2>3
<1> QED
    BY <1>7, <1>8, <1>9, <1>10 DEF Coherent, NothingMoves
--------------------------------------------------------------------------------
Inv == TypeOK /\ Coherent

DoneOf(a, bytes) ==
    {[call |-> c, line |-> a, bytes |-> bytes] : c \in {"define", "read", "write"}}

(* What the calls that leave their mark on one line have in common.        *)
LEMMA DoneIsTyped ==
    ASSUME Inv, Coherent', NEW a \in Addresses, NEW bytes \in Data \cup Parts,
           done' \in DoneOf(a, bytes)
    PROVE  Inv'
BY DEF Inv, TypeOK, Coherent, Shape, DoneOf

FlatMemory == [a \in Addresses |-> Newest(a)]

LEMMA FlatMoves ==
    ASSUME NEW a \in Addresses, NEW data, OnlyBecomes(a, data)
    PROVE  FlatMemory' = [FlatMemory EXCEPT ![a] = data]
BY DEF FlatMemory, OnlyBecomes

LEMMA FlatStays == ASSUME NothingMoves PROVE FlatMemory' = FlatMemory
BY DEF FlatMemory, NothingMoves

(* A definition of a line defines it in flat memory.                       *)
LEMMA DefineRefines ==
    ASSUME Inv, NEW a \in Addresses, NEW data \in Data, Define(a, data)
    PROVE  Inv' /\ Flat!Define(a, data)
<1>1. Coherent' /\ OnlyBecomes(a, data)
    BY DefineKeeps DEF Inv
<1>2. done' = Call("define", a, data) /\ ~Defined(a)
    BY DEF Define
<1>3. Inv'
    BY <1>1, <1>2, DoneIsTyped DEF DoneOf, Call
<1>4. FlatMemory' = [FlatMemory EXCEPT ![a] = data]
    BY <1>1, FlatMoves
<1>5. FlatMemory[a] = NoData
    BY <1>2, NewestIsLine DEF FlatMemory, Inv
<1> QED
    BY <1>2, <1>3, <1>4, <1>5 DEF Flat!Define, Flat!Call, Call, FlatMemory

(* A read returns the newest bytes, from the cache or from the home.       *)
LEMMA ReadRefines ==
    ASSUME Inv, NEW a \in Addresses, Read(a)
    PROVE  Inv' /\ Flat!Read(a)
<1>1. Defined(a)
    BY DEF Read
<1>2. Newest(a) \in Data /\ Newest(a) # NoData
    BY <1>1, NewestIsLine DEF Inv
<1>3. Coherent' /\ FlatMemory' = FlatMemory /\ done' = Call("read", a, Newest(a))
    <2>1. CASE ReadHit(a)
        <3>1. PICK w \in WayIds :
                /\ Found(a, w)
                /\ done' = Call("read", a, lines[Index(a)][w].data)
                /\ older' = [older EXCEPT ![Index(a)] = Touched(Index(a), w)]
                /\ lines' = lines /\ backing' = backing
            BY <2>1 DEF ReadHit
        <3>2. Newest(a) = lines[Index(a)][w].data
            BY <3>1, FoundIsNewest DEF NewestInCache, Coherent, Inv
        <3>3. Shape'
            BY <3>1, IndexIsSet DEF Inv, Coherent, Shape, Touched
        <3>4. OneCopy' /\ CleanIsHome'
            BY <3>1 DEF Inv, Coherent, OneCopy, CleanIsHome, Index, Defined
        <3>5. NothingMoves
            BY <3>1 DEF NothingMoves, Newest, Resident, Found, Index
        <3> QED
            BY <3>1, <3>2, <3>3, <3>4, <3>5, FlatStays DEF Coherent
    <2>2. CASE ReadMiss(a)
        <3>1. /\ ~Resident(a)
              /\ done' = Call("read", a, backing[a])
              /\ Allocate(a, backing[a], FALSE, WayIds)
            BY <2>2 DEF ReadMiss
        <3>2. Newest(a) = backing[a]
            BY <3>1, AbsentIsHome DEF NewestAtHome
        <3>3. Coherent' /\ OnlyBecomes(a, Newest(a))
            BY <1>1, <1>2, <3>1, <3>2, AllocateKeeps DEF Inv
        <3>4. NothingMoves
            BY <3>3 DEF NothingMoves, OnlyBecomes
        <3> QED
            BY <3>1, <3>2, <3>3, <3>4, FlatStays
    <2> QED
        BY <2>1, <2>2 DEF Read
<1>4. Inv'
    BY <1>2, <1>3, DoneIsTyped DEF DoneOf, Call
<1>5. FlatMemory[a] = Newest(a)
    BY DEF FlatMemory
<1> QED
    BY <1>2, <1>3, <1>4, <1>5 DEF Flat!Read, Flat!Call, Call, FlatMemory

(* Every way of storing (into a line that is in, into one that is brought  *)
(* in, past the cache) is a store to flat memory.                          *)
LEMMA StoreRefines ==
    ASSUME Inv, NEW a \in Addresses, NEW part \in Parts, Defined(a),
           done' = Call("write", a, part),
           \/ StoreHit(a, part)
           \/ \E admission : StoreMiss(a, part, admission)
           \/ Bypass(a, part)
    PROVE  Inv' /\ Flat!Write(a, part)
<1>1. Newest(a) \in Data /\ Newest(a) # NoData
    BY NewestIsLine DEF Inv
<1>2. Coherent' /\ OnlyBecomes(a, Overlay(Newest(a), part))
    <2>1. CASE StoreHit(a, part)
        BY <2>1, StoreHitKeeps DEF Inv
    <2>2. ASSUME NEW admission, StoreMiss(a, part, admission)
          PROVE  Coherent' /\ OnlyBecomes(a, Overlay(Newest(a), part))
        <3>1. ~Resident(a) /\ Newest(a) = backing[a]
            BY <2>2, AbsentIsHome DEF StoreMiss, NewestAtHome
        <3>2. Overlay(Newest(a), part) \in Data
            BY <1>1, OverlayIsLine
        <3>3. Allocate(a, Overlay(Newest(a), part), TRUE, admission)
            BY <2>2, <3>1 DEF StoreMiss
        <3> QED
            BY <3>1, <3>2, <3>3, AllocateKeeps DEF Inv
    <2>3. CASE Bypass(a, part)
        BY <2>3, BypassKeeps DEF Inv
    <2> QED
        BY <2>1, <2>2, <2>3
<1>3. Inv'
    BY <1>2, DoneIsTyped DEF DoneOf, Call
<1>4. FlatMemory' = [FlatMemory EXCEPT ![a] = Overlay(Newest(a), part)]
    BY <1>2, FlatMoves
<1>5. FlatMemory[a] = Newest(a)
    BY DEF FlatMemory
<1> QED
    BY <1>1, <1>3, <1>4, <1>5 DEF Flat!Write, Flat!Call, Call, FlatMemory

LEMMA FlushRefines ==
    ASSUME Inv, Flush
    PROVE  Inv' /\ Flat!Flush
<1>1. Coherent' /\ FlatMemory' = FlatMemory
    BY FlushKeeps, FlatStays DEF Inv
<1>2. done' = [call |-> "flush"]
    BY DEF Flush
<1>3. Inv'
    BY <1>1, <1>2 DEF Inv, TypeOK, Coherent, Shape
<1> QED
    BY <1>1, <1>2, <1>3 DEF Flat!Flush, FlatMemory
--------------------------------------------------------------------------------
LEMMA InitRefines == ASSUME Init PROVE Inv /\ Flat!Init
<1>1. \A a \in Addresses : ~Resident(a)
    BY IndexIsSet DEF Init, Resident, Found
<1>2. FlatMemory = [a \in Addresses |-> NoData]
    BY <1>1, AbsentIsHome DEF Init, FlatMemory, NewestAtHome
<1>3. TypeOK /\ Shape
    BY DEF Init, TypeOK, Shape
<1>4. OneCopy /\ CleanIsHome
    BY DEF Init, OneCopy, CleanIsHome
<1> QED
    BY <1>2, <1>3, <1>4 DEF Inv, Coherent, Flat!Init, Init, FlatMemory

LEMMA StepRefines ==
    ASSUME Inv, [Next]_vars
    PROVE  Inv' /\ [Flat!Next]_(Flat!vars)
<1>1. ASSUME NEW a \in Addresses, NEW data \in Data, Define(a, data)
      PROVE  Inv' /\ Flat!Next
    BY <1>1, DefineRefines DEF Flat!Next
<1>2. ASSUME NEW a \in Addresses, Read(a)
      PROVE  Inv' /\ Flat!Next
    BY <1>2, ReadRefines DEF Flat!Next
<1>3. ASSUME NEW a \in Addresses, NEW part \in Parts, CpuWrite(a, part)
      PROVE  Inv' /\ Flat!Next
    BY <1>3, StoreRefines DEF CpuWrite, Flat!Next
<1>4. ASSUME NEW a \in Addresses, NEW part \in Parts, BypassWrite(a, part)
      PROVE  Inv' /\ Flat!Next
    BY <1>4, StoreRefines DEF BypassWrite, Flat!Next
<1>5. ASSUME NEW a \in Addresses, NEW part \in Parts, NEW admission \in Admissions,
             IoWrite(a, part, admission)
      PROVE  Inv' /\ Flat!Next
    BY <1>5, StoreRefines DEF IoWrite, Flat!Next
<1>6. CASE Flush
    BY <1>6, FlushRefines DEF Flat!Next
<1>7. CASE UNCHANGED vars
    <2>1. Inv'
        BY <1>7 DEF vars, Inv, TypeOK, Coherent, Shape, OneCopy, CleanIsHome, Index,
                    Defined
    <2>2. UNCHANGED Flat!vars
        BY <1>7 DEF vars, Flat!vars, Newest, Resident, Found, Index
    <2> QED
        BY <2>1, <2>2
<1> QED
    BY <1>1, <1>2, <1>3, <1>4, <1>5, <1>6, <1>7 DEF Next

(* No line is twice in the cache, whatever the admissions were             *)
(* (cache.py:100-104, 184-204).                                            *)
THEOREM LinesAreSingle == Spec => []OneCopy
<1>1. Init => Inv
    BY InitRefines
<1>2. Inv /\ [Next]_vars => Inv'
    BY StepRefines
<1>3. Inv => OneCopy
    BY DEF Inv, Coherent
<1> QED
    BY <1>1, <1>2, <1>3, PTL DEF Spec

(* A clean line may be dropped (cache.py:129-131).                         *)
THEOREM CleanLinesAreHome == Spec => []CleanIsHome
<1>1. Init => Inv
    BY InitRefines
<1>2. Inv /\ [Next]_vars => Inv'
    BY StepRefines
<1>3. Inv => CleanIsHome
    BY DEF Inv, Coherent
<1> QED
    BY <1>1, <1>2, <1>3, PTL DEF Spec

(* The cache is flat memory: any sequence of reads and stores, admitted or *)
(* bypassing, of lines or parts of them, with any evictions and flushes in *)
(* between, returns at each read what was stored last.                     *)
THEOREM CacheIsMemory == Spec => ImplementsMemory
<1>1. Init => Inv /\ Flat!Init
    BY InitRefines
<1>2. Inv /\ [Next]_vars => Inv' /\ [Flat!Next]_(Flat!vars)
    BY StepRefines
<1> QED
    BY <1>1, <1>2, PTL DEF Spec, ImplementsMemory, Flat!Spec
--------------------------------------------------------------------------------
(* Replacement: the order of touches of a set's ways is the order in which *)
(* the lines in them were last used.                                       *)

UsedTyped ==
    /\ used \subseteq Addresses \X Addresses
    /\ \A a, b \in Addresses : <<a, b>> \in used => <<a, a>> \in used /\ <<b, b>> \in used

(* The lines of two ways of a set.                                         *)
Beside(a, v, b, w) == Index(a) = Index(b) /\ v # w /\ Found(a, v) /\ Found(b, w)

OlderIsUsed ==
    \A a, b \in Addresses, v, w \in WayIds :
        Beside(a, v, b, w) => /\ <<v, w>> \in older[Index(a)] => <<a, b>> \in used
                              /\ <<v, w>> \in older[Index(a)] \/ <<w, v>> \in older[Index(a)]

ResidentEntered == \A a \in Addresses, w \in WayIds : Found(a, w) => <<a, a>> \in used

GoneAreOlder ==
    \A a, b \in Addresses, w \in WayIds :
        Index(a) = Index(b) /\ Found(a, w) /\ <<b, b>> \in used =>
            (\E v \in WayIds : Found(b, v)) \/ <<b, a>> \in used

RecencyInv == UsedTyped /\ OlderIsUsed /\ ResidentEntered /\ GoneAreOlder

LEMMA EnteredIs ==
    ASSUME UsedTyped
    PROVE  \A a : a \in Entered <=> a \in Addresses /\ <<a, a>> \in used
<1>1. ASSUME NEW a \in Entered PROVE a \in Addresses /\ <<a, a>> \in used
    <2>1. PICK p \in used : a = p[1] \/ a = p[2]
        BY <1>1 DEF Entered
    <2>2. PICK b \in Addresses, c \in Addresses : p = <<b, c>>
        BY <2>1 DEF UsedTyped
    <2>3. p[1] = b /\ p[2] = c
        BY <2>2
    <2> QED
        BY <2>1, <2>2, <2>3 DEF UsedTyped
<1>2. ASSUME NEW a, <<a, a>> \in used PROVE a \in Entered
    <2>1. <<a, a>>[1] = a
        OBVIOUS
    <2> QED
        BY <1>2, <2>1 DEF Entered
<1> QED
    BY <1>1, <1>2

LEMMA UsedWithout ==
    ASSUME UsedTyped, NEW gone
    PROVE  \A p, q \in Addresses :
             <<p, q>> \in Without(gone) <=> <<p, q>> \in used /\ p \notin gone /\ q \notin gone
BY DEF Without

LEMMA UsedAfter ==
    ASSUME UsedTyped, NEW a \in Addresses, NEW gone, a \notin gone, UseOf(a, gone)
    PROVE  /\ UsedTyped'
           /\ \A p, q \in Addresses :
                <<p, q>> \in used' <=>
                    \/ p # a /\ <<p, q>> \in used /\ p \notin gone /\ q \notin gone
                    \/ q = a /\ (p = a \/ (<<p, p>> \in used /\ p \notin gone))
<1>1. \A p, q \in Addresses :
        <<p, q>> \in used' <=>
            \/ p # a /\ <<p, q>> \in used /\ p \notin gone /\ q \notin gone
            \/ q = a /\ (p = a \/ (<<p, p>> \in used /\ p \notin gone))
    <2> SUFFICES ASSUME NEW p \in Addresses, NEW q \in Addresses
                 PROVE  <<p, q>> \in used' <=>
                            \/ p # a /\ <<p, q>> \in used /\ p \notin gone /\ q \notin gone
                            \/ q = a /\ (p = a \/ (<<p, p>> \in used /\ p \notin gone))
        OBVIOUS
    <2>1. <<p, q>> \in {r \in Without(gone) : r[1] # a} <=>
            p # a /\ <<p, q>> \in used /\ p \notin gone /\ q \notin gone
        BY UsedWithout
    <2>2. <<p, q>> \in {<<b, a>> : b \in (Entered \ gone) \cup {a}} <=>
            q = a /\ (p = a \/ (<<p, p>> \in used /\ p \notin gone))
        BY EnteredIs
    <2> QED
        BY <2>1, <2>2 DEF UseOf
<1>2. used' \subseteq Addresses \X Addresses
    <2>1. {r \in Without(gone) : r[1] # a} \subseteq Addresses \X Addresses
        BY DEF Without, UsedTyped
    <2>2. {<<b, a>> : b \in (Entered \ gone) \cup {a}} \subseteq Addresses \X Addresses
        <3>1. \A b \in (Entered \ gone) \cup {a} : b \in Addresses
            BY EnteredIs
        <3> QED
            BY <3>1
    <2> QED
        BY <2>1, <2>2 DEF UseOf
<1>3. \A p, q \in Addresses : <<p, q>> \in used' => <<p, p>> \in used' /\ <<q, q>> \in used'
    BY <1>1 DEF UsedTyped
<1> QED
    BY <1>1, <1>2, <1>3 DEF UsedTyped

LEMMA FoundOnce ==
    ASSUME Coherent, NEW a \in Addresses, NEW v \in WayIds, Found(a, v)
    PROVE  /\ \A w \in WayIds : Found(a, w) => v = w
           /\ \A b \in Addresses : Index(a) = Index(b) /\ Found(b, v) => a = b
BY IndexIsSet DEF Coherent, OneCopy, Found

(* Line a is now the one in way w, touched last, and those in out are gone. *)
Settles(a, w, out) ==
    /\ \A b \in Addresses, v \in WayIds :
        Found(b, v)' <=> IF b = a THEN v = w ELSE Found(b, v) /\ b \notin out
    /\ \A b \in Addresses \ {a} : Index(b) = Index(a) /\ Found(b, w) => b \in out
    /\ older' = [older EXCEPT ![Index(a)] = Touched(Index(a), w)]

LEMMA TouchedIs ==
    ASSUME NEW i, NEW w, NEW v \in WayIds, NEW u \in WayIds
    PROVE  <<v, u>> \in Touched(i, w) <=>
                v # w /\ (u = w \/ <<v, u>> \in older[i])
<1>1. <<v, u>> \in {p \in older[i] : p[1] # w} <=> v # w /\ <<v, u>> \in older[i]
    OBVIOUS
<1>2. <<v, u>> \in {<<x, w>> : x \in WayIds \ {w}} <=> v # w /\ u = w
    OBVIOUS
<1> QED
    BY <1>1, <1>2 DEF Touched

LEMMA SettlesKeeps ==
    ASSUME Coherent, RecencyInv, NEW a \in Addresses, NEW w \in WayIds, NEW out, NEW gone,
           Settles(a, w, out), UseOf(a, gone), gone \subseteq out, a \notin out,
           \A x \in out : x \in Addresses /\ Found(x, w) /\ Index(x) = Index(a),
           \A x \in out, c \in Addresses, v \in WayIds :
                x \notin gone /\ Beside(x, w, c, v) => <<x, c>> \in used
    PROVE  RecencyInv'
<1>1. /\ UsedTyped'
      /\ \A p, q \in Addresses :
            <<p, q>> \in used' <=>
                \/ p # a /\ <<p, q>> \in used /\ p \notin gone /\ q \notin gone
                \/ q = a /\ (p = a \/ (<<p, p>> \in used /\ p \notin gone))
    BY UsedAfter DEF RecencyInv
<1>2. ResidentEntered'
    BY <1>1 DEF Settles, RecencyInv, ResidentEntered
<1>3. \A i \in Indices : older'[i] = IF i = Index(a) THEN Touched(i, w) ELSE older[i]
    BY DEF Settles, Coherent, Shape
<1>4. OlderIsUsed'
    <2> SUFFICES ASSUME NEW p \in Addresses, NEW q \in Addresses, NEW v \in WayIds,
                        NEW u \in WayIds, Beside(p, v, q, u)'
                 PROVE  /\ <<v, u>> \in older'[Index(p)] => <<p, q>> \in used'
                        /\ <<v, u>> \in older'[Index(p)] \/ <<u, v>> \in older'[Index(p)]
        BY DEF OlderIsUsed, Index
    <2>1. Index(p) = Index(q) /\ v # u /\ Found(p, v)' /\ Found(q, u)' /\ Index(p) \in Indices
        BY IndexIsSet DEF Beside, Index
    <2>2. CASE p # a /\ q # a
        <3>1. Found(p, v) /\ Found(q, u) /\ p \notin out /\ q \notin out
            BY <2>1, <2>2 DEF Settles
        <3>2. Beside(p, v, q, u)
            BY <2>1, <3>1 DEF Beside
        <3>3. /\ <<v, u>> \in older[Index(p)] => <<p, q>> \in used
              /\ <<v, u>> \in older[Index(p)] \/ <<u, v>> \in older[Index(p)]
            BY <3>2 DEF RecencyInv, OlderIsUsed
        <3>4. Index(p) = Index(a) => v # w /\ u # w
            BY <2>1, <2>2, <3>1 DEF Settles
        <3>5. /\ <<v, u>> \in older'[Index(p)] <=> <<v, u>> \in older[Index(p)]
              /\ <<u, v>> \in older'[Index(p)] <=> <<u, v>> \in older[Index(p)]
            BY <1>3, <2>1, <3>4, TouchedIs
        <3> QED
            BY <1>1, <2>2, <3>1, <3>3, <3>5
    <2>3. CASE q = a
        <3>1. p # a /\ u = w /\ v # w /\ Found(p, v) /\ p \notin out
            BY <2>1, <2>3 DEF Settles
        <3>2. <<v, u>> \in older'[Index(p)]
            BY <1>3, <2>1, <2>3, <3>1, TouchedIs
        <3>3. <<p, p>> \in used
            BY <3>1 DEF RecencyInv, ResidentEntered
        <3> QED
            BY <1>1, <2>3, <3>1, <3>2, <3>3
    <2>4. CASE p = a
        <3>1. v = w /\ u # w
            BY <2>1, <2>4 DEF Settles
        <3>2. <<u, v>> \in older'[Index(p)]
            BY <1>3, <2>1, <2>4, <3>1, TouchedIs
        <3>3. <<v, u>> \notin older'[Index(p)]
            BY <1>3, <2>1, <2>4, <3>1, TouchedIs
        <3> QED
            BY <3>2, <3>3
    <2> QED
        BY <2>2, <2>3, <2>4
<1>5. GoneAreOlder'
    <2> SUFFICES ASSUME NEW c \in Addresses, NEW b \in Addresses, NEW v \in WayIds,
                        Index(c) = Index(b), Found(c, v)', <<b, b>> \in used',
                        \A u \in WayIds : ~Found(b, u)'
                 PROVE  <<b, c>> \in used'
        BY DEF GoneAreOlder, Index
    <2>1. b # a
        BY DEF Settles
    <2>2. <<b, b>> \in used /\ b \notin gone
        BY <1>1, <2>1
    <2>3. CASE c = a
        BY <1>1, <2>2, <2>3
    <2>4. CASE c # a
        <3>1. Found(c, v) /\ c \notin out /\ c \notin gone
            BY <2>4 DEF Settles
        <3>2. <<b, c>> \in used
            <4>1. CASE b \in out
                <5>1. v # w
                    BY <2>4, <3>1, <4>1 DEF Settles
                <5>2. Beside(b, w, c, v)
                    BY <3>1, <4>1, <5>1 DEF Beside
                <5> QED
                    BY <2>2, <4>1, <5>2
            <4>2. CASE b \notin out
                <5>1. \A u \in WayIds : ~Found(b, u)
                    BY <2>1, <4>2 DEF Settles
                <5> QED
                    BY <2>2, <3>1, <5>1 DEF RecencyInv, GoneAreOlder
            <4> QED
                BY <4>1, <4>2
        <3> QED
            BY <1>1, <2>1, <2>2, <3>1, <3>2
    <2> QED
        BY <2>3, <2>4
<1> QED
    BY <1>1, <1>2, <1>4, <1>5 DEF RecencyInv

(* A use of a line that is in settles it where it is.                      *)
LEMMA HitSettles ==
    ASSUME Coherent, NEW a \in Addresses, NEW w \in WayIds, Found(a, w),
           \/ UNCHANGED lines
           \/ \E part \in Parts :
                lines' = [lines EXCEPT ![Index(a)][w] = Stored(@, part)],
           older' = [older EXCEPT ![Index(a)] = Touched(Index(a), w)]
    PROVE  Settles(a, w, {})
<1>1. Index(a) \in Indices
    BY IndexIsSet
<1>2. \A i \in Indices, v \in WayIds :
        /\ lines'[i][v] = NoLine <=> lines[i][v] = NoLine
        /\ lines'[i][v] # NoLine => lines'[i][v].address = lines[i][v].address
    <2>1. CASE UNCHANGED lines
        BY <2>1
    <2>2. ASSUME NEW part \in Parts,
                 lines' = [lines EXCEPT ![Index(a)][w] = Stored(@, part)]
          PROVE  \A i \in Indices, v \in WayIds :
                    /\ lines'[i][v] = NoLine <=> lines[i][v] = NoLine
                    /\ lines'[i][v] # NoLine => lines'[i][v].address = lines[i][v].address
        <3> DEFINE line == lines[Index(a)][w]
                   stored == Stored(line, part)
        <3>1. line \in Lines /\ line # NoLine /\ NoLine \notin Lines
            BY <1>1, CacheAssumption DEF Coherent, Shape, Found, Lines, Data, Cells
        <3>2. Overlay(line.data, part) \in Data
            BY <3>1, OverlayIsLine DEF Lines
        <3>3. stored \in Lines /\ stored.address = line.address
            BY <3>1, <3>2 DEF Stored, Lines
        <3>4. \A i \in Indices, v \in WayIds :
                lines'[i][v] = IF i = Index(a) /\ v = w THEN stored ELSE lines[i][v]
            BY <1>1, <2>2 DEF Coherent, Shape
        <3> QED
            BY <3>1, <3>3, <3>4
    <2> QED
        BY <2>1, <2>2
<1>3. \A b \in Addresses, v \in WayIds : Found(b, v)' <=> Found(b, v)
    BY <1>2, IndexIsSet DEF Found, Index
<1>4. \A v \in WayIds : Found(a, v) <=> v = w
    BY FoundOnce
<1>5. \A b \in Addresses \ {a} : ~(Index(b) = Index(a) /\ Found(b, w))
    BY FoundOnce
<1> QED
    BY <1>3, <1>4, <1>5 DEF Settles

(* The line that way w of a's set has, if it has one.                      *)
Evicted(a, w) == {b \in Addresses : Index(b) = Index(a) /\ Found(b, w)}

(* A line that comes in settles in its way, and the line it takes the way  *)
(* of is gone.                                                             *)
LEMMA AllocationSettles ==
    ASSUME Coherent, NEW a \in Addresses, NEW w \in WayIds, ~Resident(a),
           NEW data \in Data, NEW dirty \in BOOLEAN,
           lines' = [lines EXCEPT ![Index(a)][w] =
                        [address |-> a, data |-> data, dirty |-> dirty]],
           older' = [older EXCEPT ![Index(a)] = Touched(Index(a), w)]
    PROVE  Settles(a, w, Evicted(a, w))
<1> DEFINE line == [address |-> a, data |-> data, dirty |-> dirty]
<1>1. Index(a) \in Indices
    BY IndexIsSet
<1>2. line \in Lines /\ line # NoLine /\ line.address = a
    BY CacheAssumption DEF Lines, Data, Cells
<1>3. \A i \in Indices, v \in WayIds :
        lines'[i][v] = IF i = Index(a) /\ v = w THEN line ELSE lines[i][v]
    BY <1>1 DEF Coherent, Shape
<1> HIDE DEF line
<1>4. ASSUME NEW b \in Addresses, NEW v \in WayIds
      PROVE  Found(b, v)' <=> IF b = a THEN v = w
                              ELSE Found(b, v) /\ b \notin Evicted(a, w)
    <2>1. Index(b) \in Indices /\ ~Found(a, v)
        BY IndexIsSet DEF Resident
    <2>2. Found(b, v)' <=> lines'[Index(b)][v] # NoLine /\ lines'[Index(b)][v].address = b
        BY DEF Found, Index
    <2>3. CASE b = a
        BY <1>1, <1>2, <1>3, <2>1, <2>2, <2>3 DEF Found
    <2>4. CASE b # a
        <3>1. Found(b, v) /\ b \in Evicted(a, w) => Index(b) = Index(a) /\ v = w
            BY FoundOnce DEF Evicted
        <3>2. Index(b) = Index(a) /\ v = w /\ Found(b, v) => b \in Evicted(a, w)
            BY DEF Evicted
        <3>3. CASE Index(b) = Index(a) /\ v = w
            BY <1>2, <1>3, <2>1, <2>2, <2>4, <3>2, <3>3
        <3>4. CASE ~(Index(b) = Index(a) /\ v = w)
            BY <1>3, <2>1, <2>2, <2>4, <3>1, <3>4 DEF Found
        <3> QED
            BY <3>3, <3>4
    <2> QED
        BY <2>3, <2>4
<1> QED
    BY <1>4 DEF Settles, Evicted

(* The lowest of some ways is one of them.                                 *)
LEMMA LowestIsOne ==
    ASSUME NEW S \in SUBSET WayIds, S # {}
    PROVE  Min(S) \in S
<1>1. S \subseteq Nat
    BY CacheAssumption DEF WayIds
<1>2. PICK m \in S : \A y \in S : ~(<<y, m>> \in OpToRel(<, Nat))
    BY <1>1, NatLessThanWellFounded, WFMin
<1>3. \A y \in S : ~(y < m)
    BY <1>1, <1>2 DEF OpToRel
<1>4. \A y \in S : m <= y
    BY <1>1, <1>3
<1> QED
    BY <1>4 DEF Min

(* With all ways to choose from, only the line of the oldest way goes.     *)
LEMMA VictimIsOldest ==
    ASSUME Coherent, RecencyInv, NEW a \in Addresses, NEW w \in WayIds,
           Victim(Index(a), WayIds, w), NEW b \in Evicted(a, w),
           NEW c \in Addresses, NEW v \in WayIds, Beside(b, w, c, v)
    PROVE  <<b, c>> \in used
<1> DEFINE empty == {u \in WayIds : lines[Index(a)][u] = NoLine}
<1>1. b \in Addresses /\ Index(b) = Index(a) /\ lines[Index(a)][w] # NoLine
    BY DEF Evicted, Found
<1>2. empty = {}
    BY <1>1, LowestIsOne DEF Victim
<1>3. <<v, w>> \notin older[Index(a)]
    BY <1>2 DEF Victim
<1>4. <<w, v>> \in older[Index(b)]
    BY <1>1, <1>3 DEF RecencyInv, OlderIsUsed
<1> QED
    BY <1>1, <1>4 DEF RecencyInv, OlderIsUsed

(* A line comes in, and the order of use keeps to the order of touches,    *)
(* whether it could take any way or only some.                             *)
LEMMA AllocationKeeps ==
    ASSUME Coherent, RecencyInv, NEW a \in Addresses, ~Resident(a),
           NEW data \in Data, NEW dirty \in BOOLEAN, NEW admission,
           Allocate(a, data, dirty, admission), UseOf(a, PushedOut(admission))
    PROVE  RecencyInv'
<1>1. PICK w \in WayIds :
        /\ Victim(Index(a), admission, w)
        /\ lines' = [lines EXCEPT ![Index(a)][w] =
                        [address |-> a, data |-> data, dirty |-> dirty]]
        /\ older' = [older EXCEPT ![Index(a)] = Touched(Index(a), w)]
    BY DEF Allocate
<1>2. PICK out : out = Evicted(a, w)
    OBVIOUS
<1>3. PICK gone : gone = PushedOut(admission)
    OBVIOUS
<1>4. Settles(a, w, out)
    BY <1>1, <1>2, AllocationSettles
<1>5. UseOf(a, gone)
    BY <1>3 DEF UseOf, Without
<1>6. \A x \in out : x \in Addresses /\ Found(x, w) /\ Index(x) = Index(a)
    BY <1>2 DEF Evicted
<1>7. a \notin out
    BY <1>6 DEF Resident
<1>8. gone \subseteq out
    <2> SUFFICES ASSUME NEW x \in gone PROVE x \in out
        OBVIOUS
    <2>1. x \in Entered /\ Resident(x) /\ ~Resident(x)'
        BY <1>3 DEF PushedOut
    <2>2. x \in Addresses /\ x # a
        BY <2>1, EnteredIs DEF RecencyInv
    <2> QED
        BY <1>4, <2>1, <2>2 DEF Resident, Settles
<1>9. ASSUME NEW x \in out, NEW c \in Addresses, NEW v \in WayIds, x \notin gone,
             Beside(x, w, c, v)
      PROVE  <<x, c>> \in used
    <2>1. CASE admission = WayIds
        BY <1>1, <1>2, <1>9, <2>1, VictimIsOldest
    <2>2. CASE admission # WayIds
        <3>1. Resident(x) /\ x \in Entered
            BY <1>6, EnteredIs DEF Resident, RecencyInv, ResidentEntered
        <3>2. ~Resident(x)'
            BY <1>4, <1>6, <1>7 DEF Settles, Resident
        <3> QED
            BY <1>3, <1>9, <2>2, <3>1, <3>2 DEF PushedOut
    <2> QED
        BY <2>1, <2>2
<1> QED
    BY <1>4, <1>5, <1>6, <1>7, <1>8, <1>9, SettlesKeeps

(* Hits, on whatever was admitted.                                         *)
LEMMA HitKeeps ==
    ASSUME Coherent, RecencyInv, NEW a \in Addresses,
           ReadHit(a) \/ \E part \in Parts : StoreHit(a, part),
           NEW admission, UseOf(a, PushedOut(admission))
    PROVE  RecencyInv'
<1>1. PICK w \in WayIds :
        /\ Found(a, w)
        /\ \/ UNCHANGED lines
           \/ \E part \in Parts : lines' = [lines EXCEPT ![Index(a)][w] = Stored(@, part)]
        /\ older' = [older EXCEPT ![Index(a)] = Touched(Index(a), w)]
    BY DEF ReadHit, StoreHit
<1>2. Settles(a, w, {})
    BY <1>1, HitSettles
<1>3. PICK gone : gone = PushedOut(admission)
    OBVIOUS
<1>4. gone = {}
    <2> SUFFICES ASSUME NEW x \in gone PROVE FALSE
        OBVIOUS
    <2>1. x \in Entered /\ Resident(x) /\ ~Resident(x)'
        BY <1>3 DEF PushedOut
    <2>2. x \in Addresses
        BY <2>1, EnteredIs DEF RecencyInv
    <2> QED
        BY <1>2, <2>1, <2>2 DEF Resident, Settles
<1>5. UseOf(a, gone)
    BY <1>3 DEF UseOf, Without
<1> QED
    BY <1>2, <1>4, <1>5, SettlesKeeps

(* A line taken out takes its uses with it.                                *)
LEMMA BypassKeepsRecency ==
    ASSUME Coherent, RecencyInv, NEW a \in Addresses, NEW part \in Parts,
           Bypass(a, part), Withdraw(a)
    PROVE  RecencyInv'
<1>1. Index(a) \in Indices /\ NoLine \notin Lines
    BY IndexIsSet, CacheAssumption DEF Lines, Data, Cells
<1>2. \A b \in Addresses, v \in WayIds : Found(b, v)' <=> Found(b, v) /\ b # a
    <2> SUFFICES ASSUME NEW b \in Addresses, NEW v \in WayIds
                 PROVE  Found(b, v)' <=> Found(b, v) /\ b # a
        OBVIOUS
    <2>1. lines'[Index(b)][v] = IF Index(b) = Index(a) /\ Found(a, v) THEN NoLine
                                ELSE lines[Index(b)][v]
        BY <1>1, IndexIsSet DEF Bypass, Invalidated, Coherent, Shape
    <2>2. Found(b, v)' <=> lines'[Index(b)][v] # NoLine /\ lines'[Index(b)][v].address = b
        BY DEF Found, Index
    <2>3. Index(b) = Index(a) /\ Found(a, v) /\ Found(b, v) => a = b
        BY FoundOnce
    <2> QED
        BY <2>1, <2>2, <2>3 DEF Found
<1>3. /\ used' \subseteq Addresses \X Addresses
      /\ \A p, q \in Addresses :
            <<p, q>> \in used' <=> <<p, q>> \in used /\ p # a /\ q # a
    BY UsedWithout DEF Withdraw, Without, RecencyInv, UsedTyped
<1>4. older' = older
    BY DEF Bypass
<1>5. UsedTyped' /\ ResidentEntered'
    BY <1>2, <1>3 DEF RecencyInv, UsedTyped, ResidentEntered
<1>6. OlderIsUsed'
    BY <1>2, <1>3, <1>4 DEF RecencyInv, OlderIsUsed, Beside, Index
<1>7. GoneAreOlder'
    BY <1>2, <1>3 DEF RecencyInv, GoneAreOlder, Index
<1> QED
    BY <1>5, <1>6, <1>7 DEF RecencyInv

(* A step that leaves the lines where they are and uses none.              *)
LEMMA StillnessKeeps ==
    ASSUME RecencyInv, UNCHANGED <<older, used>>,
           \A b \in Addresses, v \in WayIds : Found(b, v)' <=> Found(b, v)
    PROVE  RecencyInv'
<1>1. UsedTyped' /\ ResidentEntered'
    BY DEF RecencyInv, UsedTyped, ResidentEntered
<1>2. OlderIsUsed'
    BY DEF RecencyInv, OlderIsUsed, Beside, Index
<1>3. GoneAreOlder'
    BY DEF RecencyInv, GoneAreOlder, Index
<1> QED
    BY <1>1, <1>2, <1>3 DEF RecencyInv

LEMMA FlushMovesNone ==
    ASSUME Coherent, Flush
    PROVE  \A b \in Addresses, v \in WayIds : Found(b, v)' <=> Found(b, v)
<1>1. \A i \in Indices, w \in WayIds :
        /\ lines'[i][w] = NoLine <=> lines[i][w] = NoLine
        /\ lines'[i][w] # NoLine => lines'[i][w].address = lines[i][w].address
    <2> SUFFICES ASSUME NEW i \in Indices, NEW w \in WayIds
                 PROVE  /\ lines'[i][w] = NoLine <=> lines[i][w] = NoLine
                        /\ lines'[i][w] # NoLine =>
                                lines'[i][w].address = lines[i][w].address
        OBVIOUS
    <2>1. lines'[i][w] = IF lines[i][w] = NoLine THEN NoLine
                         ELSE [lines[i][w] EXCEPT !.dirty = FALSE]
        BY DEF Flush
    <2>2. lines[i][w] # NoLine => lines[i][w] \in Lines
        BY DEF Coherent, Shape
    <2>3. NoLine \notin Lines
        BY CacheAssumption DEF Lines, Data, Cells
    <2> QED
        BY <2>1, <2>2, <2>3 DEF Lines
<1> QED
    BY <1>1, IndexIsSet DEF Found, Index

LEMMA DefinedHasBytes ==
    ASSUME Coherent, NEW a \in Addresses, Defined(a)
    PROVE  backing[a] \in Data
BY DEF Coherent, Shape, Defined

LEMMA RecencyStep ==
    ASSUME Inv, RecencyInv, [RNext]_rvars
    PROVE  RecencyInv'
<1>1. Coherent
    BY DEF Inv
<1>2. ASSUME NEW a \in Addresses, NEW data \in Data, Define(a, data), UNCHANGED used
      PROVE  RecencyInv'
    <2>1. lines' = lines /\ older' = older
        BY <1>2 DEF Define
    <2>2. \A b \in Addresses, v \in WayIds : Found(b, v)' <=> Found(b, v)
        BY <2>1 DEF Found, Index
    <2> QED
        BY <1>2, <2>1, <2>2, StillnessKeeps
<1>3. ASSUME NEW a \in Addresses, Read(a), UseOf(a, {})
      PROVE  RecencyInv'
    <2>1. UseOf(a, PushedOut(WayIds))
        BY <1>3 DEF PushedOut
    <2>2. CASE ReadHit(a)
        BY <1>1, <2>1, <2>2, HitKeeps
    <2>3. CASE ReadMiss(a)
        <3>1. Defined(a) /\ backing[a] \in Data
            BY <1>1, <1>3, DefinedHasBytes DEF Read
        <3> QED
            BY <1>1, <2>1, <2>3, <3>1, AllocationKeeps DEF ReadMiss
    <2> QED
        BY <1>3, <2>2, <2>3 DEF Read
<1>4. ASSUME NEW a \in Addresses, NEW part \in Parts, NEW admission, Defined(a),
             StoreHit(a, part) \/ StoreMiss(a, part, admission),
             UseOf(a, PushedOut(admission))
      PROVE  RecencyInv'
    <2>1. CASE StoreHit(a, part)
        BY <1>1, <1>4, <2>1, HitKeeps
    <2>2. CASE StoreMiss(a, part, admission)
        <3>1. Overlay(backing[a], part) \in Data
            BY <1>1, <1>4, DefinedHasBytes, OverlayIsLine
        <3> QED
            BY <1>1, <1>4, <2>2, <3>1, AllocationKeeps DEF StoreMiss
    <2> QED
        BY <1>4, <2>1, <2>2
<1>5. ASSUME NEW a \in Addresses, NEW part \in Parts, CpuWrite(a, part), UseOf(a, {})
      PROVE  RecencyInv'
    <2>1. UseOf(a, PushedOut(WayIds))
        BY <1>5 DEF PushedOut
    <2> QED
        BY <1>4, <1>5, <2>1 DEF CpuWrite
<1>6. ASSUME NEW a \in Addresses, NEW part \in Parts, BypassWrite(a, part), Withdraw(a)
      PROVE  RecencyInv'
    BY <1>1, <1>6, BypassKeepsRecency DEF BypassWrite
<1>7. ASSUME NEW a \in Addresses, NEW part \in Parts, NEW admission \in Admissions,
             IoWrite(a, part, admission),
             IF admission = {} /\ ~Resident(a) THEN Withdraw(a)
             ELSE UseOf(a, PushedOut(admission))
      PROVE  RecencyInv'
    <2>1. Defined(a)
        BY <1>7 DEF IoWrite
    <2>2. CASE admission = {} /\ ~Resident(a)
        <3>1. Bypass(a, part) /\ Withdraw(a)
            BY <1>7, <2>2 DEF IoWrite, StoreHit, Resident
        <3> QED
            BY <1>1, <3>1, BypassKeepsRecency
    <2>3. CASE ~(admission = {} /\ ~Resident(a))
        <3>1. StoreHit(a, part) \/ StoreMiss(a, part, admission)
            BY <1>7, <2>3 DEF IoWrite
        <3> QED
            BY <1>4, <1>7, <2>1, <2>3, <3>1
    <2> QED
        BY <2>2, <2>3
<1>8. CASE Flush /\ UNCHANGED used
    <2>1. older' = older
        BY <1>8 DEF Flush
    <2> QED
        BY <1>1, <1>8, <2>1, FlushMovesNone, StillnessKeeps
<1>9. CASE UNCHANGED rvars
    <2>1. UNCHANGED <<lines, older, used>>
        BY <1>9 DEF rvars, vars
    <2>2. \A b \in Addresses, v \in WayIds : Found(b, v)' <=> Found(b, v)
        BY <2>1 DEF Found, Index
    <2> QED
        BY <2>1, <2>2, StillnessKeeps
<1> QED
    BY <1>2, <1>3, <1>5, <1>6, <1>7, <1>8, <1>9 DEF RNext

LEMMA RecencyStart == ASSUME RInit PROVE RecencyInv
<1>1. \A a \in Addresses, w \in WayIds : ~Found(a, w)
    BY IndexIsSet DEF RInit, Init, Found
<1> QED
    BY <1>1 DEF RInit, RecencyInv, UsedTyped, OlderIsUsed, Beside, ResidentEntered,
                GoneAreOlder

(* Every line that an allocation with the whole set to choose from pushed  *)
(* out was last used before each line that stayed, for all sizes of cache, *)
(* all admissions and any withdrawals in between (cache.py:106-108,        *)
(* 120-139).                                                               *)
THEOREM EvictedWereOlder == RSpec => []EvictedAreOlder
<1>1. RInit => Inv /\ RecencyInv
    BY InitRefines, RecencyStart DEF RInit
<1>2. Inv /\ RecencyInv /\ [RNext]_rvars => Inv' /\ RecencyInv'
    <2> SUFFICES ASSUME Inv, RecencyInv, [RNext]_rvars PROVE Inv' /\ RecencyInv'
        OBVIOUS
    <2>1. [Next]_vars
        BY DEF RNext, Next, rvars
    <2> QED
        BY <2>1, StepRefines, RecencyStep
<1>3. Inv /\ RecencyInv => EvictedAreOlder
    <2> SUFFICES ASSUME RecencyInv, NEW a \in Entered, NEW b \in Entered,
                        Index(a) = Index(b), Resident(a), ~Resident(b)
                 PROVE  <<b, a>> \in used
        BY DEF EvictedAreOlder
    <2>1. a \in Addresses /\ b \in Addresses /\ <<b, b>> \in used
        BY EnteredIs DEF RecencyInv
    <2> QED
        BY <2>1 DEF RecencyInv, GoneAreOlder, Resident
<1> QED
    BY <1>1, <1>2, <1>3, PTL DEF RSpec

--------------------------------------------------------------------------------
(* The replay (CacheReplay).  First its lines, their parts and numbers.    *)

(* The numbers of the layout, from ReplayAssumption.                       *)
LEMMA Sizes ==
    /\ Window \in Nat \ {0} /\ LineCells \in Nat /\ LineCells >= 5
    /\ LineCount(MaxPacketBytes) \in 0..60
    /\ SlotBase = 1024 /\ SlotStride = 64 /\ PayloadOffset = 4
    /\ Check!LineBytes = 64 /\ Check!Slots = 0..(Window - 1)
    /\ Flows \subseteq Nat /\ Serials \subseteq Nat
<1>1. Len(FIELDS) = 5
    BY DEF FIELDS
<1>2. Check!LineBytes = 64 /\ Check!Slots = 0..(Window - 1)
    BY DEF Check!LineBytes, Check!Slots
<1>3. LineCells \in Nat
    BY CacheAssumption
<1>4. LineCount(MaxPacketBytes) \in 0..60
    BY ReplayAssumption, <1>2 DEF LineCount, SlotStride, PayloadOffset
<1> QED
    BY <1>1, <1>2, <1>3, <1>4, ReplayAssumption DEF SlotBase, SlotStride, PayloadOffset

LEMMA LinesOfPacket ==
    ASSUME NEW p \in Packable
    PROVE  /\ Length[p] \in Nat \ {0} /\ Length[p] <= MaxPacketBytes
           /\ LineCount(Length[p]) \in 1..LineCount(MaxPacketBytes)
           /\ Check!Charge(p) \div Check!LineBytes = LineCount(Length[p])
<1>1. /\ Length[p] \in 1..MaxPacketBytes /\ MaxPacketBytes \in Nat
    BY ReplayAssumption DEF Packable
<1> DEFINE n == Length[p]
<1>2. n \in Nat /\ n >= 1 /\ n <= MaxPacketBytes
    BY <1>1
<1>3. LineCount(n) = (n + 63) \div 64 /\ LineCount(MaxPacketBytes) = (MaxPacketBytes + 63) \div 64
    BY <1>1, <1>2, Sizes DEF LineCount
<1>4. Check!Charge(p) = ((n + 63) \div 64) * 64
    BY <1>2, Sizes DEF Check!Charge
<1> HIDE DEF n
<1>5. (n + 63) \div 64 \in 1..((MaxPacketBytes + 63) \div 64)
    BY <1>1, <1>2
<1>6. (((n + 63) \div 64) * 64) \div 64 = (n + 63) \div 64
    BY <1>2
<1> QED
    BY <1>1, <1>2, <1>3, <1>4, <1>5, <1>6, Sizes DEF n

(* A packet fills 1 to 60 lines of its slot.                               *)
LEMMA LineCounts ==
    ASSUME NEW p \in Packable
    PROVE  /\ LineCount(Length[p]) \in 1..60
           /\ 0..(LineCount(Length[p]) - 1) \subseteq 0..(LineCount(MaxPacketBytes) - 1)
           /\ 0..(LineCount(MaxPacketBytes) - 1) \subseteq 0..59
<1>1. \A n, m \in Int : m \in 0..60 /\ n \in 1..m =>
        n \in 1..60 /\ 0..(n - 1) \subseteq 0..(m - 1) /\ 0..(m - 1) \subseteq 0..59
    OBVIOUS
<1>2. LineCount(MaxPacketBytes) \in 0..60
    BY Sizes
<1>3. LineCount(Length[p]) \in 1..LineCount(MaxPacketBytes)
    BY LinesOfPacket
<1>4. LineCount(MaxPacketBytes) \in Int /\ LineCount(Length[p]) \in Int
    BY <1>2, <1>3
<1> QED
    BY <1>1, <1>2, <1>3, <1>4

LEMMA OneRow ==
    ASSUME NEW w \in Nat \ {0}, NEW f \in Nat, NEW g \in Nat, NEW k \in 0..(w - 1),
           NEW l \in 0..(w - 1), f * w + k = g * w + l
    PROVE  f = g /\ k = l
<1>1. ~(f < g)
    <2>1. SUFFICES ASSUME f < g PROVE FALSE
        OBVIOUS
    <2>2. PICK d \in Nat : g = f + 1 + d
        <3>1. g - f - 1 \in Nat
            BY <2>1
        <3> QED
            BY <3>1
    <2>3. g * w = f * w + w + d * w
        BY <2>2
    <2>4. d * w \in Nat /\ f * w \in Nat
        OBVIOUS
    <2> QED
        BY <2>3, <2>4
<1>2. ~(g < f)
    <2>1. SUFFICES ASSUME g < f PROVE FALSE
        OBVIOUS
    <2>2. PICK d \in Nat : f = g + 1 + d
        <3>1. f - g - 1 \in Nat
            BY <2>1
        <3> QED
            BY <3>1
    <2>3. f * w = g * w + w + d * w
        BY <2>2
    <2>4. d * w \in Nat /\ g * w \in Nat
        OBVIOUS
    <2> QED
        BY <2>3, <2>4
<1>3. f = g
    BY <1>1, <1>2
<1> QED
    BY <1>3

(* Slots are apart, and so are the lines of one slot.                      *)
LEMMA SlotsApart ==
    ASSUME NEW t, NEW u, t.flow \in Flows, u.flow \in Flows,
           t.slot \in Check!Slots, u.slot \in Check!Slots,
           NEW a \in 0..63, NEW b \in 0..63, SlotLine(t) + a = SlotLine(u) + b
    PROVE  t.flow = u.flow /\ t.slot = u.slot /\ a = b
<1> DEFINE x == t.flow * Window + t.slot
           y == u.flow * Window + u.slot
<1>0. /\ t.flow \in Nat /\ u.flow \in Nat /\ Window \in Nat
      /\ t.slot \in Nat /\ u.slot \in Nat
    <2> HIDE DEF x, y
    <2>1. Window \in Nat /\ Check!Slots = 0..(Window - 1) /\ Flows \subseteq Nat
        BY Sizes
    <2>2. t.flow \in Nat /\ u.flow \in Nat
        BY <2>1
    <2>3. t.slot \in 0..(Window - 1) /\ u.slot \in 0..(Window - 1)
        BY <2>1
    <2> QED
        BY <2>1, <2>2, <2>3
<1>1. x \in Nat /\ y \in Nat
    BY <1>0
<1>2. 1024 + x * 64 + a = 1024 + y * 64 + b
    BY Sizes DEF SlotLine
<1>3. x = y /\ a = b
    <2> HIDE DEF x, y
    <2> QED BY <1>1, <1>2
<1>4. t.flow \in Nat /\ u.flow \in Nat /\ t.slot \in 0..(Window - 1) /\ u.slot \in 0..(Window - 1)
    BY Sizes
<1>5. t.flow * Window + t.slot = u.flow * Window + u.slot
    BY <1>3
<1>6. t.flow = u.flow /\ t.slot = u.slot
    <2>1. \A f, g \in Nat, k, l \in 0..(Window - 1) :
            f * Window + k = g * Window + l => f = g /\ k = l
        <3> HIDE DEF x, y
        <3> QED BY OneRow, Sizes
    <2> HIDE DEF x, y
    <2> QED BY <1>4, <1>5, <2>1
<1> QED
    BY <1>3, <1>6
--------------------------------------------------------------------------------
(* Parts of packets, and where they go.                                    *)

(* Each field of a descriptor has a cell of its own.                       *)
LEMMA FieldCells ==
    /\ \A k \in Fields : FieldCell(k) \in 0..4 /\ FieldCell(k) \in Cells
    /\ \A k, l \in Fields : FieldCell(k) = FieldCell(l) => k = l
<1>1. /\ DOMAIN FIELDS = 1..5 /\ Len(FIELDS) = 5
    BY DEF FIELDS
<1>2. \A k \in Fields : \E n \in 1..5 : FIELDS[n] = k
    BY <1>1, ReplayAssumption
<1>3. \A k \in Fields : FieldCell(k) + 1 \in 1..5 /\ FIELDS[FieldCell(k) + 1] = k
    <2> SUFFICES ASSUME NEW k \in Fields
                 PROVE  FieldCell(k) + 1 \in 1..5 /\ FIELDS[FieldCell(k) + 1] = k
        OBVIOUS
    <2> DEFINE m == CHOOSE n \in 1..Len(FIELDS) : FIELDS[n] = k
    <2>1. m \in 1..5 /\ FIELDS[m] = k
        BY <1>1, <1>2
    <2>2. FieldCell(k) = m - 1
        BY DEF FieldCell
    <2> HIDE DEF m
    <2>3. FieldCell(k) + 1 = m
        BY <2>1, <2>2
    <2> QED
        BY <2>1, <2>3
<1>5. \A k \in Fields : FieldCell(k) \in 0..4
    <2> SUFFICES ASSUME NEW k \in Fields PROVE FieldCell(k) \in 0..4
        OBVIOUS
    <2> DEFINE m == CHOOSE n \in 1..Len(FIELDS) : FIELDS[n] = k
    <2>1. m \in 1..5
        BY <1>1, <1>2
    <2>2. FieldCell(k) = m - 1
        BY DEF FieldCell
    <2> HIDE DEF m
    <2> QED
        BY <2>1, <2>2
<1>6. 0..4 \subseteq Cells
    BY Sizes DEF Cells
<1> QED
    BY <1>3, <1>5, <1>6

OffsetOf(component) ==
    IF component = Check!ReadyComponent THEN 1
    ELSE IF IsPayload(component) THEN PayloadOffset + component[2] ELSE 0

Owned(p) == Check!RequiredData(p) \cup {Check!ReadyComponent}

(* A packet stores payload lines, descriptor fields and a marker.          *)
LEMMA ComponentKinds ==
    ASSUME NEW p \in Packable, NEW component \in Owned(p)
    PROVE  \/ component = Check!ReadyComponent /\ ~IsPayload(component)
           \/ /\ component # Check!ReadyComponent /\ IsPayload(component)
              /\ \E i \in 0..(LineCount(Length[p]) - 1) : component = <<"payload", i>>
           \/ /\ component # Check!ReadyComponent /\ ~IsPayload(component)
              /\ \E k \in Fields : component = <<"descriptor", k>>
<1>1. Check!RequiredData(p) =
        {<<"payload", i>> : i \in 0..(LineCount(Length[p]) - 1)}
        \cup {<<"descriptor", k>> : k \in Fields}
    BY LinesOfPacket DEF Check!RequiredData
<1>2. \A i : <<"payload", i>> # Check!ReadyComponent /\ IsPayload(<<"payload", i>>)
    BY DEF Check!ReadyComponent, IsPayload
<1>3. \A k : <<"descriptor", k>> # Check!ReadyComponent /\ ~IsPayload(<<"descriptor", k>>)
    BY DEF Check!ReadyComponent, IsPayload
<1>4. ~IsPayload(Check!ReadyComponent)
    BY DEF Check!ReadyComponent, IsPayload
<1> QED
    BY <1>1, <1>2, <1>3, <1>4 DEF Owned

LEMMA RequiredIs ==
    ASSUME NEW p \in Packable
    PROVE  Check!RequiredData(p) =
            {<<"payload", i>> : i \in 0..(LineCount(Length[p]) - 1)}
            \cup {<<"descriptor", k>> : k \in Fields}
BY LinesOfPacket DEF Check!RequiredData

LEMMA OwnedAreComponents ==
    ASSUME NEW p \in Packable PROVE Owned(p) \subseteq Components
<1>1. \A i \in 0..(LineCount(Length[p]) - 1) : i \in 0..(LineCount(MaxPacketBytes) - 1)
    BY LineCounts
<1> QED
    BY <1>1, RequiredIs DEF Owned, Components

(* Where they are in the slot; line 2 is the release marker's.             *)
LEMMA OffsetsDiffer ==
    ASSUME NEW p \in Packable
    PROVE  /\ \A c \in Owned(p) :
                /\ OffsetOf(c) \in 0..63 /\ OffsetOf(c) # 2
                /\ ~IsPayload(c) => OffsetOf(c) \in {0, 1}
                /\ OffsetOf(c) = 1 <=> c = Check!ReadyComponent
           /\ \A i \in 0..(LineCount(Length[p]) - 1) : OffsetOf(<<"payload", i>>) = 4 + i
           /\ \A k : OffsetOf(<<"descriptor", k>>) = 0
<1>1. \A i : OffsetOf(<<"payload", i>>) = 4 + i
    BY Sizes DEF OffsetOf, Check!ReadyComponent, IsPayload
<1>2. \A k : OffsetOf(<<"descriptor", k>>) = 0
    BY DEF OffsetOf, Check!ReadyComponent, IsPayload
<1>3. OffsetOf(Check!ReadyComponent) = 1
    BY DEF OffsetOf
<1>4. LineCount(Length[p]) \in 1..60
    BY LineCounts
<1>5. ASSUME NEW c \in Owned(p)
      PROVE  /\ OffsetOf(c) \in 0..63 /\ OffsetOf(c) # 2
             /\ ~IsPayload(c) => OffsetOf(c) \in {0, 1}
             /\ OffsetOf(c) = 1 <=> c = Check!ReadyComponent
    <2>1. CASE c = Check!ReadyComponent
        BY <1>3, <2>1
    <2>2. CASE c # Check!ReadyComponent /\ IsPayload(c)
               /\ \E i \in 0..(LineCount(Length[p]) - 1) : c = <<"payload", i>>
        <3>1. PICK i \in 0..(LineCount(Length[p]) - 1) : c = <<"payload", i>>
            BY <2>2
        <3>2. OffsetOf(c) = 4 + i
            BY <3>1, <1>1
        <3> QED
            BY <2>2, <3>2, <1>4
    <2>3. CASE c # Check!ReadyComponent /\ ~IsPayload(c)
               /\ \E k \in Fields : c = <<"descriptor", k>>
        BY <2>3, <1>2
    <2> QED
        BY <2>1, <2>2, <2>3, ComponentKinds
<1> QED
    BY <1>1, <1>2, <1>5
--------------------------------------------------------------------------------
(* What one write of a packet puts where, whatever the tables are.         *)
LineOf(t, component) == SlotLine(t) + OffsetOf(component)

PartOf(t, p, component) ==
    IF component = Check!ReadyComponent THEN ReadyPart(t)
    ELSE IF IsPayload(component) THEN PaddedPart(p, component[2])
    ELSE FieldPart(component[2], Check!DescriptorOf(t, p)[component[2]])

LEMMA PartFrom ==
    ASSUME NEW lo \in Cells, NEW hi \in Cells, NEW g \in [lo..hi -> Values], NEW c \in DOMAIN g
    PROVE  g \in Parts
<1> DEFINE F == {[x..y -> Values] : x \in Cells, y \in Cells}
<1>1. [lo..hi -> Values] \in F
    OBVIOUS
<1>2. g # <<>>
    <2>1. DOMAIN <<>> = {}
        OBVIOUS
    <2> QED
        BY <2>1
<1>3. Parts = (UNION F) \ {<<>>}
    BY DEF Parts
<1> HIDE DEF F
<1>4. g \in UNION F
    BY <1>1
<1> QED
    BY <1>2, <1>3, <1>4

LEMMA CellPart ==
    ASSUME NEW c \in Cells, NEW v \in Values PROVE [x \in {c} |-> v] \in Parts
<1> DEFINE g == [x \in {c} |-> v]
<1>1. c \in Int
    BY Sizes DEF Cells
<1>2. c..c = {c}
    BY <1>1
<1>3. g \in [c..c -> Values]
    BY <1>2
<1>4. c \in DOMAIN g
    OBVIOUS
<1> HIDE DEF g
<1>5. g \in Parts
    BY <1>3, <1>4, PartFrom
<1> QED
    BY <1>5 DEF g

LEMMA WholePart == Data \subseteq Parts
<1>1. SUFFICES ASSUME NEW d \in Data PROVE d \in Parts
    OBVIOUS
<1>2. 0 \in Cells /\ LineCells - 1 \in Cells /\ Cells = 0..(LineCells - 1)
    BY Sizes DEF Cells
<1>3. d \in [0..(LineCells - 1) -> Values] /\ 0 \in DOMAIN d
    BY <1>2 DEF Data
<1> QED
    BY <1>2, <1>3, PartFrom

LEMMA ZeroCell == 0 \in Cells
BY Sizes DEF Cells

(* A withdrawn line has the bytes of the payload, padded.                  *)
LEMMA PayloadParts ==
    ASSUME NEW p \in Packable, NEW i \in 0..(LineCount(Length[p]) - 1)
    PROVE  /\ PayloadPart(p, i) \in Parts /\ PaddedPart(p, i) \in Parts
           /\ DOMAIN PayloadPart(p, i) \subseteq Cells /\ DOMAIN PaddedPart(p, i) = Cells
           /\ \A c \in DOMAIN PayloadPart(p, i) : PaddedPart(p, i)[c] = PayloadPart(p, i)[c]
<1>1. <<"payload", p, i>> \in Values /\ Zero \in Values
    <2>1. i \in 0..(LineCount(MaxPacketBytes) - 1)
        BY LineCounts
    <2>2. <<"payload", p, i>> \in Words /\ Zero \in Words
        BY <2>1 DEF Words
    <2> QED
        BY <2>2, ReplayAssumption
<1>2. \/ PayloadPart(p, i) = [c \in Cells |-> <<"payload", p, i>>]
      \/ PayloadPart(p, i) = [c \in {0} |-> <<"payload", p, i>>]
    BY DEF PayloadPart
<1>3. PayloadPart(p, i) \in Parts
    BY <1>1, <1>2, ZeroCell, CellPart, WholePart DEF Data
<1>4. DOMAIN PayloadPart(p, i) \subseteq Cells
    BY <1>2, ZeroCell
<1>5. \A c \in DOMAIN PayloadPart(p, i) : PayloadPart(p, i)[c] \in Values
    BY <1>1, <1>2
<1>6. PaddedPart(p, i) \in Data
    BY <1>1, <1>5 DEF PaddedPart, Data
<1>7. \A c \in DOMAIN PayloadPart(p, i) : PaddedPart(p, i)[c] = PayloadPart(p, i)[c]
    BY <1>4 DEF PaddedPart
<1>8. DOMAIN PaddedPart(p, i) = Cells
    BY DEF PaddedPart
<1> QED
    BY <1>3, <1>4, <1>6, <1>7, <1>8, WholePart

LEMMA TokenIs ==
    ASSUME NEW t \in Tokens
    PROVE  /\ t.flow \in Flows /\ t.serial \in Serials /\ t.slot \in Check!Slots
           /\ t.generation \in 1..MaxGeneration
           /\ t = [flow |-> t.flow, serial |-> t.serial, slot |-> t.slot,
                   generation |-> t.generation]
BY DEF Tokens

LEMMA MarkParts ==
    ASSUME NEW t \in Tokens
    PROVE  ReadyPart(t) \in Parts /\ ReleasePart(t) \in Parts
           /\ DOMAIN ReadyPart(t) = {0}
<1>1. Word("ready", t.generation) \in Values /\ Word("release", t.generation) \in Values
    BY TokenIs, ReplayAssumption DEF Words
<1> QED
    BY <1>1, ZeroCell, CellPart DEF ReadyPart, ReleasePart

LEMMA FieldParts ==
    ASSUME NEW t \in Tokens, NEW p \in Packable, NEW k \in Fields
    PROVE  /\ FieldPart(k, Check!DescriptorOf(t, p)[k]) \in Parts
           /\ DOMAIN FieldPart(k, Check!DescriptorOf(t, p)[k]) = {FieldCell(k)}
           /\ FieldPart(k, Check!DescriptorOf(t, p)[k])[FieldCell(k)]
                = Word(k, Check!DescriptorOf(t, p)[k])
<1>1. Word(k, Check!DescriptorOf(t, p)[k]) \in Values
    BY ReplayAssumption DEF Words
<1> QED
    BY <1>1, FieldCells, CellPart DEF FieldPart

LEMMA PartIs ==
    ASSUME NEW t \in Tokens, NEW p \in Packable, NEW component \in Owned(p)
    PROVE  PartOf(t, p, component) \in Parts /\ DOMAIN PartOf(t, p, component) \subseteq Cells
<1>0. \A k : <<"payload", k>>[2] = k /\ <<"descriptor", k>>[2] = k
    OBVIOUS
<1>1. CASE component = Check!ReadyComponent
    BY <1>1, MarkParts, ZeroCell DEF PartOf
<1>2. CASE component # Check!ReadyComponent /\ IsPayload(component)
           /\ \E i \in 0..(LineCount(Length[p]) - 1) : component = <<"payload", i>>
    <2>1. PICK i \in 0..(LineCount(Length[p]) - 1) : component = <<"payload", i>>
        BY <1>2
    <2>2. PartOf(t, p, component) = PaddedPart(p, i)
        BY <1>0, <1>2, <2>1 DEF PartOf
    <2> QED
        BY <2>2, PayloadParts
<1>3. CASE component # Check!ReadyComponent /\ ~IsPayload(component)
           /\ \E k \in Fields : component = <<"descriptor", k>>
    <2>1. PICK k \in Fields : component = <<"descriptor", k>>
        BY <1>3
    <2>2. PartOf(t, p, component) = FieldPart(k, Check!DescriptorOf(t, p)[k])
        BY <1>0, <1>3, <2>1 DEF PartOf
    <2>3. /\ FieldPart(k, Check!DescriptorOf(t, p)[k]) \in Parts
          /\ DOMAIN FieldPart(k, Check!DescriptorOf(t, p)[k]) = {FieldCell(k)}
        BY FieldParts
    <2>4. FieldCell(k) \in Cells
        BY FieldCells
    <2> QED
        BY <2>2, <2>3, <2>4
<1> QED
    BY <1>1, <1>2, <1>3, ComponentKinds

(* The lines of a slot are lines of slots.                                 *)
LEMMA SlotLineIs ==
    ASSUME NEW t \in Tokens
    PROVE  /\ SlotLine(t) \in Nat
           /\ \A a \in {0, 1, 2} : SlotLine(t) + a \in SlotLines
           /\ \A i \in 0..(LineCount(MaxPacketBytes) - 1) :
                /\ PayloadLine(t, i) = SlotLine(t) + (4 + i)
                /\ PayloadLine(t, i) \in SlotLines
<1> DEFINE u == [flow |-> t.flow, slot |-> t.slot]
<1>1. u \in [flow : Flows, slot : Check!Slots]
    BY TokenIs
<1>2. SlotLine(u) = SlotLine(t)
    BY DEF SlotLine
<1>3. SlotLine(t) \in Nat
    <2>1. t.flow \in Nat /\ t.slot \in Nat /\ Window \in Nat
        BY TokenIs, Sizes
    <2>2. t.flow * Window \in Nat
        BY <2>1
    <2>3. t.flow * Window + t.slot \in Nat
        BY <2>1, <2>2
    <2> QED
        BY <2>3, Sizes DEF SlotLine
<1>4. \A i \in 0..(LineCount(MaxPacketBytes) - 1) :
        /\ PayloadLine(t, i) = SlotLine(t) + (4 + i)
        /\ PayloadLine(t, i) = PayloadLine(u, i)
    BY <1>2, <1>3, Sizes DEF PayloadLine
<1>5. /\ DescriptorLine(u) = SlotLine(t) + 0
      /\ ReadyLine(u) = SlotLine(t) + 1 /\ ReleaseLine(u) = SlotLine(t) + 2
    BY <1>2, <1>3 DEF DescriptorLine, ReadyLine, ReleaseLine
<1> HIDE DEF u
<1>6. {DescriptorLine(u), ReadyLine(u), ReleaseLine(u)} \subseteq SlotLines
    BY <1>1 DEF SlotLines
<1>7. \A i \in 0..(LineCount(MaxPacketBytes) - 1) : PayloadLine(u, i) \in SlotLines
    BY <1>1 DEF SlotLines
<1> QED
    BY <1>3, <1>4, <1>5, <1>6, <1>7

LEMMA LineIs ==
    ASSUME NEW t \in Tokens, NEW p \in Packable, NEW component \in Owned(p)
    PROVE  LineOf(t, component) \in SlotLines /\ OffsetOf(component) \in 0..63
<1>0. OffsetOf(component) \in 0..63
    BY OffsetsDiffer
<1>1. CASE component = Check!ReadyComponent
    BY <1>1, SlotLineIs DEF LineOf, OffsetOf
<1>2. CASE component # Check!ReadyComponent /\ IsPayload(component)
           /\ \E i \in 0..(LineCount(Length[p]) - 1) : component = <<"payload", i>>
    BY <1>2, SlotLineIs, OffsetsDiffer, LineCounts DEF LineOf
<1>3. CASE component # Check!ReadyComponent /\ ~IsPayload(component)
           /\ \E k \in Fields : component = <<"descriptor", k>>
    BY <1>3, SlotLineIs, OffsetsDiffer DEF LineOf
<1> QED
    BY <1>0, <1>1, <1>2, <1>3, ComponentKinds
--------------------------------------------------------------------------------
(* Which stores disagree: none over a line of two writes of one packet, or *)
(* of a write and a withdrawal of it.                                      *)
Agree(a, x, b, y) == a = b => \A c \in (DOMAIN x) \cap (DOMAIN y) : x[c] = y[c]

(* A line of a slot is of that slot only.                                  *)
LEMMA SlotsDisagree ==
    ASSUME NEW t \in Tokens, NEW u \in Tokens, NEW p \in Packable,
           NEW component \in Owned(p), NEW a \in 0..63,
           SlotLine(t) + a = LineOf(u, component)
    PROVE  t.flow = u.flow /\ t.slot = u.slot /\ a = OffsetOf(component)
<1>1. OffsetOf(component) \in 0..63
    BY LineIs
<1>2. SlotLine(t) + a = SlotLine(u) + OffsetOf(component)
    BY DEF LineOf
<1>3. /\ t.flow \in Flows /\ t.slot \in Check!Slots
      /\ u.flow \in Flows /\ u.slot \in Check!Slots
    BY TokenIs
<1> QED
    BY <1>1, <1>2, <1>3, SlotsApart

(* The stores of one packet agree where they overlap.                      *)
LEMMA OwnAgree ==
    ASSUME NEW t \in Tokens, NEW p \in Packable, NEW c \in Owned(p), NEW d \in Owned(p)
    PROVE  Agree(LineOf(t, c), PartOf(t, p, c), LineOf(t, d), PartOf(t, p, d))
<1>1. SUFFICES ASSUME LineOf(t, c) = LineOf(t, d),
                      NEW x \in (DOMAIN PartOf(t, p, c)) \cap (DOMAIN PartOf(t, p, d))
               PROVE  PartOf(t, p, c)[x] = PartOf(t, p, d)[x]
    BY DEF Agree
<1>2. OffsetOf(c) = OffsetOf(d)
    <2>1. OffsetOf(c) \in 0..63
        BY LineIs
    <2>2. SlotLine(t) + OffsetOf(c) = LineOf(t, d)
        BY <1>1 DEF LineOf
    <2> QED
        BY <2>1, <2>2, SlotsDisagree
<1>3. CASE c = d
    BY <1>3
<1>4. ASSUME NEW k \in Fields, NEW l \in Fields, c = <<"descriptor", k>>, d = <<"descriptor", l>>
      PROVE  c = d
    <2>1. /\ PartOf(t, p, c) = FieldPart(k, Check!DescriptorOf(t, p)[k])
          /\ PartOf(t, p, d) = FieldPart(l, Check!DescriptorOf(t, p)[l])
        BY <1>4 DEF PartOf, IsPayload, Check!ReadyComponent
    <2>2. x \in {FieldCell(k)} /\ x \in {FieldCell(l)}
        BY <1>1, <2>1, FieldParts
    <2>3. k = l
        BY <2>2, FieldCells
    <2> QED
        BY <1>4, <2>3
<1>5. CASE c # d
    <2>1. \A e \in Owned(p) :
            \/ e = Check!ReadyComponent /\ OffsetOf(e) = 1
            \/ \E i \in 0..(LineCount(Length[p]) - 1) :
                    e = <<"payload", i>> /\ OffsetOf(e) = 4 + i /\ i \in Nat
            \/ \E k \in Fields : e = <<"descriptor", k>> /\ OffsetOf(e) = 0
        <3>1. SUFFICES ASSUME NEW e \in Owned(p)
                       PROVE  \/ e = Check!ReadyComponent /\ OffsetOf(e) = 1
                              \/ \E i \in 0..(LineCount(Length[p]) - 1) :
                                    e = <<"payload", i>> /\ OffsetOf(e) = 4 + i /\ i \in Nat
                              \/ \E k \in Fields : e = <<"descriptor", k>> /\ OffsetOf(e) = 0
            OBVIOUS
        <3>2. \A i \in 0..(LineCount(Length[p]) - 1) : i \in Nat
            BY LineCounts
        <3>3. OffsetOf(Check!ReadyComponent) = 1
            BY DEF OffsetOf
        <3> QED
            BY <3>2, <3>3, ComponentKinds, OffsetsDiffer
    <2>2. \/ c = Check!ReadyComponent /\ OffsetOf(c) = 1
          \/ \E i \in 0..(LineCount(Length[p]) - 1) :
                c = <<"payload", i>> /\ OffsetOf(c) = 4 + i /\ i \in Nat
          \/ \E k \in Fields : c = <<"descriptor", k>> /\ OffsetOf(c) = 0
        BY <2>1
    <2>3. \/ d = Check!ReadyComponent /\ OffsetOf(d) = 1
          \/ \E i \in 0..(LineCount(Length[p]) - 1) :
                d = <<"payload", i>> /\ OffsetOf(d) = 4 + i /\ i \in Nat
          \/ \E k \in Fields : d = <<"descriptor", k>> /\ OffsetOf(d) = 0
        BY <2>1
    <2> QED
        BY <1>2, <1>4, <1>5, <2>2, <2>3
<1> QED
    BY <1>3, <1>5

(* A withdrawal agrees with the stores of its packet.                      *)
LEMMA WithdrawalAgrees ==
    ASSUME NEW t \in Tokens, NEW p \in Packable, NEW c \in Owned(p),
           NEW i \in 0..(LineCount(Length[p]) - 1)
    PROVE  Agree(PayloadLine(t, i), PaddedPart(p, i), LineOf(t, c), PartOf(t, p, c))
<1>1. SUFFICES ASSUME PayloadLine(t, i) = LineOf(t, c)
               PROVE  \A x \in (DOMAIN PaddedPart(p, i)) \cap (DOMAIN PartOf(t, p, c)) :
                        PaddedPart(p, i)[x] = PartOf(t, p, c)[x]
    BY DEF Agree
<1>2. i \in 0..(LineCount(MaxPacketBytes) - 1) /\ i \in 0..59
    BY LineCounts
<1>3. PayloadLine(t, i) = SlotLine(t) + (4 + i)
    BY <1>2, SlotLineIs
<1>4. 4 + i \in 0..63
    BY <1>2
<1>5. OffsetOf(c) = 4 + i
    BY <1>1, <1>3, <1>4, SlotsDisagree
<1>6. c = <<"payload", i>>
    <2>1. IsPayload(c)
        BY <1>2, <1>5, OffsetsDiffer
    <2>2. PICK j \in 0..(LineCount(Length[p]) - 1) : c = <<"payload", j>>
        BY <2>1, ComponentKinds
    <2>3. OffsetOf(c) = 4 + j /\ j \in 0..59
        BY <2>2, OffsetsDiffer, LineCounts
    <2>4. i = j
        BY <1>2, <1>5, <2>3
    <2> QED
        BY <2>2, <2>4
<1>7. PartOf(t, p, c) = PaddedPart(p, i)
    BY <1>6 DEF PartOf, IsPayload, Check!ReadyComponent
<1> QED
    BY <1>7

(* The descriptor a consumer expects is made of the fields' parts.         *)
LEMMA DescriptorIs ==
    ASSUME NEW t \in Tokens, NEW p \in Packable
    PROVE  LET d == DescriptorPart(Check!DescriptorOf(t, p))
           IN  /\ d \in CellParts
               /\ \A c \in DOMAIN d : \E k \in Fields :
                    /\ c \in DOMAIN PartOf(t, p, <<"descriptor", k>>)
                    /\ d[c] = PartOf(t, p, <<"descriptor", k>>)[c]
<1> DEFINE d == DescriptorPart(Check!DescriptorOf(t, p))
           w(k) == Word(k, Check!DescriptorOf(t, p)[k])
<1>1. DOMAIN d = {FieldCell(k) : k \in Fields}
    BY DEF DescriptorPart
<1>2. \A k \in Fields : d[FieldCell(k)] = w(k)
    <2> SUFFICES ASSUME NEW k \in Fields PROVE d[FieldCell(k)] = w(k)
        OBVIOUS
    <2> DEFINE l == CHOOSE e \in Fields : FieldCell(e) = FieldCell(k)
    <2>1. l \in Fields /\ FieldCell(l) = FieldCell(k)
        OBVIOUS
    <2>2. l = k
        <3> HIDE DEF l
        <3> QED BY <2>1, FieldCells
    <2>3. d[FieldCell(k)] = w(l)
        BY DEF DescriptorPart
    <2> QED
        BY <2>2, <2>3
<1>3. \A k \in Fields :
        /\ DOMAIN PartOf(t, p, <<"descriptor", k>>) = {FieldCell(k)}
        /\ PartOf(t, p, <<"descriptor", k>>)[FieldCell(k)] = w(k)
    <2> SUFFICES ASSUME NEW k \in Fields
                 PROVE  /\ DOMAIN PartOf(t, p, <<"descriptor", k>>) = {FieldCell(k)}
                        /\ PartOf(t, p, <<"descriptor", k>>)[FieldCell(k)] = w(k)
        OBVIOUS
    <2>1. PartOf(t, p, <<"descriptor", k>>) = FieldPart(k, Check!DescriptorOf(t, p)[k])
        BY DEF PartOf, IsPayload, Check!ReadyComponent
    <2> QED
        BY <2>1, FieldParts
<1>4. \A k \in Fields : w(k) \in Values
    BY ReplayAssumption DEF Words
<1>5. d \in CellParts
    <2>1. DOMAIN d \subseteq Cells
        BY <1>1, FieldCells
    <2>2. \A c \in DOMAIN d : d[c] \in Values
        BY <1>1, <1>2, <1>4
    <2>3. d = [c \in DOMAIN d |-> d[c]]
        BY DEF DescriptorPart
    <2> HIDE DEF d
    <2>4. d \in [DOMAIN d -> Values]
        BY <2>2, <2>3
    <2>5. [DOMAIN d -> Values] \in {[D -> Values] : D \in SUBSET Cells}
        BY <2>1
    <2> QED
        BY <2>4, <2>5 DEF CellParts
<1> HIDE DEF d, w
<1>6. \A c \in DOMAIN d : \E k \in Fields :
        /\ c \in DOMAIN PartOf(t, p, <<"descriptor", k>>)
        /\ d[c] = PartOf(t, p, <<"descriptor", k>>)[c]
    BY <1>1, <1>2, <1>3
<1> QED
    BY <1>5, <1>6 DEF d

(* Background lines are above all slots (cache_replay.py:78-81).           *)
LEMMA BackgroundApart ==
    /\ \A line \in BackgroundAddresses : line \notin SlotLines
    /\ SlotLines \subseteq Addresses /\ BackgroundAddresses \subseteq Addresses
<1>1. Addresses = SlotLines \cup BackgroundAddresses
    BY ReplayAssumption DEF ReplayAddresses
<1>2. \A line \in BackgroundAddresses : line >= BackgroundBase
    BY ReplayAssumption DEF BackgroundAddresses
<1>3. \A line \in SlotLines : line < BackgroundBase /\ line \in Nat
    BY <1>1, ReplayAssumption, CacheAssumption
<1>4. BackgroundBase \in Nat
    BY ReplayAssumption
<1> QED
    BY <1>1, <1>2, <1>3, <1>4
--------------------------------------------------------------------------------
(* What an access does to the newest bytes of every line.                  *)
AccessMade(access) ==
    \A b \in Addresses :
        /\ Defined(b) => Defined(b)'
        /\ \A c \in Cells :
            Newest(b)'[c] = IF StoresInto(access, b, c) THEN access.bytes[c] ELSE Newest(b)[c]

NewestLine == Coherent => \A a \in Addresses : Newest(a) = NoData <=> ~Defined(a)

LEMMA NewestLineHere == NewestLine
BY NewestIsLine DEF NewestLine

LEMMA NewestLineNext == NewestLine'
BY NewestLineHere, PTL

(* A store moves the bytes it names and no others.                         *)
LEMMA MovesLine ==
    ASSUME Coherent, Coherent', NEW access, access.call \in Stores, NEW data \in Data,
           access.line \in Addresses,
           FlatMemory' = [FlatMemory EXCEPT ![access.line] = data],
           \A c \in Cells : data[c] =
                IF c \in DOMAIN access.bytes THEN access.bytes[c] ELSE Newest(access.line)[c]
    PROVE  AccessMade(access)
<1>1. \A b \in Addresses : Newest(b)' = IF b = access.line THEN data ELSE Newest(b)
    BY DEF FlatMemory
<1>2. NoData \notin Data
    BY CacheAssumption DEF Data, Cells
<1>3. \A b \in Addresses : Defined(b) => Defined(b)'
    BY <1>1, <1>2, NewestLineHere, NewestLineNext DEF NewestLine
<1>4. ASSUME NEW b \in Addresses, NEW c \in Cells
      PROVE  Newest(b)'[c] = IF StoresInto(access, b, c) THEN access.bytes[c] ELSE Newest(b)[c]
    BY <1>1, <1>4 DEF StoresInto
<1> QED
    BY <1>3, <1>4 DEF AccessMade

LEMMA TailOfTodo ==
    ASSUME todo \in Seq(Accesses), todo # <<>>, todo' = Tail(todo)
    PROVE  /\ todo' \in Seq(Accesses)
           /\ Head(todo) \in ToCome /\ ToCome \subseteq Accesses
           /\ ToCome' \subseteq ToCome /\ ToCome \subseteq ToCome' \cup {Head(todo)}
<1>1. /\ Len(todo) \in Nat \ {0} /\ DOMAIN todo = 1..Len(todo) /\ Head(todo) = todo[1]
      /\ DOMAIN todo' = 1..(Len(todo) - 1) /\ todo' \in Seq(Accesses)
      /\ \A n \in 1..(Len(todo) - 1) : todo'[n] = todo[n + 1]
    <2>1. todo \in Seq(Accesses) /\ todo # <<>> /\ todo' = Tail(todo)
        OBVIOUS
    <2> QED
        BY <2>1
<1>2. \A n \in DOMAIN todo' : n + 1 \in DOMAIN todo /\ todo'[n] = todo[n + 1]
    BY <1>1
<1>3. \A n \in DOMAIN todo : n = 1 \/ (n - 1 \in DOMAIN todo' /\ todo'[n - 1] = todo[n])
    BY <1>1
<1>4. 1 \in DOMAIN todo
    BY <1>1
<1>5. \A n \in DOMAIN todo : todo[n] \in Accesses
    BY <1>1
<1> QED
    BY <1>1, <1>2, <1>3, <1>4, <1>5 DEF ToCome

(* Each access of the replay does what its call says to memory.            *)
LEMMA AccessMoves ==
    ASSUME TypeOK, OneCopy, CleanIsHome, ReplayShape, MakeAccess
    PROVE  /\ TypeOK' /\ OneCopy' /\ CleanIsHome'
           /\ AccessMade(Head(todo))
<1> DEFINE access == Head(todo)
           a == access.line
<1>0. todo \in Seq(Accesses) /\ todo # <<>>
    BY DEF ReplayShape, MakeAccess
<1>1. access \in Accesses /\ WellFormed(access)
    <2>1. todo' = Tail(todo)
        BY DEF MakeAccess
    <2>2. Head(todo) \in ToCome /\ ToCome \subseteq Accesses
        BY <1>0, <2>1, TailOfTodo
    <2> QED
        BY <2>2 DEF ReplayShape
<1>2. a \in Addresses
    BY <1>1 DEF Accesses
<1>3. Inv
    BY DEF Inv, Coherent, Shape, TypeOK
<1>4. \/ access.call = "define" /\ Define(a, access.bytes)
      \/ access.call = "read" /\ Read(a)
      \/ access.call = "io_write" /\ IoWrite(a, access.bytes, Admission)
      \/ access.call = "cpu_write" /\ CpuWrite(a, access.bytes)
      \/ access.call = "bypass_write" /\ BypassWrite(a, access.bytes)
    BY DEF MakeAccess
<1> HIDE DEF access
<1>5. CASE access.call = "define" /\ Define(a, access.bytes)
    <2>1. access.bytes \in Data
        BY <1>1, <1>5 DEF WellFormed
    <2>2. Inv' /\ Flat!Define(a, access.bytes)
        BY <1>2, <1>3, <1>5, <2>1, DefineRefines
    <2>3. FlatMemory' = [FlatMemory EXCEPT ![a] = access.bytes]
        BY <2>2 DEF Flat!Define, FlatMemory
    <2>4. \A c \in Cells : c \in DOMAIN access.bytes
        BY <2>1 DEF Data
    <2>6. \A c \in Cells : access.bytes[c] =
            IF c \in DOMAIN access.bytes THEN access.bytes[c] ELSE Newest(access.line)[c]
        BY <2>4
    <2>7. Coherent /\ Coherent' /\ access.call \in Stores
        BY <1>3, <1>5, <2>2 DEF Stores, Inv
    <2>5. AccessMade(access)
        BY <1>2, <2>1, <2>3, <2>6, <2>7, MovesLine
    <2> QED
        BY <2>2, <2>5 DEF Inv, Coherent, access
<1>6. CASE access.call = "read" /\ Read(a)
    <2>1. Inv' /\ Flat!Read(a)
        BY <1>2, <1>3, <1>6, ReadRefines
    <2>2. FlatMemory' = FlatMemory
        BY <2>1 DEF Flat!Read, FlatMemory
    <2>3. \A b \in Addresses : Newest(b)' = Newest(b)
        BY <2>2 DEF FlatMemory
    <2>4. \A b \in Addresses : Defined(b) => Defined(b)'
        BY <1>3, <2>1, <2>3, NewestLineHere, NewestLineNext DEF NewestLine, Inv
    <2>5. \A b, c : ~StoresInto(access, b, c)
        BY <1>6 DEF StoresInto, Stores
    <2>6. AccessMade(access)
        <3>1. SUFFICES ASSUME NEW b \in Addresses
                       PROVE  /\ Defined(b) => Defined(b)'
                              /\ \A c \in Cells : Newest(b)'[c] =
                                    IF StoresInto(access, b, c) THEN access.bytes[c]
                                    ELSE Newest(b)[c]
            BY DEF AccessMade
        <3>2. Newest(b)' = Newest(b)
            BY <2>3
        <3>3. ASSUME NEW c \in Cells
              PROVE  Newest(b)'[c] = IF StoresInto(access, b, c) THEN access.bytes[c]
                                     ELSE Newest(b)[c]
            BY <2>5, <3>2
        <3> QED
            BY <2>4, <3>3
    <2> QED
        BY <2>1, <2>6 DEF Inv, Coherent, access
<1>7. CASE /\ access.call \in {"io_write", "cpu_write", "bypass_write"}
           /\ \/ IoWrite(a, access.bytes, Admission) \/ CpuWrite(a, access.bytes)
              \/ BypassWrite(a, access.bytes)
    <2>1. access.bytes \in Parts /\ access.call \in Stores
        BY <1>1, <1>7 DEF WellFormed, Stores
    <2>2. /\ Defined(a) /\ done' = Call("write", a, access.bytes)
          /\ \/ StoreHit(a, access.bytes)
             \/ \E admission : StoreMiss(a, access.bytes, admission)
             \/ Bypass(a, access.bytes)
        BY <1>7 DEF IoWrite, CpuWrite, BypassWrite
    <2>3. Inv' /\ Flat!Write(a, access.bytes)
        BY <1>2, <1>3, <2>1, <2>2, StoreRefines
    <2>4. FlatMemory' = [FlatMemory EXCEPT ![a] = Overlay(FlatMemory[a], access.bytes)]
        BY <1>2, <2>3 DEF Flat!Write, FlatMemory
    <2>5. FlatMemory[a] = Newest(a)
        BY <1>2 DEF FlatMemory
    <2>6. Newest(a) \in Data
        BY <1>2, <1>3, <2>2, NewestIsLine DEF Inv
    <2>7. Overlay(Newest(a), access.bytes) \in Data
        BY <2>1, <2>6, OverlayIsLine
    <2>8. \A c \in Cells : Overlay(Newest(a), access.bytes)[c] =
            IF c \in DOMAIN access.bytes THEN access.bytes[c] ELSE Newest(a)[c]
        BY DEF Overlay
    <2>9. AccessMade(access)
        BY <1>2, <1>3, <2>1, <2>3, <2>4, <2>5, <2>7, <2>8, MovesLine DEF Inv
    <2> QED
        BY <2>3, <2>9 DEF Inv, Coherent, access
<1> QED
    BY <1>4, <1>5, <1>6, <1>7

(* A line keeps bytes that no store to come disagrees with, and gets those *)
(* that a store brings.                                                    *)
LEMMA AccessKeeps ==
    ASSUME todo \in Seq(Accesses), todo # <<>>, todo' = Tail(todo),
           AccessMade(Head(todo)), NEW line \in Addresses, NEW part,
           DOMAIN part \subseteq Cells, Agreed(line, part)
    PROVE  /\ Agreed(line, part)'
           /\ Holds(line, part) => Holds(line, part)'
           /\ Coming(line, part) => Coming(line, part)'
<1>1. /\ Head(todo) \in ToCome
      /\ ToCome' \subseteq ToCome /\ ToCome \subseteq ToCome' \cup {Head(todo)}
    BY TailOfTodo
<1>5. Agreed(line, part)'
    BY <1>1 DEF Agreed, StoresInto
<1>6. \A c \in DOMAIN part : Newest(line)'[c] = part[c] \/
        (Newest(line)'[c] = Newest(line)[c] /\ ~StoresInto(Head(todo), line, c))
    BY <1>1 DEF AccessMade, Agreed
<1>7. Holds(line, part) => Holds(line, part)'
    BY <1>6 DEF Holds
<1>8. ASSUME Coming(line, part) PROVE Coming(line, part)'
    <2>1. SUFFICES ASSUME NEW c \in DOMAIN part
                   PROVE  \/ Newest(line)'[c] = part[c]
                          \/ \E store \in ToCome' : StoresInto(store, line, c)
        BY DEF Coming, StoresInto
    <2>2. CASE Newest(line)'[c] = part[c]
        BY <2>2
    <2>3. CASE Newest(line)'[c] # part[c]
        <3>1. Newest(line)[c] # part[c] /\ ~StoresInto(Head(todo), line, c)
            BY <1>6, <2>3
        <3>2. PICK store \in ToCome : StoresInto(store, line, c)
            BY <1>8, <3>1 DEF Coming
        <3> QED
            BY <1>1, <3>1, <3>2
    <2> QED
        BY <2>2, <2>3
<1> QED
    BY <1>5, <1>7, <1>8
--------------------------------------------------------------------------------
(* The write of a part, as the tables have it.                             *)
WrittenAsSaid ==
    \A t \in DOMAIN packets : \A c \in Owned(packets[t].payload) :
        t \in Tokens /\ packets[t].payload \in Packable =>
            Written(t, c) =
                Access("io_write", LineOf(t, c), PartOf(t, packets[t].payload, c))

LEMMA WrittenIs == WrittenAsSaid
<1>1. SUFFICES ASSUME NEW t \in DOMAIN packets, NEW c \in Owned(packets[t].payload),
                      t \in Tokens, packets[t].payload \in Packable
               PROVE  Written(t, c) =
                        Access("io_write", LineOf(t, c), PartOf(t, packets[t].payload, c))
    BY DEF WrittenAsSaid
<1> DEFINE p == packets[t].payload
<1>2. /\ SlotLine(t) \in Nat /\ ReadyLine(t) = SlotLine(t) + 1
      /\ DescriptorLine(t) = SlotLine(t) + 0
    BY <1>1, SlotLineIs DEF ReadyLine, DescriptorLine
<1>3. CASE c = Check!ReadyComponent
    BY <1>2, <1>3 DEF Written, VisibleAccess, LineOf, PartOf, OffsetOf
<1>4. CASE c # Check!ReadyComponent /\ IsPayload(c)
           /\ \E i \in 0..(LineCount(Length[p]) - 1) : c = <<"payload", i>>
    <2>1. PICK i \in 0..(LineCount(Length[p]) - 1) : c = <<"payload", i>>
        BY <1>4
    <2>2. i \in 0..(LineCount(MaxPacketBytes) - 1)
        BY <1>1, LineCounts
    <2>3. PayloadLine(t, i) = SlotLine(t) + (4 + i) /\ OffsetOf(c) = 4 + i
        BY <1>1, <2>1, <2>2, SlotLineIs, OffsetsDiffer
    <2> QED
        BY <1>4, <2>1, <2>3 DEF Written, VisibleAccess, LineOf, PartOf
<1>5. CASE c # Check!ReadyComponent /\ ~IsPayload(c)
           /\ \E k \in Fields : c = <<"descriptor", k>>
    <2>1. PICK k \in Fields : c = <<"descriptor", k>>
        BY <1>5
    <2>2. OffsetOf(c) = 0
        BY <1>1, <2>1, OffsetsDiffer
    <2>3. ContentOf(t, c) = Check!DescriptorOf(t, p)[k]
        BY <2>1 DEF ContentOf, Check!ContentOf, Check!ReadyComponent
    <2> QED
        BY <1>2, <1>5, <2>1, <2>2, <2>3 DEF Written, VisibleAccess, LineOf, PartOf
<1> QED
    BY <1>1, <1>3, <1>4, <1>5, ComponentKinds

LEMMA WrittenIsNext == WrittenAsSaid'
BY WrittenIs, PTL

(* The packets of owners, and what of them is visible.                     *)
LEMMA OwnerIs ==
    ASSUME ReplayShape, PacketsInOrder, Owners, NEW t \in Tokens, StillOwned(t)
    PROVE  /\ t \in DOMAIN packets /\ packets[t].payload \in Packable
           /\ packets[t] \in Packet /\ ~packets[t].released
           /\ packets[t].visible \subseteq Owned(packets[t].payload)
           /\ \A c \in Owned(packets[t].payload) :
                /\ Written(t, c).line = LineOf(t, c)
                /\ Written(t, c).line \in Addresses
                /\ Written(t, c).bytes = PartOf(t, packets[t].payload, c)
                /\ DOMAIN Written(t, c).bytes \subseteq Cells
<1>1. t \in DOMAIN packets /\ ~packets[t].released
    <2>1. t.flow \in Flows /\ t.slot \in Check!Slots /\ active_slots[t.flow][t.slot] = t
        BY TokenIs DEF StillOwned
    <2>2. t # NoToken
        BY ReplayAssumption
    <2> QED
        BY <2>1, <2>2 DEF Owners
<1>2. packets[t] \in Packet
    BY <1>1 DEF ReplayShape
<1>3. packets[t].payload \in Packable
    BY <1>2 DEF Packet
<1>4. packets[t].visible \subseteq Owned(packets[t].payload)
    BY <1>1 DEF PacketsInOrder, Owned
<1>5. ASSUME NEW c \in Owned(packets[t].payload)
      PROVE  /\ Written(t, c).line = LineOf(t, c)
             /\ Written(t, c).line \in Addresses
             /\ Written(t, c).bytes = PartOf(t, packets[t].payload, c)
             /\ DOMAIN Written(t, c).bytes \subseteq Cells
    <2>2. Written(t, c) = Access("io_write", LineOf(t, c), PartOf(t, packets[t].payload, c))
        BY <1>1, <1>2, <1>3, WrittenIs DEF WrittenAsSaid
    <2>3. LineOf(t, c) \in Addresses
        BY <1>2, <1>3, LineIs, BackgroundApart
    <2>4. DOMAIN PartOf(t, packets[t].payload, c) \subseteq Cells
        BY <1>2, <1>3, PartIs
    <2> QED
        BY <2>2, <2>3, <2>4 DEF Access
<1> QED
    BY <1>1, <1>2, <1>3, <1>4, <1>5

(* An access of the present event: what was on its way arrives.            *)
LEMMA MakeAccessKeeps ==
    ASSUME ReplayInv, MakeAccess
    PROVE  ReplayInv'
<1>1. /\ todo # <<>> /\ todo' = Tail(todo) /\ UNCHANGED checker
      /\ UNCHANGED <<withdraw_after, deferred, background_index, undemanded, running>>
    BY DEF MakeAccess
<1>2. /\ active_slots' = active_slots /\ packets' = packets /\ next_consume' = next_consume
    BY <1>1 DEF checker
<1>3. ReplayShape /\ PacketsInOrder /\ Owners /\ TypeOK /\ OneCopy /\ CleanIsHome
    BY DEF ReplayInv
<1>4. TypeOK' /\ OneCopy' /\ CleanIsHome' /\ AccessMade(Head(todo))
    BY <1>3, AccessMoves
<1>5. todo \in Seq(Accesses)
    BY <1>3 DEF ReplayShape
<1>6. todo' \in Seq(Accesses) /\ ToCome' \subseteq ToCome /\ ToCome \subseteq Accesses
    BY <1>1, <1>5, TailOfTodo
<1>7. ReplayShape'
    <2>1. \A access \in ToCome' : WellFormed(access)'
        BY <1>3, <1>6 DEF ReplayShape, WellFormed
    <2> QED
        BY <1>1, <1>2, <1>3, <1>6, <2>1 DEF ReplayShape
<1>8. PacketsInOrder' /\ Owners' /\ WithdrawalsApart'
    BY <1>1, <1>2 DEF ReplayInv, PacketsInOrder, Owners, WithdrawalsApart
<1>9. SlotsHold'
    <2>1. SUFFICES ASSUME NEW t \in Tokens, StillOwned(t)', NEW c \in packets'[t].visible
                   PROVE  PartHeld(t, c)'
        BY DEF SlotsHold
    <2>2. StillOwned(t) /\ c \in packets[t].visible
        BY <1>2, <2>1 DEF StillOwned
    <2>3. PICK w : w = Written(t, c)
        OBVIOUS
    <2>4. w.line \in Addresses /\ DOMAIN w.bytes \subseteq Cells
        BY <1>3, <2>2, <2>3, OwnerIs
    <2>5. /\ Agreed(w.line, w.bytes) /\ Coming(w.line, w.bytes)
          /\ packets[t].ready_visible /\ c # Check!ReadyComponent => Holds(w.line, w.bytes)
        BY <2>2, <2>3 DEF ReplayInv, SlotsHold, PartHeld
    <2>6. /\ Agreed(w.line, w.bytes)' /\ Coming(w.line, w.bytes)'
          /\ Holds(w.line, w.bytes) => Holds(w.line, w.bytes)'
        BY <1>1, <1>4, <1>5, <2>4, <2>5, AccessKeeps
    <2>7. Written(t, c)' = w
        BY <1>2, <2>3 DEF Written, VisibleAccess, ContentOf
    <2> QED
        BY <1>2, <2>5, <2>6, <2>7 DEF PartHeld
<1>10. ReadsRight'
    <2>1. SUFFICES ASSUME NEW access \in ToCome', access.call = "read"
                   PROVE  /\ Holds(access.line, access.bytes)'
                          /\ Agreed(access.line, access.bytes)'
        BY DEF ReadsRight
    <2>2. Holds(access.line, access.bytes) /\ Agreed(access.line, access.bytes)
        BY <1>6, <2>1 DEF ReplayInv, ReadsRight
    <2>3. access.line \in Addresses /\ access.bytes \in CellParts
        BY <1>6 DEF Accesses
    <2>4. DOMAIN access.bytes \subseteq Cells
        BY <2>3 DEF CellParts
    <2> QED
        BY <1>1, <1>4, <1>5, <2>2, <2>3, <2>4, AccessKeeps
<1>11. SlotsDefined'
    BY <1>4, BackgroundApart DEF ReplayInv, SlotsDefined, AccessMade
<1>12. Counted'
    BY <1>1, <1>2 DEF ReplayInv, Counted, ConsumedSerials, LinesUnread
<1> QED
    BY <1>4, <1>7, <1>8, <1>9, <1>10, <1>11, <1>12 DEF ReplayInv
--------------------------------------------------------------------------------
(* The accesses of an event.                                               *)
Elems(s) == {s[n] : n \in DOMAIN s}

LEMMA ElemsConcat ==
    ASSUME NEW S, NEW r \in Seq(S), NEW s \in Seq(S)
    PROVE  r \o s \in Seq(S) /\ Elems(r \o s) = Elems(r) \cup Elems(s)
<1>1. /\ r \o s \in Seq(S) /\ Len(r) \in Nat /\ Len(s) \in Nat
      /\ DOMAIN (r \o s) = 1..(Len(r) + Len(s))
      /\ DOMAIN r = 1..Len(r) /\ DOMAIN s = 1..Len(s)
      /\ \A i \in 1..(Len(r) + Len(s)) :
            (r \o s)[i] = IF i <= Len(r) THEN r[i] ELSE s[i - Len(r)]
    OBVIOUS
<1> DEFINE q == r \o s
           a == Len(r)
           b == Len(s)
<1> HIDE DEF q, a, b
<1>2. \A i \in 1..(a + b) : (i \in 1..a /\ q[i] = r[i]) \/ (i - a \in 1..b /\ q[i] = s[i - a])
    BY <1>1 DEF q, a, b
<1>3. \A i \in 1..a : i \in 1..(a + b) /\ q[i] = r[i]
    BY <1>1 DEF q, a, b
<1>4. \A i \in 1..b : a + i \in 1..(a + b) /\ q[a + i] = s[i]
    BY <1>1 DEF q, a, b
<1>5. DOMAIN q = 1..(a + b) /\ DOMAIN r = 1..a /\ DOMAIN s = 1..b
    BY <1>1 DEF q, a, b
<1>6. Elems(q) = Elems(r) \cup Elems(s)
    BY <1>2, <1>3, <1>4, <1>5 DEF Elems
<1> QED
    BY <1>1, <1>6 DEF q

LEMMA ElemsOne == ASSUME NEW S, NEW e \in S PROVE <<e>> \in Seq(S) /\ Elems(<<e>>) = {e}
BY DEF Elems

LEMMA ElemsNone == ASSUME NEW S PROVE <<>> \in Seq(S) /\ Elems(<<>>) = {}
BY DEF Elems

LEMMA ElemsListed ==
    ASSUME NEW S, NEW n \in Nat, NEW s \in [1..n -> S]
    PROVE  s \in Seq(S) /\ Elems(s) = {s[i] : i \in 1..n}
BY DEF Elems

LEMMA PartsAreCells == Parts \subseteq CellParts
<1>1. SUFFICES ASSUME NEW g \in Parts PROVE g \in CellParts
    OBVIOUS
<1>2. PICK lo \in Cells, hi \in Cells : g \in [lo..hi -> Values]
    BY DEF Parts
<1>3. lo..hi \in SUBSET Cells
    BY Sizes DEF Cells
<1>4. [lo..hi -> Values] \in {[D -> Values] : D \in SUBSET Cells}
    BY <1>3
<1> QED
    BY <1>2, <1>4 DEF CellParts

StoreCalls == {"io_write", "cpu_write", "bypass_write"}

LEMMA StoreIsAccess ==
    ASSUME NEW name \in StoreCalls, NEW line \in Addresses, NEW part \in Parts
    PROVE  Access(name, line, part) \in Accesses /\ WellFormed(Access(name, line, part))
BY PartsAreCells DEF StoreCalls, Access, Accesses, WellFormed, Stores

LEMMA ReadIsAccess ==
    ASSUME NEW line \in Addresses, NEW part \in CellParts
    PROVE  Access("read", line, part) \in Accesses /\ WellFormed(Access("read", line, part))
BY DEF Access, Accesses, WellFormed, Stores

LEMMA DefineIsAccess ==
    ASSUME NEW line \in BackgroundAddresses, NEW data \in Data
    PROVE  Access("define", line, data) \in Accesses /\ WellFormed(Access("define", line, data))
BY PartsAreCells, WholePart, BackgroundApart DEF Access, Accesses, WellFormed, Stores

(* A store that no write of this packet disagrees with.                    *)
FriendlyTo(access, t, p) ==
    access.call \in Stores =>
        \A c \in Owned(p) : Agree(access.line, access.bytes, LineOf(t, c), PartOf(t, p, c))

SameIfTogether(u, q, t, p) == t.flow = u.flow /\ t.slot = u.slot => t = u /\ p = q

(* What other owners store does not meet the lines of this packet.         *)
LEMMA FriendlyOwn ==
    ASSUME NEW u \in Tokens, NEW q \in Packable, NEW t \in Tokens, NEW p \in Packable,
           SameIfTogether(u, q, t, p), NEW d \in Owned(q), NEW name
    PROVE  FriendlyTo(Access(name, LineOf(u, d), PartOf(u, q, d)), t, p)
<1>1. SUFFICES ASSUME NEW c \in Owned(p)
               PROVE  Agree(LineOf(u, d), PartOf(u, q, d), LineOf(t, c), PartOf(t, p, c))
    BY DEF FriendlyTo, Access
<1>2. CASE t.flow = u.flow /\ t.slot = u.slot
    BY <1>2, OwnAgree DEF SameIfTogether
<1>3. CASE ~(t.flow = u.flow /\ t.slot = u.slot)
    <2>1. OffsetOf(d) \in 0..63 /\ LineOf(u, d) = SlotLine(u) + OffsetOf(d)
        BY LineIs DEF LineOf
    <2>2. LineOf(u, d) # LineOf(t, c)
        BY <1>3, <2>1, SlotsDisagree
    <2> QED
        BY <2>2 DEF Agree
<1> QED
    BY <1>2, <1>3

LEMMA FriendlyWithdrawal ==
    ASSUME NEW u \in Tokens, NEW q \in Packable, NEW t \in Tokens, NEW p \in Packable,
           SameIfTogether(u, q, t, p), NEW i \in 0..(LineCount(Length[q]) - 1), NEW name
    PROVE  FriendlyTo(Access(name, PayloadLine(u, i), PaddedPart(q, i)), t, p)
<1>1. SUFFICES ASSUME NEW c \in Owned(p)
               PROVE  Agree(PayloadLine(u, i), PaddedPart(q, i), LineOf(t, c), PartOf(t, p, c))
    BY DEF FriendlyTo, Access
<1>2. CASE t.flow = u.flow /\ t.slot = u.slot
    BY <1>2, WithdrawalAgrees DEF SameIfTogether
<1>3. CASE ~(t.flow = u.flow /\ t.slot = u.slot)
    <2>1. i \in 0..59 /\ i \in 0..(LineCount(MaxPacketBytes) - 1)
        BY LineCounts
    <2>2. 4 + i \in 0..63 /\ PayloadLine(u, i) = SlotLine(u) + (4 + i)
        BY <2>1, SlotLineIs
    <2>3. PayloadLine(u, i) # LineOf(t, c)
        BY <1>3, <2>2, SlotsDisagree
    <2> QED
        BY <2>3 DEF Agree
<1> QED
    BY <1>2, <1>3

LEMMA FriendlyRelease ==
    ASSUME NEW u \in Tokens, NEW t \in Tokens, NEW p \in Packable, NEW name, NEW part
    PROVE  FriendlyTo(Access(name, ReleaseLine(u), part), t, p)
<1>1. SUFFICES ASSUME NEW c \in Owned(p)
               PROVE  Agree(ReleaseLine(u), part, LineOf(t, c), PartOf(t, p, c))
    BY DEF FriendlyTo, Access
<1>2. ReleaseLine(u) = SlotLine(u) + 2
    BY DEF ReleaseLine
<1>3. OffsetOf(c) # 2
    BY OffsetsDiffer
<1>4. ReleaseLine(u) # LineOf(t, c)
    BY <1>2, <1>3, SlotsDisagree
<1> QED
    BY <1>4 DEF Agree

(* Nor does what the background stores.                                    *)
LEMMA FriendlyBackground ==
    ASSUME NEW line \in BackgroundAddresses, NEW t \in Tokens, NEW p \in Packable,
           NEW name, NEW part
    PROVE  FriendlyTo(Access(name, line, part), t, p)
<1>1. SUFFICES ASSUME NEW c \in Owned(p)
               PROVE  Agree(line, part, LineOf(t, c), PartOf(t, p, c))
    BY DEF FriendlyTo, Access
<1>2. line # LineOf(t, c)
    BY LineIs, BackgroundApart
<1> QED
    BY <1>2 DEF Agree
--------------------------------------------------------------------------------
(* Events.                                                                 *)
MemoryStays ==
    /\ TypeOK' /\ OneCopy' /\ CleanIsHome'
    /\ \A b \in Addresses : Newest(b)' = Newest(b) /\ (Defined(b) => Defined(b)')

LEMMA LlcStays ==
    ASSUME TypeOK, OneCopy, CleanIsHome, UNCHANGED llc
    PROVE  MemoryStays
<1>1. lines' = lines /\ older' = older /\ backing' = backing /\ done' = done
    BY DEF llc
<1> QED
    BY <1>1 DEF MemoryStays, TypeOK, OneCopy, CleanIsHome, Index, Defined, Newest, Resident, Found

(* A flush moves no bytes.                                                 *)
LEMMA FlushStays ==
    ASSUME TypeOK, OneCopy, CleanIsHome, Flush
    PROVE  MemoryStays
<1>1. Inv
    BY DEF Inv, Coherent, Shape, TypeOK
<1>2. Inv' /\ Flat!Flush
    BY <1>1, FlushRefines
<1>3. FlatMemory' = FlatMemory
    BY <1>2 DEF Flat!Flush, FlatMemory
<1>4. \A b \in Addresses : Newest(b)' = Newest(b)
    BY <1>3 DEF FlatMemory
<1>5. \A b \in Addresses : Defined(b) => Defined(b)'
    BY <1>1, <1>2, <1>4, NewestLineHere, NewestLineNext DEF NewestLine, Inv
<1> QED
    BY <1>2, <1>4, <1>5 DEF Inv, Coherent, MemoryStays

OwnersWrite ==
    ReplayShape /\ PacketsInOrder /\ Owners =>
        \A t \in Tokens : StillOwned(t) =>
            /\ packets[t].payload \in Packable
            /\ packets[t].visible \subseteq Owned(packets[t].payload)
            /\ \A c \in Owned(packets[t].payload) :
                /\ Written(t, c).line = LineOf(t, c)
                /\ Written(t, c).bytes = PartOf(t, packets[t].payload, c)

LEMMA OwnersWriteHere == OwnersWrite
BY OwnerIs DEF OwnersWrite

LEMMA OwnersWriteNext == OwnersWrite'
BY OwnersWriteHere, PTL

(* Nothing an event brings disagrees with what owners have written.        *)
AllFriendly ==
    \A access \in ToCome, t \in Tokens :
        StillOwned(t) => FriendlyTo(access, t, packets[t].payload)

(* What is visible was so before, or is written now.                       *)
VisiblesGrow ==
    \A t \in Tokens : StillOwned(t)' => \A c \in packets'[t].visible :
        \/ /\ StillOwned(t) /\ c \in packets[t].visible
           /\ packets'[t].payload = packets[t].payload
        \/ /\ Written(t, c)' \in ToCome'
           /\ packets'[t].ready_visible => c = Check!ReadyComponent

ReadsStart ==
    \A access \in ToCome' : access.call = "read" =>
        Holds(access.line, access.bytes) /\ Agreed(access.line, access.bytes)'

LEMMA NothingToCome == ASSUME todo = <<>> PROVE ToCome = {}
BY DEF ToCome

(* What is owned is there when no access is to come.                       *)
LEMMA OwnedIsThere ==
    ASSUME ReplayInv, todo = <<>>, NEW t \in Tokens, StillOwned(t),
           NEW c \in packets[t].visible
    PROVE  Holds(Written(t, c).line, Written(t, c).bytes)
<1>1. PartHeld(t, c)
    BY DEF ReplayInv, SlotsHold
<1>2. ToCome = {}
    BY NothingToCome
<1> QED
    BY <1>1, <1>2 DEF PartHeld, Coming, Holds

(* An event makes no access: it keeps the invariant if the accesses it     *)
(* adds agree with the owners, what became visible is among them, and the  *)
(* reads among them find their bytes.                                      *)
LEMMA EventKeeps ==
    ASSUME ReplayInv, todo = <<>>, MemoryStays,
           ReplayShape', PacketsInOrder', Owners', WithdrawalsApart', Counted',
           AllFriendly', VisiblesGrow, ReadsStart
    PROVE  ReplayInv'
<1>1. TypeOK' /\ OneCopy' /\ CleanIsHome'
    BY DEF MemoryStays
<1>2. SlotsDefined'
    BY BackgroundApart DEF ReplayInv, MemoryStays, SlotsDefined
<1>3. ReadsRight'
    <2>1. SUFFICES ASSUME NEW access \in ToCome', access.call = "read"
                   PROVE  Holds(access.line, access.bytes)'
                          /\ Agreed(access.line, access.bytes)'
        BY DEF ReadsRight
    <2>2. Holds(access.line, access.bytes) /\ Agreed(access.line, access.bytes)'
        BY <2>1 DEF ReadsStart
    <2>3. access.line \in Addresses
        <3>1. todo' \in Seq(Accesses)
            BY DEF ReplayShape
        <3>2. access \in Accesses
            BY <3>1 DEF ToCome
        <3> QED
            BY <3>2 DEF Accesses
    <2> QED
        BY <2>2, <2>3 DEF Holds, MemoryStays
<1>4. SlotsHold'
    <2>1. SUFFICES ASSUME NEW t \in Tokens, StillOwned(t)', NEW c \in packets'[t].visible
                   PROVE  PartHeld(t, c)'
        BY DEF SlotsHold
    <2>2. /\ packets'[t].payload \in Packable /\ c \in Owned(packets'[t].payload)
          /\ Written(t, c)'.line = LineOf(t, c)
          /\ Written(t, c)'.bytes = PartOf(t, packets'[t].payload, c)
        BY <2>1, OwnersWriteNext DEF OwnersWrite
    <2>3. PICK w : w = Written(t, c)'
        OBVIOUS
    <2>4. w.line \in Addresses
        BY <2>2, <2>3, LineIs, BackgroundApart
    <2>5. Agreed(w.line, w.bytes)'
        <3>1. SUFFICES ASSUME NEW store \in ToCome', NEW x \in DOMAIN w.bytes,
                              StoresInto(store, w.line, x)
                       PROVE  store.bytes[x] = w.bytes[x]
            BY DEF Agreed, StoresInto
        <3>2. FriendlyTo(store, t, packets'[t].payload)
            BY <2>1 DEF AllFriendly
        <3> QED
            BY <2>2, <2>3, <3>1, <3>2 DEF FriendlyTo, Agree, StoresInto
    <2>6. CASE /\ StillOwned(t) /\ c \in packets[t].visible
               /\ packets'[t].payload = packets[t].payload
        <3>1. w = Written(t, c)
            BY <2>3, <2>6 DEF Written, VisibleAccess, ContentOf
        <3>2. Holds(w.line, w.bytes)
            BY <2>6, <3>1, OwnedIsThere
        <3>3. Holds(w.line, w.bytes)'
            BY <2>4, <3>2 DEF Holds, MemoryStays
        <3>4. Coming(w.line, w.bytes)'
            BY <3>3 DEF Holds, Coming
        <3> QED
            BY <2>3, <2>5, <3>3, <3>4 DEF PartHeld
    <2>7. CASE /\ Written(t, c)' \in ToCome'
               /\ packets'[t].ready_visible => c = Check!ReadyComponent
        <3>1. w \in ToCome' /\ w.call \in Stores
            BY <2>3, <2>7 DEF Written, VisibleAccess, Access, Stores
        <3>2. Coming(w.line, w.bytes)'
            BY <3>1 DEF Coming, StoresInto
        <3> QED
            BY <2>3, <2>5, <2>7, <3>2 DEF PartHeld
    <2> QED
        BY <2>1, <2>6, <2>7 DEF VisiblesGrow
<1> QED
    BY <1>1, <1>2, <1>3, <1>4 DEF ReplayInv
--------------------------------------------------------------------------------
(* The withdrawals: which stores they are, and when.                       *)
WithdrawalStore(u, q, i) == Access("bypass_write", PayloadLine(u, i), PaddedPart(q, i))

(* The stores of a withdrawal are those of the payload's lines.            *)
LEMMA WithdrawalIs ==
    ASSUME ReplayShape, PacketsInOrder, Owners, NEW u \in Tokens, StillOwned(u)
    PROVE  /\ packets[u].payload \in Packable
           /\ Withdrawal(u) \in Seq(Accesses)
           /\ Elems(Withdrawal(u)) =
                {WithdrawalStore(u, packets[u].payload, i) :
                    i \in 0..(LineCount(Length[packets[u].payload]) - 1)}
           /\ \A access \in Elems(Withdrawal(u)) : WellFormed(access)
<1> DEFINE p == packets[u].payload
           n == LineCount(Length[p])
<1>1. p \in Packable
    BY OwnerIs
<1>2. n \in 1..60 /\ 0..(n - 1) \subseteq 0..(LineCount(MaxPacketBytes) - 1)
    BY <1>1, LineCounts
<1>3. Withdrawal(u) = [i \in 1..n |-> WithdrawalStore(u, p, i - 1)]
    BY DEF Withdrawal, WithdrawalStore, StillOwned
<1>4. ASSUME NEW i \in 0..(n - 1)
      PROVE  /\ WithdrawalStore(u, p, i) \in Accesses
             /\ WellFormed(WithdrawalStore(u, p, i))
    <2>1. PaddedPart(p, i) \in Parts
        BY <1>1, PayloadParts
    <2>2. PayloadLine(u, i) \in Addresses
        BY <1>2, SlotLineIs, BackgroundApart
    <2> QED
        BY <2>1, <2>2, StoreIsAccess DEF WithdrawalStore, StoreCalls
<1> HIDE DEF n, p
<1>5. \A i \in 1..n : i - 1 \in 0..(n - 1)
    BY <1>2
<1>6. \A i \in 0..(n - 1) : i + 1 \in 1..n /\ (i + 1) - 1 = i
    BY <1>2
<1>7. [i \in 1..n |-> WithdrawalStore(u, p, i - 1)] \in [1..n -> Accesses]
    BY <1>4, <1>5
<1>8. n \in Nat
    BY <1>2
<1>9. /\ Withdrawal(u) \in Seq(Accesses)
      /\ Elems(Withdrawal(u)) = {Withdrawal(u)[i] : i \in 1..n}
    <2>1. Withdrawal(u) \in [1..n -> Accesses]
        BY <1>3, <1>7
    <2> HIDE DEF n
    <2> QED
        BY <1>8, <2>1, ElemsListed
<1>10. Elems(Withdrawal(u)) = {WithdrawalStore(u, p, i) : i \in 0..(n - 1)}
    BY <1>3, <1>5, <1>6, <1>9
<1> QED
    BY <1>1, <1>4, <1>9, <1>10 DEF n, p

Timers == [left : Int, token : Tokens]

LEMMA TickedIs ==
    ASSUME ReplayShape
    PROVE  /\ deferred \in Seq(Timers) /\ Ticked \in Seq(Timers)
           /\ DOMAIN Ticked = DOMAIN deferred /\ Len(Ticked) = Len(deferred)
           /\ \A n \in DOMAIN deferred :
                Ticked[n].left = deferred[n].left - 1 /\ Ticked[n].token = deferred[n].token
<1>1. deferred \in Seq(Timers)
    BY DEF ReplayShape, Timers
<1>2. DOMAIN deferred = 1..Len(deferred) /\ Len(deferred) \in Nat
    BY <1>1
<1>3. \A n \in DOMAIN deferred : deferred[n] \in Timers
    BY <1>1
<1>4. \A n \in DOMAIN deferred :
        /\ [deferred[n] EXCEPT !.left = @ - 1] \in Timers
        /\ [deferred[n] EXCEPT !.left = @ - 1].left = deferred[n].left - 1
        /\ [deferred[n] EXCEPT !.left = @ - 1].token = deferred[n].token
    BY <1>3 DEF Timers
<1>5. Ticked = [n \in DOMAIN deferred |-> [deferred[n] EXCEPT !.left = @ - 1]]
    BY DEF Ticked
<1>6. Ticked \in [1..Len(deferred) -> Timers]
    BY <1>2, <1>4, <1>5
<1>7. Ticked \in Seq(Timers) /\ Len(Ticked) = Len(deferred)
    BY <1>2, <1>6
<1> QED
    BY <1>1, <1>2, <1>4, <1>5, <1>7

(* The withdrawals left have time left, and no two the same.               *)
LEMMA LaterIs ==
    ASSUME ReplayShape, WithdrawalsApart
    PROVE  /\ Later \in Seq(Timers)
           /\ Later # <<>> => withdraw_after \in Nat \ {0}
           /\ \A n \in DOMAIN Later :
                /\ Later[n].left \in 1..(withdraw_after - 1)
                /\ Later[n].token \in DOMAIN packets /\ packets[Later[n].token].ready_visible
                /\ \A m \in 1..(n - 1) : Later[m].left < Later[n].left
<1>1. /\ deferred \in Seq(Timers) /\ Ticked \in Seq(Timers)
      /\ DOMAIN Ticked = DOMAIN deferred /\ Len(Ticked) = Len(deferred)
      /\ \A n \in DOMAIN deferred :
            Ticked[n].left = deferred[n].left - 1 /\ Ticked[n].token = deferred[n].token
    BY TickedIs
<1>2. /\ DOMAIN deferred = 1..Len(deferred) /\ Len(deferred) \in Nat
      /\ DOMAIN Ticked = 1..Len(deferred)
    BY <1>1
<1>3. CASE deferred = <<>>
    <2>1. Later = Ticked /\ Len(Ticked) = 0
        BY <1>1, <1>3 DEF Later, OneDue
    <2>2. Ticked = <<>>
        BY <1>1, <2>1
    <2> QED
        BY <2>1, <2>2
<1>4. CASE deferred # <<>>
    <2>1. withdraw_after \in Nat \ {0}
        BY <1>4 DEF WithdrawalsApart
    <2>2. \A n \in DOMAIN deferred :
            /\ deferred[n].left \in 1..withdraw_after
            /\ deferred[n].token \in DOMAIN packets
            /\ packets[deferred[n].token].ready_visible
            /\ \A m \in 1..(n - 1) : deferred[m].left < deferred[n].left
        BY DEF WithdrawalsApart
    <2>3. \A n \in DOMAIN Ticked :
            /\ Ticked[n].left \in 0..(withdraw_after - 1)
            /\ Ticked[n].token \in DOMAIN packets /\ packets[Ticked[n].token].ready_visible
            /\ \A m \in 1..(n - 1) : Ticked[m].left < Ticked[n].left
        <3>1. SUFFICES ASSUME NEW n \in DOMAIN Ticked
                       PROVE  /\ Ticked[n].left \in 0..(withdraw_after - 1)
                              /\ Ticked[n].token \in DOMAIN packets
                              /\ packets[Ticked[n].token].ready_visible
                              /\ \A m \in 1..(n - 1) : Ticked[m].left < Ticked[n].left
            OBVIOUS
        <3>2. n \in DOMAIN deferred /\ n \in 1..Len(deferred)
            BY <1>1, <1>2
        <3>3. deferred[n].left \in 1..withdraw_after
            BY <2>2, <3>2
        <3>4. ASSUME NEW m \in 1..(n - 1) PROVE Ticked[m].left < Ticked[n].left
            <4>1. m \in DOMAIN deferred
                BY <1>2, <3>2
            <4>2. deferred[m].left \in 1..withdraw_after /\ deferred[m].left < deferred[n].left
                BY <2>2, <3>2, <4>1
            <4> QED
                BY <1>1, <2>1, <3>2, <3>3, <4>1, <4>2
        <3> QED
            BY <1>1, <2>1, <2>2, <3>2, <3>3, <3>4
    <2>4. CASE OneDue
        <3>1. Later = Tail(Ticked)
            BY <2>4 DEF Later
        <3>2. Len(Ticked) # 0
            BY <1>1, <1>4
        <3>3. /\ Tail(Ticked) \in Seq(Timers) /\ DOMAIN Tail(Ticked) = 1..(Len(deferred) - 1)
              /\ \A n \in 1..(Len(deferred) - 1) : Tail(Ticked)[n] = Ticked[n + 1]
            BY <1>1, <1>2, <3>2
        <3>4. ASSUME NEW n \in DOMAIN Later
              PROVE  /\ Later[n].left \in 1..(withdraw_after - 1)
                     /\ Later[n].token \in DOMAIN packets
                     /\ packets[Later[n].token].ready_visible
                     /\ \A m \in 1..(n - 1) : Later[m].left < Later[n].left
            <4>1. n \in 1..(Len(deferred) - 1) /\ n + 1 \in DOMAIN Ticked /\ 1 \in DOMAIN Ticked
                  /\ Later[n] = Ticked[n + 1]
                BY <1>2, <3>1, <3>3
            <4>2. Ticked[1].left \in 0..(withdraw_after - 1) /\ Ticked[1].left < Ticked[n + 1].left
                  /\ Ticked[n + 1].left \in 0..(withdraw_after - 1)
                BY <2>3, <4>1
            <4>3. ASSUME NEW m \in 1..(n - 1) PROVE Later[m].left < Later[n].left
                <5>1. Later[m] = Ticked[m + 1] /\ m + 1 \in 1..((n + 1) - 1)
                    BY <1>2, <3>1, <3>3, <4>1
                <5> QED
                    BY <2>3, <4>1, <5>1
            <4> QED
                BY <2>1, <2>3, <4>1, <4>2, <4>3
        <3> QED
            BY <2>1, <3>1, <3>3, <3>4
    <2>5. CASE ~OneDue
        <3>1. Later = Ticked
            BY <2>5 DEF Later
        <3>2. Len(Ticked) # 0
            BY <1>1, <1>4
        <3>3. 1 \in DOMAIN Ticked
            BY <1>1, <1>2, <3>2
        <3>4. Ticked[1].left \in 0..(withdraw_after - 1) /\ ~(Ticked[1].left <= 0)
            BY <1>4, <2>3, <2>5, <3>3 DEF OneDue
        <3>5. ASSUME NEW n \in DOMAIN Ticked PROVE Ticked[n].left \in 1..(withdraw_after - 1)
            <4>1. n = 1 \/ 1 \in 1..(n - 1)
                BY <1>2
            <4>2. Ticked[n].left \in 0..(withdraw_after - 1)
                  /\ (n # 1 => Ticked[1].left < Ticked[n].left)
                BY <2>3, <4>1
            <4> QED
                BY <2>1, <3>4, <4>2
        <3> QED
            BY <1>1, <2>1, <2>3, <3>1, <3>5
    <2> QED
        BY <2>4, <2>5
<1> QED
    BY <1>3, <1>4

(* A withdrawal that is due is one of an owner that was published.         *)
LEMMA ServedIs ==
    ASSUME ReplayShape, PacketsInOrder, Owners, WithdrawalsApart
    PROVE  /\ Served \in Seq(Accesses)
           /\ \A access \in Elems(Served) : WellFormed(access)
           /\ \A access \in Elems(Served) : \E u \in Tokens :
                /\ StillOwned(u) /\ packets[u].ready_visible
                /\ packets[u].payload \in Packable
                /\ \E i \in 0..(LineCount(Length[packets[u].payload]) - 1) :
                        access = WithdrawalStore(u, packets[u].payload, i)
<1>1. CASE OneDue /\ StillOwned(Ticked[1].token)
    <2>1. /\ deferred \in Seq(Timers) /\ Ticked \in Seq(Timers)
          /\ DOMAIN Ticked = DOMAIN deferred /\ deferred # <<>>
          /\ \A n \in DOMAIN deferred : Ticked[n].token = deferred[n].token
        BY <1>1, TickedIs DEF OneDue
    <2>2. 1 \in DOMAIN deferred
        BY <2>1
    <2>3. Ticked[1] \in Timers
        BY <2>1, <2>2
    <2>4. PICK u \in Tokens : u = Ticked[1].token
        BY <2>3 DEF Timers
    <2>5. packets[u].ready_visible
        BY <2>1, <2>2, <2>4 DEF WithdrawalsApart
    <2>6. Served = Withdrawal(u) /\ StillOwned(u)
        BY <1>1, <2>4 DEF Served
    <2> QED
        BY <2>5, <2>6, WithdrawalIs
<1>2. CASE ~(OneDue /\ StillOwned(Ticked[1].token))
    <2>1. Served = <<>>
        BY <1>2 DEF Served
    <2> QED
        BY <2>1, ElemsNone
<1> QED
    BY <1>1, <1>2
--------------------------------------------------------------------------------
(* What events have in common.                                             *)
OwnersCarried ==
    \A t \in Tokens : StillOwned(t)' =>
        /\ packets'[t].payload \in Packable
        /\ \A u \in Tokens : StillOwned(u) =>
            SameIfTogether(u, packets[u].payload, t, packets'[t].payload)

(* An event that gives no slot away keeps the owners apart.                *)
LEMMA OwnersCarriedOver ==
    ASSUME ReplayShape, PacketsInOrder, Owners, active_slots' = active_slots,
           \A u \in DOMAIN packets : packets'[u].payload = packets[u].payload
    PROVE  OwnersCarried
<1>1. SUFFICES ASSUME NEW t \in Tokens, StillOwned(t)'
               PROVE  /\ packets'[t].payload \in Packable
                      /\ \A u \in Tokens : StillOwned(u) =>
                            SameIfTogether(u, packets[u].payload, t, packets'[t].payload)
    BY DEF OwnersCarried
<1>2. StillOwned(t)
    BY <1>1 DEF StillOwned
<1>3. t \in DOMAIN packets /\ packets[t].payload \in Packable
    BY <1>2, OwnerIs
<1>4. packets'[t].payload = packets[t].payload
    BY <1>3
<1> QED
    BY <1>2, <1>3, <1>4 DEF SameIfTogether, StillOwned

(* The withdrawal that was due disturbs no owner.                          *)
LEMMA ServedFriendly ==
    ASSUME ReplayShape, PacketsInOrder, Owners, WithdrawalsApart, OwnersCarried,
           NEW t \in Tokens, StillOwned(t)', NEW access \in Elems(Served)
    PROVE  FriendlyTo(access, t, packets'[t].payload)
<1>1. PICK u \in Tokens :
        /\ StillOwned(u) /\ packets[u].payload \in Packable
        /\ \E i \in 0..(LineCount(Length[packets[u].payload]) - 1) :
                access = WithdrawalStore(u, packets[u].payload, i)
    BY ServedIs
<1>2. /\ packets'[t].payload \in Packable
      /\ SameIfTogether(u, packets[u].payload, t, packets'[t].payload)
    BY <1>1 DEF OwnersCarried
<1> QED
    BY <1>1, <1>2, FriendlyWithdrawal DEF WithdrawalStore

LEMMA ServedNoReads ==
    ASSUME ReplayShape, PacketsInOrder, Owners, WithdrawalsApart, NEW access \in Elems(Served)
    PROVE  access.call # "read"
<1>1. access.call = "bypass_write"
    BY ServedIs DEF WithdrawalStore, Access
<1> QED
    BY <1>1

(* The withdrawals left after an event keep their order.                   *)
LEMMA LaterKeeps ==
    ASSUME ReplayShape, WithdrawalsApart, deferred' = Later, withdraw_after' = withdraw_after,
           \A u \in DOMAIN packets : /\ u \in DOMAIN packets'
                                     /\ packets[u].ready_visible => packets'[u].ready_visible
    PROVE  WithdrawalsApart' /\ deferred' \in Seq(Timers)
<1>1. /\ Later \in Seq(Timers)
      /\ Later # <<>> => withdraw_after \in Nat \ {0}
      /\ \A n \in DOMAIN Later :
            /\ Later[n].left \in 1..(withdraw_after - 1)
            /\ Later[n].token \in DOMAIN packets /\ packets[Later[n].token].ready_visible
            /\ \A m \in 1..(n - 1) : Later[m].left < Later[n].left
    BY LaterIs
<1>2. ASSUME NEW n \in DOMAIN Later
      PROVE  /\ Later[n].left \in 1..withdraw_after
             /\ Later[n].token \in DOMAIN packets' /\ packets'[Later[n].token].ready_visible
             /\ \A m \in 1..(n - 1) : Later[m].left < Later[n].left
    <2>1. Later # <<>>
        <3>1. DOMAIN <<>> = {}
            OBVIOUS
        <3> QED
            BY <3>1
    <2>2. withdraw_after \in Nat /\ Later[n].left \in 1..(withdraw_after - 1)
        BY <1>1, <2>1
    <2> QED
        BY <1>1, <2>2
<1> QED
    BY <1>1, <1>2 DEF WithdrawalsApart

(* An event that publishes and consumes nothing leaves the counts.         *)
LEMMA CountsStay ==
    ASSUME Counted, background_index' = background_index, undemanded' = undemanded,
           \A u \in DOMAIN packets :
                /\ u \in DOMAIN packets'
                /\ packets'[u].consumed = packets[u].consumed
                /\ packets'[u].visible = packets[u].visible,
           \A u \in DOMAIN packets' \ DOMAIN packets :
                ~packets'[u].consumed /\ packets'[u].visible = {}
    PROVE  Counted'
<1>1. ConsumedSerials' = ConsumedSerials
    BY DEF ConsumedSerials
<1>2. LinesUnread' = LinesUnread
    BY DEF LinesUnread
<1> QED
    BY <1>1, <1>2 DEF Counted

(* The event changes what is to come to what a withdrawal stores.          *)
LEMMA QuietKeeps ==
    ASSUME ReplayInv, todo = <<>>, todo' = Served, deferred' = Later, UNCHANGED llc,
           UNCHANGED <<withdraw_after, background_index, undemanded, running>>,
           active_slots' \in [Flows -> [Check!Slots -> Tokens \cup {NoToken}]],
           next_consume' = next_consume, DOMAIN packets' \subseteq Tokens,
           packets' \in [DOMAIN packets' -> Packet],
           \A u \in DOMAIN packets :
                /\ u \in DOMAIN packets'
                /\ packets'[u].consumed = packets[u].consumed
                /\ packets'[u].visible = packets[u].visible
                /\ packets'[u].payload = packets[u].payload
                /\ packets'[u].ready_visible = packets[u].ready_visible,
           \A u \in DOMAIN packets' \ DOMAIN packets :
                ~packets'[u].consumed /\ packets'[u].visible = {},
           PacketsInOrder', Owners', OwnersCarried,
           \A t \in Tokens : StillOwned(t)' => t \in DOMAIN packets' /\
                (t \in DOMAIN packets => StillOwned(t))
    PROVE  ReplayInv'
<1>0. /\ ReplayShape /\ PacketsInOrder /\ Owners /\ WithdrawalsApart /\ Counted
      /\ TypeOK /\ OneCopy /\ CleanIsHome
    BY DEF ReplayInv
<1>1. MemoryStays
    BY <1>0, LlcStays
<1>2. ToCome' = Elems(Served)
    BY DEF ToCome, Elems
<1>3. WithdrawalsApart' /\ deferred' \in Seq(Timers)
    BY <1>0, LaterKeeps
<1>4. Served \in Seq(Accesses) /\ \A access \in Elems(Served) : WellFormed(access)
    BY <1>0, ServedIs
<1>5. ReplayShape'
    <2>1. \A access \in ToCome' : WellFormed(access)'
        BY <1>2, <1>4 DEF WellFormed
    <2> QED
        BY <1>0, <1>3, <1>4, <2>1 DEF ReplayShape, Timers
<1>6. Counted'
    BY <1>0, CountsStay
<1>7. AllFriendly'
    BY <1>0, <1>2, ServedFriendly DEF AllFriendly
<1>8. VisiblesGrow
    BY DEF VisiblesGrow
<1>9. ReadsStart
    BY <1>0, <1>2, ServedNoReads DEF ReadsStart
<1> QED
    BY <1>1, <1>3, <1>5, <1>6, <1>7, <1>8, <1>9, EventKeeps

(* A new packet takes a slot that nobody has.                              *)
LEMMA ReceiveKeeps ==
    ASSUME ReplayInv, todo = <<>>, todo' = Served, deferred' = Later, UNCHANGED llc,
           UNCHANGED <<withdraw_after, background_index, undemanded, running>>,
           NEW t \in Tokens, NEW p \in Payloads, Check!Receive(t, p)
    PROVE  ReplayInv'
<1>0. /\ ReplayShape /\ PacketsInOrder /\ Owners /\ NoToken \notin Tokens
    BY ReplayAssumption DEF ReplayInv
<1>1. /\ p \in Packable /\ active_slots[t.flow][t.slot] = NoToken /\ t \notin DOMAIN packets
      /\ packets' = [u \in DOMAIN packets \cup {t} |->
                        IF u = t THEN Check!NewPacket(p) ELSE packets[u]]
      /\ active_slots' = [active_slots EXCEPT ![t.flow][t.slot] = t]
      /\ next_consume' = next_consume
    BY DEF Check!Receive, Check!MayReceive, Packable
<1>2. t.flow \in Flows /\ t.slot \in Check!Slots
    BY TokenIs
<1>3. \A f \in Flows, k \in Check!Slots :
        active_slots'[f][k] = IF f = t.flow /\ k = t.slot THEN t ELSE active_slots[f][k]
    BY <1>0, <1>1, <1>2 DEF ReplayShape
<1>4. active_slots' \in [Flows -> [Check!Slots -> Tokens \cup {NoToken}]]
    BY <1>0, <1>1, <1>2 DEF ReplayShape
<1>5. /\ DOMAIN packets' = DOMAIN packets \cup {t}
      /\ packets'[t] = Check!NewPacket(p)
      /\ \A u \in DOMAIN packets : packets'[u] = packets[u] /\ u # t
    BY <1>1
<1>6. Check!NewPacket(p) \in Packet
    BY <1>1 DEF Check!NewPacket, Packet
<1>7. packets' \in [DOMAIN packets' -> Packet] /\ DOMAIN packets' \subseteq Tokens
    BY <1>0, <1>1, <1>5, <1>6 DEF ReplayShape
<1>8. ASSUME NEW u \in Tokens
      PROVE  /\ StillOwned(u) => u # t /\ ~(u.flow = t.flow /\ u.slot = t.slot)
             /\ StillOwned(u)' => u = t \/ StillOwned(u)
    BY <1>0, <1>1, <1>3, TokenIs DEF StillOwned
<1>9. PacketsInOrder'
    <2>1. SUFFICES ASSUME NEW u \in DOMAIN packets'
                   PROVE  LET q == packets'[u]
                              parts == Check!RequiredData(q.payload)
                          IN  /\ q.visible \subseteq parts \cup {Check!ReadyComponent}
                              /\ q.ready_visible <=> Check!ReadyComponent \in q.visible
                              /\ q.ready_visible => parts \subseteq q.visible
                              /\ q.consumed => q.ready_visible /\ u.serial < next_consume'[u.flow]
                              /\ q.released => q.consumed
                              /\ ~q.released => active_slots'[u.flow][u.slot] = u
        BY DEF PacketsInOrder
    <2>2. CASE u = t
        BY <1>2, <1>3, <1>5, <2>2 DEF Check!NewPacket
    <2>3. CASE u # t
        <3>1. u \in DOMAIN packets /\ packets'[u] = packets[u] /\ u \in Tokens
            BY <1>0, <1>5, <2>3 DEF ReplayShape
        <3>2. ~packets[u].released => active_slots'[u.flow][u.slot] = u
            <4>1. ~packets[u].released => active_slots[u.flow][u.slot] = u
                BY <1>0, <3>1 DEF PacketsInOrder
            <4>2. u.flow \in Flows /\ u.slot \in Check!Slots /\ u # NoToken
                BY <1>0, <3>1, TokenIs
            <4> QED
                BY <1>1, <1>3, <4>1, <4>2
        <3> QED
            BY <1>0, <1>1, <3>1, <3>2 DEF PacketsInOrder
    <2> QED
        BY <2>2, <2>3
<1>10. Owners'
    <2>1. SUFFICES ASSUME NEW f \in Flows, NEW k \in Check!Slots, active_slots'[f][k] # NoToken
                   PROVE  /\ active_slots'[f][k] \in DOMAIN packets'
                          /\ ~packets'[active_slots'[f][k]].released
                          /\ active_slots'[f][k].flow = f /\ active_slots'[f][k].slot = k
        BY DEF Owners
    <2>2. CASE f = t.flow /\ k = t.slot
        BY <1>3, <1>5, <2>2 DEF Check!NewPacket
    <2>3. CASE ~(f = t.flow /\ k = t.slot)
        BY <1>0, <1>3, <1>5, <2>1, <2>3 DEF Owners
    <2> QED
        BY <2>2, <2>3
<1>11. OwnersCarried
    <2>1. SUFFICES ASSUME NEW u \in Tokens, StillOwned(u)'
                   PROVE  /\ packets'[u].payload \in Packable
                          /\ \A v \in Tokens : StillOwned(v) =>
                                SameIfTogether(v, packets[v].payload, u, packets'[u].payload)
        BY DEF OwnersCarried
    <2>2. CASE u = t
        <3>1. packets'[u].payload = p
            BY <1>5, <2>2 DEF Check!NewPacket
        <3> QED
            BY <1>1, <1>8, <2>2, <3>1 DEF SameIfTogether
    <2>3. CASE StillOwned(u)
        <3>1. packets'[u] = packets[u] /\ packets[u].payload \in Packable
            BY <1>0, <1>5, <2>3, OwnerIs
        <3> QED
            BY <2>3, <3>1 DEF SameIfTogether, StillOwned
    <2> QED
        BY <1>8, <2>1, <2>2, <2>3
<1>12. \A u \in Tokens : StillOwned(u)' => u \in DOMAIN packets' /\
            (u \in DOMAIN packets => StillOwned(u))
    BY <1>0, <1>5, <1>8, OwnerIs
<1>13. \A u \in DOMAIN packets' \ DOMAIN packets :
            ~packets'[u].consumed /\ packets'[u].visible = {}
    BY <1>5 DEF Check!NewPacket
<1> QED
    BY <1>1, <1>4, <1>5, <1>7, <1>9, <1>10, <1>11, <1>12, <1>13, QuietKeeps

(* An issue moves nothing the replay looks at.                             *)
LEMMA IssueKeeps ==
    ASSUME ReplayInv, todo = <<>>, todo' = Served, deferred' = Later, UNCHANGED llc,
           UNCHANGED <<withdraw_after, background_index, undemanded, running>>,
           NEW t \in DOMAIN packets, NEW component \in Owned(packets[t].payload),
           NEW content, Check!Issue(t, component, content)
    PROVE  ReplayInv'
<1>0. /\ ReplayShape /\ PacketsInOrder /\ Owners
    BY DEF ReplayInv
<1>1. /\ packets' = [packets EXCEPT
            ![t].issued = @ \cup {component}, ![t].pending = @ \cup {component},
            ![t].charged = TRUE,
            ![t].ready_issued = @ \/ component = Check!ReadyComponent]
      /\ active_slots' = active_slots /\ next_consume' = next_consume
    BY DEF Check!Issue
<1>2. packets[t] \in Packet /\ t \in Tokens
    BY <1>0 DEF ReplayShape
<1>3. component \in Components
    BY <1>2, OwnedAreComponents DEF Packet
<1>4. /\ DOMAIN packets' = DOMAIN packets
      /\ \A u \in DOMAIN packets : u # t => packets'[u] = packets[u]
      /\ packets'[t] = [packets[t] EXCEPT
            !.issued = @ \cup {component}, !.pending = @ \cup {component},
            !.charged = TRUE, !.ready_issued = @ \/ component = Check!ReadyComponent]
    BY <1>0, <1>1 DEF ReplayShape
<1>5. /\ packets'[t] \in Packet
      /\ packets'[t].consumed = packets[t].consumed /\ packets'[t].visible = packets[t].visible
      /\ packets'[t].payload = packets[t].payload /\ packets'[t].released = packets[t].released
      /\ packets'[t].ready_visible = packets[t].ready_visible
    <2>1. PICK q \in Packet : q = packets[t]
        BY <1>2
    <2>2. PICK b \in BOOLEAN : b = (q.ready_issued \/ component = Check!ReadyComponent)
        OBVIOUS
    <2>3. packets'[t] = [q EXCEPT !.issued = @ \cup {component}, !.pending = @ \cup {component},
                                  !.charged = TRUE, !.ready_issued = b]
        BY <1>4, <2>1, <2>2
    <2>4. packets'[t] \in Packet
        <3>1. PICK i \in SUBSET Components : i = q.issued \cup {component}
            BY <1>3 DEF Packet
        <3>2. PICK w \in SUBSET Components : w = q.pending \cup {component}
            BY <1>3 DEF Packet
        <3>3. packets'[t] = [q EXCEPT !.issued = i, !.pending = w, !.charged = TRUE,
                                      !.ready_issued = b]
            BY <2>3, <3>1, <3>2 DEF Packet
        <3> QED
            BY <3>3 DEF Packet
    <2>5. /\ packets'[t].consumed = q.consumed /\ packets'[t].visible = q.visible
          /\ packets'[t].payload = q.payload /\ packets'[t].released = q.released
          /\ packets'[t].ready_visible = q.ready_visible
        BY <2>3 DEF Packet
    <2> QED
        BY <2>1, <2>4, <2>5
<1>6. \A u \in DOMAIN packets :
        /\ packets'[u].consumed = packets[u].consumed /\ packets'[u].visible = packets[u].visible
        /\ packets'[u].payload = packets[u].payload /\ packets'[u].released = packets[u].released
        /\ packets'[u].ready_visible = packets[u].ready_visible /\ packets'[u] \in Packet
    BY <1>0, <1>4, <1>5 DEF ReplayShape
<1>7. packets' \in [DOMAIN packets' -> Packet]
    BY <1>1, <1>4, <1>6
<1>8. PacketsInOrder'
    BY <1>0, <1>1, <1>4, <1>6 DEF PacketsInOrder
<1>9. Owners'
    BY <1>0, <1>1, <1>4, <1>6 DEF Owners
<1>10. OwnersCarried
    BY <1>0, <1>1, <1>6, OwnersCarriedOver
<1>11. \A u \in Tokens : StillOwned(u)' => u \in DOMAIN packets' /\ StillOwned(u)
    BY <1>0, <1>1, <1>4, OwnerIs DEF StillOwned
<1> QED
    BY <1>0, <1>1, <1>4, <1>6, <1>7, <1>8, <1>9, <1>10, <1>11, QuietKeeps DEF ReplayShape

(* A rejection only brings the withdrawals closer.                         *)
LEMMA RejectKeeps == ASSUME ReplayInv, ReadReject PROVE ReplayInv'
<1>0. /\ ReplayShape /\ PacketsInOrder /\ Owners
    BY DEF ReplayInv
<1>1. /\ todo = <<>> /\ todo' = Served /\ deferred' = Later /\ UNCHANGED llc
      /\ UNCHANGED <<withdraw_after, background_index, undemanded, running>>
      /\ active_slots' = active_slots /\ next_consume' = next_consume /\ packets' = packets
    BY DEF ReadReject, Idle, checker
<1>2. PacketsInOrder' /\ Owners'
    BY <1>0, <1>1 DEF PacketsInOrder, Owners
<1>3. OwnersCarried
    BY <1>0, <1>1, OwnersCarriedOver
<1>4. \A u \in Tokens : StillOwned(u)' => u \in DOMAIN packets' /\ StillOwned(u)
    BY <1>0, <1>1, OwnerIs DEF StillOwned
<1> QED
    BY <1>0, <1>1, <1>2, <1>3, <1>4, QuietKeeps DEF ReplayShape

LEMMA ReadQuietKeeps == ASSUME ReplayInv, ReadQuiet PROVE ReplayInv'
<1>1. PICK t \in Tokens :
        \/ \E p \in Payloads : Check!Receive(t, p)
        \/ /\ t \in DOMAIN packets
           /\ \E component \in Owned(packets[t].payload) :
                Check!Issue(t, component, Check!ContentOf(t, packets[t].payload, component))
    BY DEF ReadQuiet, Owned
<1>2. /\ todo = <<>> /\ todo' = Served /\ deferred' = Later /\ UNCHANGED llc
      /\ UNCHANGED <<withdraw_after, background_index, undemanded, running>>
    BY DEF ReadQuiet, Idle
<1>3. CASE \E p \in Payloads : Check!Receive(t, p)
    BY <1>2, <1>3, ReceiveKeeps
<1>4. CASE t \in DOMAIN packets /\ \E component \in Owned(packets[t].payload) :
                Check!Issue(t, component, Check!ContentOf(t, packets[t].payload, component))
    <2>1. PICK component \in Owned(packets[t].payload) :
                Check!Issue(t, component, Check!ContentOf(t, packets[t].payload, component))
        BY <1>4
    <2> QED
        BY <1>2, <1>4, <2>1, IssueKeeps
<1> QED
    BY <1>1, <1>3, <1>4
--------------------------------------------------------------------------------
(* A part becomes visible.                                                 *)
LEMMA VisibleIs ==
    ASSUME ReplayShape, PacketsInOrder, Owners, NEW t \in DOMAIN packets, NEW component,
           NEW content, Check!Visible(t, component, content)
    PROVE  /\ t \in Tokens /\ StillOwned(t) /\ packets[t].payload \in Packable
           /\ component \in Owned(packets[t].payload) /\ component \notin packets[t].visible
           /\ ~packets[t].ready_visible /\ ~packets[t].consumed
           /\ active_slots' = active_slots /\ next_consume' = next_consume
           /\ DOMAIN packets' = DOMAIN packets
           /\ packets' \in [DOMAIN packets' -> Packet]
           /\ \A u \in DOMAIN packets :
                /\ packets'[u].payload = packets[u].payload
                /\ packets'[u].consumed = packets[u].consumed
                /\ packets'[u].released = packets[u].released
                /\ u # t => packets'[u] = packets[u]
           /\ packets'[t].visible = packets[t].visible \cup {component}
           /\ packets'[t].ready_visible <=> component = Check!ReadyComponent
           /\ component = Check!ReadyComponent =>
                Check!RequiredData(packets[t].payload) \subseteq packets[t].visible
<1>1. packets[t] \in Packet /\ t \in Tokens
    BY DEF ReplayShape
<1>2. packets[t].payload \in Packable
    BY <1>1 DEF Packet
<1>3. Check!ActivePacket(t) /\ Check!RightContent(t, component, content)
    BY DEF Check!Visible, Check!MayBecomeVisible
<1>4. StillOwned(t) /\ component \in Owned(packets[t].payload)
    BY <1>3 DEF Check!ActivePacket, Check!RightContent, StillOwned, Owned
<1>5. /\ component \notin packets[t].visible
      /\ component = Check!ReadyComponent =>
                Check!RequiredData(packets[t].payload) \subseteq packets[t].visible
    BY DEF Check!Visible, Check!MayBecomeVisible, Check!MayPublish
<1>6. ~packets[t].ready_visible /\ ~packets[t].consumed
    BY <1>4, <1>5 DEF PacketsInOrder, Owned
<1>7. /\ packets' = [packets EXCEPT
            ![t].pending = @ \ {component}, ![t].visible = @ \cup {component},
            ![t].ready_visible = @ \/ component = Check!ReadyComponent]
      /\ active_slots' = active_slots /\ next_consume' = next_consume
    BY DEF Check!Visible
<1>8. component \in Components
    BY <1>2, <1>4, OwnedAreComponents
<1>9. PICK q \in Packet : q = packets[t]
    BY <1>1
<1>10. PICK b \in BOOLEAN : b = (q.ready_visible \/ component = Check!ReadyComponent)
    OBVIOUS
<1>11. PICK v \in SUBSET Components : v = q.visible \cup {component}
    BY <1>8 DEF Packet
<1>12. PICK w \in SUBSET Components : w = q.pending \ {component}
    BY <1>8 DEF Packet
<1>13. /\ DOMAIN packets' = DOMAIN packets
       /\ \A u \in DOMAIN packets : u # t => packets'[u] = packets[u]
       /\ packets'[t] = [q EXCEPT !.pending = w, !.visible = v, !.ready_visible = b]
    BY <1>7, <1>9, <1>10, <1>11, <1>12 DEF ReplayShape
<1>14. /\ packets'[t] \in Packet /\ packets'[t].payload = q.payload
       /\ packets'[t].consumed = q.consumed /\ packets'[t].released = q.released
       /\ packets'[t].visible = v /\ packets'[t].ready_visible = b
    BY <1>13 DEF Packet
<1>15. \A u \in DOMAIN packets : packets'[u] \in Packet
    BY <1>13, <1>14 DEF ReplayShape
<1>16. packets' \in [DOMAIN packets' -> Packet]
    BY <1>7, <1>13, <1>15
<1>17. \A u \in DOMAIN packets :
        /\ packets'[u].payload = packets[u].payload
        /\ packets'[u].consumed = packets[u].consumed
        /\ packets'[u].released = packets[u].released
    BY <1>9, <1>13, <1>14
<1>18. packets'[t].ready_visible <=> component = Check!ReadyComponent
    BY <1>6, <1>9, <1>10, <1>14
<1>19. packets'[t].visible = packets[t].visible \cup {component}
    BY <1>9, <1>11, <1>14
<1> QED
    BY <1>1, <1>2, <1>4, <1>5, <1>6, <1>7, <1>13, <1>16, <1>17, <1>18, <1>19

LEMMA VisibleOrders ==
    ASSUME ReplayShape, PacketsInOrder, Owners, NEW t \in DOMAIN packets, NEW component,
           NEW content, Check!Visible(t, component, content)
    PROVE  PacketsInOrder' /\ Owners' /\ OwnersCarried
<1> DEFINE Moves ==
        /\ StillOwned(t) /\ component \in Owned(packets[t].payload)
        /\ ~packets[t].consumed
        /\ active_slots' = active_slots /\ next_consume' = next_consume
        /\ DOMAIN packets' = DOMAIN packets
        /\ \A u \in DOMAIN packets :
            /\ packets'[u].payload = packets[u].payload
            /\ packets'[u].consumed = packets[u].consumed
            /\ packets'[u].released = packets[u].released
            /\ u # t => packets'[u] = packets[u]
        /\ packets'[t].visible = packets[t].visible \cup {component}
        /\ packets'[t].ready_visible <=> component = Check!ReadyComponent
        /\ ~packets[t].ready_visible
        /\ component = Check!ReadyComponent =>
                Check!RequiredData(packets[t].payload) \subseteq packets[t].visible
<1>1. Moves
    BY VisibleIs
<1>2. PacketsInOrder'
    <2>1. SUFFICES ASSUME NEW u \in DOMAIN packets
                   PROVE  LET q == packets'[u]
                              parts == Check!RequiredData(q.payload)
                          IN  /\ q.visible \subseteq parts \cup {Check!ReadyComponent}
                              /\ q.ready_visible <=> Check!ReadyComponent \in q.visible
                              /\ q.ready_visible => parts \subseteq q.visible
                              /\ q.consumed => q.ready_visible /\ u.serial < next_consume'[u.flow]
                              /\ q.released => q.consumed
                              /\ ~q.released => active_slots'[u.flow][u.slot] = u
        BY <1>1 DEF PacketsInOrder
    <2>2. CASE u = t
        BY <1>1, <2>2 DEF PacketsInOrder, Owned
    <2>3. CASE u # t
        BY <1>1, <2>3 DEF PacketsInOrder
    <2> QED
        BY <2>2, <2>3
<1>3. Owners'
    BY <1>1 DEF Owners
<1>4. OwnersCarried
    BY <1>1, OwnersCarriedOver
<1> QED
    BY <1>2, <1>3, <1>4

(* Of a packet's payload lines one more is unread.                         *)
LEMMA VisibleCounts ==
    ASSUME ReplayShape, PacketsInOrder, Owners, Counted, NEW t \in DOMAIN packets,
           NEW component, NEW content, Check!Visible(t, component, content),
           background_index' = background_index,
           undemanded' = undemanded + (IF IsPayload(component) THEN 1 ELSE 0)
    PROVE  Counted'
<1>1. /\ packets[t].payload \in Packable /\ component \in Owned(packets[t].payload)
      /\ component \notin packets[t].visible /\ ~packets[t].consumed
      /\ DOMAIN packets' = DOMAIN packets
      /\ packets'[t].visible = packets[t].visible \cup {component}
      /\ \A u \in DOMAIN packets : packets'[u].consumed = packets[u].consumed
      /\ \A u \in DOMAIN packets : u # t => packets'[u] = packets[u]
    BY VisibleIs
<1>2. ConsumedSerials' = ConsumedSerials
    BY <1>1 DEF ConsumedSerials
<1>3. CASE ~IsPayload(component)
    <2>1. \A i : <<"payload", i>> # component
        BY <1>3 DEF IsPayload
    <2>2. LinesUnread' = LinesUnread
        BY <1>1, <2>1 DEF LinesUnread
    <2>3. undemanded' = undemanded
        BY <1>3 DEF ReplayShape
    <2> QED
        BY <1>2, <2>2, <2>3 DEF Counted
<1>4. CASE IsPayload(component)
    <2>1. PICK i \in 0..(LineCount(Length[packets[t].payload]) - 1) : component = <<"payload", i>>
        BY <1>1, <1>4, ComponentKinds
    <2>2. i \in 0..(LineCount(MaxPacketBytes) - 1)
        BY <1>1, LineCounts
    <2>3. \A j : <<"payload", j>> = component => j = i
        BY <2>1
    <2>4. LinesUnread' = LinesUnread \cup {<<t, i>>}
        BY <1>1, <2>1, <2>2, <2>3 DEF LinesUnread
    <2>5. <<t, i>> \notin LinesUnread
        BY <1>1, <2>1 DEF LinesUnread
    <2>6. IsFiniteSet(LinesUnread') /\ Cardinality(LinesUnread') = Cardinality(LinesUnread) + 1
        BY <2>4, <2>5, FS_AddElement DEF Counted
    <2> QED
        BY <1>2, <1>4, <2>6 DEF Counted
<1> QED
    BY <1>3, <1>4

(* The clock of the new withdrawal is set behind those that run.           *)
LEMMA TimerKeeps ==
    ASSUME ReplayShape, WithdrawalsApart, withdraw_after' = withdraw_after,
           withdraw_after \in Nat \ {0}, NEW t \in Tokens,
           deferred' = Later \o <<[left |-> withdraw_after, token |-> t]>>,
           t \in DOMAIN packets', packets'[t].ready_visible,
           \A u \in DOMAIN packets : /\ u \in DOMAIN packets'
                                     /\ packets[u].ready_visible => packets'[u].ready_visible
    PROVE  WithdrawalsApart' /\ deferred' \in Seq(Timers)
<1> DEFINE timer == [left |-> withdraw_after, token |-> t]
<1>1. /\ Later \in Seq(Timers)
      /\ \A n \in DOMAIN Later :
            /\ Later[n].left \in 1..(withdraw_after - 1)
            /\ Later[n].token \in DOMAIN packets /\ packets[Later[n].token].ready_visible
            /\ \A m \in 1..(n - 1) : Later[m].left < Later[n].left
    BY LaterIs
<1>2. timer \in Timers /\ timer.left = withdraw_after /\ timer.token = t
    BY DEF Timers
<1> HIDE DEF timer
<1>3. /\ deferred' \in Seq(Timers) /\ Len(Later) \in Nat /\ DOMAIN Later = 1..Len(Later)
      /\ DOMAIN deferred' = 1..(Len(Later) + 1)
      /\ \A n \in 1..Len(Later) : deferred'[n] = Later[n]
      /\ deferred'[Len(Later) + 1] = timer
    <2>1. deferred' = Later \o <<timer>> /\ <<timer>> \in Seq(Timers)
        BY <1>2 DEF timer
    <2> QED
        BY <1>1, <2>1
<1>4. ASSUME NEW n \in DOMAIN deferred'
      PROVE  /\ deferred'[n].left \in 1..withdraw_after
             /\ deferred'[n].token \in DOMAIN packets'
             /\ packets'[deferred'[n].token].ready_visible
             /\ \A m \in 1..(n - 1) : deferred'[m].left < deferred'[n].left
    <2>1. CASE n \in 1..Len(Later)
        <3>1. deferred'[n] = Later[n] /\ n \in DOMAIN Later
            BY <1>3, <2>1
        <3>2. ASSUME NEW m \in 1..(n - 1) PROVE deferred'[m].left < deferred'[n].left
            <4>1. m \in 1..Len(Later)
                BY <1>3, <2>1
            <4> QED
                BY <1>1, <1>3, <3>1, <4>1
        <3>3. Later[n].left \in 1..(withdraw_after - 1)
            BY <1>1, <3>1
        <3>4. Later[n].left \in 1..withdraw_after
            BY <3>3
        <3> QED
            BY <1>1, <3>1, <3>2, <3>4
    <2>2. CASE n = Len(Later) + 1
        <3>1. deferred'[n].left = withdraw_after /\ deferred'[n].token = t
            BY <1>2, <1>3, <2>2
        <3>2. ASSUME NEW m \in 1..(n - 1) PROVE deferred'[m].left < deferred'[n].left
            <4>1. m \in 1..Len(Later)
                BY <1>3, <2>2
            <4>2. Later[m].left \in 1..(withdraw_after - 1) /\ deferred'[m] = Later[m]
                BY <1>1, <1>3, <4>1
            <4> QED
                BY <3>1, <4>2
        <3> QED
            BY <3>1, <3>2
    <2>3. n \in 1..Len(Later) \/ n = Len(Later) + 1
        BY <1>3
    <2> QED
        BY <2>1, <2>2, <2>3
<1> QED
    BY <1>3, <1>4 DEF WithdrawalsApart

(* A write becomes visible: its store, and the withdrawal that follows.    *)
LEMMA ReadVisibleKeeps ==
    ASSUME ReplayInv, NEW t \in DOMAIN packets, NEW component, ReadVisible(t, component)
    PROVE  ReplayInv'
<1> DEFINE content == Check!ContentOf(t, packets[t].payload, component)
           write == VisibleAccess(t, component, content)
           publication == component = Check!ReadyComponent /\ withdraw_after # Never
           withdrawn == IF publication /\ withdraw_after = 0 THEN Withdrawal(t) ELSE <<>>
           p == packets[t].payload
<1>0. /\ ReplayShape /\ PacketsInOrder /\ Owners /\ WithdrawalsApart /\ Counted
      /\ TypeOK /\ OneCopy /\ CleanIsHome
    BY DEF ReplayInv
<1>1. /\ todo = <<>> /\ Check!Visible(t, component, content)
      /\ todo' = Served \o <<write>> \o withdrawn
      /\ deferred' = Later \o (IF publication /\ withdraw_after # 0
                               THEN <<[left |-> withdraw_after, token |-> t]>> ELSE <<>>)
      /\ undemanded' = undemanded + (IF IsPayload(component) THEN 1 ELSE 0)
      /\ UNCHANGED <<llc, withdraw_after, background_index, running>>
    BY DEF ReadVisible, Idle
<1>2. /\ t \in Tokens /\ StillOwned(t) /\ p \in Packable
      /\ component \in Owned(p) /\ component \notin packets[t].visible
      /\ ~packets[t].ready_visible
      /\ active_slots' = active_slots /\ next_consume' = next_consume
      /\ DOMAIN packets' = DOMAIN packets
      /\ packets' \in [DOMAIN packets' -> Packet]
      /\ \A u \in DOMAIN packets :
            /\ packets'[u].payload = packets[u].payload
            /\ u # t => packets'[u] = packets[u]
      /\ packets'[t].visible = packets[t].visible \cup {component}
      /\ packets'[t].ready_visible <=> component = Check!ReadyComponent
    BY <1>0, <1>1, VisibleIs
<1>3. PacketsInOrder' /\ Owners' /\ OwnersCarried
    BY <1>0, <1>1, VisibleOrders
<1>4. Counted'
    BY <1>0, <1>1, VisibleCounts
<1>5. MemoryStays
    BY <1>0, <1>1, LlcStays
<1>6. WithdrawalsApart' /\ deferred' \in Seq(Timers)
    <2>0. \A u \in DOMAIN packets : /\ u \in DOMAIN packets'
                                    /\ packets[u].ready_visible => packets'[u].ready_visible
        BY <1>2
    <2>1. CASE publication /\ withdraw_after # 0
        <3>1. withdraw_after \in Nat \ {0}
            BY <1>0, <2>1, ReplayAssumption DEF ReplayShape
        <3>2. packets'[t].ready_visible /\ t \in DOMAIN packets'
            BY <1>2, <2>1
        <3>3. deferred' = Later \o <<[left |-> withdraw_after, token |-> t]>>
            BY <1>1, <2>1
        <3> QED
            BY <1>0, <1>1, <1>2, <2>0, <3>1, <3>2, <3>3, TimerKeeps
    <2>2. CASE ~(publication /\ withdraw_after # 0)
        <3>1. Later \in Seq(Timers)
            BY <1>0, LaterIs
        <3>2. deferred' = Later
            BY <1>1, <2>2, <3>1
        <3> QED
            BY <1>0, <1>1, <2>0, <3>2, LaterKeeps
    <2> QED
        BY <2>1, <2>2
<1>7. write = Written(t, component) /\ write = Access("io_write", LineOf(t, component), PartOf(t, p, component))
    <2>1. write = Written(t, component)
        BY DEF Written, ContentOf
    <2> QED
        BY <1>2, <2>1, WrittenIs DEF WrittenAsSaid
<1>8. write \in Accesses /\ WellFormed(write)
    <2>1. LineOf(t, component) \in Addresses /\ PartOf(t, p, component) \in Parts
        BY <1>2, LineIs, PartIs, BackgroundApart
    <2> QED
        BY <1>7, <2>1, StoreIsAccess DEF StoreCalls
<1>9. /\ withdrawn \in Seq(Accesses)
      /\ \A access \in Elems(withdrawn) : WellFormed(access) /\
            \E i \in 0..(LineCount(Length[p]) - 1) : access = WithdrawalStore(t, p, i)
    <2>1. CASE publication /\ withdraw_after = 0
        <3>1. withdrawn = Withdrawal(t)
            BY <2>1
        <3> QED
            BY <1>0, <1>2, <3>1, WithdrawalIs
    <2>2. CASE ~(publication /\ withdraw_after = 0)
        <3>1. withdrawn = <<>>
            BY <2>2
        <3> QED
            BY <3>1, ElemsNone
    <2> QED
        BY <2>1, <2>2
<1> HIDE DEF write, withdrawn, publication, content
<1>10. Served \in Seq(Accesses) /\ \A access \in Elems(Served) : WellFormed(access)
    BY <1>0, ServedIs
<1>11. /\ todo' \in Seq(Accesses)
       /\ ToCome' = Elems(Served) \cup {write} \cup Elems(withdrawn)
    <2>1. PICK one \in Seq(Accesses) : one = <<write>> /\ Elems(one) = {write}
        BY <1>8, ElemsOne
    <2>2. PICK both \in Seq(Accesses) :
            both = Served \o one /\ Elems(both) = Elems(Served) \cup Elems(one)
        BY <1>10, ElemsConcat
    <2>3. PICK all \in Seq(Accesses) :
            all = both \o withdrawn /\ Elems(all) = Elems(both) \cup Elems(withdrawn)
        BY <1>9, ElemsConcat
    <2>4. ToCome' = Elems(todo')
        BY DEF ToCome, Elems
    <2>5. todo' = all
        BY <1>1, <2>1, <2>2, <2>3
    <2> QED
        BY <2>1, <2>2, <2>3, <2>4, <2>5
<1>12. ReplayShape'
    <2>1. \A access \in ToCome' : WellFormed(access)'
        BY <1>8, <1>9, <1>10, <1>11 DEF WellFormed
    <2>2. undemanded' \in Int
        BY <1>0, <1>1 DEF ReplayShape
    <2> QED
        BY <1>0, <1>1, <1>2, <1>6, <1>11, <2>1, <2>2 DEF ReplayShape, Timers
<1>13. AllFriendly'
    <2>1. SUFFICES ASSUME NEW access \in ToCome', NEW u \in Tokens, StillOwned(u)'
                   PROVE  FriendlyTo(access, u, packets'[u].payload)
        BY DEF AllFriendly
    <2>2. packets'[u].payload \in Packable /\ SameIfTogether(t, p, u, packets'[u].payload)
        BY <1>2, <1>3, <2>1 DEF OwnersCarried
    <2>3. CASE access \in Elems(Served)
        BY <1>0, <1>3, <2>1, <2>3, ServedFriendly
    <2>4. CASE access = write
        BY <1>2, <1>7, <2>2, <2>4, FriendlyOwn
    <2>5. CASE access \in Elems(withdrawn)
        <3>1. PICK i \in 0..(LineCount(Length[p]) - 1) : access = WithdrawalStore(t, p, i)
            BY <1>9, <2>5
        <3> QED
            BY <1>2, <2>2, <3>1, FriendlyWithdrawal DEF WithdrawalStore
    <2> QED
        BY <1>11, <2>3, <2>4, <2>5
<1>14. VisiblesGrow
    <2>1. SUFFICES ASSUME NEW u \in Tokens, StillOwned(u)', NEW c \in packets'[u].visible
                   PROVE  \/ /\ StillOwned(u) /\ c \in packets[u].visible
                             /\ packets'[u].payload = packets[u].payload
                          \/ /\ Written(u, c)' \in ToCome'
                             /\ packets'[u].ready_visible => c = Check!ReadyComponent
        BY DEF VisiblesGrow
    <2>2. StillOwned(u)
        BY <1>2, <2>1 DEF StillOwned
    <2>3. u \in DOMAIN packets
        BY <1>0, <2>2, OwnerIs
    <2>4. CASE u = t /\ c = component
        <3>1. Written(t, component)' = Written(t, component)
            BY <1>2 DEF Written, VisibleAccess, ContentOf
        <3> QED
            BY <1>2, <1>7, <1>11, <2>4, <3>1
    <2>5. CASE ~(u = t /\ c = component)
        BY <1>2, <2>1, <2>2, <2>3, <2>5
    <2> QED
        BY <2>4, <2>5
<1>15. ReadsStart
    <2>1. \A access \in ToCome' : access.call # "read"
        <3>1. write.call = "io_write"
            BY <1>7 DEF Access
        <3>2. \A access \in Elems(withdrawn) : access.call = "bypass_write"
            BY <1>9 DEF WithdrawalStore, Access
        <3>3. \A access \in Elems(Served) : access.call # "read"
            BY <1>0, ServedNoReads
        <3> QED
            BY <1>11, <3>1, <3>2, <3>3
    <2> QED
        BY <2>1 DEF ReadsStart
<1> QED
    BY <1>1, <1>3, <1>4, <1>5, <1>6, <1>12, <1>13, <1>14, <1>15, EventKeeps
--------------------------------------------------------------------------------
(* The CPU gives the slot back: from here on no withdrawal of the packet   *)
(* finds its owner.                                                        *)
LEMMA ReleaseIs ==
    ASSUME ReplayShape, PacketsInOrder, Owners, NEW t \in DOMAIN packets, Check!Release(t)
    PROVE  /\ t \in Tokens /\ StillOwned(t) /\ packets[t].payload \in Packable
           /\ active_slots' \in [Flows -> [Check!Slots -> Tokens \cup {NoToken}]]
           /\ \A f \in Flows, k \in Check!Slots : active_slots'[f][k] =
                IF f = t.flow /\ k = t.slot THEN NoToken ELSE active_slots[f][k]
           /\ next_consume' = next_consume
           /\ DOMAIN packets' = DOMAIN packets
           /\ packets' \in [DOMAIN packets' -> Packet]
           /\ \A u \in DOMAIN packets :
                /\ packets'[u].payload = packets[u].payload
                /\ packets'[u].consumed = packets[u].consumed
                /\ packets'[u].visible = packets[u].visible
                /\ packets'[u].ready_visible = packets[u].ready_visible
                /\ u # t => packets'[u] = packets[u]
           /\ packets'[t].released /\ packets[t].consumed
<1>1. packets[t] \in Packet /\ t \in Tokens
    BY DEF ReplayShape
<1>2. packets[t].payload \in Packable
    BY <1>1 DEF Packet
<1>3. Check!ActivePacket(t) /\ packets[t].consumed
    BY DEF Check!Release, Check!MayRelease
<1>4. StillOwned(t)
    BY <1>3 DEF Check!ActivePacket, StillOwned
<1>5. /\ packets' = [packets EXCEPT ![t].released = TRUE]
      /\ active_slots' = [active_slots EXCEPT ![t.flow][t.slot] = NoToken]
      /\ next_consume' = next_consume
    BY DEF Check!Release
<1>6. PICK q \in Packet : q = packets[t]
    BY <1>1
<1>7. /\ DOMAIN packets' = DOMAIN packets
      /\ \A u \in DOMAIN packets : u # t => packets'[u] = packets[u]
      /\ packets'[t] = [q EXCEPT !.released = TRUE]
    BY <1>5, <1>6 DEF ReplayShape
<1>8. /\ packets'[t] \in Packet /\ packets'[t].payload = q.payload
      /\ packets'[t].consumed = q.consumed /\ packets'[t].released
      /\ packets'[t].visible = q.visible /\ packets'[t].ready_visible = q.ready_visible
    BY <1>7 DEF Packet
<1>9. \A u \in DOMAIN packets : packets'[u] \in Packet
    BY <1>7, <1>8 DEF ReplayShape
<1>10. packets' \in [DOMAIN packets' -> Packet]
    BY <1>5, <1>7, <1>9
<1>11. t.flow \in Flows /\ t.slot \in Check!Slots
    BY <1>1, TokenIs
<1>12. /\ active_slots' \in [Flows -> [Check!Slots -> Tokens \cup {NoToken}]]
       /\ \A f \in Flows, k \in Check!Slots : active_slots'[f][k] =
            IF f = t.flow /\ k = t.slot THEN NoToken ELSE active_slots[f][k]
    BY <1>5, <1>11 DEF ReplayShape
<1>13. \A u \in DOMAIN packets :
        /\ packets'[u].payload = packets[u].payload
        /\ packets'[u].consumed = packets[u].consumed
        /\ packets'[u].visible = packets[u].visible
        /\ packets'[u].ready_visible = packets[u].ready_visible
    BY <1>6, <1>7, <1>8
<1> QED
    BY <1>1, <1>2, <1>3, <1>4, <1>5, <1>7, <1>8, <1>10, <1>12, <1>13

(* A release: the marker's line is nobody else's.                          *)
LEMMA ReadReleaseKeeps ==
    ASSUME ReplayInv, NEW t \in DOMAIN packets, ReadRelease(t)
    PROVE  ReplayInv'
<1> DEFINE mark == Access("cpu_write", ReleaseLine(t), ReleasePart(t))
<1>0. /\ ReplayShape /\ PacketsInOrder /\ Owners /\ WithdrawalsApart /\ Counted
      /\ TypeOK /\ OneCopy /\ CleanIsHome /\ NoToken \notin Tokens
    BY ReplayAssumption DEF ReplayInv
<1>1. /\ todo = <<>> /\ Check!Release(t)
      /\ todo' = Served \o <<mark>> /\ deferred' = Later
      /\ UNCHANGED <<llc, withdraw_after, background_index, undemanded, running>>
    BY DEF ReadRelease, Idle
<1>2. /\ t \in Tokens /\ StillOwned(t) /\ packets[t].payload \in Packable
      /\ active_slots' \in [Flows -> [Check!Slots -> Tokens \cup {NoToken}]]
      /\ \A f \in Flows, k \in Check!Slots : active_slots'[f][k] =
            IF f = t.flow /\ k = t.slot THEN NoToken ELSE active_slots[f][k]
      /\ next_consume' = next_consume
      /\ DOMAIN packets' = DOMAIN packets
      /\ packets' \in [DOMAIN packets' -> Packet]
      /\ \A u \in DOMAIN packets :
            /\ packets'[u].payload = packets[u].payload
            /\ packets'[u].consumed = packets[u].consumed
            /\ packets'[u].visible = packets[u].visible
            /\ packets'[u].ready_visible = packets[u].ready_visible
            /\ u # t => packets'[u] = packets[u]
      /\ packets'[t].released /\ packets[t].consumed
    BY <1>0, <1>1, ReleaseIs
<1>3. ASSUME NEW u \in Tokens, StillOwned(u)'
      PROVE  StillOwned(u) /\ u # t /\ u \in DOMAIN packets
             /\ ~(u.flow = t.flow /\ u.slot = t.slot)
    <2>1. u.flow \in Flows /\ u.slot \in Check!Slots /\ u # NoToken
        BY <1>0, TokenIs
    <2>2. StillOwned(u) /\ ~(u.flow = t.flow /\ u.slot = t.slot)
        BY <1>2, <1>3, <2>1 DEF StillOwned
    <2> QED
        BY <1>0, <2>2, OwnerIs
<1>4. PacketsInOrder'
    <2>1. SUFFICES ASSUME NEW u \in DOMAIN packets
                   PROVE  LET q == packets'[u]
                              parts == Check!RequiredData(q.payload)
                          IN  /\ q.visible \subseteq parts \cup {Check!ReadyComponent}
                              /\ q.ready_visible <=> Check!ReadyComponent \in q.visible
                              /\ q.ready_visible => parts \subseteq q.visible
                              /\ q.consumed => q.ready_visible /\ u.serial < next_consume'[u.flow]
                              /\ q.released => q.consumed
                              /\ ~q.released => active_slots'[u.flow][u.slot] = u
        BY <1>2 DEF PacketsInOrder
    <2>2. CASE u = t
        BY <1>0, <1>2, <2>2 DEF PacketsInOrder
    <2>3. CASE u # t
        <3>1. packets'[u] = packets[u] /\ u \in Tokens
            BY <1>0, <1>2, <2>3 DEF ReplayShape
        <3>2. ~packets[u].released => active_slots'[u.flow][u.slot] = u
            <4>1. ~packets[u].released => active_slots[u.flow][u.slot] = u
                BY <1>0, <3>1 DEF PacketsInOrder
            <4>2. u.flow \in Flows /\ u.slot \in Check!Slots
                BY <3>1, TokenIs
            <4> QED
                BY <1>2, <2>3, <4>1, <4>2 DEF StillOwned
        <3> QED
            BY <1>0, <1>2, <3>1, <3>2 DEF PacketsInOrder
    <2> QED
        BY <2>2, <2>3
<1>5. Owners'
    <2>1. SUFFICES ASSUME NEW f \in Flows, NEW k \in Check!Slots, active_slots'[f][k] # NoToken
                   PROVE  /\ active_slots'[f][k] \in DOMAIN packets'
                          /\ ~packets'[active_slots'[f][k]].released
                          /\ active_slots'[f][k].flow = f /\ active_slots'[f][k].slot = k
        BY DEF Owners
    <2>2. active_slots'[f][k] = active_slots[f][k] /\ ~(f = t.flow /\ k = t.slot)
        BY <1>2, <2>1
    <2>3. /\ active_slots[f][k] \in DOMAIN packets /\ ~packets[active_slots[f][k]].released
          /\ active_slots[f][k].flow = f /\ active_slots[f][k].slot = k
        BY <1>0, <2>1, <2>2 DEF Owners
    <2>4. active_slots[f][k] # t
        BY <2>2, <2>3
    <2> QED
        BY <1>2, <2>2, <2>3, <2>4
<1>6. OwnersCarried
    <2>1. SUFFICES ASSUME NEW u \in Tokens, StillOwned(u)'
                   PROVE  /\ packets'[u].payload \in Packable
                          /\ \A v \in Tokens : StillOwned(v) =>
                                SameIfTogether(v, packets[v].payload, u, packets'[u].payload)
        BY DEF OwnersCarried
    <2>2. StillOwned(u) /\ packets'[u].payload = packets[u].payload
        BY <1>2, <1>3, <2>1
    <2>3. packets[u].payload \in Packable
        BY <1>0, <2>2, OwnerIs
    <2> QED
        BY <2>2, <2>3 DEF SameIfTogether, StillOwned
<1>7. Counted'
    BY <1>0, <1>1, <1>2, CountsStay
<1>8. MemoryStays
    BY <1>0, <1>1, LlcStays
<1>9. WithdrawalsApart' /\ deferred' \in Seq(Timers)
    BY <1>0, <1>1, <1>2, LaterKeeps
<1>10. mark \in Accesses /\ WellFormed(mark)
    <2>1. ReleasePart(t) \in Parts
        BY <1>2, MarkParts
    <2>2. ReleaseLine(t) \in Addresses
        <3>1. SlotLine(t) + 2 \in SlotLines
            BY <1>2, SlotLineIs
        <3> QED
            BY <3>1, BackgroundApart DEF ReleaseLine
    <2> QED
        BY <2>1, <2>2, StoreIsAccess DEF StoreCalls
<1> HIDE DEF mark
<1>11. Served \in Seq(Accesses) /\ \A access \in Elems(Served) : WellFormed(access)
    BY <1>0, ServedIs
<1>12. todo' \in Seq(Accesses) /\ ToCome' = Elems(Served) \cup {mark}
    <2>1. PICK one \in Seq(Accesses) : one = <<mark>> /\ Elems(one) = {mark}
        BY <1>10, ElemsOne
    <2>2. PICK both \in Seq(Accesses) :
            both = Served \o one /\ Elems(both) = Elems(Served) \cup Elems(one)
        BY <1>11, ElemsConcat
    <2>3. ToCome' = Elems(todo')
        BY DEF ToCome, Elems
    <2>4. todo' = both
        BY <1>1, <2>1, <2>2
    <2> QED
        BY <2>1, <2>2, <2>3, <2>4
<1>13. ReplayShape'
    <2>1. \A access \in ToCome' : WellFormed(access)'
        BY <1>10, <1>11, <1>12 DEF WellFormed
    <2> QED
        BY <1>0, <1>1, <1>2, <1>9, <1>12, <2>1 DEF ReplayShape, Timers
<1>14. AllFriendly'
    <2>1. SUFFICES ASSUME NEW access \in ToCome', NEW u \in Tokens, StillOwned(u)'
                   PROVE  FriendlyTo(access, u, packets'[u].payload)
        BY DEF AllFriendly
    <2>2. packets'[u].payload \in Packable
        BY <1>6, <2>1 DEF OwnersCarried
    <2>3. CASE access \in Elems(Served)
        BY <1>0, <1>6, <2>1, <2>3, ServedFriendly
    <2>4. CASE access = mark
        BY <1>2, <2>2, <2>4, FriendlyRelease DEF mark
    <2> QED
        BY <1>12, <2>3, <2>4
<1>15. VisiblesGrow
    BY <1>2, <1>3 DEF VisiblesGrow
<1>16. ReadsStart
    <2>1. \A access \in ToCome' : access.call # "read"
        <3>1. mark.call = "cpu_write"
            BY DEF mark, Access
        <3>2. \A access \in Elems(Served) : access.call # "read"
            BY <1>0, ServedNoReads
        <3> QED
            BY <1>12, <3>1, <3>2
    <2> QED
        BY <2>1 DEF ReadsStart
<1> QED
    BY <1>1, <1>4, <1>5, <1>7, <1>8, <1>9, <1>13, <1>14, <1>15, <1>16, EventKeeps
--------------------------------------------------------------------------------
(* A packet is consumed.                                                   *)
LEMMA ConsumeIs ==
    ASSUME ReplayShape, PacketsInOrder, Owners, NEW t \in DOMAIN packets, NEW descriptor,
           NEW pieces, Check!Consume(t, descriptor, pieces)
    PROVE  /\ t \in Tokens /\ StillOwned(t) /\ packets[t].payload \in Packable
           /\ packets[t].visible = Owned(packets[t].payload)
           /\ packets[t].ready_visible /\ ~packets[t].consumed
           /\ t.serial = next_consume[t.flow]
           /\ next_consume' = [next_consume EXCEPT ![t.flow] = @ + 1]
           /\ active_slots' = active_slots
           /\ DOMAIN packets' = DOMAIN packets
           /\ packets' \in [DOMAIN packets' -> Packet]
           /\ \A u \in DOMAIN packets :
                /\ packets'[u].payload = packets[u].payload
                /\ packets'[u].released = packets[u].released
                /\ packets'[u].visible = packets[u].visible
                /\ packets'[u].ready_visible = packets[u].ready_visible
                /\ u # t => packets'[u] = packets[u]
           /\ packets'[t].consumed
<1>1. packets[t] \in Packet /\ t \in Tokens
    BY DEF ReplayShape
<1>2. packets[t].payload \in Packable
    BY <1>1 DEF Packet
<1>3. /\ Check!ActivePacket(t) /\ packets[t].ready_visible /\ ~packets[t].consumed
      /\ t.serial = next_consume[t.flow]
    BY DEF Check!Consume, Check!MayConsume
<1>4. StillOwned(t)
    BY <1>3 DEF Check!ActivePacket, StillOwned
<1>5. /\ packets' = [packets EXCEPT ![t].consumed = TRUE]
      /\ next_consume' = [next_consume EXCEPT ![t.flow] = @ + 1]
      /\ active_slots' = active_slots
    BY DEF Check!Consume
<1>6. PICK q \in Packet : q = packets[t]
    BY <1>1
<1>7. /\ DOMAIN packets' = DOMAIN packets
      /\ \A u \in DOMAIN packets : u # t => packets'[u] = packets[u]
      /\ packets'[t] = [q EXCEPT !.consumed = TRUE]
    BY <1>5, <1>6 DEF ReplayShape
<1>8. /\ packets'[t] \in Packet /\ packets'[t].payload = q.payload
      /\ packets'[t].released = q.released /\ packets'[t].consumed
      /\ packets'[t].visible = q.visible /\ packets'[t].ready_visible = q.ready_visible
    BY <1>7 DEF Packet
<1>9. \A u \in DOMAIN packets : packets'[u] \in Packet
    BY <1>7, <1>8 DEF ReplayShape
<1>10. packets' \in [DOMAIN packets' -> Packet]
    BY <1>5, <1>7, <1>9
<1>11. \A u \in DOMAIN packets :
        /\ packets'[u].payload = packets[u].payload
        /\ packets'[u].released = packets[u].released
        /\ packets'[u].visible = packets[u].visible
        /\ packets'[u].ready_visible = packets[u].ready_visible
    BY <1>6, <1>7, <1>8
<1>12. packets[t].visible = Owned(packets[t].payload)
    BY <1>3 DEF PacketsInOrder, Owned
<1> QED
    BY <1>1, <1>2, <1>3, <1>4, <1>5, <1>7, <1>8, <1>10, <1>11, <1>12

LEMMA ConsumeOrders ==
    ASSUME ReplayShape, PacketsInOrder, Owners, NEW t \in DOMAIN packets, NEW descriptor,
           NEW pieces, Check!Consume(t, descriptor, pieces)
    PROVE  /\ PacketsInOrder' /\ Owners' /\ OwnersCarried
           /\ next_consume' \in [Flows -> Nat]
<1>1. /\ t \in Tokens /\ StillOwned(t) /\ packets[t].ready_visible
      /\ t.serial = next_consume[t.flow]
      /\ next_consume' = [next_consume EXCEPT ![t.flow] = @ + 1]
      /\ active_slots' = active_slots
      /\ DOMAIN packets' = DOMAIN packets
      /\ \A u \in DOMAIN packets :
            /\ packets'[u].payload = packets[u].payload
            /\ packets'[u].released = packets[u].released
            /\ packets'[u].visible = packets[u].visible
            /\ packets'[u].ready_visible = packets[u].ready_visible
            /\ u # t => packets'[u] = packets[u]
      /\ packets'[t].consumed
    BY ConsumeIs
<1>2. /\ next_consume \in [Flows -> Nat] /\ t.flow \in Flows
      /\ \A u \in DOMAIN packets : u.flow \in Flows /\ u.serial \in Nat
    <2>1. DOMAIN packets \subseteq Tokens /\ next_consume \in [Flows -> Nat]
        BY DEF ReplayShape
    <2> QED
        BY <2>1, <1>1, TokenIs, Sizes
<1>3. next_consume' \in [Flows -> Nat]
    BY <1>1, <1>2
<1>4. \A u \in DOMAIN packets : u.serial < next_consume[u.flow] => u.serial < next_consume'[u.flow]
    BY <1>1, <1>2
<1>5. t.serial < next_consume'[t.flow]
    BY <1>1, <1>2
<1>6. PacketsInOrder'
    <2>1. SUFFICES ASSUME NEW u \in DOMAIN packets
                   PROVE  LET q == packets'[u]
                              parts == Check!RequiredData(q.payload)
                          IN  /\ q.visible \subseteq parts \cup {Check!ReadyComponent}
                              /\ q.ready_visible <=> Check!ReadyComponent \in q.visible
                              /\ q.ready_visible => parts \subseteq q.visible
                              /\ q.consumed => q.ready_visible /\ u.serial < next_consume'[u.flow]
                              /\ q.released => q.consumed
                              /\ ~q.released => active_slots'[u.flow][u.slot] = u
        BY <1>1 DEF PacketsInOrder
    <2>2. CASE u = t
        BY <1>1, <1>5, <2>2 DEF PacketsInOrder
    <2>3. CASE u # t
        BY <1>1, <1>4, <2>3 DEF PacketsInOrder
    <2> QED
        BY <2>2, <2>3
<1>7. Owners'
    BY <1>1 DEF Owners
<1>8. OwnersCarried
    BY <1>1, OwnersCarriedOver
<1> QED
    BY <1>3, <1>6, <1>7, <1>8

(* The lines of a packet that was not consumed are those unread.           *)
LEMMA ConsumeCounts ==
    ASSUME ReplayShape, PacketsInOrder, Owners, Counted, NEW t \in DOMAIN packets,
           NEW descriptor, NEW pieces, Check!Consume(t, descriptor, pieces),
           background_index' = background_index + BackgroundLines,
           undemanded' = undemanded - LinesDemanded(packets[t].payload)
    PROVE  /\ Counted'
           /\ background_index + BackgroundLines <= MaxBackground /\ MaxBackground \in Nat
           /\ background_index' \in Nat /\ undemanded' \in Int
<1> DEFINE p == packets[t].payload
           n == LineCount(Length[p])
           all == Flows \X Serials
<1>1. /\ t \in Tokens /\ p \in Packable /\ packets[t].visible = Owned(p)
      /\ ~packets[t].consumed /\ t.serial = next_consume[t.flow]
      /\ DOMAIN packets' = DOMAIN packets
      /\ \A u \in DOMAIN packets :
            /\ packets'[u].visible = packets[u].visible
            /\ u # t => packets'[u] = packets[u]
      /\ packets'[t].consumed
    BY ConsumeIs
<1>2. t.flow \in Flows /\ t.serial \in Serials /\ next_consume[t.flow] \in Nat
    BY <1>1, TokenIs DEF ReplayShape
<1>3. /\ IsFiniteSet(all) /\ Cardinality(all) = Cardinality(Flows) * Cardinality(Serials)
      /\ Cardinality(Flows) \in Nat /\ Cardinality(Serials) \in Nat
      /\ Cardinality(all) \in Nat
    BY ReplayAssumption, FS_Product, FS_CardinalityType
<1>4. ConsumedSerials' = ConsumedSerials \cup {<<t.flow, t.serial>>}
    BY <1>1, <1>2 DEF ConsumedSerials
<1>5. <<t.flow, t.serial>> \notin ConsumedSerials
    <2>1. SUFFICES ASSUME NEW u \in DOMAIN packets, u.flow = t.flow, u.serial = t.serial,
                          packets[u].consumed
                   PROVE  FALSE
        BY DEF ConsumedSerials
    <2>2. u.serial < next_consume[u.flow]
        BY <2>1 DEF PacketsInOrder
    <2> QED
        BY <1>1, <1>2, <2>1, <2>2
<1>6. /\ ConsumedSerials \subseteq all /\ ConsumedSerials' \subseteq all
    BY DEF ConsumedSerials
<1>7. /\ IsFiniteSet(ConsumedSerials) /\ Cardinality(ConsumedSerials) \in Nat
      /\ Cardinality(ConsumedSerials') = Cardinality(ConsumedSerials) + 1
      /\ Cardinality(ConsumedSerials') <= Cardinality(all)
    <2>1. IsFiniteSet(ConsumedSerials)
        BY <1>3, <1>6, FS_Subset
    <2>2. Cardinality(ConsumedSerials') = Cardinality(ConsumedSerials) + 1
        BY <1>4, <1>5, <2>1, FS_AddElement
    <2>3. Cardinality(ConsumedSerials') <= Cardinality(all)
        BY <1>3, <1>6, FS_Subset
    <2> QED
        BY <2>1, <2>2, <2>3, FS_CardinalityType
<1> DEFINE c == Cardinality(ConsumedSerials)
           m == Cardinality(all)
<1>8. /\ background_index = BackgroundLines * c
      /\ background_index' = BackgroundLines * Cardinality(ConsumedSerials')
      /\ background_index + BackgroundLines <= m * BackgroundLines
      /\ background_index' \in Nat /\ m * BackgroundLines \in Nat
    <2>1. \A b, x, y \in Nat : x + 1 <= y =>
            b * (x + 1) = b * x + b /\ b * x + b <= y * b /\ b * x + b \in Nat /\ y * b \in Nat
        <3>1. SUFFICES ASSUME NEW b \in Nat, NEW x \in Nat, NEW y \in Nat, x + 1 <= y
                       PROVE  /\ b * (x + 1) = b * x + b /\ b * x + b <= y * b
                              /\ b * x + b \in Nat /\ y * b \in Nat
            OBVIOUS
        <3>2. PICK d \in Nat : y = x + 1 + d
            <4>1. y - x - 1 \in Nat
                BY <3>1
            <4> QED
                BY <4>1
        <3>3. y * b = b * x + b + d * b /\ d * b \in Nat /\ b * x \in Nat
            BY <3>2
        <3> QED
            BY <3>3
    <2>2. c \in Nat /\ m \in Nat /\ c + 1 <= m /\ BackgroundLines \in Nat
        BY <1>3, <1>7, ReplayAssumption
    <2>3. background_index = BackgroundLines * c
        BY DEF Counted
    <2> HIDE DEF c, m
    <2>4. /\ BackgroundLines * (c + 1) = BackgroundLines * c + BackgroundLines
          /\ BackgroundLines * c + BackgroundLines <= m * BackgroundLines
          /\ BackgroundLines * c + BackgroundLines \in Nat /\ m * BackgroundLines \in Nat
        BY <2>1, <2>2
    <2>5. Cardinality(ConsumedSerials') = c + 1
        BY <1>7 DEF c
    <2> QED
        BY <2>3, <2>4, <2>5
<1>9. MaxBackground = m * BackgroundLines
    BY <1>3 DEF MaxBackground
<1> DEFINE unread == {t} \X (0..(n - 1))
<1>10. n \in 1..60 /\ 0..(n - 1) \subseteq 0..(LineCount(MaxPacketBytes) - 1)
    BY <1>1, LineCounts
<1>11. \A i : <<"payload", i>> \in Owned(p) <=> i \in 0..(n - 1)
    <2>1. \A i, k : <<"payload", i>> # <<"descriptor", k>>
                    /\ <<"payload", i>> # Check!ReadyComponent
        BY DEF Check!ReadyComponent
    <2>2. Check!RequiredData(p) = {<<"payload", i>> : i \in 0..(n - 1)}
                                    \cup {<<"descriptor", k>> : k \in Fields}
        BY <1>1, RequiredIs
    <2> HIDE DEF n, p
    <2> QED
        BY <2>1, <2>2 DEF Owned
<1>12. unread \subseteq LinesUnread /\ LinesUnread' = LinesUnread \ unread
    <2> HIDE DEF n, p
    <2>1. unread \subseteq LinesUnread
        BY <1>1, <1>10, <1>11 DEF LinesUnread
    <2>2. \A x \in LinesUnread : x[1] = t => x \in unread
        BY <1>1, <1>11 DEF LinesUnread
    <2>3. \A x \in LinesUnread' : x \in LinesUnread /\ x[1] # t
        BY <1>1 DEF LinesUnread
    <2>4. \A x \in LinesUnread : x[1] # t => x \in LinesUnread'
        BY <1>1 DEF LinesUnread
    <2>5. \A x \in unread : x[1] = t
        OBVIOUS
    <2> QED
        BY <2>1, <2>2, <2>3, <2>4, <2>5
<1>13. IsFiniteSet(unread) /\ Cardinality(unread) = n
    <2>1. n \in Int /\ n - 1 \in Int /\ n >= 1
        BY <1>10
    <2> HIDE DEF n
    <2>2. IsFiniteSet(0..(n - 1)) /\ Cardinality(0..(n - 1)) = n
        <3>1. /\ IsFiniteSet(0..(n - 1))
              /\ Cardinality(0..(n - 1)) = IF 0 > n - 1 THEN 0 ELSE (n - 1) - 0 + 1
            BY <2>1, FS_Interval
        <3> QED
            BY <2>1, <3>1
    <2>3. IsFiniteSet({t}) /\ Cardinality({t}) = 1
        BY FS_Singleton
    <2>4. /\ IsFiniteSet({t} \X (0..(n - 1)))
          /\ Cardinality({t} \X (0..(n - 1))) = Cardinality({t}) * Cardinality(0..(n - 1))
        BY <2>2, <2>3, FS_Product
    <2> QED
        BY <2>1, <2>2, <2>3, <2>4
<1>14. /\ IsFiniteSet(LinesUnread')
       /\ Cardinality(LinesUnread') = Cardinality(LinesUnread) - n
       /\ Cardinality(LinesUnread) \in Nat
    <2>1. IsFiniteSet(LinesUnread) /\ LinesUnread \cap unread = unread
        BY <1>12 DEF Counted
    <2> HIDE DEF unread, n
    <2> QED
        BY <1>12, <1>13, <2>1, FS_Difference, FS_CardinalityType
<1>15. undemanded' = Cardinality(LinesUnread')
    BY <1>14 DEF Counted, LinesDemanded
<1> QED
    BY <1>8, <1>9, <1>10, <1>14, <1>15 DEF Counted

(* The background of a consumption: fresh lines, each defined and read.    *)
LEMMA BackgroundIs ==
    ASSUME background_index \in Nat, MaxBackground \in Nat,
           background_index + BackgroundLines <= MaxBackground
    PROVE  /\ BackgroundAccesses \in Seq(Accesses)
           /\ \A access \in Elems(BackgroundAccesses) :
                /\ WellFormed(access) /\ access.line \in BackgroundAddresses
                /\ access = Access(access.call, access.line, access.bytes)
                /\ access.call = "read" => access.bytes = <<>>
<1> DEFINE line(n) == BackgroundBase + background_index + (n - 1) \div 2
           access(n) == IF n % 2 = 1 THEN Access("define", line(n), ZeroLine)
                        ELSE Access("read", line(n), <<>>)
           size == 2 * BackgroundLines
<1>1. BackgroundBase \in Nat /\ BackgroundLines \in Nat
    BY ReplayAssumption
<1>2. size \in Nat
    BY <1>1
<1>3. ASSUME NEW n \in 1..size PROVE line(n) \in BackgroundAddresses
    <2>1. n \in Int /\ n >= 1 /\ n <= 2 * BackgroundLines
        BY <1>1, <1>3
    <2>2. (n - 1) \div 2 \in 0..(BackgroundLines - 1)
        BY <1>1, <2>1
    <2>3. PICK h \in 0..(BackgroundLines - 1) : h = (n - 1) \div 2
        BY <2>2
    <2> QED
        BY <1>1, <2>3 DEF BackgroundAddresses
<1>4. ZeroLine \in Data
    BY ReplayAssumption DEF ZeroLine, Data, Words
<1>5. <<>> \in CellParts
    <2>1. {} \in SUBSET Cells
        OBVIOUS
    <2>2. [{} -> Values] \in {[D -> Values] : D \in SUBSET Cells}
        BY <2>1
    <2>3. <<>> \in [{} -> Values]
        OBVIOUS
    <2> QED
        BY <2>2, <2>3 DEF CellParts
<1> HIDE DEF line, size
<1>6. ASSUME NEW n \in 1..size
      PROVE  /\ access(n) \in Accesses /\ WellFormed(access(n))
             /\ access(n).line \in BackgroundAddresses
             /\ access(n) = Access(access(n).call, access(n).line, access(n).bytes)
             /\ access(n).call = "read" => access(n).bytes = <<>>
    <2>1. line(n) \in BackgroundAddresses /\ line(n) \in Addresses
        BY <1>3, BackgroundApart
    <2>2. CASE n % 2 = 1
        <3>1. access(n) = Access("define", line(n), ZeroLine)
            BY <2>2
        <3>2. access(n) \in Accesses /\ WellFormed(access(n))
            BY <1>4, <2>1, <3>1, DefineIsAccess
        <3> QED
            BY <2>1, <3>1, <3>2 DEF Access
    <2>3. CASE n % 2 # 1
        <3>1. access(n) = Access("read", line(n), <<>>)
            BY <2>3
        <3>2. access(n) \in Accesses /\ WellFormed(access(n))
            BY <1>5, <2>1, <3>1, ReadIsAccess
        <3> QED
            BY <2>1, <3>1, <3>2 DEF Access
    <2> QED
        BY <2>2, <2>3
<1>7. BackgroundAccesses = [n \in 1..size |-> access(n)]
    BY DEF BackgroundAccesses, line, size
<1>8. \A n \in 1..size : BackgroundAccesses[n] = access(n)
    BY <1>7
<1> HIDE DEF access
<1>9. BackgroundAccesses \in [1..size -> Accesses]
    BY <1>6, <1>7
<1>10. /\ BackgroundAccesses \in Seq(Accesses)
       /\ Elems(BackgroundAccesses) = {BackgroundAccesses[n] : n \in 1..size}
    BY <1>2, <1>9, ElemsListed
<1> QED
    BY <1>6, <1>8, <1>10

(* The reads of a consumer are of what is owned and published.             *)
LEMMA DemandsAre ==
    ASSUME NEW t \in Tokens, NEW p \in Packable, packets[t].payload = p
    PROVE  LET reads == Demands(t, Check!DescriptorOf(t, p))
           IN  /\ reads \in Seq(Accesses)
               /\ \A access \in Elems(reads) :
                    /\ WellFormed(access) /\ access.call = "read"
                    /\ \A c \in DOMAIN access.bytes : \E component \in Owned(p) :
                        /\ access.line = LineOf(t, component)
                        /\ c \in DOMAIN PartOf(t, p, component)
                        /\ access.bytes[c] = PartOf(t, p, component)[c]
<1> DEFINE n == LineCount(Length[p])
           d == DescriptorPart(Check!DescriptorOf(t, p))
           Right(access) ==
                /\ access \in Accesses
                /\ WellFormed(access) /\ access.call = "read"
                /\ \A c \in DOMAIN access.bytes : \E component \in Owned(p) :
                    /\ access.line = LineOf(t, component)
                    /\ c \in DOMAIN PartOf(t, p, component)
                    /\ access.bytes[c] = PartOf(t, p, component)[c]
           ready == Access("read", ReadyLine(t), ReadyPart(t))
           head == Access("read", DescriptorLine(t), d)
           body(i) == Access("read", PayloadLine(t, i), PayloadPart(p, i))
<1>0. n \in 1..60 /\ 0..(n - 1) \subseteq 0..(LineCount(MaxPacketBytes) - 1)
    BY LineCounts
<1>1. Owned(p) = {<<"payload", i>> : i \in 0..(n - 1)}
        \cup {<<"descriptor", k>> : k \in Fields} \cup {Check!ReadyComponent}
    BY RequiredIs DEF Owned
<1>2. SlotLine(t) \in Nat
    BY SlotLineIs
<1>3. Right(ready)
    <2>1. ReadyLine(t) = LineOf(t, Check!ReadyComponent) /\ Check!ReadyComponent \in Owned(p)
        BY <1>1 DEF ReadyLine, LineOf, OffsetOf
    <2>2. ReadyLine(t) \in Addresses
        BY <2>1, LineIs, BackgroundApart
    <2>3. ReadyPart(t) = PartOf(t, p, Check!ReadyComponent)
        BY DEF PartOf
    <2>4. ReadyPart(t) \in CellParts
        BY MarkParts, PartsAreCells
    <2>5. ready \in Accesses /\ WellFormed(ready)
        BY <2>2, <2>4, ReadIsAccess
    <2> QED
        BY <2>1, <2>3, <2>5 DEF Access
<1>4. Right(head)
    <2>1. \A k \in Fields : <<"descriptor", k>> \in Owned(p)
                            /\ DescriptorLine(t) = LineOf(t, <<"descriptor", k>>)
        <3> HIDE DEF n
        <3>1. SUFFICES ASSUME NEW k \in Fields
                       PROVE  /\ <<"descriptor", k>> \in Owned(p)
                              /\ DescriptorLine(t) = LineOf(t, <<"descriptor", k>>)
            OBVIOUS
        <3>2. <<"descriptor", k>> \in Owned(p)
            BY <1>1
        <3>3. OffsetOf(<<"descriptor", k>>) = 0
            BY OffsetsDiffer
        <3>4. DescriptorLine(t) = LineOf(t, <<"descriptor", k>>)
            BY <1>2, <3>3 DEF DescriptorLine, LineOf
        <3> QED
            BY <3>2, <3>4
    <2>2. DescriptorLine(t) \in Addresses
        <3>1. SlotLine(t) + 0 \in SlotLines
            BY SlotLineIs
        <3> QED
            BY <1>2, <3>1, BackgroundApart DEF DescriptorLine
    <2>3. /\ d \in CellParts
          /\ \A c \in DOMAIN d : \E k \in Fields :
                /\ c \in DOMAIN PartOf(t, p, <<"descriptor", k>>)
                /\ d[c] = PartOf(t, p, <<"descriptor", k>>)[c]
        BY DescriptorIs
    <2> HIDE DEF d
    <2>4. head \in Accesses /\ WellFormed(head)
        BY <2>2, <2>3, ReadIsAccess
    <2> QED
        BY <2>1, <2>3, <2>4 DEF Access
<1>5. ASSUME NEW i \in 0..(n - 1) PROVE Right(body(i))
    <2>1. <<"payload", i>> \in Owned(p) /\ PayloadLine(t, i) = LineOf(t, <<"payload", i>>)
        <3>1. OffsetOf(<<"payload", i>>) = 4 + i
            BY OffsetsDiffer
        <3>2. PayloadLine(t, i) = SlotLine(t) + (4 + i)
            BY <1>0, SlotLineIs
        <3> QED
            BY <1>1, <3>1, <3>2 DEF LineOf
    <2>2. PayloadLine(t, i) \in Addresses
        BY <2>1, LineIs, BackgroundApart
    <2>3. PaddedPart(p, i) = PartOf(t, p, <<"payload", i>>)
        BY DEF PartOf, IsPayload, Check!ReadyComponent
    <2>4. PayloadPart(p, i) \in CellParts
        BY PayloadParts, PartsAreCells
    <2>5. body(i) \in Accesses /\ WellFormed(body(i))
        BY <2>2, <2>4, ReadIsAccess
    <2>6. \A c \in DOMAIN PayloadPart(p, i) :
            /\ c \in DOMAIN PartOf(t, p, <<"payload", i>>)
            /\ PayloadPart(p, i)[c] = PartOf(t, p, <<"payload", i>>)[c]
        BY <2>3, PayloadParts
    <2> QED
        BY <2>1, <2>5, <2>6 DEF Access
<1>6. Demands(t, Check!DescriptorOf(t, p)) = <<ready, head>> \o [i \in 1..n |-> body(i - 1)]
    BY DEF Demands, LinesDemanded
<1> HIDE DEF ready, head, body
<1>7. \A i \in 1..n : i - 1 \in 0..(n - 1)
    BY <1>0
<1>8. \A i \in 1..n : Right(body(i - 1))
    BY <1>5, <1>7
<1>9. PICK tail \in Seq(Accesses) :
        tail = [i \in 1..n |-> body(i - 1)] /\ \A access \in Elems(tail) : Right(access)
    <2> DEFINE tail == [i \in 1..n |-> body(i - 1)]
    <2>1. tail \in [1..n -> Accesses] /\ n \in Nat
        BY <1>0, <1>8
    <2>2. \A i \in 1..n : tail[i] = body(i - 1)
        OBVIOUS
    <2> HIDE DEF tail, n
    <2>3. tail \in Seq(Accesses) /\ Elems(tail) = {tail[i] : i \in 1..n}
        BY <2>1, ElemsListed
    <2>4. \A access \in Elems(tail) : Right(access)
        BY <1>8, <2>2, <2>3
    <2> QED
        BY <2>3, <2>4 DEF tail
<1>10. PICK front \in Seq(Accesses) :
        front = <<ready, head>> /\ Elems(front) = {ready, head}
    <2>1. <<ready, head>> \in Seq(Accesses)
        BY <1>3, <1>4
    <2>2. Elems(<<ready, head>>) = {ready, head}
        BY DEF Elems
    <2> QED
        BY <2>1, <2>2
<1>11. front \o tail \in Seq(Accesses) /\ Elems(front \o tail) = Elems(front) \cup Elems(tail)
    BY ElemsConcat
<1>12. Demands(t, Check!DescriptorOf(t, p)) = front \o tail
    BY <1>6, <1>9, <1>10
<1>13. \A access \in Elems(front \o tail) : Right(access)
    <2>1. \A access \in Elems(front) : Right(access)
        BY <1>3, <1>4, <1>10
    <2>2. \A access \in Elems(tail) : Right(access)
        BY <1>9
    <2> HIDE DEF Right
    <2> QED
        BY <2>1, <2>2, <1>11
<1> QED
    BY <1>11, <1>12, <1>13

(* A consumption: what it reads is there, and what comes before the reads  *)
(* leaves it there.                                                        *)
LEMMA ReadConsumeKeeps ==
    ASSUME ReplayInv, NEW t \in DOMAIN packets, ReadConsume(t)
    PROVE  ReplayInv'
<1> DEFINE p == packets[t].payload
           reads == Demands(t, Check!DescriptorOf(t, p))
<1>0. /\ ReplayShape /\ PacketsInOrder /\ Owners /\ WithdrawalsApart /\ Counted
      /\ TypeOK /\ OneCopy /\ CleanIsHome
    BY DEF ReplayInv
<1>1. /\ todo = <<>>
      /\ Check!Consume(t, Check!DescriptorOf(t, p), Check!BytesOf(p))
      /\ todo' = Served \o BackgroundAccesses \o reads
      /\ deferred' = Later
      /\ background_index' = background_index + BackgroundLines
      /\ undemanded' = undemanded - LinesDemanded(p)
      /\ UNCHANGED <<llc, withdraw_after, running>>
    BY DEF ReadConsume, Idle
<1>2. /\ t \in Tokens /\ StillOwned(t) /\ p \in Packable
      /\ packets[t].visible = Owned(p)
      /\ active_slots' = active_slots
      /\ DOMAIN packets' = DOMAIN packets
      /\ packets' \in [DOMAIN packets' -> Packet]
      /\ \A u \in DOMAIN packets :
            /\ packets'[u].payload = packets[u].payload
            /\ packets'[u].visible = packets[u].visible
            /\ packets'[u].ready_visible = packets[u].ready_visible
    BY <1>0, <1>1, ConsumeIs
<1>3. PacketsInOrder' /\ Owners' /\ OwnersCarried /\ next_consume' \in [Flows -> Nat]
    BY <1>0, <1>1, ConsumeOrders
<1>4. /\ Counted'
      /\ background_index + BackgroundLines <= MaxBackground /\ MaxBackground \in Nat
      /\ background_index' \in Nat /\ undemanded' \in Int
    BY <1>0, <1>1, ConsumeCounts
<1>5. MemoryStays
    BY <1>0, <1>1, LlcStays
<1>6. WithdrawalsApart' /\ deferred' \in Seq(Timers)
    <2>1. \A u \in DOMAIN packets : /\ u \in DOMAIN packets'
                                    /\ packets[u].ready_visible => packets'[u].ready_visible
        BY <1>2
    <2> QED
        BY <1>0, <1>1, <2>1, LaterKeeps
<1>7. Served \in Seq(Accesses) /\ \A access \in Elems(Served) : WellFormed(access)
    BY <1>0, ServedIs
<1>8. /\ BackgroundAccesses \in Seq(Accesses)
      /\ \A access \in Elems(BackgroundAccesses) :
            /\ WellFormed(access) /\ access.line \in BackgroundAddresses
            /\ access = Access(access.call, access.line, access.bytes)
            /\ access.call = "read" => access.bytes = <<>>
    <2>1. background_index \in Nat
        BY <1>0 DEF ReplayShape
    <2> QED
        BY <1>4, <2>1, BackgroundIs
<1>9. /\ reads \in Seq(Accesses)
      /\ \A access \in Elems(reads) :
            /\ WellFormed(access) /\ access.call = "read"
            /\ \A c \in DOMAIN access.bytes : \E component \in Owned(p) :
                /\ access.line = LineOf(t, component)
                /\ c \in DOMAIN PartOf(t, p, component)
                /\ access.bytes[c] = PartOf(t, p, component)[c]
    BY <1>2, DemandsAre
<1> HIDE DEF reads
<1>10. /\ todo' \in Seq(Accesses)
       /\ ToCome' = Elems(Served) \cup Elems(BackgroundAccesses) \cup Elems(reads)
    <2>1. PICK both \in Seq(Accesses) :
            /\ both = Served \o BackgroundAccesses
            /\ Elems(both) = Elems(Served) \cup Elems(BackgroundAccesses)
        BY <1>7, <1>8, ElemsConcat
    <2>2. PICK all \in Seq(Accesses) :
            all = both \o reads /\ Elems(all) = Elems(both) \cup Elems(reads)
        BY <1>9, ElemsConcat
    <2>3. ToCome' = Elems(todo')
        BY DEF ToCome, Elems
    <2>4. todo' = all
        BY <1>1, <2>1, <2>2
    <2> QED
        BY <2>1, <2>2, <2>3, <2>4
<1>11. ReplayShape'
    <2>1. \A access \in ToCome' : WellFormed(access)'
        BY <1>7, <1>8, <1>9, <1>10 DEF WellFormed
    <2> QED
        BY <1>0, <1>1, <1>2, <1>3, <1>4, <1>6, <1>10, <2>1 DEF ReplayShape, Timers
<1>12. AllFriendly'
    <2>1. SUFFICES ASSUME NEW access \in ToCome', NEW u \in Tokens, StillOwned(u)'
                   PROVE  FriendlyTo(access, u, packets'[u].payload)
        BY DEF AllFriendly
    <2>2. packets'[u].payload \in Packable
        BY <1>3, <2>1 DEF OwnersCarried
    <2>3. CASE access \in Elems(Served)
        BY <1>0, <1>3, <2>1, <2>3, ServedFriendly
    <2>4. CASE access \in Elems(BackgroundAccesses)
        <3>1. /\ access.line \in BackgroundAddresses
              /\ access = Access(access.call, access.line, access.bytes)
            BY <1>8, <2>4
        <3>2. FriendlyTo(Access(access.call, access.line, access.bytes), u, packets'[u].payload)
            BY <2>2, <3>1, FriendlyBackground
        <3> QED
            BY <3>1, <3>2
    <2>5. CASE access \in Elems(reads)
        BY <1>9, <2>5 DEF FriendlyTo, Stores
    <2> QED
        BY <1>10, <2>3, <2>4, <2>5
<1>13. VisiblesGrow
    <2>1. SUFFICES ASSUME NEW u \in Tokens, StillOwned(u)', NEW c \in packets'[u].visible
                   PROVE  /\ StillOwned(u) /\ c \in packets[u].visible
                          /\ packets'[u].payload = packets[u].payload
        BY DEF VisiblesGrow
    <2>2. StillOwned(u)
        BY <1>2, <2>1 DEF StillOwned
    <2>3. u \in DOMAIN packets
        BY <1>0, <2>2, OwnerIs
    <2> QED
        BY <1>2, <2>1, <2>2, <2>3
<1>14. ReadsStart
    <2>1. SUFFICES ASSUME NEW access \in ToCome', access.call = "read"
                   PROVE  Holds(access.line, access.bytes) /\ Agreed(access.line, access.bytes)'
        BY DEF ReadsStart
    <2>2. access \notin Elems(Served)
        BY <1>0, <2>1, ServedNoReads
    <2>3. CASE access \in Elems(BackgroundAccesses)
        <3>1. access.bytes = <<>>
            BY <1>8, <2>1, <2>3
        <3>2. DOMAIN access.bytes = {}
            BY <3>1
        <3> QED
            BY <3>2 DEF Holds, Agreed
    <2>4. CASE access \in Elems(reads)
        <3>1. ASSUME NEW c \in DOMAIN access.bytes
              PROVE  /\ Newest(access.line)[c] = access.bytes[c]
                     /\ \A store \in ToCome' :
                            StoresInto(store, access.line, c) => store.bytes[c] = access.bytes[c]
            <4>1. PICK component \in Owned(p) :
                    /\ access.line = LineOf(t, component)
                    /\ c \in DOMAIN PartOf(t, p, component)
                    /\ access.bytes[c] = PartOf(t, p, component)[c]
                BY <1>9, <2>4, <3>1
            <4>2. Holds(Written(t, component).line, Written(t, component).bytes)
                BY <1>1, <1>2, <4>1, OwnedIsThere
            <4>3. /\ Written(t, component).line = LineOf(t, component)
                  /\ Written(t, component).bytes = PartOf(t, p, component)
                BY <1>0, <1>2, <4>1, OwnerIs
            <4>4. Newest(access.line)[c] = access.bytes[c]
                BY <4>1, <4>2, <4>3 DEF Holds
            <4>5. StillOwned(t)' /\ packets'[t].payload = p
                BY <1>2 DEF StillOwned
            <4>6. ASSUME NEW store \in ToCome', StoresInto(store, access.line, c)
                  PROVE  store.bytes[c] = access.bytes[c]
                <5>1. FriendlyTo(store, t, p)
                    BY <1>2, <1>12, <4>5 DEF AllFriendly
                <5> QED
                    BY <4>1, <4>6, <5>1 DEF FriendlyTo, Agree, StoresInto
            <4> QED
                BY <4>4, <4>6
        <3> QED
            BY <3>1 DEF Holds, Agreed, StoresInto
    <2> QED
        BY <1>10, <2>1, <2>2, <2>3, <2>4
<1> QED
    BY <1>1, <1>3, <1>4, <1>5, <1>6, <1>11, <1>12, <1>13, <1>14, EventKeeps
--------------------------------------------------------------------------------
(* The end of the replay: no event, nothing due, the cache written back.   *)
LEMMA FinishKeeps == ASSUME ReplayInv, Finish PROVE ReplayInv'
<1>0. /\ ReplayShape /\ PacketsInOrder /\ Owners /\ WithdrawalsApart /\ Counted
      /\ TypeOK /\ OneCopy /\ CleanIsHome
    BY DEF ReplayInv
<1>1. /\ todo = <<>> /\ todo' = <<>> /\ deferred' = <<>> /\ running' = FALSE /\ Flush
      /\ active_slots' = active_slots /\ packets' = packets /\ next_consume' = next_consume
      /\ UNCHANGED <<withdraw_after, background_index, undemanded>>
    BY DEF Finish, Idle, checker
<1>2. MemoryStays
    BY <1>0, <1>1, FlushStays
<1>3. ToCome' = {}
    BY <1>1 DEF ToCome
<1>4. WithdrawalsApart'
    BY <1>1 DEF WithdrawalsApart
<1>5. PacketsInOrder' /\ Owners'
    BY <1>0, <1>1 DEF PacketsInOrder, Owners
<1>6. Counted'
    BY <1>0, <1>1, CountsStay
<1>7. ReplayShape'
    <2>1. todo' \in Seq(Accesses) /\ deferred' \in Seq(Timers)
        BY <1>1
    <2> QED
        BY <1>0, <1>1, <1>3, <2>1 DEF ReplayShape, Timers
<1>8. AllFriendly' /\ ReadsStart
    BY <1>3 DEF AllFriendly, ReadsStart
<1>9. VisiblesGrow
    BY <1>1 DEF VisiblesGrow, StillOwned
<1> QED
    BY <1>1, <1>2, <1>4, <1>5, <1>6, <1>7, <1>8, <1>9, EventKeeps

(* The start: nothing is owned, and the lines of the slots are defined.    *)
LEMMA ReplayStart == ASSUME ReplayInit PROVE ReplayInv
<1>1. /\ active_slots = [f \in Flows |-> [k \in Check!Slots |-> NoToken]]
      /\ next_consume = InitialSerial /\ DOMAIN packets = {}
      /\ packets = [t \in {} |-> NoToken]
    BY DEF ReplayInit, Check!Init
<1>2. /\ lines = [i \in Indices |-> [w \in WayIds |-> NoLine]]
      /\ older = [i \in Indices |-> {}]
      /\ backing = [a \in Addresses |-> IF a \in SlotLines THEN ZeroLine ELSE NoData]
      /\ done = [call |-> "none"]
      /\ withdraw_after \in Delays
      /\ deferred = <<>> /\ todo = <<>>
      /\ background_index = 0 /\ undemanded = 0 /\ running = TRUE
    BY DEF ReplayInit
<1>3. ZeroLine \in Data
    BY ReplayAssumption DEF ZeroLine, Data, Words
<1>4. TypeOK
    BY <1>2, <1>3 DEF TypeOK
<1>5. OneCopy /\ CleanIsHome
    BY <1>2 DEF OneCopy, CleanIsHome
<1>6. ToCome = {}
    BY <1>2, NothingToCome
<1>7. ReplayShape
    <2>1. todo \in Seq(Accesses) /\ deferred \in Seq(Timers)
        BY <1>2
    <2>2. packets \in [DOMAIN packets -> Packet]
        BY <1>1
    <2> QED
        BY <1>1, <1>2, <1>6, <2>1, <2>2, ReplayAssumption DEF ReplayShape, Timers
<1>8. PacketsInOrder /\ Owners
    BY <1>1 DEF PacketsInOrder, Owners
<1>9. WithdrawalsApart
    BY <1>2 DEF WithdrawalsApart
<1>10. ASSUME NEW t \in Tokens PROVE ~StillOwned(t)
    <2>1. t.flow \in Flows /\ t.slot \in Check!Slots
        BY <1>10, TokenIs
    <2> QED
        BY <1>1, <1>10, <2>1, ReplayAssumption DEF StillOwned
<1>11. SlotsHold
    BY <1>10 DEF SlotsHold
<1>12. ReadsRight
    BY <1>6 DEF ReadsRight
<1>13. SlotsDefined
    <2>1. NoData \notin Data
        BY CacheAssumption DEF Data, Cells
    <2> QED
        BY <1>2, <1>3, <2>1, BackgroundApart DEF SlotsDefined, Defined
<1>14. Counted
    <2>1. ConsumedSerials = {} /\ LinesUnread = {}
        BY <1>1 DEF ConsumedSerials, LinesUnread
    <2>2. IsFiniteSet({}) /\ Cardinality({}) = 0
        BY FS_EmptySet
    <2>3. BackgroundLines * 0 = 0
        BY ReplayAssumption
    <2> QED
        BY <1>2, <2>1, <2>2, <2>3 DEF Counted
<1> QED
    BY <1>4, <1>5, <1>7, <1>8, <1>9, <1>11, <1>12, <1>13, <1>14 DEF ReplayInv

LEMMA ReplayStutters == ASSUME ReplayInv, UNCHANGED replay_vars PROVE ReplayInv'
<1>1. /\ active_slots' = active_slots /\ packets' = packets /\ next_consume' = next_consume
      /\ lines' = lines /\ older' = older /\ backing' = backing /\ done' = done
      /\ withdraw_after' = withdraw_after /\ deferred' = deferred /\ todo' = todo
      /\ background_index' = background_index /\ undemanded' = undemanded
      /\ running' = running
    BY DEF replay_vars, checker, llc, replay
<1>2. TypeOK' /\ OneCopy' /\ CleanIsHome'
    BY <1>1 DEF ReplayInv, TypeOK, OneCopy, CleanIsHome, Defined
<1>3. ToCome' = ToCome
    BY <1>1 DEF ToCome
<1>4. ReplayShape' /\ PacketsInOrder' /\ Owners' /\ WithdrawalsApart'
    <2>1. ReplayShape /\ PacketsInOrder /\ Owners /\ WithdrawalsApart
        BY DEF ReplayInv
    <2>2. \A access \in ToCome : WellFormed(access)' <=> WellFormed(access)
        BY DEF WellFormed
    <2>3. ReplayShape'
        BY <1>1, <1>3, <2>1, <2>2 DEF ReplayShape
    <2> QED
        BY <1>1, <2>1, <2>3 DEF PacketsInOrder, Owners, WithdrawalsApart
<1>5. \A a : Newest(a)' = Newest(a) /\ (Defined(a)' <=> Defined(a))
    BY <1>1 DEF Newest, Resident, Found, Defined
<1>6. SlotsHold'
    <2>1. SUFFICES ASSUME NEW t \in Tokens, StillOwned(t)', NEW c \in packets'[t].visible
                   PROVE  PartHeld(t, c)'
        BY DEF SlotsHold
    <2>2. PartHeld(t, c)
        BY <1>1, <2>1 DEF ReplayInv, SlotsHold, StillOwned
    <2>3. Written(t, c)' = Written(t, c)
        BY <1>1 DEF Written, VisibleAccess, ContentOf
    <2> QED
        BY <1>1, <1>3, <1>5, <2>2, <2>3 DEF PartHeld, Agreed, Coming, Holds, StoresInto
<1>7. ReadsRight'
    BY <1>3, <1>5 DEF ReplayInv, ReadsRight, Holds, Agreed, StoresInto
<1>8. SlotsDefined'
    BY <1>5 DEF ReplayInv, SlotsDefined
<1>9. Counted'
    BY <1>1 DEF ReplayInv, Counted, ConsumedSerials, LinesUnread
<1> QED
    BY <1>2, <1>4, <1>6, <1>7, <1>8, <1>9 DEF ReplayInv

(* Every step of the replay keeps the invariant.                           *)
LEMMA ReplayStep == ASSUME ReplayInv, [ReplayNext]_replay_vars PROVE ReplayInv'
<1>1. CASE ReadQuiet
    BY <1>1, ReadQuietKeeps
<1>2. CASE ReadReject
    BY <1>2, RejectKeeps
<1>3. ASSUME NEW t \in DOMAIN packets, NEW component, ReadVisible(t, component)
      PROVE  ReplayInv'
    BY <1>3, ReadVisibleKeeps
<1>4. ASSUME NEW t \in DOMAIN packets, ReadConsume(t)
      PROVE  ReplayInv'
    BY <1>4, ReadConsumeKeeps
<1>5. ASSUME NEW t \in DOMAIN packets, ReadRelease(t)
      PROVE  ReplayInv'
    BY <1>5, ReadReleaseKeeps
<1>6. CASE MakeAccess
    BY <1>6, MakeAccessKeeps
<1>7. CASE Finish
    BY <1>7, FinishKeeps
<1>8. CASE UNCHANGED replay_vars
    BY <1>8, ReplayStutters
<1> QED
    BY <1>1, <1>2, <1>3, <1>4, <1>5, <1>6, <1>7, <1>8 DEF ReplayNext

(* The replay's invariant: what an owner has stored is in its lines or on  *)
(* its way there, and no store to come disagrees with it.                  *)
THEOREM ReplayInvariance == ReplaySpec => []ReplayInv
<1>1. ReplayInit => ReplayInv
    BY ReplayStart
<1>2. ReplayInv /\ [ReplayNext]_replay_vars => ReplayInv'
    BY ReplayStep
<1> QED
    BY <1>1, <1>2, PTL DEF ReplaySpec

(* When all packets are released no line is left to read, and no slot has  *)
(* an owner.                                                               *)
LEMMA AllReleased ==
    ASSUME ReplayInv, Check!Drained
    PROVE  /\ undemanded = 0
           /\ \A f \in Flows, k \in Check!Slots : active_slots[f][k] = NoToken
<1>1. PacketsInOrder /\ Owners /\ Counted
    BY DEF ReplayInv
<1>2. \A t \in DOMAIN packets : packets[t].released
    BY DEF Check!Drained
<1>3. \A t \in DOMAIN packets : packets[t].consumed
    BY <1>1, <1>2 DEF PacketsInOrder
<1>4. LinesUnread = {}
    BY <1>3 DEF LinesUnread
<1>5. undemanded = 0
    BY <1>1, <1>4, FS_EmptySet DEF Counted
<1>6. \A f \in Flows, k \in Check!Slots : active_slots[f][k] = NoToken
    BY <1>1, <1>2 DEF Owners
<1> QED
    BY <1>5, <1>6

(* The invariant has what run() asserts.                                   *)
LEMMA InvNeverFails == ReplayInv => NeverFails
<1> SUFFICES ASSUME ReplayInv PROVE NeverFails
    OBVIOUS
<1>1. ASSUME todo # <<>>, Head(todo).call = "read"
      PROVE  Holds(Head(todo).line, Head(todo).bytes)
    <2>1. todo \in Seq(Accesses)
        BY DEF ReplayInv, ReplayShape
    <2>2. Head(todo) = todo[1] /\ 1 \in DOMAIN todo
        BY <1>1, <2>1
    <2>3. Head(todo) \in ToCome
        BY <2>2 DEF ToCome
    <2> QED
        BY <1>1, <2>3 DEF ReplayInv, ReadsRight
<1> QED
    BY <1>1, AllReleased DEF NeverFails

(* And the bytes of what is published.                                     *)
LEMMA InvBytesHold == ReplayInv => PublishedBytesHold
<1> SUFFICES ASSUME ReplayInv, NEW f \in Flows, NEW k \in Check!Slots,
                    active_slots[f][k] # NoToken,
                    packets[active_slots[f][k]].ready_visible,
                    NEW i \in 0..(LineCount(Length[packets[active_slots[f][k]].payload]) - 1)
             PROVE  Holds(PayloadLine(active_slots[f][k], i),
                          PayloadPart(packets[active_slots[f][k]].payload, i))
    BY DEF PublishedBytesHold
<1>1. ReplayShape /\ PacketsInOrder /\ Owners /\ SlotsHold
    BY DEF ReplayInv
<1>2. PICK t : t = active_slots[f][k]
    OBVIOUS
<1>3. t \in Tokens /\ t.flow = f /\ t.slot = k /\ t \in DOMAIN packets
    BY <1>1, <1>2 DEF Owners, ReplayShape
<1>4. StillOwned(t) /\ packets[t].ready_visible
    BY <1>2, <1>3 DEF StillOwned
<1> DEFINE p == packets[t].payload
           component == <<"payload", i>>
<1>5. p \in Packable
    BY <1>1, <1>3, <1>4, OwnerIs
<1>6. i \in 0..(LineCount(Length[p]) - 1)
    BY <1>2
<1>7. component \in Check!RequiredData(p) /\ component # Check!ReadyComponent
    BY <1>5, <1>6, RequiredIs DEF Check!ReadyComponent
<1>8. component \in packets[t].visible /\ component \in Owned(p)
    BY <1>1, <1>3, <1>4, <1>7 DEF PacketsInOrder, Owned
<1>9. Holds(Written(t, component).line, Written(t, component).bytes)
    BY <1>1, <1>3, <1>4, <1>7, <1>8 DEF SlotsHold, PartHeld
<1>10. /\ Written(t, component).line = PayloadLine(t, i)
       /\ Written(t, component).bytes = PaddedPart(p, i)
    BY <1>7 DEF Written, VisibleAccess, Access, IsPayload
<1>11. Holds(PayloadLine(t, i), PayloadPart(p, i))
    BY <1>5, <1>6, <1>9, <1>10, PayloadParts DEF Holds
<1> QED
    BY <1>2, <1>11

(* Every read of a consumer returns the marker, the descriptor and the     *)
(* payload that were published, and nothing is left over at the end        *)
(* (cache_replay.py:173, 188, 209, 215).                                   *)
THEOREM ReplayNeverFails == ReplaySpec => []NeverFails
BY ReplayInvariance, InvNeverFails, PTL

(* No withdrawal, of this packet or of an earlier owner of the slot,       *)
(* changes what a second read would return (cache_replay.py:56).           *)
THEOREM ReplayKeepsBytes == ReplaySpec => []PublishedBytesHold
BY ReplayInvariance, InvBytesHold, PTL
================================================================================
