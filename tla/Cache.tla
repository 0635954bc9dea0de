-------------------------------- MODULE Cache --------------------------------
(***************************************************************************)
(* The finite set-associative cache of cxl_nic/cache.py with its backing   *)
(* store, one action per call of the class.  Addresses are line numbers    *)
(* (base // LINE_BYTES), a line is LineCells cells of which a store covers *)
(* an interval, and reads return the whole line.  The clock that stamps    *)
(* each touch only orders the ways of a set: `older` is that order.        *)
(* Statistics, events and the home of a backing line are left out; `done`, *)
(* the last call, is a history variable for the refinement.                *)
(***************************************************************************)
EXTENDS Integers, FiniteSetsExt

CONSTANTS
    Sets, Ways,   \* the size of the cache
    Addresses,    \* the lines a driver defines
    LineCells,    \* cells of a line
    Values,       \* what a cell holds
    Admissions,   \* the sets of ways an I/O write is given
    NoLine, NoData

ASSUME CacheAssumption ==
    /\ Sets \in Nat \ {0}
    /\ Ways \in Nat \ {0}
    /\ LineCells \in Nat \ {0}
    /\ Addresses \subseteq Nat
    /\ Admissions \subseteq SUBSET (0..(Ways - 1))
    /\ NoData \notin [0..(LineCells - 1) -> Values]
    /\ NoLine \notin [address : Addresses, data : [0..(LineCells - 1) -> Values],
                      dirty : BOOLEAN]

Indices == 0..(Sets - 1)
WayIds == 0..(Ways - 1)
Cells == 0..(LineCells - 1)
Data == [Cells -> Values]

(* What one store covers: a non-empty interval inside one line.            *)
Parts == (UNION {[lo..hi -> Values] : lo \in Cells, hi \in Cells}) \ {<<>>}

Lines == [address : Addresses, data : Data, dirty : BOOLEAN]

VARIABLES
    lines,   \* lines[i][w]: the line in way w of set i, or NoLine
    older,   \* older[i]: <<v, w>> when way v was last touched before way w
    backing, \* backing[a]: contents of line a at its home, NoData until defined
    done     \* the last call: its line, and the bytes it stored or returned

vars == <<lines, older, backing, done>>

Call(name, a, bytes) == [call |-> name, line |-> a, bytes |-> bytes]

Init ==
    /\ lines = [i \in Indices |-> [w \in WayIds |-> NoLine]]
    /\ older = [i \in Indices |-> {}]
    /\ backing = [a \in Addresses |-> NoData]
    /\ done = [call |-> "none"]
--------------------------------------------------------------------------------
Index(a) == a % Sets

Overlay(data, part) == [c \in Cells |-> IF c \in DOMAIN part THEN part[c] ELSE data[c]]

Found(a, w) == lines[Index(a)][w] # NoLine /\ lines[Index(a)][w].address = a

(* Mutant: looks a line up in one way only.                                *)
InFirstWay(a) == Found(a, 0)

Resident(a) == \E w \in WayIds : Found(a, w)

Defined(a) == backing[a] # NoData

(* Mutant: the order of touches is not kept.                               *)
Untouched(i, w) == older[i]

(* The order of touches after way w of set i is touched.                   *)
Touched(i, w) == {p \in older[i] : p[1] # w} \cup {<<v, w>> : v \in WayIds \ {w}}

(* The way an allocation takes among those it may: the lowest empty one,   *)
(* and when none is empty the one touched the longest ago.                 *)
Victim(i, admission, w) ==
    LET empty == {v \in admission : lines[i][v] = NoLine}
    IN  IF empty # {} THEN w = Min(empty)
        ELSE w \in admission /\ \A v \in admission : <<v, w>> \notin older[i]

(* Mutant: the backing keeps its old contents when its newer line goes.    *)
DropVictim(line) == backing

WriteBackVictim(line) ==
    IF line # NoLine /\ line.dirty THEN [backing EXCEPT ![line.address] = line.data]
    ELSE backing

(* _allocate, with the store the caller puts into the new line.            *)
Allocate(a, data, dirty, admission) ==
    \E w \in WayIds :
        /\ Victim(Index(a), admission, w)
        /\ backing' = WriteBackVictim(lines[Index(a)][w])
        /\ lines' = [lines EXCEPT ![Index(a)][w] =
                        [address |-> a, data |-> data, dirty |-> dirty]]
        /\ older' = [older EXCEPT ![Index(a)] = Touched(Index(a), w)]

Stored(line, part) == [line EXCEPT !.data = Overlay(@, part), !.dirty = TRUE]

(* A store that finds its line, in whatever way it is.                     *)
StoreHit(a, part) ==
    \E w \in WayIds :
        /\ Found(a, w)
        /\ lines' = [lines EXCEPT ![Index(a)][w] = Stored(@, part)]
        /\ older' = [older EXCEPT ![Index(a)] = Touched(Index(a), w)]
        /\ UNCHANGED backing

(* The newest contents of a line.                                          *)
Newest(a) ==
    IF Resident(a) THEN lines[Index(a)][CHOOSE w \in WayIds : Found(a, w)].data
    ELSE backing[a]

(* What a bypassing store merges with.                                     *)
MergeBase(a) == Newest(a)

Invalidated(a) ==
    [lines EXCEPT ![Index(a)] =
        [w \in WayIds |-> IF Found(a, w) THEN NoLine ELSE lines[Index(a)][w]]]

(* _bypass: the merged line goes home and leaves the cache.                *)
Bypass(a, part) ==
    /\ backing' = [backing EXCEPT ![a] = Overlay(MergeBase(a), part)]
    /\ lines' = Invalidated(a)
    /\ UNCHANGED older
--------------------------------------------------------------------------------
Define(a, data) ==
    /\ ~Defined(a)
    /\ backing' = [backing EXCEPT ![a] = data]
    /\ done' = Call("define", a, data)
    /\ UNCHANGED <<lines, older>>

ReadHit(a) ==
    \E w \in WayIds :
        /\ Found(a, w)
        /\ done' = Call("read", a, lines[Index(a)][w].data)
        /\ older' = [older EXCEPT ![Index(a)] = Touched(Index(a), w)]
        /\ UNCHANGED <<lines, backing>>

ReadMiss(a) ==
    /\ ~Resident(a)
    /\ done' = Call("read", a, backing[a])
    /\ Allocate(a, backing[a], FALSE, WayIds)

Read(a) == Defined(a) /\ (ReadHit(a) \/ ReadMiss(a))

StoreMiss(a, part, admission) ==
    /\ ~Resident(a)
    /\ Allocate(a, Overlay(backing[a], part), TRUE, admission)

CpuWrite(a, part) ==
    /\ Defined(a)
    /\ StoreHit(a, part) \/ StoreMiss(a, part, WayIds)
    /\ done' = Call("write", a, part)

(* Admission restricts where a miss may allocate, not where a hit is found; *)
(* with no way admitted, a miss goes straight to the home.                 *)
IoWrite(a, part, admission) ==
    /\ Defined(a)
    /\ \/ StoreHit(a, part)
       \/ admission # {} /\ StoreMiss(a, part, admission)
       \/ admission = {} /\ ~Resident(a) /\ Bypass(a, part)
    /\ done' = Call("write", a, part)

BypassWrite(a, part) ==
    /\ Defined(a)
    /\ Bypass(a, part)
    /\ done' = Call("write", a, part)

DirtyLine(a, w) == Found(a, w) /\ lines[Index(a)][w].dirty

(* Dirty lines go home and stay in the cache as clean ones.                *)
Flush ==
    /\ backing' = [a \in Addresses |->
                    IF \E w \in WayIds : DirtyLine(a, w) THEN Newest(a) ELSE backing[a]]
    /\ lines' = [i \in Indices |-> [w \in WayIds |->
                    IF lines[i][w] = NoLine THEN NoLine
                    ELSE [lines[i][w] EXCEPT !.dirty = FALSE]]]
    /\ done' = [call |-> "flush"]
    /\ UNCHANGED older
--------------------------------------------------------------------------------
Next ==
    \/ \E a \in Addresses :
        \/ \E data \in Data : Define(a, data)
        \/ Read(a)
        \/ \E part \in Parts : CpuWrite(a, part) \/ BypassWrite(a, part)
        \/ \E part \in Parts, admission \in Admissions : IoWrite(a, part, admission)
    \/ Flush

Spec == Init /\ [][Next]_vars
--------------------------------------------------------------------------------
TypeOK ==
    /\ lines \in [Indices -> [WayIds -> Lines \cup {NoLine}]]
    /\ older \in [Indices -> SUBSET (WayIds \X WayIds)]
    /\ backing \in [Addresses -> Data \cup {NoData}]
    /\ done \in {[call |-> "none"], [call |-> "flush"]} \cup
            [call : {"define", "read", "write"}, line : Addresses, bytes : Data \cup Parts]

(* A line is in the cache at most once, in the set of its address, though  *)
(* stores find it in all ways and allocate in some of them                 *)
(* (cache.py:100-104, 184-204).                                            *)
OneCopy ==
    \A i \in Indices : \A v, w \in WayIds :
        lines[i][v] # NoLine =>
            /\ Index(lines[i][v].address) = i
            /\ Defined(lines[i][v].address)
            /\ lines[i][w] # NoLine /\ lines[i][w].address = lines[i][v].address => v = w

(* A line that is not dirty can be dropped: its home has the same bytes,   *)
(* after any mix of fills, evictions, bypasses and flushes                 *)
(* (cache.py:129-131, 244-253).                                            *)
CleanIsHome ==
    \A i \in Indices, w \in WayIds :
        lines[i][w] # NoLine /\ ~lines[i][w].dirty =>
            lines[i][w].data = backing[lines[i][w].address]

Flat == INSTANCE Memory WITH memory <- [a \in Addresses |-> Newest(a)]

(* Whatever is cached where, a read returns the bytes last stored, by the  *)
(* CPU, by admitted or bypassing I/O, in whole lines or in parts           *)
(* (cache.py:206-224, tests/test_cache.py).                                *)
ImplementsMemory == Flat!Spec
================================================================================
