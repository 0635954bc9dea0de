-------------------------------- MODULE Memory --------------------------------
(***************************************************************************)
(* What the shared cache promises to those who read and write through it:  *)
(* a flat memory of lines.  Homes, sets, ways, admission and replacement   *)
(* are not part of the promise.                                            *)
(***************************************************************************)
CONSTANTS Addresses, Data, NoData, Parts, Overlay(_, _)

VARIABLES
    memory, \* memory[a]: the newest contents of line a, NoData until defined
    done    \* the last call: its line, and the bytes it stored or returned

vars == <<memory, done>>

Call(name, a, bytes) == [call |-> name, line |-> a, bytes |-> bytes]

Init ==
    /\ memory = [a \in Addresses |-> NoData]
    /\ done = [call |-> "none"]

Define(a, data) ==
    /\ done' = Call("define", a, data)
    /\ memory[a] = NoData
    /\ memory' = [memory EXCEPT ![a] = data]

(* A read returns the line as the stores before it left it.                *)
Read(a) ==
    /\ done' = Call("read", a, memory[a])
    /\ memory[a] # NoData
    /\ UNCHANGED memory

(* A store changes what it covers and nothing else, on no other line.      *)
Write(a, part) ==
    /\ done' = Call("write", a, part)
    /\ memory[a] # NoData
    /\ memory' = [memory EXCEPT ![a] = Overlay(@, part)]

Flush ==
    /\ done' = [call |-> "flush"]
    /\ UNCHANGED memory

Next ==
    \/ \E a \in Addresses : \/ \E data \in Data : Define(a, data)
                            \/ Read(a)
                            \/ \E part \in Parts : Write(a, part)
    \/ Flush

Spec == Init /\ [][Next]_vars
================================================================================
