------------------------- MODULE CacheReplayInvariants -------------------------
(***************************************************************************)
(* The inductive invariant of CacheReplay: what the lines of a slot hold   *)
(* or are about to hold, whoever else stores into the cache.               *)
(***************************************************************************)
EXTENDS CacheReplay

Components ==
    {<<"payload", i>> : i \in 0..(LineCount(MaxPacketBytes) - 1)}
    \cup {<<"descriptor", k>> : k \in Fields} \cup {Check!ReadyComponent}

Packet ==
    [payload : Packable, issued : SUBSET Components, visible : SUBSET Components,
     pending : SUBSET Components, charged : BOOLEAN, ready_issued : BOOLEAN,
     ready_visible : BOOLEAN, consumed : BOOLEAN, released : BOOLEAN]

Stores == {"define", "io_write", "cpu_write", "bypass_write"}

CellParts == UNION {[D -> Values] : D \in SUBSET Cells}

Accesses == [call : Stores \cup {"read"}, line : Addresses, bytes : CellParts]

(* Stores to lines of slots and of the background, whole where defined.    *)
WellFormed(access) ==
    /\ access.call = "define" => access.line \in BackgroundAddresses /\ access.bytes \in Data
    /\ access.call \in Stores \ {"define"} => access.bytes \in Parts

ToCome == {todo[n] : n \in DOMAIN todo}

(* The shape of what the argument speaks of.                               *)
ReplayShape ==
    /\ active_slots \in [Flows -> [Check!Slots -> Tokens \cup {NoToken}]]
    /\ next_consume \in [Flows -> Nat]
    /\ DOMAIN packets \subseteq Tokens
    /\ packets \in [DOMAIN packets -> Packet]
    /\ withdraw_after \in Delays
    /\ deferred \in Seq([left : Int, token : Tokens])
    /\ todo \in Seq(Accesses)
    /\ \A access \in ToCome : WellFormed(access)
    /\ background_index \in Nat /\ undemanded \in Int /\ running \in BOOLEAN

(* A packet's parts become visible before its marker, and so on.           *)
PacketsInOrder ==
    \A t \in DOMAIN packets :
        LET q == packets[t]
            parts == Check!RequiredData(q.payload)
        IN  /\ q.visible \subseteq parts \cup {Check!ReadyComponent}
            /\ q.ready_visible <=> Check!ReadyComponent \in q.visible
            /\ q.ready_visible => parts \subseteq q.visible
            /\ q.consumed => q.ready_visible /\ t.serial < next_consume[t.flow]
            /\ q.released => q.consumed
            /\ ~q.released => active_slots[t.flow][t.slot] = t

Owners ==
    \A f \in Flows, k \in Check!Slots :
        active_slots[f][k] # NoToken =>
            /\ active_slots[f][k] \in DOMAIN packets
            /\ ~packets[active_slots[f][k]].released
            /\ active_slots[f][k].flow = f /\ active_slots[f][k].slot = k

(* No two withdrawals come due together, and each is that of a packet that *)
(* was published.                                                          *)
WithdrawalsApart ==
    /\ deferred # <<>> => withdraw_after \in Nat \ {0}
    /\ \A n \in DOMAIN deferred :
        /\ deferred[n].left \in 1..withdraw_after
        /\ deferred[n].token \in DOMAIN packets /\ packets[deferred[n].token].ready_visible
        /\ \A m \in 1..(n - 1) : deferred[m].left < deferred[n].left
--------------------------------------------------------------------------------
StoresInto(access, line, c) ==
    access.call \in Stores /\ access.line = line /\ c \in DOMAIN access.bytes

(* No store to come disagrees with these bytes of a line.                  *)
Agreed(line, part) ==
    \A store \in ToCome : \A c \in DOMAIN part :
        StoresInto(store, line, c) => store.bytes[c] = part[c]

(* The line holds these bytes, or a store to come brings them.             *)
Coming(line, part) ==
    \A c \in DOMAIN part :
        Newest(line)[c] = part[c] \/ \E store \in ToCome : StoresInto(store, line, c)

ContentOf(t, component) == Check!ContentOf(t, packets[t].payload, component)

Written(t, component) == VisibleAccess(t, component, ContentOf(t, component))

(* What a packet has stored is in its slot's lines or on its way, what was *)
(* published is there already, and nothing to come takes it away.          *)
PartHeld(t, component) ==
    LET w == Written(t, component)
    IN  /\ Agreed(w.line, w.bytes)
        /\ Coming(w.line, w.bytes)
        /\ packets[t].ready_visible /\ component # Check!ReadyComponent => Holds(w.line, w.bytes)

SlotsHold ==
    \A t \in Tokens : StillOwned(t) =>
        \A component \in packets[t].visible : PartHeld(t, component)

(* A read to come finds its bytes there, and nothing before it changes     *)
(* them.                                                                   *)
ReadsRight ==
    \A access \in ToCome : access.call = "read" =>
        Holds(access.line, access.bytes) /\ Agreed(access.line, access.bytes)

SlotsDefined == \A line \in SlotLines : Defined(line)
--------------------------------------------------------------------------------
ConsumedSerials ==
    {x \in Flows \X Serials :
        \E t \in DOMAIN packets : t.flow = x[1] /\ t.serial = x[2] /\ packets[t].consumed}

LinesUnread ==
    {x \in (DOMAIN packets) \X (0..(LineCount(MaxPacketBytes) - 1)) :
        ~packets[x[1]].consumed /\ <<"payload", x[2]>> \in packets[x[1]].visible}

Counted ==
    /\ background_index = BackgroundLines * Cardinality(ConsumedSerials)
    /\ IsFiniteSet(LinesUnread) /\ undemanded = Cardinality(LinesUnread)
--------------------------------------------------------------------------------
ReplayInv ==
    /\ TypeOK /\ OneCopy /\ CleanIsHome
    /\ ReplayShape /\ PacketsInOrder /\ Owners /\ WithdrawalsApart
    /\ SlotsHold /\ ReadsRight /\ SlotsDefined /\ Counted
================================================================================
