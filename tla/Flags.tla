-------------------------------- MODULE Flags --------------------------------
(***************************************************************************)
(* The bit-flag newtypes of the ABI (mem.rs MemMapFlags, ShmFlags; poll.rs *)
(* PollEvents; sockets.rs SockCreateKind, SockMsgFlags; fs.rs OpenOptions; *)
(* input.rs MiceBtnStatus).  A word of width w is the set of its bit       *)
(* positions in 0..w-1: `|` is union, `&` intersection, `!` complement     *)
(* within the width, and `1 << k` is {k}.                                  *)
(*                                                                         *)
(* A sender picks a flag type, then sets named flags with `|` and, where   *)
(* the type has a clearing operation, clears them with `& !` (difference,  *)
(* and/not), and passes the word; the receiver asks contains (or          *)
(* intersects) of each named flag and of every combination of them.       *)
(***************************************************************************)
EXTENDS Integers

CONSTANTS
    Checked,   \* the flag types a sender uses
    MaxOps     \* how many set/clear operations a sender makes

\* The named single-purpose flags of each type, as their bit sets.
OpenOptionsBits ==
    [WRITE |-> {0}, READ |-> {1}, CREATE_FILE |-> {2},
     CREATE_DIRECTORY |-> {3}, WRITE_TRUNCATE |-> {4}]

\* Mutation: MemMapFlags::WRITE given FIXED's bit, the SockMsgFlags slip.
MemMapFlagsBits_dup ==
    [FIXED |-> {0}, WRITE |-> {0}, DISABLE_EXEC |-> {2}, MAP_RESOURCE |-> {3}]

MemMapFlagsBits ==
    [FIXED |-> {0}, WRITE |-> {1}, DISABLE_EXEC |-> {2}, MAP_RESOURCE |-> {3}]

ShmFlagsBits == [LOCAL |-> {0}]

PollEventsBits == [DATA_AVAILABLE |-> {0}, CAN_WRITE |-> {1}, DISCONNECTED |-> {2}]

\* SOCK_STREAM is 0, the kind of a word with no kind bits, not a flag.
SockCreateKindBits ==
    [SOCK_SEQPACKET |-> {0}, SOCK_DGRAM |-> {1}, SOCK_NON_BLOCKING |-> {15}]

SockMsgFlagsBits == [DONT_WAIT |-> {0}, PEEK |-> {0}]

MiceBtnStatusBits == [BTN_LEFT |-> {0}, BTN_RIGHT |-> {1}, BTN_MID |-> {0, 1}]

FlagTypes == {"OpenOptions", "MemMapFlags", "ShmFlags", "PollEvents",
              "SockCreateKind", "SockMsgFlags", "MiceBtnStatus"}

ASSUME FlagsAssumption == Checked \subseteq FlagTypes /\ MaxOps \in Nat

Bits(t) ==
    [OpenOptions |-> OpenOptionsBits, MemMapFlags |-> MemMapFlagsBits,
     ShmFlags |-> ShmFlagsBits, PollEvents |-> PollEventsBits,
     SockCreateKind |-> SockCreateKindBits, SockMsgFlags |-> SockMsgFlagsBits,
     MiceBtnStatus |-> MiceBtnStatusBits][t]

\* The width of each type's integer: u8, u16 or u32.
Width(t) ==
    IF t \in {"OpenOptions", "MemMapFlags"} THEN 8
    ELSE IF t \in {"PollEvents", "SockCreateKind"} THEN 16
    ELSE 32

Names(t) == DOMAIN Bits(t)

\* The bits of a combination of named flags, OR-ed together.
BitsOf(t, ns) == UNION {Bits(t)[n] : n \in ns}

\* The types with a clearing operation: PollEvents::difference,
\* SockMsgFlags `& !`, MiceBtnStatus and(not).
Clearable == {"PollEvents", "SockMsgFlags", "MiceBtnStatus"}

\* BitOr: Self(self.0 | rhs.0).
BitOr(a, b) == a \cup b

\* Mutation: intersection copied from union with `|` left in place.
BitAnd_or(a, b) == a \cup b

\* The `&` of PollEvents::intersection and difference: Self(self.0 & other.0).
BitAnd(a, b) == a \cap b

\* Not: Self(!self.0), every other bit of the width.
Not(t, a) == (0..(Width(t) - 1)) \ a

\* Mutation: difference without the `!`.
difference_nonot(t, a, b) == BitAnd(a, b)

\* PollEvents::difference, SockMsgFlags `a & !b`, MiceBtnStatus a.and(b.not()).
difference(t, a, b) == BitAnd(a, Not(t, b))

\* Mutation: contains written as intersects.
ContainsAll_any(a, b) == a \cap b # {}

\* contains of MemMapFlags, ShmFlags, PollEvents, SockCreateKind,
\* SockMsgFlags and MiceBtnStatus: (self & other) == other.
ContainsAll(a, b) == a \cap b = b

\* OpenOptions::contains: self & other != 0.
ContainsAny(a, b) == a \cap b # {}

Contains(t, a, b) ==
    IF t = "OpenOptions" THEN ContainsAny(a, b) ELSE ContainsAll(a, b)

VARIABLES
    phase,    \* "idle", "build", "sent", "decoded"
    ty,       \* the flag type in use
    intent,   \* ghost: the named flags the sender means to pass
    word,     \* the word, as its set bits
    ops,      \* set/clear operations made so far
    decoded,  \* the named flags the receiver finds with contains
    query     \* contains of every non-empty combination of named flags

vars == <<phase, ty, intent, word, ops, decoded, query>>

Combos(t) == (SUBSET Names(t)) \ {{}}

Init ==
    /\ phase = "idle"
    /\ ty \in Checked
    /\ intent = {}
    /\ word = {}
    /\ ops = 0
    /\ decoded = {}
    /\ query = [q \in {} |-> FALSE]

\* The sender starts from the empty word (EMPTY, NONE, from_bits(0)).
Start ==
    /\ phase = "idle"
    /\ phase' = "build"
    /\ UNCHANGED <<ty, intent, word, ops, decoded, query>>

\* word = word | FLAG.
SetFlag(n) ==
    /\ phase = "build"
    /\ ops < MaxOps
    /\ word' = BitOr(word, Bits(ty)[n])
    /\ intent' = intent \cup {n}
    /\ ops' = ops + 1
    /\ UNCHANGED <<phase, ty, decoded, query>>

\* word = word & !FLAG, for the types that offer it.
ClearFlag(n) ==
    /\ phase = "build"
    /\ ty \in Clearable
    /\ ops < MaxOps
    /\ word' = difference(ty, word, Bits(ty)[n])
    /\ intent' = intent \ {n}
    /\ ops' = ops + 1
    /\ UNCHANGED <<phase, ty, decoded, query>>

Send ==
    /\ phase = "build"
    /\ phase' = "sent"
    /\ UNCHANGED <<ty, intent, word, ops, decoded, query>>

\* The receiver tests each named flag and each combination with contains.
Receive ==
    /\ phase = "sent"
    /\ phase' = "decoded"
    /\ decoded' = {n \in Names(ty) : Contains(ty, word, Bits(ty)[n])}
    /\ query' = [q \in Combos(ty) |-> Contains(ty, word, BitsOf(ty, q))]
    /\ UNCHANGED <<ty, intent, word, ops>>

Next ==
    \/ Start
    \/ \E n \in Names(ty) : SetFlag(n) \/ ClearFlag(n)
    \/ Send
    \/ Receive

Spec == Init /\ [][Next]_vars

-----------------------------------------------------------------------------
(***************************************************************************)
(* Properties.                                                             *)
(***************************************************************************)

\* The word holds only bits of the type's named flags, and the receiver's
\* answers are about those flags.
TypeOK ==
    /\ phase \in {"idle", "build", "sent", "decoded"}
    /\ ty \in Checked
    /\ intent \subseteq Names(ty)
    /\ word \subseteq BitsOf(ty, Names(ty))
    /\ ops \in 0..MaxOps
    /\ decoded \subseteq Names(ty)
    /\ DOMAIN query \subseteq Combos(ty)

\* After any sequence of sets and clears, the word is exactly the OR of the
\* flags the sender means: a clear removes no other flag's bit.
WordMatchesIntent ==
    phase \in {"build", "sent", "decoded"} => word = BitsOf(ty, intent)

\* The receiver's contains finds exactly the named flags the sender set:
\* no two flags share a bit and no flag is a combination of others.
IntentsRecovered == phase = "decoded" => decoded = intent

\* contains of a combination of flags (`f.contains(A | B)`, as each type's
\* doc comment reads it) holds exactly when all of them were set.
CompositeContains ==
    phase = "decoded" => \A q \in Combos(ty) : query[q] = (q \subseteq intent)
=============================================================================
