------------------------------ MODULE Flags_proofs ------------------------------
(***************************************************************************)
(* Proofs about the bit-flag newtypes.  Whatever the set and clear         *)
(* operations a sender makes, the word stays within the type's named bits  *)
(* (for every type); and for every type whose named flags are non-empty,   *)
(* pairwise disjoint bit sets within the width, and whose contains is the  *)
(* all-bits form, the word is the OR of the flags meant and contains       *)
(* recovers exactly them, singly and in every combination.                 *)
(***************************************************************************)
EXTENDS Flags, FiniteSets, TLAPS

USE FlagsAssumption

\* The condition the doc comments of the flag types rely on: every named
\* flag has a bit, within the type's width, and no two flags share one.
DisjointFlags(t) ==
    /\ \A n \in Names(t) : Bits(t)[n] # {} /\ Bits(t)[n] \subseteq 0..(Width(t) - 1)
    /\ \A m, n \in Names(t) : m # n => Bits(t)[m] \cap Bits(t)[n] = {}

\* The types for which the receiver's contains is (self & other) == other
\* and the named flags are disjoint.
SoundTypes == {t \in FlagTypes \ {"OpenOptions"} : DisjointFlags(t)}

(***************************************************************************)
(* Lemmas about the bit-set operators.                                     *)
(***************************************************************************)

\* `word | FLAG` adds the flag to the OR of the flags meant.
LEMMA SetOne ==
    ASSUME NEW t, NEW I, NEW n
    PROVE  BitOr(BitsOf(t, I), Bits(t)[n]) = BitsOf(t, I \cup {n})
BY DEF BitOr, BitsOf

\* contains of one named flag holds exactly when the flag was set.
LEMMA ContainsOne ==
    ASSUME NEW t, DisjointFlags(t), NEW I \in SUBSET Names(t), NEW n \in Names(t)
    PROVE  ContainsAll(BitsOf(t, I), Bits(t)[n]) <=> n \in I
<1>1. n \in I => Bits(t)[n] \subseteq BitsOf(t, I)
    BY DEF BitsOf
<1>2. Bits(t)[n] \subseteq BitsOf(t, I) => n \in I
    <2> SUFFICES ASSUME Bits(t)[n] \subseteq BitsOf(t, I) PROVE n \in I
        OBVIOUS
    <2>1. PICK x \in Bits(t)[n] : TRUE
        BY DEF DisjointFlags
    <2>2. PICK m \in I : x \in Bits(t)[m]
        BY <2>1 DEF BitsOf
    <2>3. QED
        BY <2>1, <2>2 DEF DisjointFlags
<1>3. QED
    BY <1>1, <1>2 DEF ContainsAll

\* contains of a combination of flags holds exactly when all were set.
LEMMA ContainsCombo ==
    ASSUME NEW t, DisjointFlags(t), NEW I \in SUBSET Names(t),
           NEW q \in SUBSET Names(t)
    PROVE  ContainsAll(BitsOf(t, I), BitsOf(t, q)) <=> q \subseteq I
<1>1. ContainsAll(BitsOf(t, I), BitsOf(t, q))
        <=> \A n \in q : Bits(t)[n] \subseteq BitsOf(t, I)
    BY DEF ContainsAll, BitsOf
<1>2. \A n \in q : Bits(t)[n] \subseteq BitsOf(t, I) <=> n \in I
    BY ContainsOne DEF ContainsAll
<1>3. QED
    BY <1>1, <1>2

\* `word & !FLAG` removes exactly that flag from the OR of the flags meant.
LEMMA ClearOne ==
    ASSUME NEW t, DisjointFlags(t), NEW I \in SUBSET Names(t), NEW n \in Names(t)
    PROVE  difference(t, BitsOf(t, I), Bits(t)[n]) = BitsOf(t, I \ {n})
<1>1. ASSUME NEW x \in difference(t, BitsOf(t, I), Bits(t)[n])
      PROVE  x \in BitsOf(t, I \ {n})
    <2>1. x \in BitsOf(t, I) /\ x \notin Bits(t)[n]
        BY <1>1 DEF difference, BitAnd, Not
    <2>2. PICK m \in I : x \in Bits(t)[m]
        BY <2>1 DEF BitsOf
    <2>3. QED
        BY <2>1, <2>2 DEF BitsOf
<1>2. ASSUME NEW x \in BitsOf(t, I \ {n})
      PROVE  x \in difference(t, BitsOf(t, I), Bits(t)[n])
    <2>1. PICK m \in I \ {n} : x \in Bits(t)[m]
        BY <1>2 DEF BitsOf
    <2>2. x \in 0..(Width(t) - 1) /\ x \notin Bits(t)[n]
        BY <2>1 DEF DisjointFlags
    <2>3. x \in BitsOf(t, I)
        BY <2>1 DEF BitsOf
    <2>4. QED
        BY <2>2, <2>3 DEF difference, BitAnd, Not
<1>3. QED
    BY <1>1, <1>2

(***************************************************************************)
(* The inductive invariant: before the sender starts the word and the      *)
(* intent are empty; the three properties then carry each other.           *)
(***************************************************************************)
Fresh == phase = "idle" => word = {} /\ intent = {}

IInv == TypeOK /\ Fresh /\ WordMatchesIntent /\ IntentsRecovered /\ CompositeContains

\* The word of a type is within the bits of its named flags.
LEMMA WordInNames ==
    ASSUME NEW t, NEW I \in SUBSET Names(t)
    PROVE  BitsOf(t, I) \subseteq BitsOf(t, Names(t))
BY DEF BitsOf

(***************************************************************************)
(* TypeOK alone is inductive, for every flag type.                         *)
(***************************************************************************)
LEMMA TypeInit == Init => TypeOK
BY DEF Init, TypeOK

LEMMA TypeNext == TypeOK /\ [Next]_vars => TypeOK'
<1> SUFFICES ASSUME TypeOK, [Next]_vars PROVE TypeOK'
    OBVIOUS
<1>1. CASE Start
    BY <1>1 DEF Start, TypeOK
<1>2. ASSUME NEW n \in Names(ty), SetFlag(n) PROVE TypeOK'
    BY <1>2 DEF SetFlag, TypeOK, BitOr, BitsOf
<1>3. ASSUME NEW n \in Names(ty), ClearFlag(n) PROVE TypeOK'
    <2>1. word' \subseteq word
        BY <1>3 DEF ClearFlag, difference, BitAnd
    <2>2. QED
        BY <1>3, <2>1 DEF ClearFlag, TypeOK
<1>4. CASE Send
    BY <1>4 DEF Send, TypeOK
<1>5. CASE Receive
    BY <1>5 DEF Receive, TypeOK
<1>6. CASE UNCHANGED vars
    BY <1>6 DEF vars, TypeOK
<1>7. QED
    BY <1>1, <1>2, <1>3, <1>4, <1>5, <1>6 DEF Next

(***************************************************************************)
(* The full invariant, for the sound types.                                *)
(***************************************************************************)
LEMMA InitIInv == Init => IInv
BY TypeInit DEF Init, IInv, Fresh, WordMatchesIntent, IntentsRecovered, CompositeContains

LEMMA NextIInv ==
    ASSUME Checked \subseteq SoundTypes
    PROVE  IInv /\ [Next]_vars => IInv'
<1> SUFFICES ASSUME IInv, [Next]_vars PROVE IInv'
    OBVIOUS
<1>0. TypeOK' /\ DisjointFlags(ty) /\ ty # "OpenOptions"
    BY TypeNext DEF IInv, TypeOK, SoundTypes
<1>1. CASE Start
    BY <1>0, <1>1 DEF Start, IInv, Fresh, WordMatchesIntent, IntentsRecovered,
       CompositeContains, BitsOf
<1>2. ASSUME NEW n \in Names(ty), SetFlag(n) PROVE IInv'
    <2>1. word = BitsOf(ty, intent)
        BY <1>2 DEF SetFlag, IInv, WordMatchesIntent
    <2>2. BitOr(BitsOf(ty, intent), Bits(ty)[n]) = BitsOf(ty, intent \cup {n})
        BY SetOne
    <2>3. word' = BitsOf(ty, intent')
        BY <1>2, <2>1, <2>2 DEF SetFlag
    <2>4. QED
        BY <1>0, <1>2, <2>3 DEF SetFlag, IInv, Fresh, WordMatchesIntent,
           IntentsRecovered, CompositeContains
<1>3. ASSUME NEW n \in Names(ty), ClearFlag(n) PROVE IInv'
    <2>1. word = BitsOf(ty, intent) /\ intent \in SUBSET Names(ty)
        BY <1>3 DEF ClearFlag, IInv, WordMatchesIntent, TypeOK
    <2>2. word' = BitsOf(ty, intent')
        BY <1>0, <1>3, <2>1, ClearOne DEF ClearFlag
    <2>3. QED
        BY <1>0, <1>3, <2>2 DEF ClearFlag, IInv, Fresh, WordMatchesIntent,
           IntentsRecovered, CompositeContains
<1>4. CASE Send
    BY <1>0, <1>4 DEF Send, IInv, Fresh, WordMatchesIntent, IntentsRecovered,
       CompositeContains
<1>5. CASE Receive
    <2>1. word = BitsOf(ty, intent) /\ intent \in SUBSET Names(ty)
          /\ UNCHANGED <<ty, intent, word>> /\ phase' = "decoded"
        BY <1>5 DEF Receive, IInv, WordMatchesIntent, TypeOK
    <2>2. decoded' = intent'
        <3>1. decoded' = {n \in Names(ty) : ContainsAll(word, Bits(ty)[n])}
            BY <1>0, <1>5 DEF Receive, Contains
        <3>2. \A n \in Names(ty) : ContainsAll(word, Bits(ty)[n]) <=> n \in intent
            BY <1>0, <2>1, ContainsOne
        <3>3. decoded' = {n \in Names(ty) : n \in intent}
            BY <3>1, <3>2
        <3>4. QED
            BY <2>1, <3>3
    <2>3. \A q \in Combos(ty) : query'[q] = (q \subseteq intent')
        <3>1. query' = [q \in Combos(ty) |-> ContainsAll(word, BitsOf(ty, q))]
            BY <1>0, <1>5 DEF Receive, Contains
        <3>2. \A q \in Combos(ty) : ContainsAll(word, BitsOf(ty, q)) <=> q \subseteq intent
            BY <1>0, <2>1, ContainsCombo DEF Combos
        <3>3. TAKE q \in Combos(ty)
        <3>4. query'[q] = ContainsAll(word, BitsOf(ty, q))
            BY <3>1
        <3>5. ContainsAll(word, BitsOf(ty, q)) \in BOOLEAN
            BY DEF ContainsAll
        <3>6. QED
            BY <2>1, <3>2, <3>4, <3>5, Zenon
    <2>4. QED
        BY <1>0, <2>1, <2>2, <2>3 DEF IInv, Fresh, WordMatchesIntent,
           IntentsRecovered, CompositeContains
<1>6. CASE UNCHANGED vars
    BY <1>0, <1>6 DEF vars, IInv, Fresh, WordMatchesIntent, IntentsRecovered,
       CompositeContains
<1>7. QED
    BY <1>1, <1>2, <1>3, <1>4, <1>5, <1>6 DEF Next

LEMMA SpecIInv ==
    ASSUME Checked \subseteq SoundTypes
    PROVE  Spec => []IInv
BY InitIInv, NextIInv, PTL DEF Spec

\* The four tables of mem.rs, poll.rs and sockets.rs that the flags run
\* checks meet the condition.
LEMMA TablesSound ==
    {"MemMapFlags", "ShmFlags", "PollEvents", "SockCreateKind"} \subseteq SoundTypes
<1>1. "MemMapFlags" \in SoundTypes
    BY DEF SoundTypes, FlagTypes, DisjointFlags, Names, Bits, Width, MemMapFlagsBits
<1>2. "ShmFlags" \in SoundTypes
    BY DEF SoundTypes, FlagTypes, DisjointFlags, Names, Bits, Width, ShmFlagsBits
<1>3. "PollEvents" \in SoundTypes
    BY DEF SoundTypes, FlagTypes, DisjointFlags, Names, Bits, Width, PollEventsBits
<1>4. "SockCreateKind" \in SoundTypes
    BY DEF SoundTypes, FlagTypes, DisjointFlags, Names, Bits, Width, SockCreateKindBits
<1>5. QED
    BY <1>1, <1>2, <1>3, <1>4

\* SockMsgFlags (DONT_WAIT and PEEK are both bit 0) and MiceBtnStatus
\* (BTN_MID is BTN_LEFT | BTN_RIGHT) do not.
LEMMA TablesUnsound ==
    "SockMsgFlags" \notin SoundTypes /\ "MiceBtnStatus" \notin SoundTypes
<1>1. "SockMsgFlags" \notin SoundTypes
    BY DEF SoundTypes, DisjointFlags, Names, Bits, SockMsgFlagsBits
<1>2. "MiceBtnStatus" \notin SoundTypes
    BY DEF SoundTypes, DisjointFlags, Names, Bits, MiceBtnStatusBits
<1>3. QED
    BY <1>1, <1>2

\* Whatever sets and clears a sender makes, on any flag type, the word
\* holds only bits of that type's named flags.
THEOREM FlagsTypeCorrect == Spec => []TypeOK
BY TypeInit, TypeNext, PTL DEF Spec

\* For every flag type whose named flags are disjoint, non-empty and within
\* the width: after any sequence of `|` and `& !`, the word is exactly the
\* OR of the flags the sender means.
THEOREM WordMatchesIntentCorrect ==
    ASSUME Checked \subseteq SoundTypes
    PROVE  Spec => []WordMatchesIntent
BY SpecIInv, PTL DEF IInv

\* For those types, the receiver's contains of each named flag finds
\* exactly the flags the sender set.
THEOREM IntentsRecoveredCorrect ==
    ASSUME Checked \subseteq SoundTypes
    PROVE  Spec => []IntentsRecovered
BY SpecIInv, PTL DEF IInv

\* For those types, contains of any combination of flags holds exactly when
\* all of them were set.
THEOREM CompositeContainsCorrect ==
    ASSUME Checked \subseteq SoundTypes
    PROVE  Spec => []CompositeContains
BY SpecIInv, PTL DEF IInv

\* In particular for MemMapFlags, ShmFlags, PollEvents and SockCreateKind,
\* the types the flags run checks, for every number of operations.
THEOREM CheckedTablesCorrect ==
    ASSUME Checked \subseteq {"MemMapFlags", "ShmFlags", "PollEvents", "SockCreateKind"}
    PROVE  Spec => [](WordMatchesIntent /\ IntentsRecovered /\ CompositeContains)
<1>1. Checked \subseteq SoundTypes
    BY TablesSound
<1>2. Spec => []IInv
    BY <1>1, SpecIInv
<1>3. QED
    BY <1>2, PTL DEF IInv
=============================================================================
