--------------------------- MODULE NameRecords_proofs ---------------------------
(***************************************************************************)
(* Proofs about the fixed-size name records, for every MAX_NAME_LENGTH,    *)
(* byte set and input bound allowed by NameRecordsAssumption: a name that  *)
(* fits the array is built by DirEntry::new and by                         *)
(* LocalSocketAddr::new_abstract_from without a panic, and the reader      *)
(* takes it back exactly from the length the record carries.              *)
(***************************************************************************)
EXTENDS NameRecords, SequenceTheorems, TLAPS

USE NameRecordsAssumption

\* A name a caller passes is a sequence of bytes.
LEMMA NamesSeq ==
    ASSUME NEW nm \in Names
    PROVE  nm \in Seq(Bytes)
<1>1. PICK n \in 0..MaxInput : nm \in [1..n -> Bytes]
    BY DEF Names
<1>2. n \in Nat
    OBVIOUS
<1>3. QED
    BY <1>1, <1>2, SeqDef

\* `buf[..n].copy_from_slice(src)` on the zeroed array, for a src of n bytes
\* that fit: its first n bytes are src.
LEMMA CopyPrefix ==
    ASSUME NEW nm \in Seq(Bytes), Len(nm) <= MAX_NAME_LENGTH
    PROVE  SubSeq(CopyFromSlice(Zeros, Len(nm), nm), 1, Len(nm)) = nm
<1> DEFINE n == Len(nm)
           buf == CopyFromSlice(Zeros, n, nm)
<1>1. n \in Nat /\ DOMAIN nm = 1..n
    BY LenProperties
<1>2. Len(Zeros) = MAX_NAME_LENGTH
    BY DEF Zeros
<1>3. \A k \in 1..n : buf[k] = nm[k]
    BY <1>1, <1>2 DEF CopyFromSlice
<1>4. \A k \in 1..n : buf[k] \in Bytes
    BY <1>1, <1>3, ElementOfSeq
<1>5. /\ SubSeq(buf, 1, n) \in Seq(Bytes)
      /\ Len(SubSeq(buf, 1, n)) = n
      /\ \A k \in 1..n : SubSeq(buf, 1, n)[k] = buf[k]
    <2>1. \A k \in 1..n : SubSeq(buf, 1, n)[k] = buf[1 + k - 1]
        BY <1>1, <1>4, SubSeqProperties
    <2>2. QED
        BY <1>1, <1>4, <2>1, SubSeqProperties
<1>6. QED
    BY <1>3, <1>5, SeqEqual

\* DirEntry::new on a name that fits: no panic, and name[..name_length] is
\* the name.
LEMMA DirEntryBack ==
    ASSUME NEW nm \in Seq(Bytes), Len(nm) <= MAX_NAME_LENGTH
    PROVE  /\ DirEntryNew(nm).tag = "ok"
           /\ ReadDirEntry(DirEntryNew(nm).val) = nm
<1> DEFINE n == Len(nm)
<1>1. n \in Nat
    BY LenProperties
<1>2. MinOf(n, MAX_NAME_LENGTH) = n /\ ~CopyPanics(n, nm)
    BY <1>1 DEF MinOf, CopyPanics
<1>3. DirEntryNew(nm) =
          Built([name_length |-> n, name |-> CopyFromSlice(Zeros, n, nm)])
    BY <1>2 DEF DirEntryNew
<1>4. QED
    BY <1>3, CopyPrefix DEF Built, ReadDirEntry

\* LocalSocketAddr::new_abstract_from on a name that fits: no panic, and
\* the name is name[..len - size_of::<SocketAddr>()].
LEMMA AbstractBack ==
    ASSUME NEW nm \in Seq(Bytes), Len(nm) <= MAX_NAME_LENGTH
    PROVE  /\ NewAbstractFrom(nm).tag = "ok"
           /\ ReadAbstract(NewAbstractFrom(nm).val) = nm
<1> DEFINE n == Len(nm)
<1>1. n \in Nat
    BY LenProperties
<1>2. NewAbstractFrom(nm) =
          Built([sin_family |-> FAMILY_LOCAL,
                 sin_name |-> CopyFromSlice(Zeros, n, nm),
                 len |-> n + SocketAddrSize])
    BY DEF NewAbstractFrom
<1>3. ReadAbstract(NewAbstractFrom(nm).val) = SubSeq(CopyFromSlice(Zeros, n, nm), 1, n)
    <2>1. /\ NewAbstractFrom(nm).val.sin_family = FAMILY_LOCAL
          /\ NewAbstractFrom(nm).val.sin_name = CopyFromSlice(Zeros, n, nm)
          /\ NewAbstractFrom(nm).val.len = n + SocketAddrSize
        BY <1>2 DEF Built
    <2>2. /\ NewAbstractFrom(nm).val.len >= SocketAddrSize
          /\ NewAbstractFrom(nm).val.len - SocketAddrSize = n
        BY <1>1, <2>1 DEF SocketAddrSize
    <2>3. QED
        BY <2>1, <2>2 DEF ReadAbstract
<1>4. NewAbstractFrom(nm).tag = "ok"
    BY <1>2 DEF Built
<1>5. QED
    BY <1>3, <1>4, CopyPrefix

(***************************************************************************)
(* The inductive invariant: a record in memory is what the builder of its  *)
(* kind made from the name, the phase says whether that panicked, and the  *)
(* name read is the reader of that kind applied to the record.            *)
(***************************************************************************)
Made == IF kind = "dirent" THEN DirEntryNew(name) ELSE NewAbstractFrom(name)

Reading(r) == IF kind = "dirent" THEN ReadDirEntry(r.val) ELSE ReadAbstract(r.val)

RecMade == phase # "idle" => rec = Made

PhaseOfRec ==
    /\ phase = "panic" => rec.tag = "panic"
    /\ phase \in {"built", "read"} => rec.tag = "ok"

GotRead == phase = "read" => got = Reading(rec)

IInv ==
    /\ TypeOK
    /\ RecMade
    /\ PhaseOfRec
    /\ GotRead

\* Both builders either return a record or panic.
LEMMA BuildTags ==
    ASSUME NEW nm
    PROVE  /\ DirEntryNew(nm).tag \in {"ok", "panic"}
           /\ NewAbstractFrom(nm).tag \in {"ok", "panic"}
BY DEF DirEntryNew, NewAbstractFrom, Built, Panic

\* A record that was built holds a name that fits the array.
LEMMA FitsIfBuilt ==
    ASSUME NEW nm \in Seq(Bytes)
    PROVE  /\ DirEntryNew(nm).tag = "ok" => Len(nm) <= MAX_NAME_LENGTH
           /\ NewAbstractFrom(nm).tag = "ok" => Len(nm) <= MAX_NAME_LENGTH
<1>1. Len(nm) \in Nat
    BY LenProperties
<1>2. QED
    BY <1>1 DEF DirEntryNew, NewAbstractFrom, MinOf, CopyPanics, Built, Panic

\* The zeroed array with a fitting name copied in is a byte array.
LEMMA CopyTyped ==
    ASSUME NEW nm \in Seq(Bytes), Len(nm) <= MAX_NAME_LENGTH
    PROVE  CopyFromSlice(Zeros, Len(nm), nm) \in Arrays
<1>1. Len(nm) \in Nat /\ Len(Zeros) = MAX_NAME_LENGTH
    BY LenProperties DEF Zeros
<1>2. \A k \in 1..Len(nm) : nm[k] \in Bytes
    BY ElementOfSeq
<1>3. QED
    BY <1>1, <1>2 DEF CopyFromSlice, Zeros, Arrays

\* Each builder returns a panic or a record of the shape TypeOK names.
LEMMA RecTyped ==
    ASSUME NEW nm \in Seq(Bytes)
    PROVE  LET Recs == {Panic}
                 \cup {Built(e) : e \in [name_length : 0..MAX_NAME_LENGTH, name : Arrays]}
                 \cup {Built(a) : a \in [sin_family : {FAMILY_LOCAL}, sin_name : Arrays,
                                         len : SocketAddrSize..(SocketAddrSize + MAX_NAME_LENGTH)]}
           IN  DirEntryNew(nm) \in Recs /\ NewAbstractFrom(nm) \in Recs
<1>1. Len(nm) \in Nat
    BY LenProperties
<1>2. CASE Len(nm) <= MAX_NAME_LENGTH
    <2>1. CopyFromSlice(Zeros, Len(nm), nm) \in Arrays
        BY <1>2, CopyTyped
    <2>2. QED
        BY <1>1, <1>2, <2>1 DEF DirEntryNew, NewAbstractFrom, MinOf, CopyPanics,
           SocketAddrSize
<1>3. CASE Len(nm) > MAX_NAME_LENGTH
    BY <1>1, <1>3 DEF DirEntryNew, NewAbstractFrom, MinOf, CopyPanics
<1>4. QED
    BY <1>1, <1>2, <1>3

LEMMA InitIInv == Init => IInv
<1> SUFFICES ASSUME Init PROVE IInv
    OBVIOUS
<1>1. << >> \in [1..0 -> Bytes] /\ 0 \in 0..MaxInput
    OBVIOUS
<1>2. name \in Names
    BY <1>1 DEF Init, Names
<1>3. QED
    BY <1>2 DEF Init, IInv, TypeOK, RecMade, PhaseOfRec, GotRead

\* A built record reads back as the name it was built from.
LEMMA BuiltReads ==
    ASSUME IInv, phase \in {"built", "read"}
    PROVE  Reading(rec) = name
<1>1. name \in Seq(Bytes)
    BY NamesSeq DEF IInv, TypeOK
<1>2. rec = Made /\ rec.tag = "ok"
    BY DEF IInv, RecMade, PhaseOfRec
<1>3. CASE kind = "dirent"
    <2>1. Len(name) <= MAX_NAME_LENGTH
        BY <1>1, <1>2, <1>3, FitsIfBuilt DEF Made
    <2>2. QED
        BY <1>1, <1>2, <1>3, <2>1, DirEntryBack DEF Made, Reading
<1>4. CASE kind # "dirent"
    <2>1. Len(name) <= MAX_NAME_LENGTH
        BY <1>1, <1>2, <1>4, FitsIfBuilt DEF Made
    <2>2. QED
        BY <1>1, <1>2, <1>4, <2>1, AbstractBack DEF Made, Reading
<1>5. QED
    BY <1>3, <1>4

LEMMA NextIInv == IInv /\ [Next]_vars => IInv'
<1> SUFFICES ASSUME IInv, [Next]_vars PROVE IInv'
    OBVIOUS
<1>1. ASSUME NEW nm \in Names, BuildDirEntry(nm) PROVE IInv'
    <2>1. rec' \in {Panic}
              \cup {Built(e) : e \in [name_length : 0..MAX_NAME_LENGTH, name : Arrays]}
              \cup {Built(a) : a \in [sin_family : {FAMILY_LOCAL}, sin_name : Arrays,
                                      len : SocketAddrSize..(SocketAddrSize + MAX_NAME_LENGTH)]}
        BY <1>1, NamesSeq, RecTyped DEF BuildDirEntry
    <2>2. QED
        BY <1>1, <2>1, BuildTags DEF BuildDirEntry, IInv, TypeOK, Made, RecMade,
           PhaseOfRec, GotRead
<1>2. ASSUME NEW nm \in Names, BuildAbstract(nm) PROVE IInv'
    <2>1. rec' \in {Panic}
              \cup {Built(e) : e \in [name_length : 0..MAX_NAME_LENGTH, name : Arrays]}
              \cup {Built(a) : a \in [sin_family : {FAMILY_LOCAL}, sin_name : Arrays,
                                      len : SocketAddrSize..(SocketAddrSize + MAX_NAME_LENGTH)]}
        BY <1>2, NamesSeq, RecTyped DEF BuildAbstract
    <2>2. QED
        BY <1>2, <2>1, BuildTags DEF BuildAbstract, IInv, TypeOK, Made, RecMade,
           PhaseOfRec, GotRead
<1>3. CASE Read
    <2>1. got' = name
        BY <1>3, BuiltReads DEF Read, Reading
    <2>2. QED
        BY <1>3, <2>1 DEF Read, IInv, TypeOK, Made, Reading, RecMade, PhaseOfRec,
           GotRead
<1>4. CASE UNCHANGED vars
    BY <1>4 DEF vars, IInv, TypeOK, Made, Reading, RecMade, PhaseOfRec, GotRead
<1>5. QED
    BY <1>1, <1>2, <1>3, <1>4 DEF Next

LEMMA SpecIInv == Spec => []IInv
BY InitIInv, NextIInv, PTL DEF Spec

\* The invariant gives the round trip: a name that fits is not a panic and
\* reads back as itself, whichever record carries it.
LEMMA IInvRoundTrip == IInv => NameRoundTrip
<1> SUFFICES ASSUME IInv, Len(name) <= MAX_NAME_LENGTH
             PROVE  /\ phase # "panic"
                    /\ phase = "read" => got = name
    BY DEF NameRoundTrip
<1>1. name \in Seq(Bytes)
    BY NamesSeq DEF IInv, TypeOK
<1>2. Made.tag = "ok"
    BY <1>1, DirEntryBack, AbstractBack DEF Made
<1>3. phase # "panic"
    BY <1>2 DEF IInv, RecMade, PhaseOfRec
<1>4. phase = "read" => got = name
    BY BuiltReads DEF IInv, GotRead
<1>5. QED
    BY <1>3, <1>4

\* For every MAX_NAME_LENGTH, byte set and input bound, the records stay
\* well typed: every record built is a panic or fits the arrays, and the
\* name read back is a name.
THEOREM NameTypeCorrect == Spec => []TypeOK
BY SpecIInv, PTL DEF IInv

\* For every MAX_NAME_LENGTH and every byte set: a name that fits the
\* array, given to DirEntry::new or LocalSocketAddr::new_abstract_from,
\* never panics and is read back exactly from the record's length field.
THEOREM NameRoundTripCorrect == Spec => []NameRoundTrip
BY SpecIInv, IInvRoundTrip, PTL
=============================================================================
