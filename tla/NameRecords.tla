----------------------------- MODULE NameRecords -----------------------------
(***************************************************************************)
(* The fixed-size name records that carry a name across the gate with an  *)
(* explicit length: fs.rs DirEntry (built by the kernel for a directory    *)
(* listing: name_length and a MAX_NAME_LENGTH byte array) and sockets.rs   *)
(* LocalSocketAddr (built by a process for an abstract socket name:        *)
(* sin_family, a MAX_NAME_LENGTH byte array, and the structure length the  *)
(* syscall receives).  Names are sequences of bytes; the reader takes the  *)
(* name back from the length, as the doc comments prescribe.               *)
(***************************************************************************)
EXTENDS Integers, Sequences

CONSTANTS
    MAX_NAME_LENGTH,  \* consts::MAX_NAME_LENGTH, scaled down
    Bytes,            \* the byte values names are made of
    MaxInput          \* the longest name a caller passes

ASSUME NameRecordsAssumption ==
    /\ MAX_NAME_LENGTH \in Nat \ {0}
    /\ Bytes \subseteq Nat
    /\ MaxInput \in Nat

\* size_of::<SocketAddr>(): the u32 sin_family.
SocketAddrSize == 4

\* SockDomain::LOCAL.0 as u32, LocalSocketAddr::FAMILY.
FAMILY_LOCAL == 0

Names == UNION {[1..n -> Bytes] : n \in 0..MaxInput}

\* [0u8; MAX_NAME_LENGTH].
Zeros == [k \in 1..MAX_NAME_LENGTH |-> 0]

MinOf(a, b) == IF a <= b THEN a ELSE b

\* `buf[..n].copy_from_slice(src)` panics unless src has exactly n bytes.
CopyPanics(n, src) == Len(src) # n

\* Otherwise it is buf with its first n bytes replaced by src.
CopyFromSlice(buf, n, src) ==
    [k \in 1..Len(buf) |-> IF k <= n THEN src[k] ELSE buf[k]]

Built(r) == [tag |-> "ok", val |-> r]
Panic == [tag |-> "panic", val |-> "none"]

\* Mutation: max written for min.
DirEntryNew_max(name) ==
    LET n == IF Len(name) >= MAX_NAME_LENGTH THEN Len(name) ELSE MAX_NAME_LENGTH
    IN  IF CopyPanics(n, name) THEN Panic
        ELSE Built([name_length |-> n, name |-> CopyFromSlice(Zeros, n, name)])

\* Mutation: the name array is the name itself, not zero-filled.
DirEntryNew_nofill(name) ==
    IF CopyPanics(MinOf(Len(name), MAX_NAME_LENGTH), name) THEN Panic
    ELSE Built([name_length |-> Len(name), name |-> name])

\* DirEntry::new: name_length = min(len, MAX), then the copy of the whole
\* name into name_bytes[..name_length].
DirEntryNew(name) ==
    LET n == MinOf(Len(name), MAX_NAME_LENGTH)
    IN  IF CopyPanics(n, name) THEN Panic
        ELSE Built([name_length |-> n, name |-> CopyFromSlice(Zeros, n, name)])

\* LocalSocketAddr::new_abstract_from: `bytes[..name.len()]` panics when the
\* name is longer than the array (documented), then the copy; the structure
\* length is name.len() + size_of::<SocketAddr>().
NewAbstractFrom(name) ==
    IF Len(name) > MAX_NAME_LENGTH THEN Panic
    ELSE Built([sin_family |-> FAMILY_LOCAL,
                sin_name |-> CopyFromSlice(Zeros, Len(name), name),
                len |-> Len(name) + SocketAddrSize])

\* The reader of a DirEntry: name[..name_length].
ReadDirEntry(e) == SubSeq(e.name, 1, e.name_length)

\* The kernel's reading of an abstract address, from the doc comment:
\* name[..total length - size_of::<SocketAddr>()], if the family is LOCAL.
ReadAbstract(a) ==
    IF a.sin_family = FAMILY_LOCAL /\ a.len >= SocketAddrSize
    THEN SubSeq(a.sin_name, 1, a.len - SocketAddrSize)
    ELSE <<>>

VARIABLES
    phase,  \* "idle", "built", "read", "panic"
    kind,   \* "dirent" or "sockaddr"
    name,   \* the name the builder was given
    rec,    \* the record built
    got     \* the name the reader took from it

vars == <<phase, kind, name, rec, got>>

Init ==
    /\ phase = "idle"
    /\ kind = "dirent"
    /\ name = <<>>
    /\ rec = Panic
    /\ got = <<>>

\* The kernel lists a directory entry named nm.
BuildDirEntry(nm) ==
    /\ phase = "idle"
    /\ kind' = "dirent"
    /\ name' = nm
    /\ rec' = DirEntryNew(nm)
    /\ phase' = IF DirEntryNew(nm).tag = "panic" THEN "panic" ELSE "built"
    /\ UNCHANGED got

\* A process builds an abstract local socket address named nm.
BuildAbstract(nm) ==
    /\ phase = "idle"
    /\ kind' = "sockaddr"
    /\ name' = nm
    /\ rec' = NewAbstractFrom(nm)
    /\ phase' = IF NewAbstractFrom(nm).tag = "panic" THEN "panic" ELSE "built"
    /\ UNCHANGED got

Read ==
    /\ phase = "built"
    /\ phase' = "read"
    /\ got' = IF kind = "dirent" THEN ReadDirEntry(rec.val) ELSE ReadAbstract(rec.val)
    /\ UNCHANGED <<kind, name, rec>>

Next ==
    \/ \E nm \in Names : BuildDirEntry(nm) \/ BuildAbstract(nm)
    \/ Read

Spec == Init /\ [][Next]_vars

-----------------------------------------------------------------------------
(***************************************************************************)
(* Properties.                                                             *)
(***************************************************************************)

Arrays == [1..MAX_NAME_LENGTH -> Bytes \cup {0}]

TypeOK ==
    /\ phase \in {"idle", "built", "read", "panic"}
    /\ kind \in {"dirent", "sockaddr"}
    /\ name \in Names
    /\ rec \in {Panic}
          \cup {Built(e) : e \in [name_length : 0..MAX_NAME_LENGTH, name : Arrays]}
          \cup {Built(a) : a \in [sin_family : {FAMILY_LOCAL}, sin_name : Arrays,
                                  len : SocketAddrSize..(SocketAddrSize + MAX_NAME_LENGTH)]}
    /\ got \in Names

\* A name that fits the array is built without a panic and read back by the
\* other side exactly, from the length the record carries: DirEntry's
\* name_length, or the abstract address's structure length less the
\* sin_family header.
NameRoundTrip ==
    Len(name) <= MAX_NAME_LENGTH =>
        /\ phase # "panic"
        /\ phase = "read" => got = name

\* DirEntry::new never panics: a name longer than MAX_NAME_LENGTH is cut to
\* MAX_NAME_LENGTH bytes, as its `min` intends.
DirEntryTruncates ==
    kind = "dirent" =>
        /\ phase # "panic"
        /\ phase = "read" => got = SubSeq(name, 1, MinOf(Len(name), MAX_NAME_LENGTH))
=============================================================================
