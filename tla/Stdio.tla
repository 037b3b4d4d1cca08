-------------------------------- MODULE Stdio --------------------------------
(***************************************************************************)
(* process.rs ProcessStdio and ffi/option.rs COption<T>: the three stdio   *)
(* resource ids a parent hands a child, each a tagged optional             *)
(* (#[repr(C, u8)]: a tag byte, 0 = None, 1 = Some, then a usize payload). *)
(* A sender builds the record with ProcessStdio::new from Option<u32>s, or *)
(* a foreign sender writes any tag bytes and payloads; the receiver reads  *)
(* it back with into_rust, which casts each usize payload `as u32`.        *)
(* Reading a tag byte other than 0 or 1 as a COption is undefined          *)
(* behaviour; the model lets such a field read as either variant.          *)
(***************************************************************************)
EXTENDS Integers

CONSTANTS
    U32Mod,     \* 2^32, scaled down
    Ids,        \* the u32 resource ids a sender passes
    Payloads,   \* the usize payloads a foreign sender writes
    Tags        \* the tag bytes a foreign sender writes

ASSUME StdioAssumption ==
    /\ U32Mod \in Nat \ {0}
    /\ Ids \subseteq 0..(U32Mod - 1)
    /\ Payloads \subseteq Nat
    /\ Tags \subseteq 0..255

\* The tuple order of ProcessStdio::new's parameters and into_rust's result.
Fields == {"stdout", "stdin", "stderr"}

None == [some |-> FALSE, val |-> 0]
Some(x) == [some |-> TRUE, val |-> x]

\* Option<u32>.
OptIds == {None} \cup {Some(x) : x \in Ids}

\* COption<usize> in memory: the tag byte and the payload slot (unused, and
\* here 0, for None).
CNone == [tag |-> 0, val |-> 0]
CSome(x) == [tag |-> 1, val |-> x]

\* From<Option<T>> for COption<T>, after `.map(|u32| u32 as usize)`.
COptionFrom(o) == IF o.some THEN CSome(o.val) ELSE CNone

\* The variants a COption read can produce: its own for tags 0 and 1, either
\* one for any other byte (undefined behaviour).
COptionReads(c) ==
    IF c.tag = 0 THEN {None}
    ELSE IF c.tag = 1 THEN {Some(c.val)}
    ELSE {None, Some(c.val)}

\* Mutation: into_rust without the `as u32` casts.
AsU32Opt_nocast(o) == o

\* One arm of into_rust: `COption::Some(x) => Some(x as u32)`.
AsU32Opt(o) == IF o.some THEN Some(o.val % U32Mod) ELSE None

VARIABLES
    phase,    \* "idle", "onwire", "read"
    origin,   \* "none", "sender", "foreign"
    sent,     \* the Option<u32> per field the sender passed to new
    wire,     \* the COption<usize> per field in memory
    got,      \* the Option<u32> per field into_rust returned
    ub        \* whether into_rust read an invalid tag byte

vars == <<phase, origin, sent, wire, got, ub>>

Init ==
    /\ phase = "idle"
    /\ origin = "none"
    /\ sent = [f \in Fields |-> None]
    /\ wire = [f \in Fields |-> CNone]
    /\ got = [f \in Fields |-> None]
    /\ ub = FALSE

\* ProcessStdio::new(stdout, stdin, stderr).
New(o) ==
    /\ phase = "idle"
    /\ phase' = "onwire"
    /\ origin' = "sender"
    /\ sent' = o
    /\ wire' = [f \in Fields |-> COptionFrom(o[f])]
    /\ UNCHANGED <<got, ub>>

\* A foreign sender writes the record's bytes.
WriteForeign(w) ==
    /\ phase = "idle"
    /\ phase' = "onwire"
    /\ origin' = "foreign"
    /\ wire' = w
    /\ UNCHANGED <<sent, got, ub>>

\* Mutation: into_rust returns stdin in stdout's place and vice versa.
into_rust_swapped(r) ==
    [f \in Fields |-> CASE f = "stdout" -> AsU32Opt(r["stdin"])
                        [] f = "stdin" -> AsU32Opt(r["stdout"])
                        [] OTHER -> AsU32Opt(r[f])]

\* ProcessStdio::into_rust on the variants its three matches read.
into_rust(r) == [f \in Fields |-> AsU32Opt(r[f])]

\* The receiver calls into_rust on the record in memory.
IntoRust ==
    /\ phase = "onwire"
    /\ phase' = "read"
    /\ \E r \in [Fields -> UNION {COptionReads(wire[f]) : f \in Fields}] :
          /\ \A f \in Fields : r[f] \in COptionReads(wire[f])
          /\ got' = into_rust(r)
    /\ ub' = \E f \in Fields : wire[f].tag \notin {0, 1}
    /\ UNCHANGED <<origin, sent, wire>>

Next ==
    \/ \E o \in [Fields -> OptIds] : New(o)
    \/ \E w \in [Fields -> [tag : Tags, val : Payloads]] : WriteForeign(w)
    \/ IntoRust

Spec == Init /\ [][Next]_vars

-----------------------------------------------------------------------------
(***************************************************************************)
(* Properties.                                                             *)
(***************************************************************************)

TypeOK ==
    /\ phase \in {"idle", "onwire", "read"}
    /\ origin \in {"none", "sender", "foreign"}
    /\ sent \in [Fields -> OptIds]
    /\ wire \in [Fields -> [tag : 0..255, val : Nat]]
    /\ got \in [Fields -> {None} \cup {Some(x) : x \in 0..(U32Mod - 1)}]
    /\ ub \in BOOLEAN

\* A child reads back, field by field, exactly the stdio ids its parent
\* passed to ProcessStdio::new (u32 -> usize -> u32, in tuple order).
StdioRoundTrip ==
    (origin = "sender" /\ phase = "read") => got = sent

\* Whatever bytes the record holds, into_rust reads defined COptions.
StdioReadDefined == ~ub

\* A present id reads back as the payload written: the resource id the
\* receiver acts on is the one in memory, not a truncation of it.
StdioIdFaithful ==
    phase = "read" => \A f \in Fields : got[f].some => got[f].val = wire[f].val
=============================================================================
