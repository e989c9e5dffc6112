------------------------------ MODULE VmePath ------------------------------
(***************************************************************************)
(* The paths of the memory explorer: the validation of a path, the walk    *)
(* from table to table and the virtual addresses of the entries            *)
(* (kernel/src/vmexplorer.c), the dump of a table in several messages      *)
(* (nl_vmexplorer.c), and what the bridge makes of them: an entry's index  *)
(* is its place in the answer. The links are in WebClient.                 *)
(*                                                                         *)
(* A path is the sequence l4, l3, l2, l1. The explored process changes its *)
(* tables meanwhile: what an entry is, is chosen anew at each read. The    *)
(* widths are constants: 9, 12 and 64 in the kernel.                       *)
(***************************************************************************)
EXTENDS Integers, Sequences

CONSTANTS
    NumEntries,  \* GB_VME_NUM_ENTRIES
    PerMessage,  \* entries that fit into a netlink message
    IndexBits,   \* an index of a table
    PageBits,    \* an offset in a page
    WordBits     \* a u64

ASSUME BitsAssumption ==
    /\ IndexBits \in Nat \ {0} /\ PageBits \in Nat /\ WordBits \in Nat
    /\ 4 * IndexBits + PageBits < WordBits
\* The BUILD_BUG_ONs of gb_vme_sanity_check().
ASSUME NumEntriesAssumption == NumEntries \in Nat \ {0} /\ NumEntries = 2 ^ IndexBits
ASSUME PerMessageAssumption == PerMessage \in Nat \ {0}

VARIABLES
    path,     \* the gb_vme_path asked for
    level,    \* the table the walk is at: 1 for l4, 4 for l1
    status,   \* how far the request is
    entries,  \* vme->entries
    index,    \* ctx->index of the dump
    received  \* the entries that the bridge has appended so far

dumpVars == <<entries, index, received>>
vars == <<path, level, status, dumpVars>>

Index == 0 .. NumEntries - 1
Unspec == -1
Level == 1 .. 4
Word == 2 ^ WordBits
\* Inputs of the model: what one index may be in a request.
Typed == -2 .. NumEntries

----------------------------------------------------------------------------
\* Mutant of ValidPath: "> GB_VME_NUM_ENTRIES" in place of ">=".
ValidPathOffByOne(p) ==
    IF p[1] = Unspec THEN p[2] = Unspec /\ p[3] = Unspec /\ p[4] = Unspec
    ELSE /\ p[1] \in 0 .. NumEntries
         /\ IF p[2] = Unspec THEN p[3] = Unspec /\ p[4] = Unspec
            ELSE /\ p[2] \in Index
                 /\ IF p[3] = Unspec THEN p[4] = Unspec
                    ELSE p[3] \in Index /\ (p[4] = Unspec \/ p[4] \in Index)

\* _gb_vme_validate_path()
ValidPath(p) ==
    IF p[1] = Unspec THEN p[2] = Unspec /\ p[3] = Unspec /\ p[4] = Unspec
    ELSE /\ p[1] \in Index
         /\ IF p[2] = Unspec THEN p[3] = Unspec /\ p[4] = Unspec
            ELSE /\ p[2] \in Index
                 /\ IF p[3] = Unspec THEN p[4] = Unspec
                    ELSE p[3] \in Index /\ (p[4] = Unspec \/ p[4] \in Index)

\* PGDIR_SHIFT, PUD_SHIFT, PMD_SHIFT and PAGE_SHIFT; the size of an entry's region.
Shift(k) == PageBits + (4 - k) * IndexBits
Size(k) == 2 ^ Shift(k)

AddressSpace == 2 ^ (4 * IndexBits + PageBits)

\* What 2 ^ n makes of the sums in the exponents. It follows from the assumptions above,
\* but the provers do not know of powers.
ASSUME PowersAssumption ==
    /\ Size(4) \in Nat \ {0}
    /\ \A k \in 1 .. 3 : Size(k) = NumEntries * Size(k + 1)
    /\ AddressSpace = NumEntries * Size(1)
    /\ NumEntries % 2 = 0
    /\ \E n \in 2 .. Word : Word = n * AddressSpace

\* Mutant of UserVA: no sign extension.
UserVAUnsigned(p) ==
    LET part(k) == IF p[k] = Unspec THEN 0 ELSE p[k] * Size(k)
    IN  part(1) + part(2) + part(3) + part(4)

\* _gb_vme_path_to_user_va(): the indices do not overlap, so that + is the | of the
\* code; the bits above the address space repeat its highest one.
UserVA(p) ==
    LET part(k) == IF p[k] = Unspec THEN 0 ELSE p[k] * Size(k)
        va == part(1) + part(2) + part(3) + part(4)
    IN  IF va >= AddressSpace \div 2 THEN va + Word - AddressSpace ELSE va

\* What _gb_vme_fill_l4() to _gb_vme_fill_l1() put into entry i, unless it is none.
FilledEntry(i) ==
    [none |-> FALSE, va |-> UserVA([path EXCEPT ![level] = i]), size |-> Size(level)]

\* The result was zeroed when it was allocated.
NoneEntry == [none |-> TRUE, va |-> 0, size |-> 0]

----------------------------------------------------------------------------
Init ==
    /\ path \in [Level -> Typed]
    /\ level = 1
    /\ status = "asked"
    /\ entries = [i \in Index |-> NoneEntry]
    /\ index = 0
    /\ received = <<>>

\* -EINVAL
Reject ==
    /\ status = "asked"
    /\ ~ValidPath(path)
    /\ status' = "invalid"
    /\ UNCHANGED <<path, level, dumpVars>>

Accept ==
    /\ status = "asked"
    /\ ValidPath(path)
    /\ status' = "walking"
    /\ UNCHANGED <<path, level, dumpVars>>

\* The entry is read and leads to a table.
Descend ==
    /\ status = "walking"
    /\ level < 4
    /\ path[level] # Unspec
    /\ IF path[level] \in Index
       THEN level' = level + 1 /\ UNCHANGED status
       ELSE status' = "wild" /\ UNCHANGED level
    /\ UNCHANGED <<path, dumpVars>>

\* -EFAULT: the entry is none, a leaf or not present.
Fault ==
    /\ status = "walking"
    /\ level < 4
    /\ path[level] \in Index
    /\ status' = "fault"
    /\ UNCHANGED <<path, level, dumpVars>>

\* The entries of the table reached are read one by one, some of them none.
Fill ==
    /\ status = "walking"
    /\ path[level] = Unspec
    /\ \E holes \in SUBSET Index :
         entries' = [i \in Index |-> IF i \in holes THEN NoneEntry ELSE FilledEntry(i)]
    /\ status' = "filled"
    /\ UNCHANGED <<path, level, index, received>>

\* -ENOTSUPP: the contents of a page.
TooDeep ==
    /\ status = "walking"
    /\ level = 4
    /\ path[level] # Unspec
    /\ status' = "too_deep"
    /\ UNCHANGED <<path, level, dumpVars>>

End == IF index + PerMessage <= NumEntries THEN index + PerMessage ELSE NumEntries

Message == [k \in 1 .. End - index |-> entries[index + k - 1]]

\* Mutant of Dump: the entry that did not fit is counted.
DumpSkipsUnfit ==
    /\ status = "filled"
    /\ index < NumEntries
    /\ received' = received \o Message
    /\ index' = IF End < NumEntries THEN End + 1 ELSE End
    /\ UNCHANGED <<path, level, status, entries>>

\* One message: entries until one does not fit.
Dump ==
    /\ status = "filled"
    /\ index < NumEntries
    /\ received' = received \o Message
    /\ index' = End
    /\ UNCHANGED <<path, level, status, entries>>

\* An empty message ends the dump, and the table is freed (entries keeps a copy for the
\* properties). Explore() has the whole answer.
Explored ==
    /\ status = "filled"
    /\ index = NumEntries
    /\ status' = "answered"
    /\ UNCHANGED <<path, level, dumpVars>>

\* Execute() fails on the way: no entry is handed on.
DumpFails ==
    /\ status = "filled"
    /\ status' = "failed"
    /\ received' = <<>>
    /\ UNCHANGED <<path, level, entries, index>>

\* What Explore() hands on with index i.
Shown(i) == received[i + 1]

\* UserVAEnd as ToWebsocketVMEntry() adds it.
UserVAEnd(entry) == (entry.va + entry.size) % Word

Next ==
    \/ Reject \/ Accept \/ Descend \/ Fault \/ Fill \/ TooDeep
    \/ Dump \/ Explored \/ DumpFails

Spec == Init /\ [][Next]_vars

----------------------------------------------------------------------------
(* Properties.                                                             *)

\* No path gets past the validation with which __gb_vme_fill() would read an entry
\* outside of a table.
NoWildRead == status # "wild"

\* The processor's translation of address a: the index at level k.
HardwareIndex(a, k) == (a \div Size(k)) % NumEntries

\* The canonical addresses: the lower and the upper half.
Canonical ==
    (0 .. AddressSpace \div 2 - 1) \cup (Word - AddressSpace \div 2 .. Word - 1)

\* The client is shown an entry with the index that is its place in the answer, put
\* together from several messages. Its region, from user_va up to the end that the
\* bridge adds, is the set of the addresses that the processor translates by
\* the entry of that index: in both halves of the address space, and for the last
\* entry, whose end is 0.
RegionsMatchHardware ==
    status = "answered" =>
        \A i \in Index :
            LET p == [path EXCEPT ![level] = i]
                entry == Shown(i)
                region == {a \in Canonical :
                             \A k \in 1 .. level : HardwareIndex(a, k) = p[k]}
            IN  ~entry.none => region = entry.va .. (UserVAEnd(entry) - 1) % Word

\* The answer is the whole table, each entry once and at its index: none is lost or
\* sent twice where a message was full.
EntriesInPlace ==
    status = "answered" =>
        /\ Len(received) = NumEntries
        /\ \A i \in Index : Shown(i) = entries[i]
=============================================================================
