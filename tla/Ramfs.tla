-------------------------------- MODULE Ramfs --------------------------------
(***************************************************************************)
(* fs/ramfs.c: parse walks the tar archive of the initial ramdisk and      *)
(* records a pointer to each header; readFile looks a name up in them, ls  *)
(* lists them.                                                             *)
(* The archive is external: for each member a header block and its         *)
(* contents, padded to whole blocks, then a block of zeros.  Addresses are *)
(* counted from the archive's start.                                       *)
(***************************************************************************)
EXTENDS Integers, Sequences, FiniteSets

CONSTANTS
    Block,        \* the size of a tar block, 512
    MaxHeaders,   \* the length of headers, 32
    Archives,     \* the archives: sequences of members
    Wanted        \* the names that are looked up

\* A name of non-zero characters and a size in octal digits.
Member == [name : Seq(1 .. 127) \ {<< >>}, size : Seq(0 .. 7)]

BlockAssumption    == Block \in Nat \ {0} /\ MaxHeaders \in Nat
ArchivesAssumption == \A a \in Archives : a \in Seq(Member) /\ Len(a) < MaxHeaders
WantedAssumption   == Wanted \subseteq Seq(1 .. 127)

VARIABLES
    archive,      \* the image of the initial ramdisk
    pc,           \* "parse", "ready", "readFile", "ls" or "wild"
    i,            \* the index of the loop that runs
    address,      \* parse's address
    headers,      \* headers[0 .. ], the entries written so far
    name,         \* readFile's argument
    found,        \* what it returned last, an address, or -1
    listed        \* history: the names ls has printed since it was called

vars == <<archive, pc, i, address, headers, name, found, listed>>

-----------------------------------------------------------------------------
(* The archive (external).                                                  *)

\* The number that digits are, by its first digits.
Octal(digits) ==
    LET value[k \in 0 .. Len(digits)] ==
            IF k = 0 THEN 0 ELSE 8 * value[k - 1] + digits[k]
    IN  value[Len(digits)]

Blocks(n) == (n + Block - 1) \div Block

\* Where member k's header is; the block of zeros is member Len + 1.
HeaderAt(a, k) ==
    LET at[j \in 1 .. (Len(a) + 1)] ==
            IF j = 1 THEN 0 ELSE at[j - 1] + Block * (1 + Blocks(Octal(a[j - 1].size)))
    IN  at[k]

Zeros == [name |-> << >>, size |-> << >>]

\* The archive in memory: address -> header, and data anywhere else.
ImageOf(a) ==
    LET Members == 1 .. (Len(a) + 1)
        MemberAt(x) == CHOOSE k \in Members : HeaderAt(a, k) = x
    IN  [x \in {HeaderAt(a, k) : k \in Members} |->
            IF MemberAt(x) <= Len(a) THEN a[MemberAt(x)] ELSE Zeros]

NameAt(x) == IF x \in DOMAIN archive THEN archive[x].name ELSE <<1>>
SizeAt(x) == IF x \in DOMAIN archive THEN archive[x].size ELSE << >>

-----------------------------------------------------------------------------
(* The code.                                                                *)

\* The digits from the last one up: size and count after turn t of the loop.
getsize(in) ==
    LET turn[t \in 0 .. Len(in)] ==
            IF t = 0 THEN [size |-> 0, count |-> 1]
            ELSE LET before == turn[t - 1]
                 IN  [size  |-> before.size + in[Len(in) + 1 - t] * before.count,
                      count |-> before.count * 8]
    IN  turn[Len(in)].size

CharAt(s, k) == IF k <= Len(s) THEN s[k] ELSE 0

\* Mutant of strcmp: true for the same strings, as its callers take it.
strcmp_Boolean(str1, str2) == IF str1 = str2 THEN 1 ELSE 0

\* The difference at the first place where they differ or str1 ends.
strcmp(str1, str2) ==
    LET Ends == {k \in 1 .. (Len(str1) + 1) :
                    CharAt(str1, k) # CharAt(str2, k) \/ CharAt(str1, k) = 0}
        k == CHOOSE k \in Ends : \A m \in Ends : k <= m
    IN  CharAt(str1, k) - CharAt(str2, k)

\* Mutant of Parse: a partial last block is not skipped.
Parse_WholeBlocks ==
    /\ pc = "parse"
    /\ IF i = MaxHeaders
         THEN pc' = "wild" /\ UNCHANGED <<i, address, headers>>
         ELSE /\ headers' = Append(headers, address)
              /\ IF NameAt(address) = << >>
                   THEN pc' = "ready" /\ UNCHANGED <<i, address>>
                   ELSE /\ address' = address
                                + ((getsize(SizeAt(address)) \div Block) + 1) * Block
                        /\ i' = i + 1 /\ UNCHANGED pc
    /\ UNCHANGED <<archive, name, found, listed>>

\* One turn of parse's loop: record the header, stop at an empty name.
Parse ==
    /\ pc = "parse"
    /\ IF i = MaxHeaders
         THEN pc' = "wild" /\ UNCHANGED <<i, address, headers>>
         ELSE LET size == getsize(SizeAt(address)) IN
              /\ headers' = Append(headers, address)
              /\ IF NameAt(address) = << >>
                   THEN pc' = "ready" /\ UNCHANGED <<i, address>>
                   ELSE /\ address' = address + ((size \div Block) + 1) * Block
                                + (IF size % Block # 0 THEN Block ELSE 0)
                        /\ i' = i + 1 /\ UNCHANGED pc
    /\ UNCHANGED <<archive, name, found, listed>>

\* readFile(n) is called.
ReadFile(n) ==
    /\ pc = "ready"
    /\ pc' = "readFile" /\ i' = 0 /\ name' = n
    /\ UNCHANGED <<archive, address, headers, found, listed>>

\* A turn of its loop.  The loop's own test compares addresses and always
\* holds, so the loop only ends where strcmp returns a difference.
TryHeader ==
    /\ pc = "readFile"
    /\ IF i >= Len(headers)
         THEN pc' = "wild" /\ UNCHANGED <<i, found>>
         ELSE IF strcmp(name, NameAt(headers[i + 1])) # 0
           THEN pc' = "ready" /\ found' = headers[i + 1] + Block /\ UNCHANGED i
           ELSE i' = i + 1 /\ UNCHANGED <<pc, found>>
    /\ UNCHANGED <<archive, address, headers, name, listed>>

\* str up to the first split, and what follows it.
strsplit(str, split) ==
    LET At == {k \in DOMAIN str : str[k] = split} \cup {Len(str) + 1}
        k  == CHOOSE k \in At : \A m \in At : k <= m
    IN  [a |-> SubSeq(str, 1, k - 1), b |-> SubSeq(str, k + 1, Len(str))]

Slash == 47

\* The second part of a member's path: archives are made of "./".
NameInPath(path) == strsplit(strsplit(path, Slash).b, Slash).a

\* ls is called.
Ls ==
    /\ pc = "ready"
    /\ pc' = "ls" /\ i' = 1 /\ listed' = << >>
    /\ UNCHANGED <<archive, address, headers, name, found>>

\* A turn of its loop.  Behind the first, the names it prints are those that
\* strcmp says are no different from the one before.
ListHeader ==
    /\ pc = "ls"
    /\ IF i >= Len(headers)
         THEN pc' = "wild" /\ UNCHANGED <<i, listed>>
         ELSE LET path    == NameAt(headers[i + 1])
                  oldPath == NameAt(headers[i])
              IN  IF path = << >>
                    THEN pc' = "ready" /\ UNCHANGED <<i, listed>>
                    ELSE /\ i' = i + 1 /\ UNCHANGED pc
                         /\ listed' =
                              IF i = 1 \/ strcmp(NameInPath(oldPath), NameInPath(path)) = 0
                                THEN Append(listed, NameInPath(path)) ELSE listed
    /\ UNCHANGED <<archive, address, headers, name, found>>

Start ==
    /\ pc = "parse" /\ i = 0 /\ address = 0
    /\ headers = << >>
    /\ name = << >> /\ found = -1 /\ listed = << >>

Init == (\E a \in Archives : archive = ImageOf(a)) /\ Start

Next ==
    \/ Parse \/ TryHeader \/ ListHeader
    \/ Ls \/ \E n \in Wanted : ReadFile(n)

\* The ramdisk by itself; in Boot, init calls parse.
Spec == Init /\ [][Next]_vars

-----------------------------------------------------------------------------
(* Properties.                                                              *)

\* Every variable has its type.
TypeOK ==
    /\ pc \in {"parse", "ready", "readFile", "ls", "wild"}
    /\ i \in 0 .. MaxHeaders /\ address \in Nat /\ found \in Nat \cup {-1}
    /\ Len(headers) <= MaxHeaders /\ \A j \in DOMAIN headers : headers[j] \in Nat
    /\ name \in Wanted \cup {<< >>} /\ Len(listed) <= MaxHeaders
    /\ \A j \in DOMAIN listed : \A k \in DOMAIN listed[j] : listed[j][k] \in Nat

\* Every entry of headers is the header of its member, contents of any size in
\* between, and once parse has returned the last is the end (ramfs.c:8-39).
HeadersAreMembers ==
    /\ \A j \in DOMAIN headers :
        /\ headers[j] \in DOMAIN archive
        /\ Cardinality({x \in DOMAIN archive : x < headers[j]}) = j - 1
    /\ pc \in {"ready", "readFile", "ls"} => Len(headers) = Cardinality(DOMAIN archive)

\* string.h:42: "@return true or false depending if the strings are the same".
\* strcmp is that to readFile, which takes the header it says true for.
StrcmpSaysSame ==
    [][(TryHeader /\ pc' = "ready") => NameAt(headers[i + 1]) = name]_vars
=============================================================================
