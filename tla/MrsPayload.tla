------------------------------ MODULE MrsPayload ------------------------------
(***************************************************************************)
(* The payload of an MRS ruleset (encode in crates/easysub-core/src/mrs.rs)*)
(* before compression.  Domains become a trie, written level by level as a *)
(* bitmap of leaves, a bitmap of labels and the labels; networks become    *)
(* ranges of addresses.  Addresses have V6Bits bits, of which an IPv4      *)
(* address uses the lower V4Bits under the prefix MappedPrefix, and a word *)
(* of a bitmap has WordBits bits.                                          *)
(***************************************************************************)
EXTENDS Filters, SequencesExt, FiniteSets, FiniteSetsExt, Functions

CONSTANTS
    DomainLists,   \* lists of domains: sequences of characters
    NetworkLists,  \* lists of networks: records with valid, v4, address, length
    Order,         \* Order[c]: the byte of a character
    Lower,         \* Lower[c]: the character in lower case
    WordBits,      \* bits of a word of a bitmap, 64 in the code
    V4Bits,        \* bits of an IPv4 address, 32 in the code
    V6Bits,        \* bits of an IPv6 address, 128 in the code
    MappedPrefix   \* what an IPv4 address is preceded by as an IPv6 address

VARIABLES
    behavior,     \* "domain" or "ipcidr"
    rules,        \* the rules
    read,         \* rules read so far
    keys,         \* the reversed domains, in their order
    queue,        \* parts of the keys that share a prefix: first, last, column
    leaves, labelBitmap, labels, labelIndex, nodeIndex,
    v4, v6,       \* ranges, as pairs
    merged,       \* the ranges written so far of the current family
    payload,      \* the ranges that are written
    outcome       \* "reading", "building", "merging v4", "merging v6", "done", "error"

trie == <<keys, queue, leaves, labelBitmap, labels, labelIndex, nodeIndex>>
ranges == <<v4, v6, merged, payload>>
vars == <<behavior, rules, read, outcome, trie, ranges>>

Init ==
    /\ \/ behavior = "domain" /\ rules \in DomainLists
       \/ behavior = "ipcidr" /\ rules \in NetworkLists
    /\ read = 0
    /\ keys = <<>>
    /\ queue = <<>>
    /\ leaves = <<>> /\ labelBitmap = <<>> /\ labels = <<>>
    /\ labelIndex = 0 /\ nodeIndex = 0
    /\ v4 = <<>> /\ v6 = <<>> /\ merged = <<>> /\ payload = <<>>
    /\ outcome = IF rules = <<>> THEN "error" ELSE "reading"

-----------------------------------------------------------------------------
(* Domains *)

IsSuffixRule(domain) == Len(domain) >= 2 /\ domain[1] = "+" /\ domain[2] = "."

Blank == " "

\* str::trim: from the first character that is not blank to the last.
Trimmed(text) ==
    LET shown == {k \in DOMAIN text : text[k] # Blank}
    IN IF shown = {} THEN <<>> ELSE SubSeq(text, Min(shown), Max(shown))

Lowered(text) == [k \in DOMAIN text |-> Lower[text[k]]]

Normalized(domain) == Lowered(Trimmed(domain))

\* Byte strings in the order of a BTreeSet.
Agree(one, other, n) == \A k \in 1 .. n : one[k] = other[k]

Before(one, other) ==
    \/ Len(one) < Len(other) /\ Agree(one, other, Len(one))
    \/ \E k \in DOMAIN one \cap DOMAIN other :
          Agree(one, other, k - 1) /\ Order[one[k]] < Order[other[k]]

\* BTreeSet::insert: behind the last key that is smaller, if it is not there.
Inserted(list, key) ==
    LET place == Min({n \in 0 .. Len(list) : \A k \in n + 1 .. Len(list) : ~Before(list[k], key)})
    IN IF \E k \in DOMAIN list : list[k] = key THEN list
       ELSE [k \in 1 .. Len(list) + 1 |->
                IF k <= place THEN list[k] ELSE IF k = place + 1 THEN key ELSE list[k - 1]]

\* Mutation: a suffix is not a domain of its own.
WithoutApex(list, domain) == IF domain = <<>> THEN list ELSE Inserted(list, Reverse(domain))

\* The keys with those of a domain, which is reversed: a suffix stands for itself
\* and for what is below it.
WithDomain(list, domain) ==
    IF IsSuffixRule(domain)
    THEN IF Len(domain) = 2 THEN list
         ELSE Inserted(Inserted(list, Reverse(SubSeq(domain, 3, Len(domain)))), Reverse(domain))
    ELSE IF domain = <<>> THEN list ELSE Inserted(list, Reverse(domain))

ReadDomain ==
    /\ behavior = "domain" /\ outcome = "reading"
    /\ read < Len(rules)
    /\ keys' = WithDomain(keys, Normalized(rules[read + 1]))
    /\ read' = read + 1
    /\ UNCHANGED <<behavior, rules, outcome, queue, leaves, labelBitmap, labels, labelIndex,
                   nodeIndex>>
    /\ UNCHANGED ranges

\* build_succinct_set starts with all keys at column 0.
StartBuilding ==
    /\ behavior = "domain" /\ outcome = "reading"
    /\ read = Len(rules)
    /\ IF keys = <<>>
       THEN outcome' = "error" /\ UNCHANGED queue
       ELSE /\ outcome' = "building"
            /\ queue' = <<[first |-> 1, last |-> Len(keys), column |-> 0]>>
    /\ UNCHANGED <<behavior, rules, read, keys, leaves, labelBitmap, labels, labelIndex, nodeIndex>>
    /\ UNCHANGED ranges

\* set_bit: the bitmap grows by empty words up to the one of the bit.
SetBit(bitmap, index) ==
    LET word == index \div WordBits + 1 IN
    [w \in 1 .. (IF word > Len(bitmap) THEN word ELSE Len(bitmap)) |->
        (IF w \in DOMAIN bitmap THEN bitmap[w] ELSE {})
        \cup (IF w = word THEN {index % WordBits} ELSE {})]

\* The keys of a part that continue, cut where the next character changes.
Groups(part, first) ==
    LET cuts == {k \in first .. part.last :
                    k = first \/ keys[k][part.column + 1] # keys[k - 1][part.column + 1]}
        starts == Filter([k \in 1 .. part.last |-> k], cuts)
    IN [g \in DOMAIN starts |->
          [first |-> starts[g],
           last |-> IF g = Len(starts) THEN part.last ELSE starts[g + 1] - 1,
           column |-> part.column + 1]]

Visit ==
    /\ outcome = "building"
    /\ queue # <<>>
    /\ LET part == Head(queue)
           isLeaf == Len(keys[part.first]) = part.column
           groups == Groups(part, IF isLeaf THEN part.first + 1 ELSE part.first)
       IN /\ leaves' = IF isLeaf THEN SetBit(leaves, nodeIndex) ELSE leaves
          /\ queue' = Tail(queue) \o groups
          /\ labels' = labels \o [g \in DOMAIN groups |-> keys[groups[g].first][part.column + 1]]
          /\ labelBitmap' = SetBit(labelBitmap, labelIndex + Len(groups))
          /\ labelIndex' = labelIndex + Len(groups) + 1
          /\ nodeIndex' = nodeIndex + 1
    /\ UNCHANGED <<behavior, rules, read, outcome, keys>>
    /\ UNCHANGED ranges

Built ==
    /\ outcome = "building"
    /\ queue = <<>>
    /\ outcome' = "done"
    /\ UNCHANGED <<behavior, rules, read>>
    /\ UNCHANGED trie /\ UNCHANGED ranges

-----------------------------------------------------------------------------
(* Networks *)

\* 1 << bits
Shifted[bits \in 0 .. V6Bits] == IF bits = 0 THEN 1 ELSE 2 * Shifted[bits - 1]

MaxOf(bits) == Shifted[bits] - 1

\* Domains consist of characters, each a byte.  IPv4 addresses are part of the
\* IPv6 ones, and a network is of its family.
MrsAssumption ==
    /\ WordBits \in Nat \ {0}
    /\ Order \in [DOMAIN Order -> Nat]
    /\ Lower \in [DOMAIN Lower -> DOMAIN Order]
    /\ \A list \in DomainLists : list \in Seq(Seq(DOMAIN Lower))
    /\ V4Bits \in Nat /\ V6Bits \in Nat /\ V4Bits <= V6Bits
    /\ MappedPrefix \in 0 .. Shifted[V6Bits - V4Bits] - 1
    /\ \A list \in NetworkLists :
          /\ list \in Seq(ToSet(list))
          /\ \A k \in DOMAIN list :
                list[k].valid =>
                   LET bits == IF list[k].v4 THEN V4Bits ELSE V6Bits
                   IN /\ list[k].v4 \in BOOLEAN
                      /\ list[k].address \in 0 .. MaxOf(bits)
                      /\ list[k].length \in 0 .. bits

\* The network address, with the host bits set in the end.
RangeOf(network, bits) ==
    LET hosts == bits - network.length
        start == network.address - (network.address % Shifted[hosts])
    IN <<start, start + MaxOf(hosts)>>

ReadNetwork ==
    /\ behavior = "ipcidr" /\ outcome = "reading"
    /\ read < Len(rules)
    /\ LET network == rules[read + 1] IN
       IF ~network.valid
       THEN outcome' = "error" /\ UNCHANGED <<v4, v6, read>>
       ELSE /\ v4' = IF network.v4 THEN Append(v4, RangeOf(network, V4Bits)) ELSE v4
            /\ v6' = IF network.v4 THEN v6 ELSE Append(v6, RangeOf(network, V6Bits))
            /\ read' = read + 1
            /\ UNCHANGED outcome
    /\ UNCHANGED <<behavior, rules, merged, payload>>
    /\ UNCHANGED trie

RangeBefore(one, other) == one[1] < other[1] \/ (one[1] = other[1] /\ one[2] < other[2])

Arrangements(list) ==
    {[k \in DOMAIN list |-> list[place[k]]] : place \in Bijection(DOMAIN list, DOMAIN list)}

Ascending(list) == \A j, k \in DOMAIN list : j < k => ~RangeBefore(list[k], list[j])

Sorted(list) == CHOOSE arrangement \in Arrangements(list) : Ascending(arrangement)

\* merge_ranges sorts first.
StartMerging ==
    /\ behavior = "ipcidr" /\ outcome = "reading"
    /\ read = Len(rules)
    /\ v4' = Sorted(v4)
    /\ v6' = Sorted(v6)
    /\ outcome' = "merging v4"
    /\ UNCHANGED <<behavior, rules, read, merged, payload>>
    /\ UNCHANGED trie

\* Mutation: the end of the later range counts, also when it lies inside.
MergeIntoLater(list, range, bits) ==
    IF list # <<>> /\ range[1] <= Last(list)[2] + 1
    THEN Front(list) \o <<<<Last(list)[1], range[2]>>>>
    ELSE Append(list, range)

\* A range that touches the last one makes it longer; the last address of the
\* space has no successor to be adjacent to.
Merge(list, range, bits) ==
    LET adjacent == Last(list)[2] < MaxOf(bits) /\ range[1] <= Last(list)[2] + 1
    IN IF list # <<>> /\ (range[1] <= Last(list)[2] \/ adjacent)
       THEN Front(list) \o <<<<Last(list)[1], Max({Last(list)[2], range[2]})>>>>
       ELSE Append(list, range)

MergeV4 ==
    /\ outcome = "merging v4"
    /\ v4 # <<>>
    /\ v4' = Tail(v4)
    /\ merged' = Merge(merged, Head(v4), V4Bits)
    /\ UNCHANGED <<behavior, rules, read, outcome, v6, payload>>
    /\ UNCHANGED trie

\* An IPv4 address as an IPv6 one.
Mapped(address) == MappedPrefix * Shifted[V4Bits] + address

WriteV4 ==
    /\ outcome = "merging v4"
    /\ v4 = <<>>
    /\ payload' = [k \in DOMAIN merged |-> <<Mapped(merged[k][1]), Mapped(merged[k][2])>>]
    /\ merged' = <<>>
    /\ outcome' = "merging v6"
    /\ UNCHANGED <<behavior, rules, read, v4, v6>>
    /\ UNCHANGED trie

MergeV6 ==
    /\ outcome = "merging v6"
    /\ v6 # <<>>
    /\ v6' = Tail(v6)
    /\ merged' = Merge(merged, Head(v6), V6Bits)
    /\ UNCHANGED <<behavior, rules, read, outcome, v4, payload>>
    /\ UNCHANGED trie

WriteV6 ==
    /\ outcome = "merging v6"
    /\ v6 = <<>>
    /\ payload' = payload \o merged
    /\ outcome' = "done"
    /\ UNCHANGED <<behavior, rules, read, v4, v6, merged>>
    /\ UNCHANGED trie

Next ==
    \/ ReadDomain \/ StartBuilding \/ Visit \/ Built
    \/ ReadNetwork \/ StartMerging \/ MergeV4 \/ WriteV4 \/ MergeV6 \/ WriteV6

Spec == Init /\ [][Next]_vars

-----------------------------------------------------------------------------
(* Properties *)

\* How a reader finds its way: the labels of a node are the zeros between two
\* ones of the label bitmap, and the n-th label leads to node n.
IsSet(bitmap, index) ==
    index \div WordBits + 1 \in DOMAIN bitmap
    /\ index % WordBits \in bitmap[index \div WordBits + 1]

OnesBelow(bitmap, index) == Cardinality({j \in 0 .. index - 1 : IsSet(bitmap, j)})

PositionOf(node) ==
    CHOOSE i \in 0 .. labelIndex :
        ~IsSet(labelBitmap, i) /\ i - OnesBelow(labelBitmap, i) = node - 1

TextOf[node \in 0 .. nodeIndex - 1] ==
    IF node = 0 THEN <<>>
    ELSE Append(TextOf[OnesBelow(labelBitmap, PositionOf(node))], labels[node])

ReadBack == {TextOf[node] : node \in {n \in 0 .. nodeIndex - 1 : IsSet(leaves, n)}}

\* What a domain says, without its case and the blanks around it.
Says(domain) ==
    LET text == Lowered(Trimmed(domain))
        apex == SubSeq(text, 3, Len(text))
    IN IF Len(text) >= 2 /\ text[1] = "+" /\ text[2] = "."
       THEN IF apex = <<>> THEN {} ELSE {text, apex}
       ELSE {text} \ {<<>>}

\* Whoever reads the trie level by level finds exactly the domains of the
\* rules, each suffix with the domain it is about (build_succinct_set).
TrieReadsBack ==
    behavior = "domain" /\ outcome = "done" =>
        {Reverse(text) : text \in ReadBack} = UNION {Says(rules[k]) : k \in DOMAIN rules}

Covers(pairs, address) == \E k \in DOMAIN pairs : pairs[k][1] <= address /\ address <= pairs[k][2]

InNetwork(network, address) ==
    IF network.v4
    THEN /\ address \div Shifted[V4Bits] = MappedPrefix
         /\ (address % Shifted[V4Bits]) \div Shifted[V4Bits - network.length]
              = network.address \div Shifted[V4Bits - network.length]
    ELSE address \div Shifted[V6Bits - network.length]
           = network.address \div Shifted[V6Bits - network.length]

\* The ranges written are the addresses of the networks and no others, up to
\* the last address there is; those of either family, the IPv4 ones first, are in
\* ascending order with a gap after each (write_ipcidr_payload, merge_ranges).
RangesCoverNetworks ==
    behavior = "ipcidr" /\ outcome = "done" =>
        /\ \A address \in 0 .. MaxOf(V6Bits) :
              Covers(payload, address) <=> \E k \in DOMAIN rules : InNetwork(rules[k], address)
        /\ \A k \in 1 .. Len(merged) - 1 : merged[k][2] + 1 < merged[k + 1][1]
        /\ \A k \in 1 .. Len(payload) - Len(merged) - 1 : payload[k][2] + 1 < payload[k + 1][1]

=============================================================================
