------------------------------- MODULE Lookup -------------------------------
(***************************************************************************)
(* The two lookup structures operators use: the radix tree of addresses    *)
(* and netblocks behind @ipMatch (msc_tree.c and the ip_tree functions of  *)
(* msc_util.c) and the phrase automaton behind @pm (acmp.c).               *)
(*                                                                         *)
(* An address is a sequence of Width bits (32 or 128 in the code; the      *)
(* loops over bytes only mask and compare bits).  A node is known by its   *)
(* place in tree.nodes, 0 is NULL.  Memory the code takes from a pool and  *)
(* reads before it writes it is given by the argument "garbage".           *)
(***************************************************************************)
EXTENDS Integers, Sequences, SequencesExt, FiniteSetsExt

CONSTANTS Width,     \* bits of an address
          Lower(_)   \* utf8_lcase: the lower case of a letter

NULL == 0
NoPrefix == [addr |-> <<>>, data |-> {}]

CPTCreateRadixTree == [head |-> NULL, nodes |-> <<>>, count |-> 0]

CPTCreateNode(prefix, bit, masks, parent, left, right) ==
    [prefix |-> prefix, bit |-> bit, netmasks |-> masks,
     parent |-> parent, left |-> left, right |-> right]

\* Mutant: one bit behind the netmask is kept.
KeepOneMore(addr, netmask) ==
    [k \in 1..Width |-> IF k <= netmask + 1 THEN addr[k] ELSE 0]

\* Clear the bits behind the netmask.
ConvertIPNetmask(addr, netmask) ==
    [k \in 1..Width |-> IF k <= netmask THEN addr[k] ELSE 0]

\* A prefix carries the netmask it was added with.
CPTCreatePrefix(addr, netmask) == [addr |-> addr, data |-> {netmask}]

\* Netmasks of a single address are not listed at a node.
CheckBitmask(netmask) == netmask = Width

CPTCreateHead(prefix, netmask) ==
    [head  |-> 1, count |-> 1,
     nodes |-> <<CPTCreateNode(prefix, Width,
                     IF CheckBitmask(netmask) THEN <<>> ELSE <<netmask>>,
                     NULL, NULL, NULL)>>]

\* The child on the side of bit number node.bit (counted from 0).
Side(t, n, addr) ==
    IF addr[t.nodes[n].bit + 1] = 1 THEN t.nodes[n].right ELSE t.nodes[n].left

RECURSIVE CPTRetriveNode(_, _, _)
CPTRetriveNode(t, addr, n) ==
    IF n = NULL \/ t.nodes[n].bit >= Width THEN n
    ELSE CPTRetriveNode(t, addr, Side(t, n, addr))

\* Going down to insert ends at the last node there is.
RECURSIVE BottomNode(_, _, _)
BottomNode(t, addr, n) ==
    IF t.nodes[n].bit >= Width \/ Side(t, n, addr) = NULL THEN n
    ELSE BottomNode(t, addr, Side(t, n, addr))

\* The number of leading bits in which two addresses agree.
TestBit(a, b) == Min({Width} \cup {k \in 0..(Width - 1) : a[k + 1] # b[k + 1]})

\* While the parent tests bit "bit" or a later one, go up.
RECURSIVE Climb(_, _, _)
Climb(t, n, bit) ==
    LET p == t.nodes[n].parent
    IN  IF p # NULL /\ bit <= t.nodes[p].bit THEN Climb(t, p, bit) ELSE n

\* The list of a node grows by one: the new block of memory is not filled
\* from the old one before the netmask is sorted into it.
PushNetmask(t, n, netmask, garbage) ==
    LET old  == [i \in 1..Len(t.nodes[n].netmasks) |-> garbage[i]]
        last == Max({0} \cup {i \in DOMAIN old : netmask < old[i]})
    IN  [t EXCEPT !.nodes[n].netmasks = InsertAt(old, last + 1, netmask)]

InsertNetmask(t, new, netmask, garbage) ==
    IF CheckBitmask(netmask) THEN t
    ELSE PushNetmask(t, Climb(t, new, netmask), netmask, garbage)

SetParentNode(t, n, new) ==
    LET p == t.nodes[n].parent
    IN  IF p = NULL THEN [t EXCEPT !.head = new, !.nodes[n].parent = new]
        ELSE IF t.nodes[p].right = n
        THEN [t EXCEPT !.nodes[p].right = new, !.nodes[n].parent = new]
        ELSE [t EXCEPT !.nodes[p].left = new, !.nodes[n].parent = new]

\* The address is there already: only the same netmask again is listed, a
\* different one is forgotten.
AddAgain(t, n, netmask, garbage) ==
    IF netmask \notin t.nodes[n].prefix.data \/ CheckBitmask(netmask) THEN t
    ELSE PushNetmask(t, Climb(t, n, netmask), netmask, garbage)

\* The netmasks of node n that stay below the new inner node: the ones
\* longer than test_bit.
KeptBelow(masks, test) ==
    LET i == Min({Len(masks) + 1} \cup {k \in DOMAIN masks : masks[k] < test + 1})
    IN  SubSeq(masks, 1, i - 1)

\* A new leaf beside node n, under an inner node that tests test_bit.
AddBeside(t, n, test, prefix, netmask, garbage) ==
    LET leaf  == Len(t.nodes) + 1
        inner == leaf + 1
        masks == t.nodes[n].netmasks
        kept  == KeptBelow(masks, test)
        moved == SubSeq(masks, Len(kept) + 1, Len(masks))
        right == prefix.addr[test + 1] = 1
        t1 == [t EXCEPT !.nodes = @ \o
                 <<CPTCreateNode(prefix, Width, <<>>, inner, NULL, NULL),
                   CPTCreateNode(NoPrefix, test, moved, t.nodes[n].parent,
                       IF right THEN n ELSE leaf, IF right THEN leaf ELSE n)>>,
                        !.nodes[n].netmasks = kept]
        t2 == SetParentNode(t1, n, inner)
    IN  InsertNetmask(t2, leaf, netmask, garbage)

CPTAddElement(t, addr0, netmask, garbage) ==
    LET addr   == ConvertIPNetmask(addr0, netmask)
        prefix == CPTCreatePrefix(addr, netmask)
        bottom == BottomNode(t, addr, t.head)
        test   == TestBit(addr, t.nodes[bottom].prefix.addr)
    IN  IF t.head = NULL THEN CPTCreateHead(prefix, netmask)
        ELSE IF test = Width THEN AddAgain(t, bottom, netmask, garbage)
        ELSE AddBeside(t, Climb(t, bottom, test), test, prefix, netmask, garbage)

TreePrefixNetmask(prefix, netmask) == netmask \in prefix.data

\* Only the first netmask of the list is applied: the index over the bytes
\* is not set back for the others.
MaskOnce(addr, masks) == IF masks = <<>> THEN addr ELSE ConvertIPNetmask(addr, masks[1])

RECURSIVE CPTRetriveParentNode(_, _)
CPTRetriveParentNode(t, n) ==
    IF n = NULL \/ t.nodes[n].netmasks # <<>> THEN n
    ELSE CPTRetriveParentNode(t, t.nodes[n].parent)

RECURSIVE CPTFindElementIPNetblock(_, _, _)
CPTFindElementIPNetblock(t, addr0, from) ==
    LET n == CPTRetriveParentNode(t, from)
    IN  /\ n # NULL
        /\ LET masks == t.nodes[n].netmasks
               addr  == MaskOnce(addr0, masks)
               found == CPTRetriveNode(t, addr, n)
           IN  \/ /\ t.nodes[found].prefix.addr = addr
                  /\ \E j \in DOMAIN masks : TreePrefixNetmask(t.nodes[found].prefix, masks[j])
               \/ CPTFindElementIPNetblock(t, addr, t.nodes[n].parent)

CPTFindElement(t, addr) ==
    /\ t.head # NULL
    /\ LET n == CPTRetriveNode(t, addr, t.head)
       IN  /\ n # NULL
           /\ \/ t.nodes[n].prefix.addr = addr /\ TreePrefixNetmask(t.nodes[n].prefix, Width)
              \/ CPTFindElementIPNetblock(t, addr, n)

CPTIpMatch(t, addr) == CPTFindElement(t, addr)

\* A list entry: an address with or without a netmask; Bad where the text
\* is not an address.
Bad == <<>>
is_netmask(entry) ==
    IF ~ entry.slash THEN Width
    ELSE IF entry.cidr \in 0..Width THEN entry.cidr ELSE 0

\* The address is cut before a shorter netmask only: "/32" itself stays in
\* the text and is refused.  NULL when the entry cannot be added.
Addable(entry) ==
    LET m == is_netmask(entry)
    IN  m # 0 /\ ~ (entry.slash /\ m = Width) /\ entry.addr # Bad

TreeAddIP(t, entry, garbage) ==
    LET grown == CPTAddElement(t, entry.addr, is_netmask(entry), garbage)
    IN  [grown EXCEPT !.count = t.count + 1]

\* Both trees of a rule; an entry with a colon goes to the second one.
TreeRoot(v4, v6, rc) == [ipv4_tree |-> v4, ipv6_tree |-> v6, rc |-> rc]
create_radix_tree == TreeRoot(CPTCreateRadixTree, CPTCreateRadixTree, 0)

AddEntry(root, entry, garbage) ==
    IF root.rc # 0 THEN root
    ELSE IF ~ Addable(entry) THEN [root EXCEPT !.rc = -1]
    ELSE IF entry.v6
    THEN [root EXCEPT !.ipv6_tree = TreeAddIP(@, entry, garbage)]
    ELSE [root EXCEPT !.ipv4_tree = TreeAddIP(@, entry, garbage)]

ip_tree_from_param(entries, garbage) ==
    FoldLeft(LAMBDA r, e : AddEntry(r, e, garbage), create_radix_tree, entries)

\* A line of a file is read up to the first byte an address cannot have;
\* lines that begin with one (comments) are passed over.
ip_tree_from_file(lines, garbage) ==
    FoldLeft(LAMBDA r, l : IF l.begins_bad THEN r ELSE AddEntry(r, l.entry, garbage),
             create_radix_tree, lines)

\* A line of a downloaded list that has such a byte refuses the list.
ip_tree_from_uri(download, lines, garbage) ==
    IF download # 0 THEN [create_radix_tree EXCEPT !.rc = download]
    ELSE FoldLeft(LAMBDA r, l :
            IF l.comment \/ r.rc # 0 THEN r
            ELSE IF l.begins_bad \/ l.ends_bad THEN [r EXCEPT !.rc = -1]
            ELSE AddEntry(r, l.entry, garbage),
            create_radix_tree, lines)

tree_contains_ip(root, value) ==
    IF value.addr = Bad THEN -1
    ELSE LET t == IF value.v6 THEN root.ipv6_tree ELSE root.ipv4_tree
         IN  IF CPTIpMatch(t, value.addr) THEN 1 ELSE 0

(***************************************************************************)
(* The phrase automaton.  A node of the trie is the sequence of letters    *)
(* that leads to it; letters are numbers, folded to lower case by Lower.   *)
(***************************************************************************)
Root == <<>>
Letters(phrase) == [i \in DOMAIN phrase |-> Lower(phrase[i])]

\* Phrases are added letter by letter; equal beginnings share nodes.
acmp_create == [nodes |-> {Root}, last |-> {}]
acmp_add_pattern(p, phrase) ==
    LET w == Letters(phrase)
    IN  [nodes |-> p.nodes \cup {SubSeq(w, 1, i) : i \in 1..Len(w)},
         last  |-> IF w = Root THEN p.last ELSE p.last \cup {w}]

acmp_child_for_code(p, node, letter) ==
    IF Append(node, letter) \in p.nodes THEN Append(node, letter) ELSE Root

\* A node fails to the child of its parent's fail node, or to the root: the
\* fail nodes further up are not tried.
RECURSIVE FailNode(_, _)
FailNode(p, node) ==
    IF Len(node) <= 1 THEN Root
    ELSE acmp_child_for_code(p, FailNode(p, Front(node)), Last(node))

acmp_connect_fail_branches(p) == [n \in p.nodes |-> FailNode(p, n)]

\* Whether a phrase ends at a fail node of the node.
RECURSIVE OtherMatch(_, _, _)
OtherMatch(p, fail, node) ==
    fail[node] # Root /\ (fail[node] \in p.last \/ OtherMatch(p, fail, fail[node]))

acmp_connect_other_matches(p, fail) == {n \in p.nodes : OtherMatch(p, fail, n)}

\* The children of a node as a binary tree over their sorted letters.
SortedChildren(p, node) ==
    LET S == {Last(m) : m \in {m \in p.nodes : Len(m) = Len(node) + 1 /\ Front(m) = node}}
    IN  [i \in 1..Cardinality(S) |->
            CHOOSE x \in S : Cardinality({y \in S : y < x}) = i - 1]

RECURSIVE BtreeFind(_, _, _, _, _)
BtreeFind(letters, pos, lb, rb, letter) ==
    \/ letters[pos + 1] = letter
    \/ /\ letters[pos + 1] > letter
       /\ pos - lb > 1
       /\ BtreeFind(letters, lb + (pos - lb) \div 2, lb, pos, letter)
    \/ /\ letters[pos + 1] < letter
       /\ rb - pos > 1
       /\ BtreeFind(letters, pos + (rb - pos) \div 2, pos, rb, letter)

acmp_goto(p, node, letter) ==
    LET letters == SortedChildren(p, node)
    IN  letters # <<>> /\ BtreeFind(letters, Len(letters) \div 2, -1, Len(letters), letter)

acmp_prepare(p) ==
    LET fail == acmp_connect_fail_branches(p)
    IN  [nodes |-> p.nodes, last |-> p.last, fail |-> fail,
         other |-> acmp_connect_other_matches(p, fail)]

\* Follow fail nodes until one has a child for the letter.
RECURSIVE Settle(_, _, _)
Settle(p, node, letter) ==
    IF acmp_goto(p, node, letter) THEN Append(node, letter)
    ELSE IF node = Root THEN Root
    ELSE Settle(p, p.fail[node], letter)

\* The scan stops at the first phrase; the text it reports is the node's.
RECURSIVE ProcessFrom(_, _, _)
ProcessFrom(p, node, data) ==
    IF data = <<>> THEN [found |-> FALSE, match |-> Root]
    ELSE LET n == Settle(p, node, Head(data))
         IN  IF n \in p.last \cup p.other THEN [found |-> TRUE, match |-> n]
             ELSE ProcessFrom(p, n, Tail(data))

acmp_process_quick(p, data) == ProcessFrom(p, Root, Letters(data))

=============================================================================
