----------------------------- MODULE MCNBTCodec -----------------------------
EXTENDS NBTTruncation

(* Streams: every one of a few bytes behind a root, behind the type and the *)
(* size of a list and behind the size of a string, the sizes negative, too  *)
(* large or right; and streams without a root.                              *)
MCBytes == {0, 1, 8, 9, 10, 128}
UpTo(n) == UNION {[1..k -> MCBytes] : k \in 0..n}
Starts == {<<>>} \cup {<<10, h, 0>> : h \in {0, 128}}
Lists == {<<10, 0, 0, 9, 0, 0, t, h, 0, 0, n>> : t \in MCBytes, h \in {0, 128}, n \in 0..2}
Texts == {<<10, 0, 0, t, 0, 0, h, n>> : t \in {7, 8}, h \in {0, 128}, n \in 0..2}
MCStreams == {p \o q : p \in Starts, q \in UpTo(3)} \cup {p \o q : p \in Lists \cup Texts, q \in UpTo(2)}

(* Documents: numbers of one and of four bytes, a string, arrays of both    *)
(* widths, lists of scalars, lists and compounds, empty or not, and         *)
(* compounds, each in front of one of a few, of its name or of another.     *)
Leaf(t, bytes) == [type |-> t, bytes |-> bytes, of |-> UNKNOWN, items |-> <<>>, names |-> <<>>]
ListPayload(of, items) ==
  [type |-> LIST, bytes |-> <<>>, of |-> of, items |-> items, names |-> <<>>]
Map(names, items) ==
  [type |-> COMPOUND, bytes |-> <<>>, of |-> UNKNOWN, items |-> items, names |-> names]

x == <<120>>
y == <<121, 0>>
MCLeaves == {Leaf(1, <<200>>), Leaf(3, <<0, 0, 1, 2>>), Leaf(TEXT, <<97, 10>>),
             Leaf(7, <<1, 0>>), Leaf(11, <<0, 0, 0, 9>>)}
MCInner == {Map(<<>>, <<>>), Map(<<x>>, <<Leaf(2, <<1, 2>>)>>)}
MCLists == {ListPayload(of, <<>>) : of \in {UNKNOWN, END, 1}}
             \cup {ListPayload(1, <<Leaf(1, <<5>>), Leaf(1, <<0>>)>>)}
             \cup {ListPayload(COMPOUND, <<m, n>>) : m, n \in MCInner}
             \cup {ListPayload(LIST, <<ListPayload(1, <<Leaf(1, <<7>>)>>), ListPayload(END, <<>>)>>)}
MCSecond == {Leaf(TEXT, <<97, 10>>), Map(<<x>>, <<Leaf(2, <<1, 2>>)>>),
             ListPayload(1, <<Leaf(1, <<5>>), Leaf(1, <<0>>)>>)}
\* Strings about as long as a size can say.
Long(n) == [k \in 1..n |-> 97]
MCLong == {Map(<<x>>, <<Leaf(TEXT, Long(n))>>) : n \in {32767, 32768, 65535}}
            \cup {Map(<<Long(n)>>, <<Leaf(1, <<5>>)>>) : n \in {32767, 32768}}
            \cup {Map(<<x>>, <<ListPayload(TEXT, <<Leaf(TEXT, Long(32768))>>)>>)}
MCShort ==
  {Map(<<>>, <<>>)}
    \cup {Map(<<x, n>>, <<v, w>>) : n \in {x, y}, v \in MCLeaves \cup MCInner \cup MCLists, w \in MCSecond}
MCDocuments == MCShort \cup MCLong
MCRoot == <<114>>

ItemsOf(S) == UNION {Range(v.items) : v \in S}
MCPayloads ==
  LET inner == ItemsOf(MCDocuments)
  IN  MCDocuments \cup inner \cup ItemsOf(inner) \cup ItemsOf(ItemsOf(inner))
MCDepth[v \in MCPayloads] ==
  IF v.items = <<>> THEN 0 ELSE 1 + Max({MCDepth[w] : w \in Range(v.items)})
=============================================================================
