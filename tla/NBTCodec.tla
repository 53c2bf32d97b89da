------------------------------- MODULE NBTCodec -------------------------------
(***************************************************************************)
(* NBT::parse on any stream, and on files written by an NBT writer, this   *)
(* program's serializers among them, whole or cut short.                   *)
(***************************************************************************)
EXTENDS NBTParser

\* A document is a payload whose compounds still have the order, and maybe
\* the repetitions, in which a writer wrote them: [type, bytes, of, items,
\* names], items being the payloads of a list or of the names of a compound.
CONSTANTS Payloads,   \* documents and everything in them
          Documents,  \* compounds
          Root,       \* the name of the root
          Depth,      \* how deep payloads nest
          Torn        \* the documents whose streams may be cut short

\* Strings of any size; arrays and lists as long as an Int can say.
MaxInt == 2147483647
Sound(v) ==
  /\ v.type \in Scalars \cup {LIST, COMPOUND}
  /\ v.type \in Scalars => v.bytes \in Seq(Byte) /\ v.items = <<>>
  /\ v.type \in Numbers => Len(v.bytes) = Width[v.type]
  /\ v.type \in Arrays =>
       \E n \in 0..MaxArray : n <= MaxInt /\ Len(v.bytes) = n * ElementWidth[v.type]
  /\ v.items \in Seq(Payloads)
  /\ v.type = LIST =>
       /\ v.of \in Int /\ Len(v.items) <= MaxInt
       /\ \A i \in DOMAIN v.items : v.items[i].type = v.of
  /\ v.type = COMPOUND => v.names \in Seq(Seq(Byte)) /\ Len(v.names) = Len(v.items)
ASSUME PayloadsAssumption == \A v \in Payloads : Sound(v)
ASSUME DocumentsAssumption ==
  Documents \subseteq {v \in Payloads : v.type = COMPOUND} /\ Root \in Seq(Byte)
ASSUME DepthAssumption ==
  /\ Depth \in [Payloads -> Nat]
  /\ \A v \in Payloads : \A i \in DOMAIN v.items : Depth[v.items[i]] < Depth[v]

\* Sizes, on two bytes, of a number that may have more, and on four.
Size16(n) == <<(n \div 256) % 256, n % 256>>
Size32(n) == <<n \div 16777216, (n \div 65536) % 256>> \o Size16(n)

serializeStringMutant(s) == <<Len(s)>> \o s             \* a one-byte size
serializeString(s) == Size16(Len(s)) \o s

\* serializeArray: the number of elements, not of bytes.
serializeArray(t, bytes) == Size32(Len(bytes) \div ElementWidth[t]) \o bytes

\* A tag with its name, NBTNamedTag::Serialize, and without, NBTUnnamedTag::
\* Serialize, given what its items are written as.  The type of a list without
\* one is a char like others.
Named(v, name, payload) == <<v.type>> \o serializeString(name) \o payload
Unnamed(v, parts) ==
  IF v.type \in Numbers THEN v.bytes
  ELSE IF v.type = TEXT THEN serializeString(v.bytes)
  ELSE IF v.type \in Arrays THEN serializeArray(v.type, v.bytes)
  ELSE IF v.type = LIST
    THEN <<v.of % 256>> \o Size32(Len(v.items)) \o FlattenSeq(parts)
  ELSE FlattenSeq([i \in DOMAIN v.items |-> Named(v.items[i], v.names[i], parts[i])]) \o <<END>>

Payload[v \in Payloads] == Unnamed(v, [i \in DOMAIN v.items |-> Payload[v.items[i]]])

Serialize(v) == Named(v, Root, Payload[v])

-----------------------------------------------------------------------------
\* What a document says, given what its items say: a list without elements has
\* no type, the first of the tags of one name is the one that counts.
First(names, n) == CHOOSE i \in DOMAIN names : names[i] = n /\ \A j \in 1..(i - 1) : names[j] # n
Says(v, parts) ==
  IF v.type = LIST THEN ListOf(IF v.items = <<>> THEN UNKNOWN ELSE v.of, parts)
  ELSE IF v.type = COMPOUND
    THEN CompoundOf([n \in Range(v.names) |-> parts[First(v.names, n)]])
  ELSE Scalar(v.type, v.bytes)

Meaning[v \in Payloads] == Says(v, [i \in DOMAIN v.items |-> Meaning[v.items[i]]])

VARIABLE doc   \* the document the stream was cut from, or NoDocument
NoDocument == [type |-> UNKNOWN]

codecVars == <<doc, vars>>

CodecInit ==
  /\ \/ doc = NoDocument /\ data \in Streams
     \/ /\ doc \in Documents
        /\ LET written == Serialize(doc)
           IN  \E cut \in IF doc \in Torn THEN 0..Len(written) ELSE {Len(written)} :
               data = SubSeq(written, 1, cut)
  /\ Start

CodecNext == Next /\ UNCHANGED doc

\* One thread parses, and nothing in it waits.
CodecSpec == CodecInit /\ [][CodecNext]_codecVars /\ WF_codecVars(CodecNext)

Whole == doc # NoDocument /\ Len(data) = Len(Serialize(doc))

\* How long the strings of a document are, names among them, given how long
\* those of its items are.
Lengths(v, parts) ==
  (UNION Range(parts))
    \cup (IF v.type = TEXT THEN {Len(v.bytes)}
          ELSE IF v.type = COMPOUND THEN {Len(name) : name \in Range(v.names)}
          ELSE {})
Strings[v \in Payloads] == Lengths(v, [i \in DOMAIN v.items |-> Strings[v.items[i]]])

\* A size is written as an unsigned and read as a signed number of two bytes.
MaxShort == 32767
MaxUnsignedShort == 65535
AtMost(n) == \A length \in {Len(Root)} \cup Strings[doc] : length <= n

\* What is written comes back if a Short can say how long each of its strings
\* is: nothing is rejected, no byte is left, and the tree is the document's.
\* With a longer string that the writer still announces, it is rejected.
RoundTrip ==
  pc \in {"done", "threw"} /\ Whole /\ AtMost(MaxUnsignedShort) =>
    IF AtMost(MaxShort) THEN pc = "done" /\ stream = Len(data) /\ result = Meaning[doc]
                        ELSE pc = "threw"
=============================================================================
