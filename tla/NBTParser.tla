------------------------------ MODULE NBTParser ------------------------------
(***************************************************************************)
(* NBT::parse: a tree read from a binary stream that may end anywhere.     *)
(* parseCompound and parseList call each other; their activations are the  *)
(* stack here, and a step is an iteration of the loop of the topmost one.  *)
(* A number is known by its bytes, most significant first.                 *)
(***************************************************************************)
EXTENDS Integers, Sequences, SequencesExt

CONSTANTS Streams,     \* what may be parsed: sequences of bytes
          MaxArray     \* elements of an array that memory has room for

Byte == 0..255
ASSUME StreamsAssumption == Streams \subseteq Seq(Byte)
ASSUME MaxArrayAssumption == MaxArray \in Nat

\* TagType
UNKNOWN == -2
END == 0
TEXT == 8            \* STRING
LIST == 9
COMPOUND == 10
Width == <<1, 2, 4, 8, 4, 8>>                           \* BYTE .. DOUBLE
ElementWidth == [t \in {7, 11, 12} |-> IF t = 7 THEN 1 ELSE IF t = 11 THEN 4 ELSE 8]
Numbers == 1..6
Arrays == DOMAIN ElementWidth
Scalars == Numbers \cup Arrays \cup {TEXT}

\* Payloads, and the compound being filled.
NoNames == [name \in {} |-> name]
Scalar(t, bytes) == [type |-> t, bytes |-> bytes, of |-> UNKNOWN, items |-> <<>>, tree |-> NoNames]
ListOf(t, items) == [type |-> LIST, bytes |-> <<>>, of |-> t, items |-> items, tree |-> NoNames]
CompoundOf(tree) == [type |-> COMPOUND, bytes |-> <<>>, of |-> UNKNOWN, items |-> <<>>, tree |-> tree]

VARIABLES
  data,      \* the bytes of the stream
  stream,    \* how many of them were asked for: good() while there were as many
  stack,     \* the running activations: [type, name, of, size, items, tree]
  result,    \* what parse returned
  pc         \* "root", "parsing", "done", "threw"

vars == <<data, stream, stack, result, pc>>

-----------------------------------------------------------------------------
(* Reads, n bytes at s of the stream d.  On a good stream read(p, n) takes *)
(* what is there; on one that is not good nothing, and what was at p stays. *)
GoodMutant(d, s) == TRUE                                \* while(true)
Good(d, s) == s <= Len(d)
Filled(d, s, n, pad) == [k \in 1..n |-> IF s + k <= Len(d) THEN d[s + k] ELSE pad]

\* The char read is UNKNOWN if it is not, and if it is negative.
parseTagType(d, s) ==
  IF s < Len(d) /\ d[s + 1] < 128 THEN d[s + 1] ELSE UNKNOWN

\* Short and Int, as the numbers they are: what is missing of one counts as zero.
Signed(b) == IF b < 128 THEN b ELSE b - 256
parseShort(d, s) ==
  LET b == Filled(d, s, 2, 0) IN 256 * Signed(b[1]) + b[2]
parseInt(d, s) ==
  LET b == Filled(d, s, 4, 0)
  IN  16777216 * Signed(b[1]) + 65536 * b[2] + 256 * b[3] + b[4]

\* A read is what it yields: the bytes, where the next one is, and whether it
\* returned; a negative size makes std::string and reserve throw.
Yields(d, s, n, pad) == [ok |-> TRUE, bytes |-> Filled(d, s, n, pad), after |-> s + n]
Throws(s) == [ok |-> FALSE, bytes |-> <<>>, after |-> s]

parseStringMutant(d, s) == Yields(d, s + 2, parseShort(d, s), 32)   \* no check
parseString(d, s) ==
  LET size == parseShort(d, s)
  IN  IF size < 0 THEN Throws(s) ELSE Yields(d, s + 2, size, 32)

parseArray(d, s, width) ==
  LET size == parseInt(d, s)
  IN  IF size \notin 0..MaxArray THEN Throws(s)
      ELSE Yields(d, s + 4, size * width, 0)

parseScalar(d, s, t) ==
  IF t \in Numbers THEN Yields(d, s, Width[t], 0)
  ELSE IF t = TEXT THEN parseString(d, s)
  ELSE parseArray(d, s, ElementWidth[t])

-----------------------------------------------------------------------------
(* Activations.                                                            *)
InCompound(name) ==
  [type |-> COMPOUND, name |-> name, of |-> UNKNOWN, size |-> 0, items |-> <<>>, tree |-> NoNames]
InList(name, of, size) ==
  [type |-> LIST, name |-> name, of |-> of, size |-> size, items |-> <<>>, tree |-> NoNames]

Top == Last(stack)

\* The value of a list that got no element never learnt its type.
Value(frame) ==
  IF frame.type = COMPOUND THEN CompoundOf(frame.tree)
  ELSE ListOf(IF frame.items = <<>> THEN UNKNOWN ELSE frame.of, frame.items)

\* obj.Insert(name, value): a name that is taken keeps its tag.
StoredLastMutant(tree, name, v) ==                      \* insert_or_assign
  [n \in DOMAIN tree \cup {name} |-> IF n = name THEN v ELSE tree[n]]
Stored(tree, name, v) ==
  [n \in DOMAIN tree \cup {name} |-> IF n \in DOMAIN tree THEN tree[n] ELSE v]
Added(frame, name, v) ==
  IF frame.type = COMPOUND THEN [frame EXCEPT !.tree = Stored(@, name, v)]
  ELSE [frame EXCEPT !.items = Append(@, v)]

\* What an iteration finds before the switch: the type and the name of the
\* next tag, which in a list are known.
Header ==
  IF Top.type = LIST
    THEN [type |-> Top.of, ok |-> TRUE, bytes |-> <<>>, after |-> stream]
  ELSE LET name == parseString(data, stream + 1)
       IN  [type |-> parseTagType(data, stream),
            ok |-> name.ok, bytes |-> name.bytes, after |-> name.after]

\* The loop is left: the stream has failed, or the end is reached.
CompleteMutant(frame) == Len(frame.items) > frame.size  \* count > size
Complete(frame) == Len(frame.items) >= frame.size
AtEnd ==
  \/ ~Good(data, stream)
  \/ Top.type = COMPOUND /\ parseTagType(data, stream) = END
  \/ Top.type = LIST /\ (Top.of = END \/ Complete(Top))

Continues == pc = "parsing" /\ ~AtEnd /\ Header.ok

-----------------------------------------------------------------------------
Start ==
  /\ stream = 0
  /\ stack = <<>>
  /\ result = CompoundOf(NoNames)
  /\ pc = "root"

Init == data \in Streams /\ Start

parse ==
  /\ pc = "root"
  /\ LET name == parseString(data, stream + 1)
     IN  IF parseTagType(data, stream) = COMPOUND /\ name.ok
           THEN /\ stream' = name.after
                /\ stack' = <<InCompound(name.bytes)>>
                /\ pc' = "parsing"
           ELSE /\ pc' = "threw"
                /\ UNCHANGED <<stream, stack>>
  /\ UNCHANGED <<data, result>>

\* A tag without tags in it.
Insert ==
  /\ Continues /\ Header.type \in Scalars
  /\ LET payload == parseScalar(data, Header.after, Header.type)
     IN  /\ payload.ok
         /\ stream' = payload.after
         /\ stack' = [stack EXCEPT ![Len(stack)] =
                        Added(@, Header.bytes, Scalar(Header.type, payload.bytes))]
  /\ UNCHANGED <<data, result, pc>>

CallParseCompound ==
  /\ Continues /\ Header.type = COMPOUND
  /\ stream' = Header.after
  /\ stack' = Append(stack, InCompound(Header.bytes))
  /\ UNCHANGED <<data, result, pc>>

CallParseList ==
  /\ Continues /\ Header.type = LIST
  /\ stream' = Header.after + 1 + 4
  /\ stack' = Append(stack, InList(Header.bytes, parseTagType(data, Header.after),
                                   parseInt(data, Header.after + 1)))
  /\ UNCHANGED <<data, result, pc>>

\* An activation returns to the one that called it, or to parse.
Return ==
  /\ pc = "parsing" /\ AtEnd
  /\ stream' = IF Top.type = COMPOUND THEN stream + 1 ELSE stream
  /\ IF Len(stack) = 1
       THEN /\ result' = Value(Top)
            /\ pc' = "done"
            /\ stack' = <<>>
       ELSE /\ stack' = [Front(stack) EXCEPT ![Len(stack) - 1] =
                           Added(@, Top.name, Value(Top))]
            /\ UNCHANGED <<result, pc>>
  /\ UNCHANGED data

\* default: continue, which in a list neither reads nor counts.
ThrowMutant ==
  /\ pc = "parsing" /\ ~AtEnd
  /\ Header.ok /\ Header.type \notin Scalars \cup {LIST, COMPOUND}
  /\ stream' = Header.after
  /\ UNCHANGED <<data, stack, result, pc>>
\* An unknown type, or a size that cannot be: every activation is unwound.
Throw ==
  /\ pc = "parsing" /\ ~AtEnd
  /\ \/ ~Header.ok
     \/ Header.type \notin Scalars \cup {LIST, COMPOUND}
     \/ /\ Header.type \in Scalars
        /\ ~parseScalar(data, Header.after, Header.type).ok
  /\ pc' = "threw"
  /\ UNCHANGED <<data, stream, stack, result>>

Next == parse \/ Insert \/ CallParseCompound \/ CallParseList \/ Return \/ Throw

Spec == Init /\ [][Next]_vars

-----------------------------------------------------------------------------
ParserTypeOK ==
  /\ data \in Seq(Byte)
  /\ stream \in Nat
  /\ pc \in {"root", "parsing", "done", "threw"}
  /\ pc = "parsing" => stack # <<>>

\* A list never holds more than the stream announced for it, and only what
\* was announced; what an activation is filling is a compound or a list that
\* its caller asked for.
AsAnnounced ==
  \A i \in DOMAIN stack :
    /\ stack[i].type = LIST =>
         /\ stack[i].items = <<>> \/ Len(stack[i].items) <= stack[i].size
         /\ \A k \in DOMAIN stack[i].items : stack[i].items[k].type = stack[i].of
    /\ i > 1 /\ stack[i - 1].type = LIST => stack[i].type = stack[i - 1].of

\* Every iteration lowers a number that cannot be negative: four for a byte that
\* was not asked for, one for an activation, and two while a list is filled from
\* a stream that is good, as entering a compound in it asks for nothing.  So
\* parse ends within four iterations a byte, whatever sizes a stream claims.
Left ==
  (IF stream <= Len(data) THEN 4 * (Len(data) + 1 - stream) ELSE 0)
    + Len(stack)
    + (IF stream <= Len(data) /\ stack # <<>> /\ Top.type = LIST THEN 2 ELSE 0)
Progresses == [][pc' \in {"done", "threw"} \/ Left' < Left]_vars

\* And it does end.
Ends == <>(pc \in {"done", "threw"})
=============================================================================
