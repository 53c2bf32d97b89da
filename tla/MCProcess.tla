------------------------------ MODULE MCProcess ------------------------------
(* Registry files: a well-formed one, one of each way not to be well-formed, *)
(* and two that stop half way.                                              *)
EXTENDS Process

Name(lower, single, allowed) == [lower |-> lower, single |-> single, allowed |-> allowed]
V(kind, text) == [kind |-> kind, text |-> text]
State(id, properties) == [id |-> id, properties |-> properties]
Block(name, states) == [name |-> name, hasProperties |-> TRUE, states |-> states]
Plain(name, states) == [name |-> name, hasProperties |-> FALSE, states |-> states]

lever == Name("lever", FALSE, TRUE)
bad == Name("!!", FALSE, FALSE)
x == Name("x", TRUE, TRUE)
One(kind) == [face |-> V(kind, "1")]
Two == [face |-> V("string", "2")]
Both == [face |-> V("string", "1"), on |-> V("bool", "true")]
Other == [other |-> V("other", "null")]

Stone == Plain(bad, <<State(0, Two)>>)
MCRegistries == {
  <<>>,
  <<Stone, Block(lever, <<State(1, One("string")), State(2, Two)>>)>>,
  <<Block(lever, <<State(1, One("string")), State(2, One("int"))>>), Stone>>,   \* one text
  <<Block(lever, <<State(1, Both), State(2, One("string"))>>)>>,                \* not uniform
  <<Block(lever, <<State(1, One("string")), State(2, Both)>>)>>,
  <<Block(lever, <<State(1, Other), State(2, Other)>>)>>,                       \* one state
  <<Block(lever, <<State(1, Two), State(1, One("int"))>>)>>,                    \* one id
  <<Block(lever, <<State(1, Two)>>), Block(lever, <<State(2, Two)>>)>>,         \* one name
  <<Plain(lever, <<State(3, Two), State(4, Both)>>)>>,
  <<Block(lever, <<State(2, One("string"))>>), Plain(x, <<State(1, Two)>>), Stone>>}
=============================================================================
