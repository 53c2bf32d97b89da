------------------------------ MODULE MCSession ------------------------------
(***************************************************************************)
(* Session for TLC: packets of their real layout and length, for clients   *)
(* that differ in what the server might mistake for a packet: the lengths  *)
(* of their strings and the bytes of their ping payload.                   *)
(***************************************************************************)
EXTENDS Session

\* Protocol 772 (1.21.8), port 25565.  The letters and the uuid are outside the
\* range of packet ids.
Client(intent, addressLength, nameLength, payloadByte) ==
  [intent |-> intent, version |-> <<132, 6>>,
   address |-> [k \in 1..addressLength |-> 108], port |-> <<99, 221>>,
   name |-> [k \in 1..nameLength |-> 78], uuid |-> [k \in 1..UuidSize |-> 100],
   payload |-> [k \in 1..PayloadSize |-> payloadByte]]

MCClients == {Client("ping", 9, 5, 0), Client("ping", 22, 5, 200),
              Client("play", 9, 12, 0), Client("play", 22, 5, 0)}
OneClient == {Client("play", 9, 5, 0)}

\* The clients are such that no other packet can be taken for an acknowledgement.
ASSUME MCAcksUnmistakable == AcksUnmistakable

NoSegments == {}
OnlyZero == {<<0>>}
=============================================================================
