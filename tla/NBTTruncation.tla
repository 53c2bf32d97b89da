---------------------------- MODULE NBTTruncation ----------------------------
(***************************************************************************)
(* What NBT::parse makes of a file that was cut short (NBTCodec).          *)
(***************************************************************************)
EXTENDS NBTCodec

\* One tree is the other up to one place: the tags read before it are right,
\* and nothing was read after it.
RECURSIVE Damaged(_, _)
DamagedTree(t, u) ==
  LET wrong == {n \in DOMAIN t : n \notin DOMAIN u \/ t[n] # u[n]}
  IN  \/ wrong = {}
      \/ \E n \in wrong : /\ wrong = {n}
                          /\ n \in DOMAIN u => Damaged(t[n], u[n])
DamagedItems(s, t) ==
  \/ s = <<>>
  \/ /\ Len(s) <= Len(t)
     /\ Front(s) = SubSeq(t, 1, Len(s) - 1)
     /\ Damaged(Last(s), t[Len(s)])
Damaged(v, w) ==
  /\ v.type = w.type
  /\ v.type = COMPOUND => DamagedTree(v.tree, w.tree)
  /\ v.type = LIST => DamagedItems(v.items, w.items)

\* A stream that was cut short is rejected or yields the document up to the
\* cut, with one damaged tag there at most: no tag that was there whole is
\* lost to a damaged one or read wrongly.
TruncationIsLocal ==
  pc = "done" /\ doc # NoDocument /\ AtMost(MaxUnsignedShort) => Damaged(result, Meaning[doc])
=============================================================================
