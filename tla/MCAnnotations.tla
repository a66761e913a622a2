---------------------------- MODULE MCAnnotations ----------------------------
(* Annotations on small instances.                                         *)
EXTENDS Annotations

CONSTANTS x, y, z, n, c, d, i, j, t1, t2 \* three ids, two of the rest

One1 == i :> [text |-> t1, cites |-> {}]
One2 == i :> [text |-> t2, cites |-> {}]
Citing(id) == j :> [text |-> t1, cites |-> {id}]

Notes == {<<>>, One1, One2, Citing(y)}

Rec(id, ns, content, notes) ==
  [id |-> id, row |-> [ns |-> ns, content |-> content, column |-> "good",
                       notes |-> notes]]

\* One record, of each kind; one with too many annotations, one with a bad
\* column; two records that are one content once they are placed, before
\* them a record that may push them into another batch.
SomeFiles ==
  {<<Rec(id, NoNs, content, a)>> :
     id \in {x, y}, content \in Contents, a \in Notes}
  \cup {<<Rec(x, n, c, One1 @@ Citing(y)), Rec(y, n, d, One2)>>}
  \cup {<<[Rec(x, n, c, One1) EXCEPT !.row.column = v], Rec(y, n, c, One2)>> :
          v \in {"absent", "malformed", "outside"}}
  \cup {<<Rec(x, NoNs, c, a), Rec(y, n, c, b)>> : a, b \in Notes}
  \cup {<<Rec(x, n, d, <<>>), Rec(y, NoNs, c, a), Rec(z, n, c, b)>> :
          a, b \in {One1, One2, Citing(y)}}
=============================================================================
