----------------------- MODULE MCWeakestPrecondition -----------------------
(***************************************************************************)
(* Small product programs for WeakestPrecondition: up to three ops in      *)
(* loops over two arrays of two elements.                                  *)
(***************************************************************************)
EXTENDS WeakestPrecondition

At(dim, ix) == [dim |-> dim, ix |-> ix]
Counter == At(1, 0)
Zero == [from |-> "const", is |-> 0]
Input == [from |-> "input"]
Local == [from |-> "local"]
Element(m, at) == [from |-> "member", member |-> m, at |-> at]

Write(m, at, val) == [op |-> "write", member |-> m, at |-> at, val |-> val]
Equate(m, at, val) == [op |-> "eq", member |-> m, at |-> at, val |-> val]
ReadLocal == [op |-> "readLocal", val |-> Zero]
WriteLocal(val) == [op |-> "writeLocal", val |-> val]
IfElse(cond, ss, ts) == [op |-> "if", cond |-> cond, then |-> ss, else |-> ts]
If(cond, s, t) == IfElse(cond, <<s>>, <<t>>)
For(rs, body) == [op |-> "for", ranges |-> rs, body |-> body]
R(lb, ub, step) == [lb |-> lb, ub |-> ub, step |-> step]

Blocks(ops, n) == UNION {[1 .. i -> ops] : i \in 1 .. n}
ThreeOf(ops) == {block \in [1 .. 3 -> ops] : IsInjective(block)}

\* The second member is computed from the first and constrained so, or in another way.
Ops == {Write("a", Counter, Input), Equate("a", Counter, Input),
        Write("b", Counter, Element("a", Counter)), Equate("b", Counter, Element("a", Counter)),
        Write("b", Counter, Input), Equate("b", Counter, Input)}
Pinned(m) == <<Write(m, Counter, Input), Equate(m, Counter, Input)>>
Full == <<R(0, 2, 1)>>
Partial == <<R(0, 1, 1)>>
SomeNests == {Full, Partial, <<R(0, 2, 2)>>, <<R(1, 2, 1)>>}

OneLoop == {<<For(rs, body)>> : rs \in SomeNests, body \in Blocks(Ops, 2)}
             \cup {<<For(Full, body)>> : body \in ThreeOf(Ops)}
             \cup {<<For(Full, Pinned("a") \o <<s, t>>)>> : s, t \in Ops}

TwoLoops == {<<For(Full, body), For(rs, Pinned("b"))>> : rs \in {Full, Partial}, body \in Blocks(Ops, 2)}
              \cup {<<For(Full, Pinned("b")), For(rs, body)>> : rs \in {Full, Partial}, body \in Blocks(Ops, 2)}

\* Both arrays pinned, then a part of one of them again.
Repeats == {<<For(Full, Pinned("a") \o Pinned("b")),
              For(rs, <<Write(m, at, Input), Equate(m, at, Input)>>)>> :
              rs \in SomeNests, m \in Members, at \in {Counter, At(0, 0)}}

\* An array element by element from a local one, in a loop or after it.
LocalOps == {ReadLocal, WriteLocal(Input), WriteLocal(Zero), Write("a", At(0, 0), Local),
             Equate("a", At(0, 0), Local)}
Locals == {<<For(Full, Pinned("b"))>> \o block
             \o <<Equate("a", At(0, 0), Input), Write("a", At(0, 1), Zero), Equate("a", At(0, 1), Zero)>> :
             block \in ThreeOf(LocalOps)}
\* What an if leaves out or does otherwise.
Ifs == {<<For(Full, Pinned("b") \o <<If(cond, s, t), u>>)>> :
          cond \in {"input", "first"},
          s \in {Write("a", Counter, Zero), Equate("a", Counter, Zero), Equate("a", Counter, Input)},
          t \in {Write("a", Counter, Zero), Write("a", Counter, Element("b", Counter)), Equate("a", Counter, Zero)},
          u \in {Write("a", Counter, Zero), Equate("a", Counter, Zero), Equate("a", Counter, Input)}}

\* Nests, the inner counter or the outer one as the index.
SmallNests == {<<For(<<r, s>>, <<Write("a", At(d, 0), Zero), Equate("a", At(d, 0), Zero),
                            Write("b", At(d, 0), Zero), Equate("b", At(d, 0), Zero)>>)>> :
            d \in {1, 2}, r, s \in {R(0, 2, 1), R(1, 2, 1), R(0, 2, 2)}}
\* Three loops, of which the middle one has one turn.
DeepNests == {<<For(<<R(0, 2, 1), R(1, 2, 1), r>>, <<Write("a", At(3, 0), Zero), Equate("a", At(3, 0), Zero)>>)>> :
                r \in {R(0, 2, 1), R(0, 2, 2)}}

\* In the first iteration b is pinned; in the second it is computed from what the first wrote to a
\* and @constrain leaves free.  After the loop a is copied from that element of b, on both sides.
CircularPrograms ==
  {<<For(Full, <<IfElse("first", <<Write("a", Counter, Input), s, Equate("b", Counter, s.val)>>,
                                 <<Write("b", Counter, val), Equate("b", Counter, val)>>)>>),
     Write("a", At(0, 0), Element("b", At(0, 1))), Equate("a", At(0, 0), Element("b", At(0, 1))),
     Write("a", At(0, 1), Zero), Equate("a", At(0, 1), Zero)>> :
       s \in {Write("b", Counter, v) : v \in {Zero, Input}}, val \in {Element(m, At(0, 0)) : m \in Members}}

MCPrograms == OneLoop \cup TwoLoops \cup Repeats \cup Locals \cup Ifs \cup SmallNests \cup DeepNests \cup CircularPrograms
=============================================================================
