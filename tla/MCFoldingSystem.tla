---------------------------- MODULE MCFoldingSystem ----------------------------
(***************************************************************************)
(* A constant `base` with two SubViews added one after the other, and the  *)
(* SubView they fuse into: p is base.subview(), q is p.subview(), and the  *)
(* canonicalizer replaces q by f, which has the same type and value.       *)
(***************************************************************************)
EXTENDS FoldingSystem, TLC

CONSTANTS p, q, f

MCThreads == Requests \union {CompileThread}
MCAttrs == {p, q, f}
MCValue == p :> "half" @@ q :> "quarter" @@ f :> "quarter"

\* All of one size: Reshapes or Reorders instead of SubViews.
SameSize == [a \in MCAttrs |-> 2]
\* Sizes that shrink as SubViews are added.
Shrinking == p :> 3 @@ q :> 1 @@ f :> 1

\* A cache that is never full, and one that two of three contents fill.
Large == [limit |-> 16, target |-> 12, requests |-> 4]
Small == [limit |-> 4, target |-> 3, requests |-> 3]
BothSettings == {Large, Small}
LargeOnly == {[Large EXCEPT !.requests = 3]}

RequestSymmetry == Permutations(Requests)

MCForms == {[attr |-> p, prefix |-> NoAttr, original |-> NoAttr],
            [attr |-> q, prefix |-> p, original |-> NoAttr],
            [attr |-> f, prefix |-> NoAttr, original |-> q]}
===============================================================================
