-------------------------------- MODULE MCObjects --------------------------------
(* Every reference left, with no other end or with a plain or a container one. *)
EXTENDS Objects, TLC

CONSTANTS a1, a2, b1, b2

Resolves == [b \in {b1, b2} |-> b2]

\* The `lazy` key "list:action function" of the package.
LazyTokens == << <<"list", "action">>, <<"", "function">> >>

(* A reference of the shape: what its facts read. *)
Reference(many, containment, proxies, changeable, unsettable, lazy, opposite) ==
  [OtherFeature EXCEPT !.many = many, !.containment = containment, !.proxies = proxies,
     !.changeable = changeable, !.unsettable = unsettable, !.lazy = lazy, !.opposite = opposite]

(* The references left: single or many, contained or not, with the flags the facts read. *)
Lefts ==
  {f \in {Reference(m, c, p, ch, u, z, op) :
            m \in BOOLEAN, c \in BOOLEAN, p \in BOOLEAN, ch \in BOOLEAN,
            u \in BOOLEAN, z \in {"no", "function", "action"}, op \in {"none", "plain"}} :
     /\ f.lazy # "no" => f.changeable /\ ~f.unsettable
     /\ f.proxies => ~f.containment /\ (f.opposite = "none" \/ ~f.unsettable)}

(* The other ends: none, a plain one, or the container of a containment. *)
Rights(left) ==
  CASE left.opposite = "none" -> {OtherFeature}
    [] left.containment ->
         {Reference(FALSE, FALSE, FALSE, ch, FALSE, "no", "containment") : ch \in BOOLEAN}
    [] OTHER ->
         {Reference(m, FALSE, FALSE, ch, u, "no", "plain") : m \in BOOLEAN, ch \in BOOLEAN, u \in BOOLEAN}
         \cup {Reference(FALSE, FALSE, FALSE, TRUE, FALSE, z, "plain") : z \in {"function", "action"}}

Shaped ==
  UNION {{[left |-> l, right |-> r, other |-> o] : r \in Rights(l), o \in {FALSE, l.containment}} : l \in Lefts}

\* A lazy reference that can be unset, whose generated tests are run.
Tested ==
  {[left |-> Reference(FALSE, FALSE, FALSE, TRUE, TRUE, "function", "none"), right |-> OtherFeature, other |-> FALSE]}

Symmetric == Permutations({a1, a2})
=============================================================================
