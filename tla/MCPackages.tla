------------------------------ MODULE MCPackages ------------------------------
(* Two packages, the second one built on the first one; with TypeScript, the   *)
(* first one may need the second one too.                                      *)
EXTENDS Packages

In(p, c) == [package |-> p, name |-> c]

String == In(Ecore, "EString")

Attribute(name) == [kind |-> "attribute", name |-> name, type |-> String, opposite |-> "none"]
Reference(name, type, opposite) == [kind |-> "reference", name |-> name, type |-> type, opposite |-> opposite]
Operation(name, type, parameter) ==
  [name |-> name, type |-> type, parameters |-> <<[name |-> "by", type |-> parameter]>>]

Annotation(path, source, contents) ==
  [on |-> path, source |-> source, eAnnotations |-> <<"nested">>, contents |-> contents]

(* Node has a reference to a later class and back, in either order with its attribute. *)
Base(shared, name, first, extra) ==
  [name |-> name, shared |-> shared, annotationContents |-> FALSE,
   classes |->
     <<[name |-> "Leaf", supers |-> <<In("a", "Node")>>, features |-> <<Reference("parent", In("a", "Node"), "leaves")>> \o extra, operations |-> <<>>],
       [name |-> "Node", supers |-> <<>>, operations |-> <<>>,
        features |-> IF first = "attribute" THEN <<Attribute("label"), Reference("leaves", In("a", "Leaf"), "parent")>>
                     ELSE <<Reference("leaves", In("a", "Leaf"), "parent"), Attribute("label")>>]>>,
   dataTypes |-> <<[name |-> "Color", literals |-> <<"RED", "BLUE">>]>>,
   annotations |-> {Annotation(LiteralAt("Color", 2), "s1", <<>>)},
   sources |-> <<"s1">>, suppressed |-> {}]

Derived(shared, type, suppressed) ==
  [name |-> "b", shared |-> shared, annotationContents |-> TRUE,
   classes |->
     <<[name |-> "Item", supers |-> <<In("a", "Node")>>, features |-> <<Reference("at", In("a", "Leaf"), "none")>>,
        operations |-> <<Operation("find", type, In("a", "Node"))>>],
       [name |-> "Leaf", supers |-> <<>>, features |-> <<>>, operations |-> <<>>],
       [name |-> "Node", supers |-> <<>>, features |-> <<>>, operations |-> <<>>]>>,
   dataTypes |-> <<>>,
   annotations |->
     {Annotation(ParameterAt("Item", 1, 1), "s2", <<[label |-> "inner", class |-> Untyped], [label |-> "object", class |-> In("a", "Leaf")]>>),
      Annotation(PackageItself, "s1", <<>>)},
   sources |-> <<"s1", "s2">>, suppressed |-> suppressed]

(* Go packages do not import each other; TypeScript ones may. With one name,   *)
(* the getters of a package find its own classifiers, and have to exist.       *)
Variants ==
  {v \in [lang : Languages, sharedA : BOOLEAN, sharedB : BOOLEAN, name : {"a", "b"}, cyclic : BOOLEAN, plain : BOOLEAN] :
     v.cyclic => v.lang = "ts" /\ v.name = "a"}

Modelled ==
  [v \in Variants |->
     [lang |-> v.lang,
      packages |->
        [p \in {"a", "b"} |->
           IF p = "a"
           THEN Base(v.sharedA, v.name, IF v.plain THEN "attribute" ELSE "reference",
                     IF v.cyclic THEN <<Reference("item", In("b", "Item"), "none")>> ELSE <<>>)
           ELSE Derived(v.sharedB, IF v.plain THEN In("a", "Leaf") ELSE Untyped, IF v.plain THEN {} ELSE {"s1"})]]]
=============================================================================
