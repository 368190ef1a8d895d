------------------------------ MODULE AuthForm ------------------------------
(***************************************************************************)
(* templates/components/authform.templ: the form of a login or             *)
(* registration flow, drawn from the nodes that Ory Kratos lists for it.   *)
(* A node is told apart by its type, the input type among its attributes,  *)
(* the key it posts and whether its value is absent, a text or something   *)
(* else; the form of a flow is the set of its nodes, and what is rendered  *)
(* the set of their elements.                                              *)
(***************************************************************************)

\* The node types and input types that the template tells apart: any other
\* input type is drawn as a text field, any other node type as its name.  Only the
\* attributes of an input have an input type and a value.
NodeType  == {"input", "script", "other"}
InputType == {"hidden", "checkbox", "button", "submit", "text", "none"}

IsNode(n) ==
    /\ n.type \in NodeType
    /\ n.input \in InputType
    /\ n.type = "input" <=> n.input # "none"
    /\ n.value \in {"absent", "text", "other"}
    /\ n.type # "input" => n.value = "absent"

\* What the elements of a form have in common; labelled says that the user
\* can read what a control is for, trigger that a click calls a script.
Element(tag, n, labelled, trigger) ==
    [tag |-> tag, input |-> n.input, name |-> n.name, value |-> n.value,
     labelled |-> labelled, trigger |-> trigger]

Hidden(n)    == Element("input", n, FALSE, FALSE)
Checkbox(n)  == Element("input", n, TRUE, FALSE)
Button(n)    == Element("button", n, TRUE, TRUE)
Submit(n)    == Element("button", n, TRUE, FALSE)
TextField(n) == Element("input", n, TRUE, FALSE)
Script(n)    == Element("script", n, FALSE, FALSE)
NameOf(n)    == Element("p", n, FALSE, FALSE)

\* Faulty: the arm of the hidden inputs is missing, and the check in the last one
\* leaves them out.
RenderNodeWithoutHidden(n) ==
    CASE n.type = "script"    -> {Script(n)}
      [] n.type = "other"     -> {NameOf(n)}
      [] n.input = "checkbox" -> {Checkbox(n)}
      [] n.input = "button"   -> {Button(n)}
      [] n.input = "submit"   -> {Submit(n)}
      [] n.input = "text"     -> {TextField(n)}
      [] OTHER                -> {}

RenderNode(n) ==
    CASE n.type = "script"    -> {Script(n)}
      [] n.type = "other"     -> {NameOf(n)}
      [] n.input = "hidden"   -> {Hidden(n)}
      [] n.input = "checkbox" -> {Checkbox(n)}
      [] n.input = "button"   -> {Button(n)}
      [] n.input = "submit"   -> {Submit(n)}
      [] OTHER                -> {TextField(n)}

RenderForm(ui) == UNION {RenderNode(n) : n \in ui}

\* The value of an input is asserted to be a string, in every arm.
Panics(ui) == \E n \in ui : n.type = "input" /\ n.value = "other"

\* The keys and values that elements can post to Kratos.
Posts(elements) ==
    {<<e.name, e.input, e.value>> : e \in {e \in elements : e.tag \in {"input", "button"}}}

\* The form posts exactly what the flow asks for.
Complete(ui, elements) ==
    Posts(elements) = {<<n.name, n.input, n.value>> : n \in {n \in ui : n.type = "input"}}
=============================================================================
