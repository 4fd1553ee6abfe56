----------------------------- MODULE MCAnchors ------------------------------
(* Finite instances of Anchors.                                            *)
EXTENDS Anchors

CONSTANTS c, d, p, f

\* Two constructors, a property and a function, as on a page of a class; only
\* constructors carry data-togglable.
ClassKind == [a \in Anchors |-> CASE a \in {c, d} -> "CONSTRUCTOR"
                                  [] a = p -> "PROPERTY" [] a = f -> "FUNCTION"]

\* The one tab of the pages of this site, and a page with two.
ClassMembers == {"CONSTRUCTOR", "PROPERTY", "FUNCTION"}
SiteTabs == {ClassMembers}

\* One source set, as on every page of this site, and rows of one or two.
AllSets == [a \in Anchors |-> Sourcesets]
OneOrTwo == [a \in Anchors |-> IF a = c THEN Sourcesets ELSE {CHOOSE s \in Sourcesets : TRUE}]

Functions == {"FUNCTION"}
TwoTabs == {Functions, ClassMembers \ Functions}
=============================================================================
