------------------------------ MODULE SideMenu ------------------------------
(* The navigation menu of the documentation site                               *)
(* (docs/0.1.0/scripts/navigation-loader.js). The script fetches the menu of    *)
(* the whole site, puts it into the page and reveals the part that stands for   *)
(* the page. It is async: it may run before the document is parsed, after, or   *)
(* between the end of parsing and DOMContentLoaded, and the reply may arrive    *)
(* before any of these or never.                                                *)
(* Ids of pages and parts are compared as text. They are sequences of tokens    *)
(* here, cut wherever one name of the site may begin with another.              *)
EXTENDS Naturals, Sequences, FiniteSets

CONSTANTS Declarations,  \* what has a page: module, package, name, member
          Module,        \* name of a module, as tokens; likewise
          Package, Name,
          Member,        \* ... with its parameters
          Menu           \* navigation.html: the declarations with a part, in order

Has(text, token) == \E i \in DOMAIN text : text[i] = token

Begins(t, u) == Len(t) <= Len(u) /\ \A i \in 1..Len(t) : t[i] = u[i]
Ends(t, u)   == Len(t) <= Len(u) /\ \A i \in 1..Len(t) : t[i] = u[Len(u) - Len(t) + i]

\* How Dokka names things: the separators of an id are not part of names, a page
\* without member has / in its place, and different things have different names.
ASSUME NamesAssumption ==
  /\ Declarations \subseteq [module : DOMAIN Module, package : DOMAIN Package,
                             name : DOMAIN Name, member : DOMAIN Member]
  /\ \A m \in DOMAIN Module :
       /\ m \in STRING \ {"::"} /\ Module[m] \in Seq(STRING)
       /\ ~Has(Module[m], "::") /\ ~Has(Module[m], "/")
  /\ \A p \in DOMAIN Package :
       Package[p] \in Seq(STRING) /\ ~Has(Package[p], "::") /\ ~Has(Package[p], "/")
  /\ \A n \in DOMAIN Name :
       Name[n] \in Seq(STRING) /\ ~Has(Name[n], "::") /\ ~Has(Name[n], "/")
  /\ \A f \in DOMAIN Member :
       /\ Member[f] \in Seq(STRING)
       /\ ~Has(Member[f], "::") /\ ~Has(Member[f], "PointingToDeclaration")
       /\ IF f = "" THEN Member[f] = <<"/">> ELSE Member[f] # <<>> /\ Member[f][1] # "/"
  /\ \A p, q \in DOMAIN Package : Package[p] = Package[q] => p = q
  /\ \A n, o \in DOMAIN Name : Name[n] = Name[o] => n = o
  /\ \A f, g \in DOMAIN Member : Member[f] = Member[g] => f = g
  /\ \A m, n \in DOMAIN Module : Ends(Module[m], Module[n]) => m = n

Parts == DOMAIN Menu

\* What is so of navigation.html: it lists nothing twice and no members of classes,
\* all the rest of a module or nothing of it, and a class before those of the same
\* package whose names begin with its name.
ASSUME NavigationAssumption ==
  /\ Menu \in Seq(Declarations)
  /\ \A j, k \in Parts : Menu[j] = Menu[k] => j = k
  /\ \A k \in Parts : Menu[k].name = "" \/ Menu[k].member = ""
  /\ \A d \in Declarations :
       (\E k \in Parts : Menu[k].module = d.module) =>
          IF d.name = "" \/ d.member = ""
            THEN \E k \in Parts : Menu[k] = d
            ELSE \E k \in Parts : Menu[k] = [d EXCEPT !.member = ""]
  /\ \A j, k \in Parts :
       /\ Menu[j].module = Menu[k].module /\ Menu[j].package = Menu[k].package
       /\ Menu[k].name # "" /\ Begins(Name[Menu[k].name], Name[Menu[j].name])
       => k <= j

VARIABLES
  page,       \* the declaration the page is about
  dom,        \* "loading", "interactive" (parsed), "loaded" (DOMContentLoaded was fired)
  scripted,   \* has the script run?
  listening,  \* is there a listener for DOMContentLoaded?
  displaying, \* was displayNavigationFromPage called?
  reply,      \* navigationPageText: "none", "pending", "ok", "failed"
  shown,      \* is the menu in the page?
  selected,   \* the part with data-active, 0 if none
  revealed    \* the parts without the class hidden

menuVars == <<page, dom, scripted, listening, displaying, reply, shown, selected, revealed>>

Join(a, separator, b) == a \o <<separator>> \o b

\* An id as Dokka writes it: module::package/name/member/parameters/Pointing...
Id(d) ==
  Join(Module[d.module], "::",
    Join(Package[d.package], "/",
      Join(Name[d.name], "/",
        Join(Member[d.member] \o <<"/">>, "PointingToDeclaration", <<"/", "/", d.module>>))))

PartIds == [k \in Parts |-> Id(Menu[k])]

Within(t, id) == \E i \in 0..(Len(id) - Len(t)) : SubSeq(id, i + 1, i + Len(t)) = t

\* The texts the loop tries: the id, and what is left of it when it is cut at a
\* slash, as long as that has another.
Slashes(id) == {i \in DOMAIN id : id[i] = "/"}
Tried(id) == {id} \cup {SubSeq(id, 1, i - 1) : i \in {j \in Slashes(id) :
                                                    \E k \in Slashes(id) : k < j}}

Matches(t) == {k \in Parts : Within(t, PartIds[k])}

\* Mutation: the last of several parts that match.
LastOf(t) == CHOOSE k \in Matches(t) : \A j \in Matches(t) : k >= j

\* The first of several parts that match, as found = 1 keeps the later ones out.
FirstOf(t) == CHOOSE k \in Matches(t) : \A j \in Matches(t) : k <= j

\* revealNavigationForCurrentPage: the part of the longest text any part matches.
Select(d) ==
  LET matched == {t \in Tried(Id(d)) : Matches(t) # {}} IN
  IF matched = {} THEN 0
  ELSE FirstOf(CHOOSE t \in matched : \A u \in matched : Len(t) >= Len(u))

\* ... for every page.
Selected == [d \in Declarations |-> Select(d)]

\* The parts around part k: a module's is around all of its own, a package's
\* around those of its declarations.
Around(k) ==
  {j \in Parts : /\ Menu[j].module = Menu[k].module
                 /\ Menu[j].name = "" /\ Menu[j].member = ""
                 /\ Menu[j].package \in {"", Menu[k].package}}

\* revealParents.
WithParents(k) == {k} \cup Around(k)

-----------------------------------------------------------------------------
MenuInit ==
  /\ page \in Declarations
  /\ dom = "loading"
  /\ scripted = FALSE /\ listening = FALSE /\ displaying = FALSE /\ shown = FALSE
  /\ reply = "none"
  /\ selected = 0 /\ revealed = {}

\* Mutation: the script waits for DOMContentLoaded although it may be over.
AlwaysListen ==
  /\ ~scripted
  /\ scripted' = TRUE
  /\ reply' = "pending"
  /\ listening' = TRUE
  /\ UNCHANGED <<page, dom, displaying, shown, selected, revealed>>

\* Mutation: the script does not wait for the document.
DisplayAtOnce ==
  /\ ~scripted
  /\ scripted' = TRUE
  /\ reply' = "pending"
  /\ displaying' = TRUE
  /\ UNCHANGED <<page, dom, listening, shown, selected, revealed>>

\* The script: fetch, and then by document.readyState.
StartMenu ==
  /\ ~scripted
  /\ scripted' = TRUE
  /\ reply' = "pending"
  /\ IF dom = "loading"
       THEN listening' = TRUE /\ UNCHANGED displaying
       ELSE displaying' = TRUE /\ UNCHANGED listening
  /\ UNCHANGED <<page, dom, shown, selected, revealed>>

Parsed ==
  /\ dom = "loading"
  /\ dom' = "interactive"
  /\ UNCHANGED <<page, scripted, listening, displaying, reply, shown, selected, revealed>>

DOMContentLoaded ==
  /\ dom = "interactive"
  /\ dom' = "loaded"
  /\ displaying' = (displaying \/ listening)
  /\ UNCHANGED <<page, scripted, listening, reply, shown, selected, revealed>>

\* navigation.html arrives, or does not.
Reply ==
  /\ reply = "pending"
  /\ reply' \in {"ok", "failed"}
  /\ UNCHANGED <<page, dom, scripted, listening, displaying, shown, selected, revealed>>

\* The chain of then in displayNavigationFromPage: menu, hidden parts, the part
\* of the page. Nothing comes between its links.
ShowMenu ==
  /\ displaying /\ reply = "ok" /\ ~shown
  /\ shown' = TRUE
  /\ selected' = Selected[page]
  /\ revealed' = IF selected' = 0 THEN {} ELSE WithParents(selected')
  /\ UNCHANGED <<page, dom, scripted, listening, displaying, reply>>

MenuNext ==
  \/ StartMenu \/ Parsed \/ DOMContentLoaded \/ Reply \/ ShowMenu

\* The document is parsed, scripts run, promises are settled. The reply may not come.
MenuFairness ==
  /\ WF_menuVars(Parsed) /\ WF_menuVars(DOMContentLoaded)
  /\ WF_menuVars(StartMenu) /\ WF_menuVars(ShowMenu)

MenuSpec == MenuInit /\ [][MenuNext]_menuVars /\ MenuFairness

-----------------------------------------------------------------------------
\* The variables have their types; nothing is looked up in the document before
\* it is parsed.
MenuTypeOK ==
  /\ page \in Declarations
  /\ dom \in {"loading", "interactive", "loaded"}
  /\ {scripted, listening, displaying, shown} \subseteq BOOLEAN
  /\ displaying => dom # "loading"
  /\ reply \in {"none", "pending", "ok", "failed"}
  /\ selected \in Parts \cup {0}
  /\ revealed \subseteq Parts

\* The part that stands for a page: its own, or else that of its class, or that
\* of its package if it belongs to no class.
Nearest(d) ==
  LET In(e) == {k \in Parts : Menu[k] = e}
      own == In(d)
      around == In([d EXCEPT !.member = ""])
  IN IF own # {} THEN CHOOSE k \in own : TRUE
     ELSE IF around # {} THEN CHOOSE k \in around : TRUE ELSE 0

\* The menu marks the part that stands for the page, although ids are compared
\* as text and some names begin with others, and shows it: everything around it
\* is unfolded. It depends on the order of navigation.html (lines 30-54).
MarksPage ==
  shown => /\ selected = Nearest(page)
           /\ selected # 0 => selected \in revealed /\ Around(selected) \subseteq revealed

\* If the menu arrives it is shown, in whatever order script, document and
\* reply come (lines 81-91).
MenuShown == reply = "ok" ~> shown
=============================================================================
