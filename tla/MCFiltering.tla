---------------------------- MODULE MCFiltering -----------------------------
(* Finite instances of Filtering.                                          *)
EXTENDS Filtering, TLC

CONSTANTS core, http, crypto, util, common

\* The pages of the site have one button each, and sourceset_dependencies.js
\* has entries for two of the four source sets.
SiteButtons == [s \in SourceSets |-> {s}]
SiteDependencies == core :> {} @@ http :> {}

\* A page for several source sets, one of which depends on another, and one
\* that shares a source set with it.
SharedButtons == "both" :> {core, common} @@ "one" :> {core}
SharedPages == {"both", "one"}
SharedDependencies == core :> {common} @@ common :> {}
=============================================================================
