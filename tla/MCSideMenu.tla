----------------------------- MODULE MCSideMenu -----------------------------
(* An excerpt of the site: packages and classes whose names begin with those  *)
(* of others, a package with functions, and a module the menu does not list.   *)
EXTENDS SideMenu

D(m, p, n, f) == [module |-> m, package |-> p, name |-> n, member |-> f]

MCModule == [m \in {"http", "crypto"} |-> <<"kryptokrona-", m>>]
MCPackage ==
  [p \in {"", "common", "model", "model.block"} |->
     CASE p = "" -> <<>> [] p = "common" -> <<"common">> [] p = "model" -> <<"model">>
       [] p = "model.block" -> <<"model", ".block">>]
MCName ==
  [n \in {"", "OIndexes", "BlockDetail", "BlockDetailBlock", "Blocks", "BlocksDetails"} |->
     CASE n = "" -> <<>> [] n = "OIndexes" -> <<"OIndexes">>
       [] n = "BlockDetail" -> <<"Block", "Detail">>
       [] n = "BlockDetailBlock" -> <<"Block", "Detail", "Block">>
       [] n = "Blocks" -> <<"Block", "s">> [] n = "BlocksDetails" -> <<"Block", "s", "Details">>]
MCMember ==
  [f \in {"", "get", "post", "block", "main"} |-> IF f = "" THEN <<"/">> ELSE <<f, "/", "#">>]

MCMenu ==
  << D("http", "", "", ""),
     D("http", "common", "", ""),
     D("http", "common", "", "get"),
     D("http", "common", "", "post"),
     D("http", "model", "", ""),
     D("http", "model", "OIndexes", ""),
     D("http", "model.block", "", ""),
     D("http", "model.block", "BlockDetail", ""),
     D("http", "model.block", "BlockDetailBlock", ""),
     D("http", "model.block", "Blocks", ""),
     D("http", "model.block", "BlocksDetails", "") >>

MCDeclarations ==
  {MCMenu[k] : k \in DOMAIN MCMenu} \cup
  { D("http", "model", "OIndexes", "block"),
    D("http", "model.block", "BlockDetail", "block"),
    D("http", "model.block", "BlockDetailBlock", "block"),
    D("http", "model.block", "Blocks", "block"),
    D("crypto", "", "", ""),
    D("crypto", "", "", "main") }
=============================================================================
