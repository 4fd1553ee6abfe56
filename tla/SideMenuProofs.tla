--------------------------- MODULE SideMenuProofs ---------------------------
(* The menu marks the part that stands for the page, for every site whose names *)
(* and menu satisfy NamesAssumption and NavigationAssumption: comparing ids as  *)
(* text, cut at slashes, and taking the first part that matches, finds it.      *)
EXTENDS SideMenu, SequenceTheorems, TLAPS

Tokens == STRING \cup {"::", "/", "PointingToDeclaration"}

\* b and d have the same first n tokens.
Agree(b, d, n) ==
  /\ n <= Len(b) /\ n <= Len(d)
  /\ \A j \in 1..n : b[j] = d[j]

\* u is what Join(a, x, b) is.
Joined(a, x, b, u) ==
  /\ Len(u) = Len(a) + 1 + Len(b)
  /\ \A j \in 1..Len(a) : u[j] = a[j]
  /\ u[Len(a) + 1] = x
  /\ \A j \in 1..Len(b) : u[Len(a) + 1 + j] = b[j]

-----------------------------------------------------------------------------
(* Texts.                                                                      *)

LEMMA JoinProperties ==
  ASSUME NEW S, NEW a \in Seq(S), NEW x \in S, NEW b \in Seq(S)
  PROVE  Join(a, x, b) \in Seq(S) /\ Joined(a, x, b, Join(a, x, b))
<1> DEFINE y == <<x>>
           ax == a \o y
           u == ax \o b
<1>0. Len(a) \in Nat /\ Len(b) \in Nat
  BY LenProperties
<1>1. y \in Seq(S) /\ Len(y) = 1 /\ y[1] = x
  OBVIOUS
<1> HIDE DEF y
<1>2. /\ ax \in Seq(S) /\ Len(ax) = Len(a) + 1
      /\ \A j \in 1..Len(a) + 1 : ax[j] = IF j <= Len(a) THEN a[j] ELSE y[j - Len(a)]
  BY <1>1, ConcatProperties
<1>3. (\A j \in 1..Len(a) : ax[j] = a[j]) /\ ax[Len(a) + 1] = x
  BY <1>0, <1>1, <1>2
<1> HIDE DEF ax
<1>4. /\ u \in Seq(S) /\ Len(u) = Len(ax) + Len(b)
      /\ \A j \in 1..Len(ax) + Len(b) :
           u[j] = IF j <= Len(ax) THEN ax[j] ELSE b[j - Len(ax)]
  BY <1>2, ConcatProperties
<1> HIDE DEF u
<1>5. \A j \in 1..(Len(a) + 1) + Len(b) :
        u[j] = IF j <= Len(a) + 1 THEN ax[j] ELSE b[j - (Len(a) + 1)]
  BY <1>2, <1>4
<1>6. Joined(a, x, b, u)
  <2>1. \A j \in 1..Len(a) : u[j] = a[j]
    BY <1>0, <1>3, <1>5
  <2>2. u[Len(a) + 1] = x
    BY <1>0, <1>3, <1>5
  <2>3. ASSUME NEW j \in 1..Len(b) PROVE u[Len(a) + 1 + j] = b[j]
    <3>1. /\ Len(a) + 1 + j \in 1..(Len(a) + 1) + Len(b)
          /\ ~(Len(a) + 1 + j <= Len(a) + 1)
          /\ (Len(a) + 1 + j) - (Len(a) + 1) = j
      BY <1>0
    <3> QED BY <1>5, <3>1
  <2> QED BY <1>2, <1>4, <2>1, <2>2, <2>3 DEF Joined
<1>7. Join(a, x, b) = u
  BY DEF Join, ax, y, u
<1> QED BY <1>4, <1>6, <1>7

LEMMA HasNot ==
  ASSUME NEW S, NEW a \in Seq(S), NEW x, ~Has(a, x)
  PROVE  \A j \in 1..Len(a) : a[j] # x
  BY LenProperties DEF Has

\* A separator is in a joined text only if it is in a part of it.
LEMMA JoinHasNot ==
  ASSUME NEW S, NEW a \in Seq(S), NEW s \in S, NEW b \in Seq(S),
         NEW x, ~Has(a, x), s # x, ~Has(b, x)
  PROVE  ~Has(Join(a, s, b), x)
<1> DEFINE u == Join(a, s, b)
<1>0. Len(a) \in Nat /\ Len(b) \in Nat
  BY LenProperties
<1>a. u \in Seq(S) /\ Joined(a, s, b, u)
  BY JoinProperties
<1> HIDE DEF u
<1>1. /\ u \in Seq(S) /\ Len(u) = Len(a) + 1 + Len(b)
      /\ \A j \in 1..Len(a) : u[j] = a[j]
      /\ u[Len(a) + 1] = s
      /\ \A j \in 1..Len(b) : u[Len(a) + 1 + j] = b[j]
  BY <1>a DEF Joined
<1>2. ASSUME NEW j \in 1..Len(u) PROVE u[j] # x
  <2>1. CASE j <= Len(a)
    BY <1>0, <1>1, <2>1, HasNot
  <2>2. CASE j = Len(a) + 1
    BY <1>1, <2>2
  <2>3. CASE j > Len(a) + 1
    <3>1. j - (Len(a) + 1) \in 1..Len(b) /\ j = Len(a) + 1 + (j - (Len(a) + 1))
      BY <1>0, <1>1, <2>3
    <3>2. u[j] = b[j - (Len(a) + 1)]
      BY <1>1, <3>1
    <3> QED BY <3>1, <3>2, HasNot
  <2> QED BY <1>0, <1>1, <2>1, <2>2, <2>3
<1>3. DOMAIN u = 1..Len(u)
  BY <1>1, LenProperties
<1> QED BY <1>2, <1>3 DEF Has, u

\* Where a text that contains the only x of two texts is found in the other, the
\* parts before it end alike and the parts after it begin alike.
LEMMA Align ==
  ASSUME NEW S, NEW a \in Seq(S), NEW b \in Seq(S), NEW c \in Seq(S), NEW d \in Seq(S),
         NEW x \in S, ~Has(c, x), ~Has(d, x),
         NEW t \in Seq(S), Begins(t, Join(a, x, b)), Len(t) > Len(a),
         Within(t, Join(c, x, d))
  PROVE  Ends(a, c) /\ Agree(b, d, Len(t) - Len(a) - 1)
<1> DEFINE u == Join(c, x, d)
           v == Join(a, x, b)
<1>0. {Len(a), Len(b), Len(c), Len(d), Len(t)} \subseteq Nat
  BY LenProperties
<1>a. u \in Seq(S) /\ Joined(c, x, d, u) /\ Joined(a, x, b, v)
  BY JoinProperties
<1>3. Len(t) <= Len(v) /\ \A j \in 1..Len(t) : t[j] = v[j]
  BY DEF Begins
<1>4. PICK i \in 0..(Len(u) - Len(t)) : SubSeq(u, i + 1, i + Len(t)) = t
  BY DEF Within
<1> HIDE DEF u, v
<1>1. /\ u \in Seq(S) /\ Len(u) = Len(c) + 1 + Len(d)
      /\ \A j \in 1..Len(c) : u[j] = c[j]
      /\ \A j \in 1..Len(d) : u[Len(c) + 1 + j] = d[j]
  BY <1>a DEF Joined
<1>2. /\ Len(v) = Len(a) + 1 + Len(b)
      /\ \A j \in 1..Len(a) : v[j] = a[j]
      /\ v[Len(a) + 1] = x
      /\ \A j \in 1..Len(b) : v[Len(a) + 1 + j] = b[j]
  BY <1>a DEF Joined
<1>5. \A j \in 1..Len(t) : i + j \in 1..Len(u) /\ u[i + j] = t[j]
  <2>1. \A j \in (i + 1)..(i + Len(t)) : j \in 1..Len(u) /\ u[j] \in S
    BY <1>0, <1>1, <1>4, ElementOfSeq
  <2>2. i + 1 \in Int /\ i + Len(t) \in Int
    BY <1>0, <1>4
  <2>3. \A j \in 1..(i + Len(t)) - (i + 1) + 1 :
          SubSeq(u, i + 1, i + Len(t))[j] = u[(i + 1) + j - 1]
    BY <2>1, <2>2, SubSeqProperties
  <2> QED BY <1>0, <1>4, <2>1, <2>3
<1>6. i + Len(a) + 1 \in 1..Len(u) /\ u[i + Len(a) + 1] = x
  <2>1. Len(a) + 1 \in 1..Len(t)
    BY <1>0
  <2>2. t[Len(a) + 1] = x
    BY <1>2, <1>3, <2>1
  <2> QED BY <1>0, <1>4, <1>5, <2>1, <2>2
<1>7. i + Len(a) = Len(c)
  <2>1. i + Len(a) + 1 > Len(c)
    <3> SUFFICES ASSUME ~(i + Len(a) + 1 > Len(c)) PROVE FALSE
      OBVIOUS
    <3>1. i + Len(a) + 1 \in 1..Len(c)
      BY <1>0, <1>6
    <3>2. c[i + Len(a) + 1] = x
      BY <1>1, <1>6, <3>1
    <3> QED BY <3>1, <3>2, HasNot
  <2>2. ~(i + Len(a) + 1 > Len(c) + 1)
    <3> SUFFICES ASSUME i + Len(a) + 1 > Len(c) + 1 PROVE FALSE
      OBVIOUS
    <3> DEFINE j == i + Len(a) - Len(c)
    <3>1. j \in 1..Len(d) /\ i + Len(a) + 1 = Len(c) + 1 + j
      BY <1>0, <1>1, <1>4, <1>6
    <3>2. u[i + Len(a) + 1] = d[j]
      BY <1>1, <3>1
    <3> QED BY <1>6, <3>1, <3>2, HasNot
  <2> QED BY <1>0, <1>4, <2>1, <2>2
<1>8. Ends(a, c)
  <2>1. ASSUME NEW j \in 1..Len(a) PROVE a[j] = c[Len(c) - Len(a) + j]
    <3>1. j \in 1..Len(t) /\ i + j \in 1..Len(c) /\ i + j = Len(c) - Len(a) + j
      BY <1>0, <1>4, <1>7
    <3>2. a[j] = t[j] /\ t[j] = u[i + j] /\ u[i + j] = c[i + j]
      BY <1>1, <1>2, <1>3, <1>5, <3>1
    <3> QED BY <3>1, <3>2
  <2> QED BY <1>0, <1>4, <1>7, <2>1 DEF Ends
<1>9. Agree(b, d, Len(t) - Len(a) - 1)
  <2>1. Len(t) - Len(a) - 1 <= Len(b) /\ Len(t) - Len(a) - 1 <= Len(d)
    BY <1>0, <1>1, <1>2, <1>3, <1>4, <1>7
  <2>2. ASSUME NEW j \in 1..(Len(t) - Len(a) - 1) PROVE b[j] = d[j]
    <3>1. Len(a) + 1 + j \in 1..Len(t) /\ i + (Len(a) + 1 + j) = Len(c) + 1 + j
      <4>1. Len(a) \in Nat /\ Len(c) \in Nat /\ Len(t) \in Nat /\ i \in Int
        BY <1>0, <1>1, <1>4
      <4>2. j \in Nat /\ j >= 1 /\ j <= Len(t) - Len(a) - 1
        BY <4>1
      <4>3. Len(a) + 1 + j \in 1..Len(t)
        BY <4>1, <4>2
      <4>4. i + (Len(a) + 1 + j) = (i + Len(a)) + 1 + j
        BY <4>1, <4>2
      <4> QED BY <1>7, <4>3, <4>4
    <3>2. j \in 1..Len(b) /\ j \in 1..Len(d)
      BY <1>0, <2>1
    <3>3. u[Len(c) + 1 + j] = t[Len(a) + 1 + j] /\ t[Len(a) + 1 + j] = v[Len(a) + 1 + j]
      BY <1>3, <1>5, <3>1
    <3> QED BY <1>1, <1>2, <3>2, <3>3
  <2> QED BY <2>1, <2>2 DEF Agree
<1> QED BY <1>8, <1>9

\* Texts that agree beyond the first separator have the same part before it.
LEMMA SplitEqual ==
  ASSUME NEW S, NEW a \in Seq(S), NEW b \in Seq(S), NEW c \in Seq(S), NEW d \in Seq(S),
         NEW x \in S, ~Has(a, x), ~Has(c, x),
         NEW n \in Nat, n > Len(a), Agree(Join(a, x, b), Join(c, x, d), n)
  PROVE  a = c /\ Agree(b, d, n - Len(a) - 1)
<1> DEFINE u == Join(c, x, d)
           v == Join(a, x, b)
<1>0. {Len(a), Len(b), Len(c), Len(d)} \subseteq Nat
  BY LenProperties
<1>a. Joined(c, x, d, u) /\ Joined(a, x, b, v)
  BY JoinProperties
<1>3. n <= Len(u) /\ n <= Len(v) /\ \A j \in 1..n : v[j] = u[j]
  BY DEF Agree
<1> HIDE DEF u, v
<1>1. /\ Len(u) = Len(c) + 1 + Len(d)
      /\ \A j \in 1..Len(c) : u[j] = c[j]
      /\ u[Len(c) + 1] = x
      /\ \A j \in 1..Len(d) : u[Len(c) + 1 + j] = d[j]
  BY <1>a DEF Joined
<1>2. /\ Len(v) = Len(a) + 1 + Len(b)
      /\ \A j \in 1..Len(a) : v[j] = a[j]
      /\ v[Len(a) + 1] = x
      /\ \A j \in 1..Len(b) : v[Len(a) + 1 + j] = b[j]
  BY <1>a DEF Joined
<1>4. ~(Len(c) > Len(a))
  <2> SUFFICES ASSUME Len(c) > Len(a) PROVE FALSE
    OBVIOUS
  <2>1. Len(a) + 1 \in 1..n /\ Len(a) + 1 \in 1..Len(c)
    BY <1>0
  <2>2. c[Len(a) + 1] = x
    BY <1>1, <1>2, <1>3, <2>1
  <2> QED BY <2>1, <2>2, HasNot
<1>5. ~(Len(c) < Len(a))
  <2> SUFFICES ASSUME Len(c) < Len(a) PROVE FALSE
    OBVIOUS
  <2>1. Len(c) + 1 \in 1..n /\ Len(c) + 1 \in 1..Len(a)
    BY <1>0
  <2>2. a[Len(c) + 1] = x
    BY <1>1, <1>2, <1>3, <2>1
  <2> QED BY <2>1, <2>2, HasNot
<1>6. Len(a) = Len(c)
  BY <1>0, <1>4, <1>5
<1>7. ASSUME NEW j \in 1..Len(a) PROVE a[j] = c[j]
  <2>1. j \in 1..n /\ j \in 1..Len(c)
    BY <1>0, <1>6
  <2> QED BY <1>1, <1>2, <1>3, <2>1
<1>8. a = c
  BY <1>6, <1>7, SeqEqual
<1>9. ASSUME NEW j \in 1..(n - Len(a) - 1) PROVE b[j] = d[j]
  <2>1. Len(a) + 1 + j \in 1..n /\ j \in 1..Len(b) /\ j \in 1..Len(d)
    BY <1>0, <1>1, <1>2, <1>3, <1>6
  <2> QED BY <1>1, <1>2, <1>3, <1>6, <2>1
<1>10. n - Len(a) - 1 <= Len(b) /\ n - Len(a) - 1 <= Len(d)
  BY <1>0, <1>1, <1>2, <1>3, <1>6
<1> QED BY <1>8, <1>9, <1>10 DEF Agree

\* Texts that agree up to the separator of the first: its part before that begins
\* the other's.
LEMMA SplitBegins ==
  ASSUME NEW S, NEW a \in Seq(S), NEW b \in Seq(S), NEW c \in Seq(S), NEW d \in Seq(S),
         NEW x \in S, ~Has(a, x),
         NEW n \in Nat, n >= Len(a), Agree(Join(a, x, b), Join(c, x, d), n)
  PROVE  Begins(a, c)
<1> DEFINE u == Join(c, x, d)
           v == Join(a, x, b)
<1>0. {Len(a), Len(c)} \subseteq Nat
  BY LenProperties
<1>a. Joined(c, x, d, u) /\ Joined(a, x, b, v)
  BY JoinProperties
<1>3. \A j \in 1..n : v[j] = u[j]
  BY DEF Agree
<1> HIDE DEF u, v
<1>1. (\A j \in 1..Len(c) : u[j] = c[j]) /\ u[Len(c) + 1] = x
  BY <1>a DEF Joined
<1>2. \A j \in 1..Len(a) : v[j] = a[j]
  BY <1>a DEF Joined
<1>4. ~(Len(c) < Len(a))
  <2> SUFFICES ASSUME Len(c) < Len(a) PROVE FALSE
    OBVIOUS
  <2>1. Len(c) + 1 \in 1..n /\ Len(c) + 1 \in 1..Len(a)
    BY <1>0
  <2>2. a[Len(c) + 1] = x
    BY <1>1, <1>2, <1>3, <2>1
  <2> QED BY <2>1, <2>2, HasNot
<1>5. ASSUME NEW j \in 1..Len(a) PROVE a[j] = c[j]
  <2>1. j \in 1..n /\ j \in 1..Len(c)
    BY <1>0, <1>4
  <2> QED BY <1>1, <1>2, <1>3, <2>1
<1> QED BY <1>0, <1>4, <1>5 DEF Begins

-----------------------------------------------------------------------------
(* Ids.                                                                        *)

Pointer(d)     == <<"/", "/", d.module>>
MemberName(d)  == Member[d.member] \o <<"/">>
MemberText(d)  == Join(MemberName(d), "PointingToDeclaration", Pointer(d))
NameText(d)    == Join(Name[d.name], "/", MemberText(d))
PackageText(d) == Join(Package[d.package], "/", NameText(d))

\* The length of module::package/name: where the second slash is, less one.
Short(d) == Len(Module[d.module]) + 1 + Len(Package[d.package]) + 1 + Len(Name[d.name])

\* The parts of an id are texts.
LEMMA NamesAreTexts ==
  ASSUME NEW d \in Declarations
  PROVE  /\ Module[d.module] \in Seq(Tokens) /\ Package[d.package] \in Seq(Tokens)
         /\ Name[d.name] \in Seq(Tokens) /\ Member[d.member] \in Seq(Tokens)
         /\ MemberName(d) \in Seq(Tokens) /\ Pointer(d) \in Seq(Tokens)
         /\ "/" \in Tokens /\ "::" \in Tokens /\ "PointingToDeclaration" \in Tokens
<1>1. /\ d.module \in DOMAIN Module /\ d.package \in DOMAIN Package
      /\ d.name \in DOMAIN Name /\ d.member \in DOMAIN Member
  BY NamesAssumption
<1>2. STRING \subseteq Tokens
  BY DEF Tokens
<1>3. /\ Module[d.module] \in Seq(STRING) /\ Package[d.package] \in Seq(STRING)
      /\ Name[d.name] \in Seq(STRING) /\ Member[d.member] \in Seq(STRING)
  BY <1>1, NamesAssumption
<1>4. /\ Module[d.module] \in Seq(Tokens) /\ Package[d.package] \in Seq(Tokens)
      /\ Name[d.name] \in Seq(Tokens) /\ Member[d.member] \in Seq(Tokens)
  BY <1>2, <1>3, SeqMonotonic
<1>5. "/" \in Tokens /\ "::" \in Tokens /\ "PointingToDeclaration" \in Tokens
  BY DEF Tokens
<1>6. <<"/">> \in Seq(Tokens)
  BY <1>5
<1>7. MemberName(d) \in Seq(Tokens)
  BY <1>4, <1>6, ConcatProperties DEF MemberName
<1>8. d.module \in Tokens
  BY <1>1, NamesAssumption DEF Tokens
<1>9. Pointer(d) \in Seq(Tokens)
  BY <1>5, <1>8 DEF Pointer
<1> QED BY <1>4, <1>5, <1>7, <1>9

\* So are the joined ones, each made of the next.
LEMMA IdsAreTexts ==
  ASSUME NEW d \in Declarations
  PROVE  /\ MemberText(d) \in Seq(Tokens)
         /\ NameText(d) \in Seq(Tokens)
         /\ PackageText(d) \in Seq(Tokens)
         /\ Id(d) \in Seq(Tokens)
         /\ Id(d) = Join(Module[d.module], "::", PackageText(d))
         /\ Joined(MemberName(d), "PointingToDeclaration", Pointer(d), MemberText(d))
         /\ Joined(Name[d.name], "/", MemberText(d), NameText(d))
         /\ Joined(Package[d.package], "/", NameText(d), PackageText(d))
         /\ Joined(Module[d.module], "::", PackageText(d), Id(d))
<1>0. /\ Module[d.module] \in Seq(Tokens) /\ Package[d.package] \in Seq(Tokens)
      /\ Name[d.name] \in Seq(Tokens)
      /\ MemberName(d) \in Seq(Tokens) /\ Pointer(d) \in Seq(Tokens)
      /\ "/" \in Tokens /\ "::" \in Tokens /\ "PointingToDeclaration" \in Tokens
  BY NamesAreTexts
<1>1. /\ MemberText(d) \in Seq(Tokens)
      /\ Joined(MemberName(d), "PointingToDeclaration", Pointer(d), MemberText(d))
  BY <1>0, JoinProperties DEF MemberText
<1>2. NameText(d) \in Seq(Tokens) /\ Joined(Name[d.name], "/", MemberText(d), NameText(d))
  BY <1>0, <1>1, JoinProperties DEF NameText
<1>3. /\ PackageText(d) \in Seq(Tokens)
      /\ Joined(Package[d.package], "/", NameText(d), PackageText(d))
  BY <1>0, <1>2, JoinProperties DEF PackageText
<1>4. Id(d) = Join(Module[d.module], "::", PackageText(d))
  BY DEF Id, PackageText, NameText, MemberText, MemberName, Pointer
<1>5. Id(d) \in Seq(Tokens) /\ Joined(Module[d.module], "::", PackageText(d), Id(d))
  BY <1>0, <1>3, <1>4, JoinProperties
<1> QED BY <1>1, <1>2, <1>3, <1>4, <1>5

\* Where the names are in an id.
LEMMA IdTokens ==
  ASSUME NEW d \in Declarations
  PROVE  LET m == Len(Module[d.module])
             p == Len(Package[d.package])
             n == Len(Name[d.name])
         IN /\ m \in Nat /\ p \in Nat /\ n \in Nat
            /\ Len(MemberText(d)) \in Nat
            /\ Len(Id(d)) = m + 1 + p + 1 + n + 1 + Len(MemberText(d))
            /\ \A j \in 1..m : Id(d)[j] = Module[d.module][j]
            /\ Id(d)[m + 1] = "::"
            /\ \A j \in 1..p : Id(d)[m + 1 + j] = Package[d.package][j]
            /\ Id(d)[m + 1 + (p + 1)] = "/"
            /\ \A j \in 1..n : Id(d)[m + 1 + (p + 1 + j)] = Name[d.name][j]
            /\ Id(d)[m + 1 + (p + 1 + (n + 1))] = "/"
            /\ \A j \in 1..Len(MemberText(d)) :
                 Id(d)[m + 1 + (p + 1 + (n + 1 + j))] = MemberText(d)[j]
<1> DEFINE m == Len(Module[d.module])
           p == Len(Package[d.package])
           n == Len(Name[d.name])
           u == Id(d)
           v == PackageText(d)
           w == NameText(d)
           x == MemberText(d)
<1>1. m \in Nat /\ p \in Nat /\ n \in Nat /\ Len(x) \in Nat
  BY NamesAreTexts, IdsAreTexts, LenProperties
<1>2. /\ Joined(Name[d.name], "/", x, w)
      /\ Joined(Package[d.package], "/", w, v)
      /\ Joined(Module[d.module], "::", v, u)
  BY IdsAreTexts
<1> HIDE DEF u, v, w, x
<1>3. /\ Len(w) = n + 1 + Len(x)
      /\ \A j \in 1..n : w[j] = Name[d.name][j]
      /\ w[n + 1] = "/"
      /\ \A j \in 1..Len(x) : w[n + 1 + j] = x[j]
  BY <1>2 DEF Joined
<1>4. /\ Len(v) = p + 1 + Len(w)
      /\ \A j \in 1..p : v[j] = Package[d.package][j]
      /\ v[p + 1] = "/"
      /\ \A j \in 1..Len(w) : v[p + 1 + j] = w[j]
  BY <1>2 DEF Joined
<1>5. /\ Len(u) = m + 1 + Len(v)
      /\ \A j \in 1..m : u[j] = Module[d.module][j]
      /\ u[m + 1] = "::"
      /\ \A j \in 1..Len(v) : u[m + 1 + j] = v[j]
  BY <1>2 DEF Joined
<1> HIDE DEF m, p, n
<1>6. Len(w) \in Nat /\ Len(v) \in Nat /\ Len(u) = m + 1 + p + 1 + n + 1 + Len(x)
  BY <1>1, <1>3, <1>4, <1>5
<1>7. ASSUME NEW j \in 1..Len(w)
      PROVE  u[m + 1 + (p + 1 + j)] = w[j]
  <2>1. p + 1 + j \in 1..Len(v)
    BY <1>1, <1>4, <1>6
  <2> QED BY <1>4, <1>5, <2>1
<1>8. \A j \in 1..p : u[m + 1 + j] = Package[d.package][j]
  <2>1. \A j \in 1..p : j \in 1..Len(v)
    BY <1>1, <1>4, <1>6
  <2> QED BY <1>4, <1>5, <2>1
<1>9. u[m + 1 + (p + 1)] = "/"
  <2>1. p + 1 \in 1..Len(v)
    BY <1>1, <1>4, <1>6
  <2> QED BY <1>4, <1>5, <2>1
<1>10. \A j \in 1..n : u[m + 1 + (p + 1 + j)] = Name[d.name][j]
  <2>1. \A j \in 1..n : j \in 1..Len(w)
    BY <1>1, <1>3, <1>6
  <2> QED BY <1>3, <1>7, <2>1
<1>11. u[m + 1 + (p + 1 + (n + 1))] = "/"
  <2>1. n + 1 \in 1..Len(w)
    BY <1>1, <1>3, <1>6
  <2> QED BY <1>3, <1>7, <2>1
<1>12. ASSUME NEW j \in 1..Len(x)
       PROVE  u[m + 1 + (p + 1 + (n + 1 + j))] = x[j]
  <2>1. n + 1 + j \in 1..Len(w)
    BY <1>1, <1>3, <1>6
  <2> QED BY <1>3, <1>7, <2>1
<1> QED BY <1>1, <1>5, <1>6, <1>8, <1>9, <1>10, <1>11, <1>12 DEF m, p, n, u, x

\* After the name comes the member, or the slash that is in its place.
LEMMA MemberTokens ==
  ASSUME NEW d \in Declarations
  PROVE  /\ Len(MemberName(d)) \in Nat /\ Len(MemberName(d)) >= 2
         /\ Len(MemberText(d)) = Len(MemberName(d)) + 4
         /\ MemberText(d)[1] = Member[d.member][1]
<1> DEFINE f == Member[d.member]
<1>1. f \in Seq(Tokens) /\ MemberName(d) \in Seq(Tokens) /\ Pointer(d) \in Seq(Tokens)
  BY NamesAreTexts
<1>4. <<"/">> \in Seq(Tokens) /\ Len(<<"/">>) = 1
  BY DEF Tokens
<1>2. f # <<>>
  <2>1. d.member \in DOMAIN Member
    BY NamesAssumption
  <2>2. f = <<"/">> \/ f # <<>>
    BY <2>1, NamesAssumption
  <2>3. <<"/">> # <<>>
    BY <1>4, EmptySeq
  <2> QED BY <2>2, <2>3
<1>3. Len(f) \in Nat \ {0}
  BY <1>1, <1>2, EmptySeq
<1>5. /\ Len(MemberName(d)) = Len(f) + 1
      /\ \A i \in 1..Len(f) + 1 : MemberName(d)[i] = IF i <= Len(f) THEN f[i] ELSE <<"/">>[i - Len(f)]
  BY <1>1, <1>4, ConcatProperties DEF MemberName
<1>6. MemberName(d)[1] = f[1]
  <2>1. 1 \in 1..Len(f) + 1 /\ 1 <= Len(f)
    BY <1>3
  <2> QED BY <1>5, <2>1
<1>7. Len(Pointer(d)) = 3
  BY DEF Pointer
<1>8. /\ Len(MemberText(d)) = Len(MemberName(d)) + 1 + Len(Pointer(d))
      /\ \A j \in 1..Len(MemberName(d)) : MemberText(d)[j] = MemberName(d)[j]
  BY IdsAreTexts DEF Joined
<1> HIDE DEF f
<1>9. MemberText(d)[1] = f[1]
  <2>1. 1 \in 1..Len(MemberName(d))
    BY <1>3, <1>5
  <2> QED BY <1>6, <1>8, <2>1
<1>10. Len(MemberText(d)) = Len(MemberName(d)) + 4
  BY <1>3, <1>5, <1>7, <1>8
<1> QED BY <1>3, <1>5, <1>9, <1>10 DEF f

\* There are two slashes up to the end of the name, and no more.
LEMMA FirstSlashes ==
  ASSUME NEW d \in Declarations
  PROVE  LET s == Len(Module[d.module]) + 1 + (Len(Package[d.package]) + 1)
         IN /\ s \in Nat /\ Short(d) \in Nat /\ 1 <= s /\ s <= Short(d)
            /\ Len(Id(d)) = Short(d) + 1 + Len(MemberText(d))
            /\ Id(d)[s] = "/" /\ Id(d)[Short(d) + 1] = "/"
            /\ \A j \in 1..Short(d) : Id(d)[j] = "/" => j = s
            /\ Id(d)[Short(d) + 2] = MemberText(d)[1]
<1> DEFINE m == Len(Module[d.module])
           p == Len(Package[d.package])
           n == Len(Name[d.name])
           u == Id(d)
           s == m + 1 + (p + 1)
<1>0. /\ m \in Nat /\ p \in Nat /\ n \in Nat
      /\ Len(MemberText(d)) \in Nat
      /\ Len(u) = m + 1 + p + 1 + n + 1 + Len(MemberText(d))
  BY IdTokens
<1>1. /\ \A j \in 1..m : u[j] = Module[d.module][j]
      /\ u[m + 1] = "::"
  BY IdTokens
<1>2. /\ \A j \in 1..p : u[m + 1 + j] = Package[d.package][j]
      /\ u[s] = "/"
  BY IdTokens
<1>3. /\ \A j \in 1..n : u[m + 1 + (p + 1 + j)] = Name[d.name][j]
      /\ u[m + 1 + (p + 1 + (n + 1))] = "/"
  BY IdTokens
<1>4. \A j \in 1..Len(MemberText(d)) :
        u[m + 1 + (p + 1 + (n + 1 + j))] = MemberText(d)[j]
  BY IdTokens
<1>5. /\ d.module \in DOMAIN Module /\ d.package \in DOMAIN Package
      /\ d.name \in DOMAIN Name
  BY NamesAssumption
<1>6. /\ ~Has(Module[d.module], "/") /\ ~Has(Package[d.package], "/")
      /\ ~Has(Name[d.name], "/")
  BY <1>5, NamesAssumption
<1>7. /\ Module[d.module] \in Seq(Tokens) /\ Package[d.package] \in Seq(Tokens)
      /\ Name[d.name] \in Seq(Tokens)
  BY NamesAreTexts
<1>8. /\ \A j \in 1..m : Module[d.module][j] # "/"
      /\ \A j \in 1..p : Package[d.package][j] # "/"
      /\ \A j \in 1..n : Name[d.name][j] # "/"
  BY <1>6, <1>7, HasNot
<1>9. Short(d) = m + 1 + p + 1 + n
  BY DEF Short
<1>10. Len(MemberText(d)) >= 1
  BY MemberTokens
<1> HIDE DEF m, p, n, u
<1>11. ASSUME NEW j \in 1..Short(d), u[j] = "/" PROVE j = s
  <2>1. ~(j <= m)
    <3>1. ASSUME j <= m PROVE FALSE
      <4>1. j \in 1..m
        BY <1>0, <1>9, <3>1
      <4> QED BY <1>1, <1>8, <1>11, <4>1
    <3> QED BY <3>1
  <2>2. j # m + 1
    BY <1>1, <1>11
  <2>3. ~(m + 1 < j /\ j < s)
    <3>1. ASSUME m + 1 < j /\ j < s PROVE FALSE
      <4>1. j - (m + 1) \in 1..p /\ j = m + 1 + (j - (m + 1))
        BY <1>0, <1>9, <3>1
      <4> QED BY <1>2, <1>8, <1>11, <4>1
    <3> QED BY <3>1
  <2>4. ~(s < j)
    <3>1. ASSUME s < j PROVE FALSE
      <4>1. j - s \in 1..n /\ j = m + 1 + (p + 1 + (j - s))
        BY <1>0, <1>9, <3>1
      <4> QED BY <1>3, <1>8, <1>11, <4>1
    <3> QED BY <3>1
  <2> QED BY <1>0, <1>9, <2>1, <2>2, <2>3, <2>4
<1>12. u[Short(d) + 1] = "/"
  <2>1. Short(d) + 1 = m + 1 + (p + 1 + (n + 1))
    BY <1>0, <1>9
  <2> QED BY <1>3, <2>1
<1>13. u[Short(d) + 2] = MemberText(d)[1]
  <2>1. Short(d) + 2 = m + 1 + (p + 1 + (n + 1 + 1)) /\ 1 \in 1..Len(MemberText(d))
    BY <1>0, <1>9, <1>10
  <2> QED BY <1>4, <2>1
<1>14. /\ s \in Nat /\ Short(d) \in Nat /\ 1 <= s /\ s <= Short(d)
       /\ Len(u) = Short(d) + 1 + Len(MemberText(d))
  BY <1>0, <1>9
<1> QED BY <1>2, <1>11, <1>12, <1>13, <1>14 DEF m, p, n, u

\* The texts the loop tries begin the id and reach to the end of the name at least.
LEMMA TriedTexts ==
  ASSUME NEW d \in Declarations, NEW t \in Tried(Id(d))
  PROVE  /\ t \in Seq(Tokens) /\ Begins(t, Id(d))
         /\ t # Id(d) => Len(t) < Len(Id(d))
         /\ Len(t) >= Short(d)
         /\ Len(t) = Short(d) => t = SubSeq(Id(d), 1, Short(d))
         /\ Member[d.member][1] # "/" => Len(t) # Short(d) + 1
<1> DEFINE u == Id(d)
           s == Len(Module[d.module]) + 1 + (Len(Package[d.package]) + 1)
<1>1. /\ s \in Nat /\ Short(d) \in Nat /\ 1 <= s /\ s <= Short(d)
      /\ Len(u) = Short(d) + 1 + Len(MemberText(d))
      /\ \A j \in 1..Short(d) : u[j] = "/" => j = s
      /\ u[Short(d) + 2] = Member[d.member][1]
  BY FirstSlashes, MemberTokens
<1>2. Len(MemberText(d)) \in Nat /\ Len(MemberText(d)) >= 6
  BY MemberTokens
<1>3. u \in Seq(Tokens) /\ DOMAIN u = 1..Len(u) /\ Len(u) \in Nat
  BY IdsAreTexts, LenProperties
<1>4. t \in Tried(u)
  OBVIOUS
<1> HIDE DEF u, s
<1>5. CASE t = u
  <2>1. Begins(t, u)
    BY <1>3, <1>5 DEF Begins
  <2>2. Len(t) > Short(d) + 1
    BY <1>1, <1>2, <1>5
  <2> QED BY <1>1, <1>3, <1>5, <2>1, <2>2 DEF u
<1>6. CASE t # u
  <2>1. PICK i \in Slashes(u) : (\E k \in Slashes(u) : k < i) /\ t = SubSeq(u, 1, i - 1)
    BY <1>4, <1>6 DEF Tried
  <2>2. PICK k \in Slashes(u) : k < i
    BY <2>1
  <2>3. i \in 1..Len(u) /\ k \in 1..Len(u) /\ u[i] = "/" /\ u[k] = "/"
    BY <1>3 DEF Slashes
  <2>4. i >= Short(d) + 1
    <3>1. ASSUME i <= Short(d) PROVE FALSE
      <4>1. i \in 1..Short(d) /\ k \in 1..Short(d)
        BY <1>1, <1>3, <2>2, <2>3, <3>1
      <4>2. i = s /\ k = s
        BY <1>1, <2>3, <4>1
      <4> QED BY <1>1, <2>2, <4>2
    <3> QED BY <1>1, <2>3, <3>1
  <2>5. \A j \in 1..(i - 1) : u[j] \in Tokens
    BY <1>3, <2>3, ElementOfSeq
  <2>6. 1 \in Int /\ i - 1 \in Int /\ (i - 1) - 1 + 1 = i - 1 /\ 1 <= i - 1
    BY <1>1, <2>3, <2>4
  <2>7. /\ t \in Seq(Tokens)
        /\ Len(t) = i - 1
        /\ \A j \in 1..(i - 1) - 1 + 1 : t[j] = u[1 + j - 1]
    BY <2>1, <2>5, <2>6, SubSeqProperties
  <2>8. Begins(t, u)
    <3>1. \A j \in 1..(i - 1) : 1 + j - 1 = j
      OBVIOUS
    <3> QED BY <1>3, <2>3, <2>6, <2>7, <3>1 DEF Begins
  <2>9. Len(t) < Len(u) /\ Len(t) >= Short(d)
    BY <1>1, <1>3, <2>3, <2>4, <2>7
  <2>10. Len(t) = Short(d) => t = SubSeq(u, 1, Short(d))
    BY <2>1, <2>7
  <2>11. Len(t) = Short(d) + 1 => i = Short(d) + 2
    BY <1>1, <2>3, <2>7
  <2>12. Len(t) = Short(d) + 1 => Member[d.member][1] = "/"
    BY <1>1, <2>3, <2>11
  <2> QED BY <2>7, <2>8, <2>9, <2>10, <2>12 DEF u
<1> QED BY <1>5, <1>6

\* The last text it tries is module::package/name.
LEMMA ShortIsTried ==
  ASSUME NEW d \in Declarations
  PROVE  /\ SubSeq(Id(d), 1, Short(d)) \in Tried(Id(d))
         /\ Len(SubSeq(Id(d), 1, Short(d))) = Short(d)
<1> DEFINE u == Id(d)
           s == Len(Module[d.module]) + 1 + (Len(Package[d.package]) + 1)
<1>1. /\ s \in Nat /\ Short(d) \in Nat /\ 1 <= s /\ s <= Short(d)
      /\ Len(u) = Short(d) + 1 + Len(MemberText(d))
      /\ u[s] = "/" /\ u[Short(d) + 1] = "/"
  BY FirstSlashes
<1>2. Len(MemberText(d)) \in Nat
  BY MemberTokens
<1>3. u \in Seq(Tokens) /\ DOMAIN u = 1..Len(u)
  BY IdsAreTexts, LenProperties
<1> HIDE DEF u, s
<1>4. s \in Slashes(u) /\ Short(d) + 1 \in Slashes(u) /\ s < Short(d) + 1
  BY <1>1, <1>2, <1>3 DEF Slashes
<1>5. (Short(d) + 1) - 1 = Short(d)
  BY <1>1
<1>6. SubSeq(u, 1, Short(d)) \in Tried(u)
  BY <1>4, <1>5 DEF Tried
<1>7. \A j \in 1..Short(d) : u[j] \in Tokens
  BY <1>1, <1>2, <1>3, ElementOfSeq
<1>8. Len(SubSeq(u, 1, Short(d))) = Short(d)
  BY <1>1, <1>7, SubSeqProperties
<1> QED BY <1>6, <1>8 DEF u

-----------------------------------------------------------------------------
(* Where a text of the loop is found.                                          *)

\* Neither :: nor the end of an id is in a member.
LEMMA MemberNameSeparates ==
  ASSUME NEW d \in Declarations
  PROVE  ~Has(MemberName(d), "::") /\ ~Has(MemberName(d), "PointingToDeclaration")
<1> DEFINE f == Member[d.member]
<1>1. d.member \in DOMAIN Member
  BY NamesAssumption
<1>2. ~Has(f, "::") /\ ~Has(f, "PointingToDeclaration")
  BY <1>1, NamesAssumption
<1>3. f \in Seq(Tokens) /\ MemberName(d) \in Seq(Tokens) /\ "/" \in Tokens
  BY NamesAreTexts
<1>4. <<"/">> \in Seq(Tokens) /\ Len(<<"/">>) = 1 /\ <<"/">>[1] = "/"
  BY <1>3
<1>5. /\ Len(MemberName(d)) = Len(f) + 1
      /\ \A i \in 1..Len(f) + 1 : MemberName(d)[i] = IF i <= Len(f) THEN f[i] ELSE <<"/">>[i - Len(f)]
  BY <1>3, <1>4, ConcatProperties DEF MemberName
<1>6. (\A j \in 1..Len(f) : f[j] # "::") /\ (\A j \in 1..Len(f) : f[j] # "PointingToDeclaration")
  BY <1>2, <1>3, HasNot
<1>7. Len(f) \in Nat /\ DOMAIN MemberName(d) = 1..Len(MemberName(d))
  BY <1>3, LenProperties
<1> HIDE DEF f
<1>8. ASSUME NEW i \in 1..Len(f) + 1
      PROVE  MemberName(d)[i] # "::" /\ MemberName(d)[i] # "PointingToDeclaration"
  <2>1. CASE i <= Len(f)
    BY <1>5, <1>6, <1>7, <2>1
  <2>2. CASE ~(i <= Len(f))
    <3>1. i - Len(f) = 1
      BY <1>7, <2>2
    <3> QED BY <1>4, <1>5, <2>2, <3>1
  <2> QED BY <2>1, <2>2
<1> QED BY <1>5, <1>7, <1>8 DEF Has

\* :: is in an id only after the module.
LEMMA OneModuleSeparator ==
  ASSUME NEW d \in Declarations
  PROVE  ~Has(Module[d.module], "::") /\ ~Has(PackageText(d), "::")
<1>1. /\ d.module \in DOMAIN Module /\ d.package \in DOMAIN Package
      /\ d.name \in DOMAIN Name
  BY NamesAssumption
<1>2. /\ ~Has(Module[d.module], "::") /\ ~Has(Package[d.package], "::")
      /\ ~Has(Name[d.name], "::") /\ d.module # "::"
  BY <1>1, NamesAssumption
<1>3. /\ Package[d.package] \in Seq(Tokens) /\ Name[d.name] \in Seq(Tokens)
      /\ MemberName(d) \in Seq(Tokens)
      /\ Pointer(d) \in Seq(Tokens)
      /\ "/" \in Tokens /\ "PointingToDeclaration" \in Tokens
  BY NamesAreTexts
<1>4. ~Has(Pointer(d), "::")
  <2>1. \A i \in DOMAIN Pointer(d) : Pointer(d)[i] # "::"
    BY <1>2 DEF Pointer
  <2> QED BY <2>1 DEF Has
<1>5. ~Has(MemberName(d), "::")
  BY MemberNameSeparates
<1>6. MemberText(d) \in Seq(Tokens) /\ NameText(d) \in Seq(Tokens)
  BY IdsAreTexts
<1>7. ~Has(MemberText(d), "::")
  BY <1>3, <1>4, <1>5, JoinHasNot DEF MemberText
<1>8. ~Has(NameText(d), "::")
  BY <1>2, <1>3, <1>6, <1>7, JoinHasNot DEF NameText
<1>9. ~Has(PackageText(d), "::")
  BY <1>2, <1>3, <1>6, <1>8, JoinHasNot DEF PackageText
<1> QED BY <1>2, <1>9

\* What is left of t behind module::package/.
Left(d, t) == Len(t) - Len(Module[d.module]) - 1 - Len(Package[d.package]) - 1

\* Lengths, for the arithmetic of the next lemmas.
LEMMA Lengths ==
  ASSUME NEW m \in Nat, NEW p \in Nat, NEW n \in Nat, NEW k \in Nat,
         k >= m + 1 + p + 1 + n
  PROVE  /\ k > m
         /\ k - m - 1 \in Nat /\ k - m - 1 > p
         /\ k - m - 1 - p - 1 \in Nat /\ k - m - 1 - p - 1 >= n
  OBVIOUS

LEMMA LengthsBeyond ==
  ASSUME NEW m \in Nat, NEW p \in Nat, NEW n \in Nat, NEW k \in Nat,
         k >= m + 1 + p + 1 + n + 2
  PROVE  /\ k - m - 1 - p - 1 \in Nat /\ k - m - 1 - p - 1 > n
         /\ 1 \in 1..(k - m - 1 - p - 1 - n - 1)
  OBVIOUS

\* An id with such a text in it is of the same package, and its name begins with
\* the name of the other.
LEMMA MatchShares ==
  ASSUME NEW d \in Declarations, NEW e \in Declarations, NEW t \in Tried(Id(d)),
         Within(t, Id(e))
  PROVE  /\ d.module = e.module /\ d.package = e.package
         /\ Agree(NameText(d), NameText(e), Left(d, t))
         /\ Begins(Name[d.name], Name[e.name])
<1>1. /\ Module[d.module] \in Seq(Tokens) /\ Package[d.package] \in Seq(Tokens)
      /\ Name[d.name] \in Seq(Tokens)
      /\ Module[e.module] \in Seq(Tokens) /\ Package[e.package] \in Seq(Tokens)
      /\ Name[e.name] \in Seq(Tokens)
      /\ "/" \in Tokens /\ "::" \in Tokens
  BY NamesAreTexts
<1>2. /\ MemberText(d) \in Seq(Tokens) /\ NameText(d) \in Seq(Tokens)
      /\ PackageText(d) \in Seq(Tokens)
      /\ MemberText(e) \in Seq(Tokens) /\ NameText(e) \in Seq(Tokens)
      /\ PackageText(e) \in Seq(Tokens)
      /\ Id(d) = Join(Module[d.module], "::", PackageText(d))
      /\ Id(e) = Join(Module[e.module], "::", PackageText(e))
  BY IdsAreTexts
<1>3. /\ d.module \in DOMAIN Module /\ d.package \in DOMAIN Package /\ d.name \in DOMAIN Name
      /\ e.module \in DOMAIN Module /\ e.package \in DOMAIN Package
  BY NamesAssumption
<1>4. t \in Seq(Tokens) /\ Begins(t, Id(d)) /\ Len(t) >= Short(d)
  BY TriedTexts
<1>5. /\ Len(Module[d.module]) \in Nat /\ Len(Package[d.package]) \in Nat
      /\ Len(Name[d.name]) \in Nat /\ Len(t) \in Nat
  BY <1>1, <1>4, LenProperties
<1>l. Len(t) >= Len(Module[d.module]) + 1 + Len(Package[d.package]) + 1 + Len(Name[d.name])
  BY <1>4 DEF Short
<1>6. Left(d, t) \in Nat /\ Left(d, t) >= Len(Name[d.name])
  BY <1>5, <1>l, Lengths DEF Left
<1>7. Len(t) > Len(Module[d.module])
  BY <1>5, <1>l, Lengths
<1>8. ~Has(Module[e.module], "::") /\ ~Has(PackageText(e), "::")
  BY OneModuleSeparator
<1>9. /\ Ends(Module[d.module], Module[e.module])
      /\ Agree(PackageText(d), PackageText(e), Len(t) - Len(Module[d.module]) - 1)
  <2>1. /\ Begins(t, Join(Module[d.module], "::", PackageText(d)))
        /\ Within(t, Join(Module[e.module], "::", PackageText(e)))
    BY <1>2, <1>4
  <2> QED BY <1>1, <1>2, <1>4, <1>7, <1>8, <2>1, Align
<1>10. d.module = e.module
  BY <1>3, <1>9, NamesAssumption
<1>11. ~Has(Package[d.package], "/") /\ ~Has(Package[e.package], "/") /\ ~Has(Name[d.name], "/")
  BY <1>3, NamesAssumption
<1>12. /\ Len(t) - Len(Module[d.module]) - 1 \in Nat
       /\ Len(t) - Len(Module[d.module]) - 1 > Len(Package[d.package])
  BY <1>5, <1>l, Lengths
<1>13. /\ Package[d.package] = Package[e.package]
       /\ Agree(NameText(d), NameText(e),
                Len(t) - Len(Module[d.module]) - 1 - Len(Package[d.package]) - 1)
  <2> DEFINE n == Len(t) - Len(Module[d.module]) - 1
  <2>1. /\ Agree(Join(Package[d.package], "/", NameText(d)),
                 Join(Package[e.package], "/", NameText(e)), n)
        /\ n \in Nat /\ n > Len(Package[d.package])
    BY <1>9, <1>12 DEF PackageText
  <2> HIDE DEF n
  <2>2. /\ Package[d.package] = Package[e.package]
        /\ Agree(NameText(d), NameText(e), n - Len(Package[d.package]) - 1)
    <3>1. /\ Package[d.package] \in Seq(Tokens) /\ Package[e.package] \in Seq(Tokens)
          /\ NameText(d) \in Seq(Tokens) /\ NameText(e) \in Seq(Tokens)
          /\ "/" \in Tokens
      BY <1>1, <1>2
    <3>2. ~Has(Package[d.package], "/") /\ ~Has(Package[e.package], "/")
      BY <1>11
    <3> QED BY <2>1, <3>1, <3>2, SplitEqual, Z3
  <2> QED BY <2>2 DEF n
<1>14. d.package = e.package
  BY <1>3, <1>13, NamesAssumption
<1>15. Agree(NameText(d), NameText(e), Left(d, t))
  BY <1>13 DEF Left
<1>16. Begins(Name[d.name], Name[e.name])
  BY <1>1, <1>2, <1>6, <1>11, <1>15, SplitBegins DEF NameText
<1> QED BY <1>10, <1>14, <1>15, <1>16

\* A text that is longer than module::package/name is found only in ids with the
\* same name and the same token after it.
LEMMA LongerMatch ==
  ASSUME NEW d \in Declarations, NEW e \in Declarations, NEW t \in Tried(Id(d)),
         Within(t, Id(e)), Len(t) >= Short(d) + 2
  PROVE  d.name = e.name /\ Member[d.member][1] = Member[e.member][1]
<1>1. /\ Name[d.name] \in Seq(Tokens) /\ Name[e.name] \in Seq(Tokens)
      /\ Module[d.module] \in Seq(Tokens) /\ Package[d.package] \in Seq(Tokens)
      /\ "/" \in Tokens
  BY NamesAreTexts
<1>2. MemberText(d) \in Seq(Tokens) /\ MemberText(e) \in Seq(Tokens)
  BY IdsAreTexts
<1>3. d.name \in DOMAIN Name /\ e.name \in DOMAIN Name
  BY NamesAssumption
<1>4. ~Has(Name[d.name], "/") /\ ~Has(Name[e.name], "/")
  BY <1>3, NamesAssumption
<1>5. t \in Seq(Tokens)
  BY TriedTexts
<1>6. /\ Len(Module[d.module]) \in Nat /\ Len(Package[d.package]) \in Nat
      /\ Len(Name[d.name]) \in Nat /\ Len(t) \in Nat
  BY <1>1, <1>5, LenProperties
<1>7. /\ Left(d, t) \in Nat /\ Left(d, t) > Len(Name[d.name])
      /\ 1 \in 1..(Left(d, t) - Len(Name[d.name]) - 1)
  <2>1. Len(t) >= Len(Module[d.module]) + 1 + Len(Package[d.package]) + 1 + Len(Name[d.name]) + 2
    BY DEF Short
  <2> QED BY <1>6, <2>1, LengthsBeyond DEF Left
<1>8. Agree(NameText(d), NameText(e), Left(d, t))
  BY MatchShares
<1>9. /\ Name[d.name] = Name[e.name]
      /\ Agree(MemberText(d), MemberText(e), Left(d, t) - Len(Name[d.name]) - 1)
  BY <1>1, <1>2, <1>4, <1>7, <1>8, SplitEqual DEF NameText
<1>10. d.name = e.name
  BY <1>3, <1>9, NamesAssumption
<1>11. MemberText(d)[1] = MemberText(e)[1]
  BY <1>7, <1>9 DEF Agree
<1> QED BY <1>10, <1>11, MemberTokens

\* A whole id is found in itself only.
LEMMA WholeMatch ==
  ASSUME NEW d \in Declarations, NEW e \in Declarations, Within(Id(d), Id(e))
  PROVE  d = e
<1>0. Id(d) \in Tried(Id(d))
  BY DEF Tried
<1>1. d.module = e.module /\ d.package = e.package
  BY <1>0, MatchShares
<1>2. Agree(NameText(d), NameText(e), Left(d, Id(d)))
  BY <1>0, MatchShares
<1>3. /\ Name[d.name] \in Seq(Tokens) /\ Name[e.name] \in Seq(Tokens)
      /\ MemberName(d) \in Seq(Tokens) /\ MemberName(e) \in Seq(Tokens)
      /\ Member[d.member] \in Seq(Tokens) /\ Member[e.member] \in Seq(Tokens)
      /\ Pointer(d) \in Seq(Tokens) /\ Pointer(e) \in Seq(Tokens)
      /\ "/" \in Tokens /\ "PointingToDeclaration" \in Tokens
  BY NamesAreTexts
<1>4. MemberText(d) \in Seq(Tokens) /\ MemberText(e) \in Seq(Tokens)
  BY IdsAreTexts
<1>5. /\ d.name \in DOMAIN Name /\ e.name \in DOMAIN Name
      /\ d.member \in DOMAIN Member /\ e.member \in DOMAIN Member
  BY NamesAssumption
<1>6. ~Has(Name[d.name], "/") /\ ~Has(Name[e.name], "/")
  BY <1>5, NamesAssumption
<1>7. /\ Len(Module[d.module]) \in Nat /\ Len(Package[d.package]) \in Nat
      /\ Len(Name[d.name]) \in Nat /\ Len(MemberText(d)) \in Nat
      /\ Len(Id(d)) = Len(Module[d.module]) + 1 + Len(Package[d.package]) + 1
                        + Len(Name[d.name]) + 1 + Len(MemberText(d))
  BY IdTokens
<1>8. /\ Left(d, Id(d)) \in Nat /\ Left(d, Id(d)) > Len(Name[d.name])
      /\ Left(d, Id(d)) - Len(Name[d.name]) - 1 = Len(MemberText(d))
  <2> DEFINE m == Len(Module[d.module])
             p == Len(Package[d.package])
             n == Len(Name[d.name])
             x == Len(MemberText(d))
  <2>1. /\ m \in Nat /\ p \in Nat /\ n \in Nat /\ x \in Nat
        /\ Len(Id(d)) = m + 1 + p + 1 + n + 1 + x
        /\ Left(d, Id(d)) = Len(Id(d)) - m - 1 - p - 1
    BY <1>7 DEF Left
  <2> HIDE DEF m, p, n, x
  <2>2. /\ Left(d, Id(d)) \in Nat /\ Left(d, Id(d)) > n
        /\ Left(d, Id(d)) - n - 1 = x
    BY <2>1
  <2> QED BY <2>2 DEF n, x
<1>9. /\ Name[d.name] = Name[e.name]
      /\ Agree(MemberText(d), MemberText(e), Left(d, Id(d)) - Len(Name[d.name]) - 1)
  BY <1>2, <1>3, <1>4, <1>6, <1>8, SplitEqual DEF NameText
<1>10. Agree(MemberText(d), MemberText(e), Len(MemberText(d)))
  BY <1>8, <1>9
<1>11. /\ Len(MemberText(d)) = Len(MemberName(d)) + 4
       /\ Len(MemberName(d)) \in Nat
  BY MemberTokens
<1>12. /\ ~Has(MemberName(d), "PointingToDeclaration")
       /\ ~Has(MemberName(e), "PointingToDeclaration")
  BY MemberNameSeparates
<1>13. MemberName(d) = MemberName(e)
  <2>1. Agree(Join(MemberName(d), "PointingToDeclaration", Pointer(d)),
              Join(MemberName(e), "PointingToDeclaration", Pointer(e)), Len(MemberText(d)))
    BY <1>10 DEF MemberText
  <2>2. Len(MemberText(d)) > Len(MemberName(d))
    BY <1>11
  <2> QED BY <1>3, <1>7, <1>12, <2>1, <2>2, SplitEqual
<1>14. Member[d.member] = Member[e.member]
  <2>1. <<"/">> \in Seq(Tokens)
    BY <1>3
  <2>2. Member[d.member] \o <<"/">> = Member[e.member] \o <<"/">>
    BY <1>13 DEF MemberName
  <2> QED BY <1>3, <2>1, <2>2, ConcatSimplifications
<1>15. d.name = e.name /\ d.member = e.member
  BY <1>5, <1>9, <1>14, NamesAssumption
<1>16. /\ d \in [module : DOMAIN Module, package : DOMAIN Package,
                 name : DOMAIN Name, member : DOMAIN Member]
       /\ e \in [module : DOMAIN Module, package : DOMAIN Package,
                 name : DOMAIN Name, member : DOMAIN Member]
  BY NamesAssumption
<1> QED BY <1>1, <1>15, <1>16

-----------------------------------------------------------------------------
(* The part the loop selects.                                                  *)

LEMMA PartsAreDeclarations ==
  ASSUME NEW k \in Parts
  PROVE  Menu[k] \in Declarations /\ PartIds[k] = Id(Menu[k]) /\ k \in Nat \ {0}
<1>1. Menu \in Seq(Declarations)
  BY NavigationAssumption
<1>2. Parts = 1..Len(Menu) /\ Len(Menu) \in Nat
  BY <1>1, LenProperties DEF Parts
<1>3. Menu[k] \in Declarations
  BY <1>1, <1>2, ElementOfSeq
<1> QED BY <1>2, <1>3 DEF PartIds

\* Texts that match, and are the longest of those that do, give the selection.
LEMMA LongestSelects ==
  ASSUME NEW d \in Declarations, NEW t \in Tried(Id(d)), NEW k \in Matches(t),
         \A u \in Tried(Id(d)) : Matches(u) # {} /\ u # t => Len(u) < Len(t),
         \A j \in Matches(t) : k <= j
  PROVE  Select(d) = k
<1> DEFINE matched == {u \in Tried(Id(d)) : Matches(u) # {}}
           longest == CHOOSE u \in matched : \A v \in matched : Len(u) >= Len(v)
<1>1. t \in matched
  OBVIOUS
<1>2. \A u \in matched : u # t => Len(u) < Len(t)
  OBVIOUS
<1>3. \A u \in matched : u \in Seq(Tokens) /\ Len(u) \in Nat
  BY TriedTexts, LenProperties
<1> HIDE DEF matched
<1>4. \A u \in matched : Len(t) >= Len(u)
  BY <1>1, <1>2, <1>3
<1>5. longest \in matched /\ \A v \in matched : Len(longest) >= Len(v)
  BY <1>1, <1>4
<1> HIDE DEF longest
<1>6. longest = t
  BY <1>1, <1>2, <1>3, <1>5
<1>7. \A j \in Matches(t) : j \in Nat
  BY PartsAreDeclarations DEF Matches
<1>8. FirstOf(t) \in Matches(t) /\ \A j \in Matches(t) : FirstOf(t) <= j
  BY DEF FirstOf
<1>9. FirstOf(t) = k
  BY <1>7, <1>8
<1>10. Select(d) = IF matched = {} THEN 0 ELSE FirstOf(longest)
  BY DEF Select, matched, longest
<1> QED BY <1>1, <1>6, <1>9, <1>10

\* A text is found in itself.
LEMMA WithinItself ==
  ASSUME NEW S, NEW t \in Seq(S)
  PROVE  Within(t, t)
<1>1. Len(t) \in Nat /\ SubSeq(t, 1, Len(t)) = t
  BY LenProperties, SubSeqFull
<1>2. 0 \in 0..(Len(t) - Len(t)) /\ 0 + 1 = 1 /\ 0 + Len(t) = Len(t)
  BY <1>1
<1> QED BY <1>1, <1>2 DEF Within

\* module::package/name, token by token.
Spell(module, package, name, j) ==
  LET m == Len(module)
      s == m + 1 + (Len(package) + 1)
  IN IF j <= m THEN module[j]
     ELSE IF j = m + 1 THEN "::"
     ELSE IF j < s THEN package[j - (m + 1)]
     ELSE IF j = s THEN "/"
     ELSE name[j - s]

LEMMA Spelled ==
  ASSUME NEW d \in Declarations, NEW j \in 1..Short(d)
  PROVE  Id(d)[j] = Spell(Module[d.module], Package[d.package], Name[d.name], j)
<1> DEFINE m == Len(Module[d.module])
           p == Len(Package[d.package])
           n == Len(Name[d.name])
           u == Id(d)
<1>1. m \in Nat /\ p \in Nat /\ n \in Nat /\ Short(d) = m + 1 + p + 1 + n
  BY IdTokens DEF Short
<1>2. /\ \A i \in 1..m : u[i] = Module[d.module][i]
      /\ u[m + 1] = "::"
  BY IdTokens
<1>3. /\ \A i \in 1..p : u[m + 1 + i] = Package[d.package][i]
      /\ u[m + 1 + (p + 1)] = "/"
  BY IdTokens
<1>4. \A i \in 1..n : u[m + 1 + (p + 1 + i)] = Name[d.name][i]
  BY IdTokens
<1> DEFINE spell == Spell(Module[d.module], Package[d.package], Name[d.name], j)
<1>5. spell = IF j <= m THEN Module[d.module][j]
              ELSE IF j = m + 1 THEN "::"
              ELSE IF j < m + 1 + (p + 1) THEN Package[d.package][j - (m + 1)]
              ELSE IF j = m + 1 + (p + 1) THEN "/"
              ELSE Name[d.name][j - (m + 1 + (p + 1))]
  BY DEF Spell
<1> HIDE DEF m, p, n, u, spell
<1>6. CASE j <= m
  <2>1. j \in 1..m
    BY <1>1, <1>6
  <2> QED BY <1>2, <1>5, <1>6, <2>1 DEF spell, u
<1>7. CASE j = m + 1
  BY <1>1, <1>2, <1>5, <1>7 DEF spell, u
<1>8. CASE m + 1 < j /\ j < m + 1 + (p + 1)
  <2>1. j - (m + 1) \in 1..p /\ j = m + 1 + (j - (m + 1)) /\ ~(j <= m) /\ j # m + 1
    BY <1>1, <1>8
  <2>2. u[j] = Package[d.package][j - (m + 1)]
    BY <1>3, <2>1
  <2> QED BY <1>5, <1>8, <2>1, <2>2 DEF spell, u
<1>9. CASE j = m + 1 + (p + 1)
  <2>1. ~(j <= m) /\ j # m + 1 /\ ~(j < m + 1 + (p + 1))
    BY <1>1, <1>9
  <2> QED BY <1>3, <1>5, <1>9, <2>1 DEF spell, u
<1>10. CASE m + 1 + (p + 1) < j
  <2>1. /\ j - (m + 1 + (p + 1)) \in 1..n
        /\ j = m + 1 + (p + 1 + (j - (m + 1 + (p + 1))))
        /\ ~(j <= m) /\ j # m + 1 /\ ~(j < m + 1 + (p + 1)) /\ j # m + 1 + (p + 1)
    BY <1>1, <1>10
  <2>2. u[j] = Name[d.name][j - (m + 1 + (p + 1))]
    BY <1>4, <2>1
  <2> QED BY <1>5, <2>1, <2>2 DEF spell, u
<1> QED BY <1>1, <1>6, <1>7, <1>8, <1>9, <1>10

\* The id of a class begins with what the loop ends with for its members.
LEMMA ShortWithin ==
  ASSUME NEW d \in Declarations, NEW e \in Declarations,
         e.module = d.module, e.package = d.package, e.name = d.name
  PROVE  Within(SubSeq(Id(d), 1, Short(d)), Id(e))
<1> DEFINE u == Id(d)
           v == Id(e)
           s == Short(d)
<1>0. Short(e) = s
  BY DEF Short
<1>1. s \in Nat /\ Len(u) = s + 1 + Len(MemberText(d))
  BY FirstSlashes
<1>2. Len(v) = Short(e) + 1 + Len(MemberText(e))
  BY FirstSlashes
<1>3. /\ MemberText(d) \in Seq(Tokens) /\ MemberText(e) \in Seq(Tokens)
      /\ u \in Seq(Tokens) /\ v \in Seq(Tokens)
  BY IdsAreTexts
<1>4. Len(MemberText(d)) \in Nat /\ Len(MemberText(e)) \in Nat
  BY <1>3, LenProperties
<1>5. ASSUME NEW j \in 1..s PROVE u[j] = v[j]
  <2>1. u[j] = Spell(Module[d.module], Package[d.package], Name[d.name], j)
    BY Spelled
  <2>2. v[j] = Spell(Module[e.module], Package[e.package], Name[e.name], j)
    BY <1>0, Spelled
  <2> QED BY <2>1, <2>2
<1> HIDE DEF u, v, s
<1>6. \A j \in 1..s : j \in 1..Len(u) /\ j \in 1..Len(v)
  BY <1>0, <1>1, <1>2, <1>4
<1>7. /\ \A j \in 1..s : u[j] \in Tokens
      /\ \A j \in 1..s : v[j] \in Tokens
  BY <1>3, <1>6, ElementOfSeq
<1>8. /\ SubSeq(u, 1, s) \in Seq(Tokens) /\ Len(SubSeq(u, 1, s)) = s
      /\ \A j \in 1..s - 1 + 1 : SubSeq(u, 1, s)[j] = u[1 + j - 1]
  BY <1>1, <1>7, SubSeqProperties
<1>9. /\ SubSeq(v, 1, s) \in Seq(Tokens) /\ Len(SubSeq(v, 1, s)) = s
      /\ \A j \in 1..s - 1 + 1 : SubSeq(v, 1, s)[j] = v[1 + j - 1]
  BY <1>1, <1>7, SubSeqProperties
<1>10. ASSUME NEW j \in 1..s PROVE SubSeq(u, 1, s)[j] = SubSeq(v, 1, s)[j]
  <2>1. j \in 1..s - 1 + 1 /\ 1 + j - 1 = j
    BY <1>1
  <2> QED BY <1>5, <1>8, <1>9, <2>1
<1>11. SubSeq(u, 1, s) = SubSeq(v, 1, s)
  BY <1>8, <1>9, <1>10, SeqEqual
<1>12. 0 \in 0..(Len(v) - s) /\ 0 + 1 = 1 /\ 0 + s = s
  BY <1>0, <1>1, <1>2, <1>4
<1>13. Within(SubSeq(u, 1, s), v)
  BY <1>8, <1>11, <1>12 DEF Within
<1> QED BY <1>13 DEF u, v, s

\* No part is of the module of the page: no text matches.
LEMMA SelectNothing ==
  ASSUME NEW d \in Declarations, \A k \in Parts : Menu[k].module # d.module
  PROVE  Select(d) = 0 /\ Nearest(d) = 0
<1>1. ASSUME NEW t \in Tried(Id(d)), NEW k \in Matches(t) PROVE FALSE
  <2>1. k \in Parts /\ Within(t, Id(Menu[k]))
    BY PartsAreDeclarations DEF Matches
  <2>2. d.module = Menu[k].module
    BY <2>1, PartsAreDeclarations, MatchShares
  <2> QED BY <2>1, <2>2
<1>2. {t \in Tried(Id(d)) : Matches(t) # {}} = {}
  BY <1>1
<1>3. Select(d) = 0
  BY <1>2 DEF Select
<1>4. {k \in Parts : Menu[k] = d} = {}
  OBVIOUS
<1>5. {k \in Parts : Menu[k] = [d EXCEPT !.member = ""]} = {}
  <2>1. [d EXCEPT !.member = ""].module = d.module
    BY NamesAssumption
  <2> QED BY <2>1
<1>6. Nearest(d) = 0
  BY <1>4, <1>5 DEF Nearest
<1> QED BY <1>3, <1>6

\* The page has a part: the whole id finds it and nothing else.
LEMMA SelectOwn ==
  ASSUME NEW d \in Declarations, NEW k \in Parts, Menu[k] = d
  PROVE  Select(d) = k /\ Nearest(d) = k
<1>1. Id(d) \in Tried(Id(d))
  BY DEF Tried
<1>2. k \in Matches(Id(d))
  BY IdsAreTexts, WithinItself DEF Matches, PartIds
<1>3. ASSUME NEW j \in Matches(Id(d)) PROVE j = k
  <2>1. j \in Parts /\ Within(Id(d), Id(Menu[j]))
    BY PartsAreDeclarations DEF Matches
  <2>2. Menu[j] = d
    BY <2>1, PartsAreDeclarations, WholeMatch
  <2> QED BY <2>1, <2>2, NavigationAssumption
<1>4. \A u \in Tried(Id(d)) : Matches(u) # {} /\ u # Id(d) => Len(u) < Len(Id(d))
  BY TriedTexts
<1>5. \A j \in Matches(Id(d)) : k <= j
  BY <1>3, PartsAreDeclarations
<1>6. Select(d) = k
  BY <1>1, <1>2, <1>4, <1>5, LongestSelects
<1>7. {j \in Parts : Menu[j] = d} = {k}
  BY NavigationAssumption
<1>8. (CHOOSE j \in {k} : TRUE) = k
  OBVIOUS
<1>9. Nearest(d) = k
  BY <1>7, <1>8 DEF Nearest
<1> QED BY <1>6, <1>9

LEMMA AtLeastTwoMore ==
  ASSUME NEW l \in Nat, NEW s \in Nat, l >= s, l # s, l # s + 1
  PROVE  l >= s + 2
  OBVIOUS

\* The page is a member of a class, and the class has a part: the longer texts
\* match nothing, as no part is of a member, and the last matches parts whose
\* names begin with that of the class, which comes first.
LEMMA SelectClass ==
  ASSUME NEW d \in Declarations, d.name # "", d.member # "",
         NEW k \in Parts, Menu[k] = [d EXCEPT !.member = ""]
  PROVE  Select(d) = k /\ Nearest(d) = k
<1> DEFINE e == Menu[k]
           short == SubSeq(Id(d), 1, Short(d))
<1>1. /\ e \in Declarations
      /\ e.module = d.module /\ e.package = d.package /\ e.name = d.name /\ e.member = ""
  BY PartsAreDeclarations, NamesAssumption
<1>2. short \in Tried(Id(d)) /\ Len(short) = Short(d)
  BY ShortIsTried
<1>3. k \in Matches(short)
  <2>1. Within(short, Id(e))
    BY <1>1, ShortWithin
  <2> QED BY <2>1, PartsAreDeclarations DEF Matches
<1>4. ASSUME NEW j \in Matches(short) PROVE k <= j
  <2>1. j \in Parts /\ Menu[j] \in Declarations /\ Within(short, Id(Menu[j]))
    BY PartsAreDeclarations DEF Matches
  <2>2. /\ Menu[j].module = d.module /\ Menu[j].package = d.package
        /\ Begins(Name[d.name], Name[Menu[j].name])
    BY <1>2, <2>1, MatchShares
  <2> QED BY <1>1, <2>1, <2>2, NavigationAssumption
<1>5. Member[d.member][1] # "/"
  <2>1. d.member \in DOMAIN Member
    BY NamesAssumption
  <2> QED BY <2>1, NamesAssumption
<1>6. ASSUME NEW u \in Tried(Id(d)), NEW j \in Matches(u), u # short PROVE FALSE
  <2>1. j \in Parts /\ Menu[j] \in Declarations /\ Within(u, Id(Menu[j]))
    BY PartsAreDeclarations DEF Matches
  <2>2. Len(u) >= Short(d) + 2
    <3>1. u \in Seq(Tokens) /\ Len(u) >= Short(d)
      BY TriedTexts
    <3>2. Len(u) # Short(d)
      BY <1>6, TriedTexts
    <3>3. Len(u) # Short(d) + 1
      BY <1>5, TriedTexts
    <3>4. Len(u) \in Nat /\ Short(d) \in Nat
      BY <3>1, LenProperties, FirstSlashes
    <3> QED BY <3>1, <3>2, <3>3, <3>4, AtLeastTwoMore
  <2>3. d.name = Menu[j].name /\ Member[d.member][1] = Member[Menu[j].member][1]
    BY <2>1, <2>2, LongerMatch
  <2>4. Menu[j].member = ""
    BY <2>1, <2>3, NavigationAssumption
  <2>5. Menu[j].member \in DOMAIN Member
    BY <2>1, NamesAssumption
  <2>6. Member[Menu[j].member] = <<"/">>
    BY <2>4, <2>5, NamesAssumption
  <2>7. <<"/">>[1] = "/"
    OBVIOUS
  <2> QED BY <1>5, <2>3, <2>6, <2>7
<1>7. \A u \in Tried(Id(d)) : Matches(u) # {} /\ u # short => Len(u) < Len(short)
  BY <1>6
<1> HIDE DEF short
<1>8. Select(d) = k
  BY <1>2, <1>3, <1>4, <1>7, LongestSelects
<1>9. {j \in Parts : Menu[j] = d} = {}
  <2>1. ASSUME NEW j \in Parts, Menu[j] = d PROVE FALSE
    BY <2>1, NavigationAssumption
  <2> QED BY <2>1
<1>10. {j \in Parts : Menu[j] = [d EXCEPT !.member = ""]} = {k}
  <2>1. {j \in Parts : Menu[j] = Menu[k]} = {k}
    BY NavigationAssumption
  <2> QED BY <2>1
<1>11. (CHOOSE j \in {k} : TRUE) = k
  OBVIOUS
<1>12. Nearest(d) = k
  BY <1>9, <1>10, <1>11 DEF Nearest
<1> QED BY <1>8, <1>12

\* The part the loop selects is the one that stands for the page.
LEMMA SelectCorrect ==
  ASSUME NEW d \in Declarations
  PROVE  Select(d) = Nearest(d) /\ Select(d) \in Parts \cup {0}
<1>1. CASE \A k \in Parts : Menu[k].module # d.module
  BY <1>1, SelectNothing
<1>2. CASE \E k \in Parts : Menu[k].module = d.module
  <2>1. CASE d.name = "" \/ d.member = ""
    <3>1. PICK k \in Parts : Menu[k] = d
      BY <1>2, <2>1, NavigationAssumption
    <3> QED BY <3>1, SelectOwn
  <2>2. CASE d.name # "" /\ d.member # ""
    <3>1. PICK k \in Parts : Menu[k] = [d EXCEPT !.member = ""]
      BY <1>2, <2>2, NavigationAssumption
    <3> QED BY <2>2, <3>1, SelectClass
  <2> QED BY <2>1, <2>2
<1> QED BY <1>1, <1>2

-----------------------------------------------------------------------------
(* The menu.                                                                   *)

LEMMA MenuTypeInit == MenuInit => MenuTypeOK
  BY DEF MenuInit, MenuTypeOK

LEMMA MenuTypeStep == MenuTypeOK /\ [MenuNext]_menuVars => MenuTypeOK'
<1> SUFFICES ASSUME MenuTypeOK, [MenuNext]_menuVars PROVE MenuTypeOK'
  OBVIOUS
<1> USE DEF MenuTypeOK
<1>1. CASE StartMenu
  BY <1>1 DEF StartMenu
<1>2. CASE Parsed
  BY <1>2 DEF Parsed
<1>3. CASE DOMContentLoaded
  BY <1>3 DEF DOMContentLoaded
<1>4. CASE Reply
  BY <1>4 DEF Reply
<1>5. CASE ShowMenu
  <2>1. selected' = Select(page)
    BY <1>5 DEF ShowMenu, Selected
  <2>2. selected' \in Parts \cup {0}
    BY <2>1, SelectCorrect
  <2>3. selected' # 0 => WithParents(selected') \subseteq Parts
    BY <2>2 DEF WithParents, Around
  <2> QED BY <1>5, <2>2, <2>3 DEF ShowMenu
<1>6. CASE UNCHANGED menuVars
  BY <1>6 DEF menuVars
<1> QED BY <1>1, <1>2, <1>3, <1>4, <1>5, <1>6 DEF MenuNext

\* The variables have their types, and nothing is looked up in the document
\* before it is parsed (lines 81-91).
THEOREM MenuTypeCorrect == MenuSpec => []MenuTypeOK
  BY MenuTypeInit, MenuTypeStep, PTL DEF MenuSpec

\* The menu marks the part that stands for the page, and shows it (lines 30-54).
THEOREM MarksPageCorrect == MenuSpec => []MarksPage
<1>1. MenuInit => MarksPage
  BY DEF MenuInit, MarksPage
<1>2. MenuTypeOK /\ MarksPage /\ [MenuNext]_menuVars => MarksPage'
  <2> SUFFICES ASSUME MenuTypeOK, MarksPage, [MenuNext]_menuVars PROVE MarksPage'
    OBVIOUS
  <2>1. CASE ShowMenu
    <3>1. page \in Declarations /\ page' = page
      BY <2>1 DEF MenuTypeOK, ShowMenu
    <3>2. selected' = Nearest(page)
      BY <2>1, <3>1, SelectCorrect DEF ShowMenu, Selected
    <3>3. selected' # 0 => revealed' = {selected'} \cup Around(selected')
      BY <2>1 DEF ShowMenu, WithParents
    <3> QED BY <3>1, <3>2, <3>3 DEF MarksPage
  <2>2. CASE UNCHANGED <<shown, selected, revealed, page>>
    BY <2>2 DEF MarksPage
  <2> QED BY <2>1, <2>2
        DEF MenuNext, StartMenu, Parsed, DOMContentLoaded, Reply, menuVars
<1> QED BY <1>1, <1>2, MenuTypeCorrect, PTL DEF MenuSpec

-----------------------------------------------------------------------------
\* Once the script has run, the menu is being displayed or waits for an event that is
\* still to come.
MenuAwaited ==
  /\ reply # "none" => scripted
  /\ scripted => displaying \/ (listening /\ dom # "loaded")

\* The menu never waits for an event that is over, nor does its reply find nobody
\* waiting, in whatever order script, document and reply come (lines 81-91). With
\* the fairness of the browser this is why MenuShown holds.
THEOREM MenuAwaitedCorrect == MenuSpec => []MenuAwaited
<1>1. MenuInit => MenuAwaited
  BY DEF MenuInit, MenuAwaited
<1>2. MenuTypeOK /\ MenuAwaited /\ [MenuNext]_menuVars => MenuAwaited'
  <2> SUFFICES ASSUME MenuTypeOK, MenuAwaited, [MenuNext]_menuVars PROVE MenuAwaited'
    OBVIOUS
  <2> USE DEF MenuTypeOK, MenuAwaited
  <2>1. CASE StartMenu
    BY <2>1 DEF StartMenu
  <2>2. CASE Parsed
    BY <2>2 DEF Parsed
  <2>3. CASE DOMContentLoaded
    BY <2>3 DEF DOMContentLoaded
  <2>4. CASE Reply
    BY <2>4 DEF Reply
  <2>5. CASE ShowMenu \/ UNCHANGED menuVars
    BY <2>5 DEF ShowMenu, menuVars
  <2> QED BY <2>1, <2>2, <2>3, <2>4, <2>5 DEF MenuNext
<1> QED BY <1>1, <1>2, MenuTypeCorrect, PTL DEF MenuSpec
=============================================================================
