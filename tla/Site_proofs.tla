---------------------------- MODULE Site_proofs -----------------------------
(***************************************************************************)
(* What a server has for its readers, proved for every board, every set of *)
(* paths and any number of writers: the properties of each part, carried   *)
(* over to the site, where one of them moves and the others are at rest.   *)
(***************************************************************************)
EXTENDS Site, SequenceTheorems, FiniteSetTheorems, NaturalsInduction,
        WellFoundedInduction, TLAPS

\* A step of the site is one of a part, and a stutter of the others.
LEMMA StepOfEach ==
    [Next]_vars => /\ [LogNext]_logVars /\ [PagesNext]_pagesVars
                   /\ [MarkNext]_markVars /\ [ContentNext]_contentVars
  BY DEF Next, Log, Pages, Writings, Directories, vars

-----------------------------------------------------------------------------
(* Content *)

\* Nothing was changed since a listing was fetched, so what it names is there
\* and, if it is a page, decodes and is for this client.
ListingOK ==
    /\ view.links \subseteq Paths
    /\ same /\ view.kind = "pages" =>
         \A p \in view.links :
           p \in Files /\ ~Garbled(p) /\ Allowed(pages[p].allow, reader)
    /\ same /\ view.kind = "files" => transfers /\ view.links \subseteq downloads

ContentInv ==
    /\ downloads \subseteq Paths
    /\ ListingOK
    /\ got.answer = "page" => ~KeptFrom(got.lines, reader)
    /\ ListedOpens

\* What is allowed is not kept from anybody.
LEMMA AllowedIsNotKept ==
    ASSUME NEW lines, NEW r, Allowed(lines, r)
    PROVE  ~KeptFrom(lines, r)
  BY DEF Allowed, KeptFrom, Range

\* A listing that has just come.
LEMMA ListingsAreRight ==
    ASSUME downloads \subseteq Paths
    PROVE  /\ ListPages.kind = "pages" /\ ListPages.links \subseteq Paths
           /\ \A p \in ListPages.links :
                p \in Files /\ ~Garbled(p) /\ Allowed(pages[p].allow, reader)
           /\ \A p \in Paths : LoadPage(p).links \subseteq Paths
           /\ \A p \in Paths : LoadPage(p).kind # "pages"
           /\ \A p \in Paths : LoadPage(p).kind = "files" =>
                transfers /\ LoadPage(p).links \subseteq downloads
           /\ \A p \in Paths : LoadPage(p).kind = "page" =>
                LoadPage(p).of = p /\ Allowed(pages[p].allow, reader)
           /\ \A p \in Paths : LoadFile(p).kind \notin Shown
  BY ContentConstants
  DEF ListPages, LoadPage, LoadFile, ListDownloads, Refusal, Files, Shown

\* What an answer does to the screen, and what it was the answer to.
LEMMA AnswerKeepsContent ==
    ASSUME ContentInv, NEW how, NEW p \in Paths, NEW answer, Comes(how, p, answer),
           answer.links \subseteq Paths,
           answer.kind = "pages" =>
             \A q \in answer.links :
               q \in Files /\ ~Garbled(q) /\ Allowed(pages[q].allow, reader),
           answer.kind = "files" => transfers /\ answer.links \subseteq downloads,
           answer.kind = "page" => Allowed(pages[answer.of].allow, reader),
           how = "open" /\ same /\ p \in view.links =>
             /\ view.kind = "pages" =>
                  \/ answer.kind = "page" /\ answer.of = p
                  \/ p \in BoardPaths \cup OutPaths
             /\ view.kind = "files" =>
                  \/ answer.kind = "file" /\ answer.of = p
                  \/ IsPagePath(p) \/ p \in DotPaths \cup OutPaths
    PROVE  ContentInv'
<1>1. UNCHANGED <<pages, downloads, transfers, reader>>
  BY DEF Comes, siteVars
<1>2. ListingOK'
  <2>1. CASE answer.kind \in Shown
    <3>1. view' = answer
      BY <2>1 DEF Comes
    <3>2. QED
      BY <1>1, <3>1 DEF ListingOK, Files, Garbled
  <2>2. CASE answer.kind \notin Shown
    <3>1. view' = view /\ (same' => same)
      BY <2>2 DEF Comes
    <3>2. QED
      BY <1>1, <3>1 DEF ContentInv, ListingOK, Files, Garbled
  <2>3. QED
    BY <2>1, <2>2
<1>3. got'.answer = "page" => ~KeptFrom(got'.lines, reader)
  <2> SUFFICES ASSUME got'.answer = "page" PROVE ~KeptFrom(got'.lines, reader)
    OBVIOUS
  <2>1. got'.lines = pages[answer.of].allow /\ answer.kind = "page"
    BY DEF Comes
  <2>2. QED
    BY <2>1, AllowedIsNotKept
<1>4. ListedOpens'
  <2>1. /\ got'.how = how /\ got'.path = p /\ got'.answer = answer.kind
        /\ got'.of = answer.of
        /\ got'.from = IF same /\ p \in view.links THEN view.kind ELSE "none"
    BY DEF Comes
  <2>2. CASE same /\ p \in view.links
    BY <2>1, <2>2 DEF ListedOpens, IsPagePath
  <2>3. CASE ~(same /\ p \in view.links)
    BY <2>1, <2>3 DEF ListedOpens
  <2>4. QED
    BY <2>2, <2>3
<1>5. QED
  BY <1>1, <1>2, <1>3, <1>4 DEF ContentInv, KeptFrom

\* What the operator changes makes every listing an old one.
LEMMA EditKeepsContent ==
    ASSUME ContentInv, Edits, downloads' \subseteq Paths
    PROVE  ContentInv'
  BY DEF ContentInv, Edits, ListingOK, ListedOpens, IsPagePath, KeptFrom

LEMMA ContentStep == ContentInv /\ [ContentNext]_contentVars => ContentInv'
<1> SUFFICES ASSUME ContentInv, [ContentNext]_contentVars PROVE ContentInv'
  OBVIOUS
<1>1. CASE UNCHANGED contentVars
  BY <1>1 DEF ContentInv, contentVars, siteVars, ListingOK, ListedOpens, KeptFrom,
     Files, Garbled, IsPagePath
<1>2. CASE List
  <2>1. downloads \subseteq Paths /\ FilesPath \in Paths
    BY ContentConstants DEF ContentInv
  <2>2. Comes("ls", FilesPath, ListPages)
    BY <1>2 DEF List
  <2>3. QED
    BY <2>1, <2>2, ListingsAreRight, AnswerKeepsContent
<1>3. ASSUME NEW p \in Paths, OpenPage(p) PROVE ContentInv'
  <2>1. downloads \subseteq Paths /\ IsPagePath(p) /\ Comes("open", p, LoadPage(p))
    BY <1>3 DEF ContentInv, OpenPage
  <2>2. same /\ p \in view.links /\ view.kind = "pages" =>
          \/ LoadPage(p).kind = "page" /\ LoadPage(p).of = p
          \/ p \in BoardPaths \cup OutPaths
    BY ContentConstants DEF ContentInv, ListingOK, Files, LoadPage
  <2>3. QED
    BY <2>1, <2>2, ListingsAreRight, AnswerKeepsContent
<1>4. ASSUME NEW p \in Paths, Download(p) PROVE ContentInv'
  <2> DEFINE answer == IF SafeDownloadPath(p) THEN LoadFile(p) ELSE Refusal("unsafe")
  <2>1. downloads \subseteq Paths /\ ~IsPagePath(p) /\ Comes("open", p, answer)
    BY <1>4 DEF ContentInv, Download
  <2>2. answer.links = {} /\ answer.kind \notin Shown
    BY DEF LoadFile, Refusal, Shown
  <2>3. same /\ p \in view.links /\ view.kind = "files" =>
          \/ answer.kind = "file" /\ answer.of = p
          \/ p \in DotPaths \cup OutPaths
    BY DEF ContentInv, ListingOK, LoadFile, SafeDownloadPath
  <2>4. same /\ p \in view.links => view.kind # "pages"
    BY <2>1 DEF ContentInv, ListingOK, Files, IsPagePath
  <2> HIDE DEF answer
  <2>5. QED
    BY <2>1, <2>2, <2>3, <2>4, AnswerKeepsContent DEF Shown
<1>5. ASSUME NEW p \in Paths, GetFile(p) PROVE ContentInv'
  <2>1. downloads \subseteq Paths /\ Comes("get", p, LoadFile(p))
    BY <1>5 DEF ContentInv, GetFile
  <2>2. LoadFile(p).links = {} /\ LoadFile(p).kind \notin Shown
    BY DEF LoadFile, Refusal, Shown
  <2>3. QED
    BY <2>1, <2>2, AnswerKeepsContent DEF Shown
<1>6. CASE FetchFails
  BY <1>1, <1>6 DEF FetchFails
<1>7. ASSUME NEW p \in VnPaths, EditPage(p) PROVE ContentInv'
  BY <1>7, EditKeepsContent DEF EditPage, ContentInv
<1>8. ASSUME NEW p \in Paths, EditDownload(p) PROVE ContentInv'
  <2>1. downloads' \subseteq Paths
    BY <1>8 DEF EditDownload, ContentInv
  <2>2. QED
    BY <1>8, <2>1, EditKeepsContent DEF EditDownload
<1>9. CASE Reconfigure
  BY <1>9, EditKeepsContent DEF Reconfigure, ContentInv
<1>10. QED
  BY <1>1, <1>2, <1>3, <1>4, <1>5, <1>6, <1>7, <1>8, <1>9 DEF ContentNext

LEMMA ContentStart == ContentInit => ContentInv
  BY DEF ContentInit, ContentInv, ListingOK, ListedOpens

LEMMA ContentInvariant == Spec => []ContentInv
<1>1. Init => ContentInv
  BY ContentStart DEF Init
<1>2. ContentInv /\ [Next]_vars => ContentInv'
  BY StepOfEach, ContentStep
<1>3. QED
  BY <1>1, <1>2, PTL DEF Spec

\* Whatever the operator changes meanwhile, what a listing offers can be had as
\* long as nothing has changed since.
THEOREM WhatIsListedOpens == Spec => []ListedOpens
<1>1. ContentInv => ListedOpens
  BY DEF ContentInv
<1>2. QED
  BY <1>1, ContentInvariant, PTL

\* For every set of clients and keys, a page reaches and is named to those only
\* whom its !allow lines let in.
THEOREM AllowHolds == Spec => []AllowKeepsOut
<1>1. ContentInv => AllowKeepsOut
  BY AllowedIsNotKept DEF ContentInv, ListingOK, AllowKeepsOut
<1>2. QED
  BY <1>1, ContentInvariant, PTL

-----------------------------------------------------------------------------
(* Sets of numbers *)

LEMMA HasLeast ==
    ASSUME NEW S \in SUBSET Nat, S # {}
    PROVE  \E x \in S : \A y \in S : x <= y
<1> DEFINE R == OpToRel(<, Nat)
<1>1. IsWellFoundedOn(R, Nat)
  BY NatLessThanWellFounded
<1> HIDE DEF R
<1>2. PICK x \in S : \A y \in S : ~(<<y, x>> \in R)
  BY <1>1, WFMin
<1>3. \A y \in S : ~(y < x)
  BY <1>2 DEF R, OpToRel
<1>4. QED
  BY <1>3

LEMMA HasGreatest ==
    ASSUME NEW n \in Nat, NEW S \in SUBSET (0 .. n), S # {}
    PROVE  \E x \in S : \A y \in S : y <= x
<1> DEFINE T == {n - x : x \in S}
<1>1. T \in SUBSET Nat /\ T # {}
  <2>1. \A x \in S : x \in 0 .. n
    OBVIOUS
  <2>2. \A x \in S : n - x \in Nat
    BY <2>1
  <2>3. QED
    BY <2>2
<1> HIDE DEF T
<1>2. PICK z \in T : \A y \in T : z <= y
  BY <1>1, HasLeast
<1> USE DEF T
<1>3. PICK x \in S : z = n - x
  OBVIOUS
<1>4. \A y \in S : n - x <= n - y
  BY <1>2, <1>3
<1>5. QED
  BY <1>4

LEMMA MinIsLeast ==
    ASSUME NEW S \in SUBSET Nat, S # {}
    PROVE  Min(S) \in S /\ \A y \in S : Min(S) <= y
  BY HasLeast DEF Min

\* The first k of a set are there if the set has any, and what is left out lies
\* below all of them.
LEMMA TopIsAbove ==
    ASSUME NEW n \in Nat, NEW S, \A y \in S : y \in 0 .. n, S # {}, NEW k \in Nat \ {0}
    PROVE  /\ Top(S, k) # {} /\ Min(Top(S, k)) \in S
           /\ \A i \in S \ Top(S, k) : i < Min(Top(S, k))
<1>1. PICK x \in S : \A y \in S : y <= x
  BY HasGreatest
<1>2. \A y \in S : y \in Nat
  OBVIOUS
<1>3. S \in SUBSET Nat /\ IsFiniteSet(S)
  <2>1. \A y \in S : y <= n
    OBVIOUS
  <2>2. QED
    BY <1>2, <2>1, FS_BoundedSetOfNaturals
<1>4. x \in Top(S, k)
  <2>1. {y \in S : y > x} = {}
    BY <1>1, <1>2
  <2>2. QED
    BY <2>1, FS_EmptySet DEF Top
<1> DEFINE m == Min(Top(S, k))
<1>5. m \in Top(S, k) /\ \A y \in Top(S, k) : m <= y
  <2>1. Top(S, k) \in SUBSET Nat
    BY <1>2 DEF Top
  <2>2. QED
    BY <1>4, <2>1, MinIsLeast
<1>6. m \in S /\ Cardinality({y \in S : y > m}) < k
  BY <1>5 DEF Top
<1> HIDE DEF m
<1>7. ASSUME NEW i \in S \ Top(S, k) PROVE i < m
  <2> SUFFICES ASSUME ~(i < m) PROVE FALSE
    OBVIOUS
  <2>1. i > m
    <3>1. i # m
      BY <1>5
    <3>2. i \in Nat /\ m \in Nat
      BY <1>2, <1>6
    <3>3. QED
      BY <3>1, <3>2
  <2> DEFINE A == {y \in S : y > m}
             B == {y \in S : y > i}
  <2>2. B \in SUBSET A
    BY <1>2, <1>6, <2>1
  <2>3. IsFiniteSet(A) /\ IsFiniteSet(B)
    BY <1>3, FS_Subset
  <2>4. Cardinality(B) <= Cardinality(A)
    BY <2>2, <2>3, FS_Subset
  <2>5. Cardinality(B) \in Nat /\ Cardinality(A) \in Nat
    BY <2>3, FS_CardinalityType
  <2>6. ~(Cardinality(B) < k)
    BY DEF Top
  <2>7. QED
    BY <1>6, <2>4, <2>5, <2>6
<1>8. QED
  BY <1>4, <1>6, <1>7 DEF m

-----------------------------------------------------------------------------
(* What stands at some places of a sequence *)

\* A set of numbers that holds 0, and with each number the next, holds all.
LEMMA SetInduction ==
    ASSUME NEW S, S \subseteq Nat, 0 \in S, \A n \in S : n + 1 \in S
    PROVE  S = Nat
<1>1. SUFFICES ASSUME Nat \ S # {} PROVE FALSE
  OBVIOUS
<1>2. IsWellFoundedOn(OpToRel(<, Nat), Nat)
  BY NatLessThanWellFounded
<1>3. PICK x \in Nat \ S : \A y \in Nat \ S : ~(<<y, x>> \in OpToRel(<, Nat))
  <2> DEFINE R == OpToRel(<, Nat)
             T == Nat \ S
  <2>1. IsWellFoundedOn(R, Nat) /\ T \subseteq Nat /\ T # {}
    BY <1>1, <1>2
  <2> HIDE DEF R, T
  <2>2. \E y \in T : \A z \in T : ~(<<z, y>> \in R)
    BY <2>1, WFMin
  <2> QED BY <2>2 DEF R, T
<1>4. x # 0 /\ x - 1 \in Nat /\ x - 1 < x
  OBVIOUS
<1>5. x - 1 \in S
  BY <1>3, <1>4 DEF OpToRel
<1> QED BY <1>4, <1>5

\* f[k] is what step[k] makes of the value before it.
Follows(f, A, a, n, step) ==
    /\ f \in [0 .. n -> A] /\ f[0] = a
    /\ \A k \in 1 .. n : f[k] = step[k][f[k - 1]]

\* A function that takes each value from the one before it exists.
LEMMA Recursion ==
    ASSUME NEW A, NEW a \in A, NEW n \in Nat, NEW step \in [1 .. n -> [A -> A]]
    PROVE  \E f : Follows(f, A, a, n, step)
<1> DEFINE Up(m, f) == Follows(f, A, a, m, step)
           S == {m \in Nat : m <= n => \E f : Up(m, f)}
<1>1. 0 \in S
  <2>1. Up(0, [k \in 0 .. 0 |-> a])
    BY DEF Follows
  <2>2. QED
    BY <2>1
<1>2. ASSUME NEW m \in S PROVE m + 1 \in S
  <2>1. m \in Nat
    OBVIOUS
  <2> SUFFICES ASSUME m + 1 <= n PROVE \E f : Up(m + 1, f)
    <3> HIDE DEF Up
    <3>1. QED
      BY <2>1
  <2>2. PICK f : Up(m, f)
    <3> HIDE DEF Up
    <3>1. QED
      BY <2>1
  <2> DEFINE g == [k \in 0 .. m + 1 |-> IF k = m + 1 THEN step[m + 1][f[m]] ELSE f[k]]
  <2>3. f[m] \in A /\ m + 1 \in 1 .. n
    BY <2>1, <2>2 DEF Follows
  <2>4. step[m + 1][f[m]] \in A
    BY <2>3
  <2>5. g \in [0 .. m + 1 -> A]
    BY <2>1, <2>2, <2>4 DEF Follows
  <2>6. g[0] = a
    BY <2>1, <2>2 DEF Follows
  <2>7. ASSUME NEW k \in 1 .. m + 1 PROVE g[k] = step[k][g[k - 1]]
    <3>1. CASE k = m + 1
      <4>1. g[k] = step[m + 1][f[m]] /\ g[k - 1] = f[m]
        BY <2>1, <3>1
      <4>2. QED
        BY Zenon, <3>1, <4>1
    <3>2. CASE k # m + 1
      <4>1. k \in 1 .. m /\ k - 1 \in 0 .. m
        BY <2>1, <3>2
      <4>2. g[k] = f[k] /\ g[k - 1] = f[k - 1]
        BY <2>1, <4>1
      <4>3. f[k] = step[k][f[k - 1]]
        BY <2>2, <4>1 DEF Follows
      <4>4. QED
        BY Zenon, <4>2, <4>3
    <3>3. QED
      BY <3>1, <3>2
  <2> HIDE DEF g
  <2>8. QED
    BY <2>5, <2>6, <2>7 DEF Follows
<1>3. S \subseteq Nat
  OBVIOUS
<1> HIDE DEF S
<1>4. n \in S
  BY <1>1, <1>2, <1>3, SetInduction
<1>5. \E f : Up(n, f)
  BY <1>4 DEF S
<1>6. QED
  BY <1>5

\* f[n] is what stands at the places up to n.
Selects(f, A, s, places) ==
    /\ f \in [0 .. Len(s) -> Seq(A)]
    /\ AtPlaces(s, places) = f[Len(s)] /\ f[0] = <<>>
    /\ \A n \in 1 .. Len(s) :
         f[n] = IF n \in places THEN Append(f[n - 1], s[n]) ELSE f[n - 1]

LEMMA PlacesUpTo ==
    ASSUME NEW A, NEW s \in Seq(A), NEW places
    PROVE  \E f : Selects(f, A, s, places)
<1> DEFINE step == [n \in 1 .. Len(s) |->
                      [x \in Seq(A) |-> IF n \in places THEN Append(x, s[n]) ELSE x]]
           F(f) == [n \in 0 .. Len(s) |->
                      IF n = 0 THEN <<>>
                      ELSE IF n \in places THEN Append(f[n - 1], s[n])
                      ELSE f[n - 1]]
           h == CHOOSE f : f = F(f)
<1>1. Len(s) \in Nat /\ <<>> \in Seq(A) /\ \A n \in 1 .. Len(s) : s[n] \in A
  BY LenProperties, EmptySeq
<1>2. step \in [1 .. Len(s) -> [Seq(A) -> Seq(A)]]
  BY <1>1
<1>3. \A n \in 1 .. Len(s), x \in Seq(A) :
        step[n][x] = IF n \in places THEN Append(x, s[n]) ELSE x
  OBVIOUS
<1> HIDE DEF step
<1>4. PICK f : Follows(f, Seq(A), <<>>, Len(s), step)
  <2> DEFINE B == Seq(A)
             n == Len(s)
             a == <<>>
  <2>1. a \in B /\ n \in Nat /\ step \in [1 .. n -> [B -> B]]
    BY <1>1, <1>2
  <2> HIDE DEF B, n, a
  <2>2. \E f : Follows(f, B, a, n, step)
    BY <2>1, Recursion
  <2>3. QED
    BY <2>2 DEF B, n, a
<1>5. f = F(f)
  <2>1. \A n \in 1 .. Len(s) : f[n - 1] \in Seq(A)
    BY <1>1, <1>4 DEF Follows
  <2>2. ASSUME NEW n \in 1 .. Len(s)
        PROVE  f[n] = IF n \in places THEN Append(f[n - 1], s[n]) ELSE f[n - 1]
    BY <1>3, <1>4, <2>1 DEF Follows
  <2>3. \A n \in 0 .. Len(s) : n = 0 \/ n \in 1 .. Len(s)
    BY <1>1
  <2>4. \A n \in 0 .. Len(s) : f[n] = F(f)[n]
    BY <1>4, <2>2, <2>3 DEF Follows
  <2>5. QED
    BY <1>4, <2>4 DEF Follows
<1>6. h = F(h)
  BY <1>5
<1>7. AtPlaces(s, places) = h[Len(s)]
  BY DEF AtPlaces
<1> HIDE DEF h
<1>8. /\ DOMAIN h = 0 .. Len(s) /\ h[0] = <<>>
      /\ \A n \in 1 .. Len(s) :
           h[n] = IF n \in places THEN Append(h[n - 1], s[n]) ELSE h[n - 1]
  <2>1. DOMAIN F(h) = 0 .. Len(s) /\ F(h)[0] = <<>>
    BY <1>1
  <2>2. \A n \in 1 .. Len(s) :
          F(h)[n] = IF n \in places THEN Append(h[n - 1], s[n]) ELSE h[n - 1]
    BY <1>1
  <2> HIDE DEF F
  <2>3. QED
    BY <1>6, <2>1, <2>2
<1> DEFINE T == {n \in Nat : n <= Len(s) => h[n] \in Seq(A)}
<1>9. T = Nat
  <2>1. 0 \in T
    BY <1>1, <1>8
  <2>2. ASSUME NEW n \in T PROVE n + 1 \in T
    <3> SUFFICES ASSUME n + 1 <= Len(s) PROVE h[n + 1] \in Seq(A)
      OBVIOUS
    <3>1. n \in Nat /\ n + 1 \in 1 .. Len(s) /\ (n + 1) - 1 = n
      BY <1>1
    <3>2. h[n] \in Seq(A)
      BY <1>1, <3>1
    <3>3. h[n + 1] = IF n + 1 \in places THEN Append(h[n], s[n + 1]) ELSE h[n]
      BY <1>8, <3>1
    <3>4. QED
      BY <1>1, <3>1, <3>2, <3>3
  <2>3. T \subseteq Nat
    OBVIOUS
  <2> HIDE DEF T
  <2>4. QED
    BY <2>1, <2>2, <2>3, SetInduction
<1>10. h \in [0 .. Len(s) -> Seq(A)]
  <2>1. h = [n \in 0 .. Len(s) |-> h[n]]
    BY <1>6
  <2>2. \A n \in 0 .. Len(s) : h[n] \in Seq(A)
    BY <1>1, <1>9
  <2>3. QED
    BY <2>1, <2>2
<1>11. QED
  BY <1>7, <1>8, <1>10 DEF Selects

\* The places of a longer sequence.
LEMMA AtPlacesAppend ==
    ASSUME NEW A, NEW s \in Seq(A), NEW e \in A, NEW P, NEW Q,
           \A i \in 1 .. Len(s) : i \in P <=> i \in Q
    PROVE  AtPlaces(Append(s, e), P) =
             IF Len(s) + 1 \in P THEN Append(AtPlaces(s, Q), e) ELSE AtPlaces(s, Q)
<1> DEFINE t == Append(s, e)
           m == Len(s)
<1>1. /\ t \in Seq(A) /\ m \in Nat /\ Len(t) = m + 1 /\ t[m + 1] = e
      /\ \A i \in 1 .. m : t[i] = s[i]
  BY LenProperties
<1>2. PICK f \in [0 .. m -> Seq(A)] :
        /\ AtPlaces(s, Q) = f[m] /\ f[0] = <<>>
        /\ \A n \in 1 .. m : f[n] = IF n \in Q THEN Append(f[n - 1], s[n]) ELSE f[n - 1]
  BY PlacesUpTo DEF Selects
<1>3. PICK g \in [0 .. m + 1 -> Seq(A)] :
        /\ AtPlaces(t, P) = g[m + 1] /\ g[0] = <<>>
        /\ \A n \in 1 .. m + 1 :
             g[n] = IF n \in P THEN Append(g[n - 1], t[n]) ELSE g[n - 1]
  <2> HIDE DEF t
  <2>1. \E g : Selects(g, A, t, P)
    BY <1>1, PlacesUpTo
  <2>2. QED
    BY <1>1, <2>1 DEF Selects
<1> HIDE DEF t, m
<1> DEFINE T == {n \in Nat : n <= m => g[n] = f[n]}
<1>4. T = Nat
  <2>1. 0 \in T
    BY <1>2, <1>3
  <2>2. ASSUME NEW n \in T PROVE n + 1 \in T
    <3> SUFFICES ASSUME n + 1 <= m PROVE g[n + 1] = f[n + 1]
      OBVIOUS
    <3>1. n \in Nat /\ n + 1 \in 1 .. m /\ n + 1 \in 1 .. m + 1 /\ (n + 1) - 1 = n
      BY <1>1
    <3>2. g[n] = f[n] /\ t[n + 1] = s[n + 1] /\ (n + 1 \in P <=> n + 1 \in Q)
      BY <1>1, <3>1 DEF m
    <3>3. g[n + 1] = IF n + 1 \in P THEN Append(g[n], t[n + 1]) ELSE g[n]
      BY <1>3, <3>1
    <3>4. f[n + 1] = IF n + 1 \in Q THEN Append(f[n], s[n + 1]) ELSE f[n]
      BY <1>2, <3>1
    <3>5. QED
      BY <3>2, <3>3, <3>4
  <2>3. T \subseteq Nat
    OBVIOUS
  <2> HIDE DEF T
  <2>4. QED
    BY <2>1, <2>2, <2>3, SetInduction
<1>5. g[m] = f[m]
  BY <1>1, <1>4
<1>6. g[m + 1] = IF m + 1 \in P THEN Append(g[m], e) ELSE g[m]
  <2>1. m + 1 \in 1 .. m + 1 /\ (m + 1) - 1 = m /\ t[m + 1] = e
    BY <1>1
  <2>2. QED
    BY <1>3, <2>1
<1>7. QED
  BY <1>2, <1>3, <1>5, <1>6 DEF t, m

\* They are of the sequence.
LEMMA AtPlacesType ==
    ASSUME NEW A, NEW s \in Seq(A), NEW P
    PROVE  AtPlaces(s, P) \in Seq(A)
  BY PlacesUpTo, LenProperties DEF Selects

LEMMA AtPlacesEmpty ==
    ASSUME NEW P
    PROVE  AtPlaces(<<>>, P) = <<>>
<1>1. <<>> \in Seq({}) /\ Len(<<>>) = 0
  OBVIOUS
<1>2. PICK f : Selects(f, {}, <<>>, P)
  BY <1>1, PlacesUpTo
<1>3. QED
  BY <1>1, <1>2 DEF Selects

\* A set of sequences that holds the empty one, and with each the longer by one,
\* holds all.
LEMMA SeqInduction ==
    ASSUME NEW A, NEW S, S \subseteq Seq(A), <<>> \in S,
           \A s \in S, e \in A : Append(s, e) \in S
    PROVE  S = Seq(A)
<1> DEFINE T == {n \in Nat : \A s \in Seq(A) : Len(s) = n => s \in S}
<1>1. 0 \in T
  BY EmptySeq
<1>2. ASSUME NEW n \in T PROVE n + 1 \in T
  <2> SUFFICES ASSUME NEW s \in Seq(A), Len(s) = n + 1 PROVE s \in S
    OBVIOUS
  <2>1. n \in Nat /\ s # <<>>
    BY EmptySeq
  <2>2. PICK front \in Seq(A), e \in A : s = Append(front, e)
    BY <2>1, SequenceEmptyOrAppend
  <2>3. Len(front) = n
    BY <2>1, <2>2, LenProperties
  <2>4. front \in S
    BY <2>3
  <2>5. QED
    BY <2>2, <2>4
<1>3. T \subseteq Nat
  OBVIOUS
<1> HIDE DEF T
<1>4. T = Nat
  BY <1>1, <1>2, <1>3, SetInduction
<1>5. \A s \in Seq(A) : s \in S
  BY <1>4, LenProperties DEF T
<1>6. QED
  BY <1>5

-----------------------------------------------------------------------------
(* Board pages *)

\* A path a page of a board offers, or enter_board makes: threads from a number
\* on or before one, and a thread that is there.
LinkOK(b, l) ==
    /\ l.at \in {"threads", "thread", "more", "archive", "month"}
    /\ l.at = "threads" =>
         /\ l.since \in Nat /\ l.before \in Nat
         /\ l.before > 0 => l.since = 0
    /\ l.at = "thread" => Of(b, l.thread) # {}

\* Whether the paging gives i: it was listed, or is below every link that leads
\* on, and there is one.
Leads(i, ls) == \A l \in ls : l.at = "threads" /\ l.before > 0 => i < l.before

WalkOK(b, ls, w) ==
    /\ w.since \in Nat /\ w.top \in 0 .. Len(b)
    /\ \A i \in Tips(b) :
         w.since < i /\ i <= w.top /\ b[i] \notin w.listed =>
           ~w.done /\ Leads(i, ls)

PagesInv ==
    /\ posts \in Seq(Nat)
    /\ seen \in Nat
    /\ path = Elsewhere \/ LinkOK(posts, path)
    /\ \A l \in links : LinkOK(posts, l)
    /\ WalkOK(posts, links, walk)

\* A later log: nothing that was there has changed.
Extends(b, c) ==
    /\ c \in Seq(Nat) /\ Len(b) <= Len(c)
    /\ \A i \in 1 .. Len(b) : c[i] = b[i]

LEMMA TipsOfLater ==
    ASSUME NEW b \in Seq(Nat), NEW c, Extends(b, c)
    PROVE  /\ \A i \in Tips(c) : i <= Len(b) => i \in Tips(b) /\ b[i] = c[i]
           /\ \A t : Of(b, t) \subseteq Of(c, t)
<1>1. DOMAIN b = 1 .. Len(b) /\ DOMAIN c = 1 .. Len(c) /\ Len(b) \in Nat /\ Len(c) \in Nat
  BY DEF Extends
<1>2. ASSUME NEW i \in Tips(c), i <= Len(b) PROVE i \in Tips(b) /\ b[i] = c[i]
  <2>1. i \in 1 .. Len(b) /\ \A j \in 1 .. Len(c) : c[j] = c[i] => j <= i
    BY <1>1, <1>2 DEF Tips
  <2>2. \A j \in 1 .. Len(b) : j \in 1 .. Len(c) /\ b[j] = c[j]
    BY <1>1 DEF Extends
  <2>3. QED
    BY <1>1, <2>1, <2>2 DEF Tips
<1>3. ASSUME NEW t, NEW i \in Of(b, t) PROVE i \in Of(c, t)
  <2>1. i \in 1 .. Len(b) /\ b[i] = t
    BY <1>1 DEF Of
  <2>2. i \in 1 .. Len(c) /\ c[i] = t
    BY <1>1, <2>1 DEF Extends
  <2>3. QED
    BY <1>1, <2>2 DEF Of
<1>4. QED
  BY <1>2, <1>3

LEMMA LinksOfLater ==
    ASSUME NEW b \in Seq(Nat), NEW c, Extends(b, c), NEW l, LinkOK(b, l)
    PROVE  LinkOK(c, l)
  BY TipsOfLater DEF LinkOK

LEMMA WalkOfLater ==
    ASSUME NEW b \in Seq(Nat), NEW c, Extends(b, c), NEW ls, NEW w, WalkOK(b, ls, w)
    PROVE  WalkOK(c, ls, w)
<1>1. w.since \in Nat /\ w.top \in 0 .. Len(b) /\ Len(b) \in Nat /\ Len(c) \in Nat
      /\ Len(b) <= Len(c)
  BY DEF WalkOK, Extends
<1>2. w.top \in 0 .. Len(c)
  BY <1>1
<1>3. ASSUME NEW i \in Tips(c), w.since < i, i <= w.top, c[i] \notin w.listed
      PROVE  ~w.done /\ Leads(i, ls)
  <2>1. i \in 1 .. Len(c)
    BY DEF Tips, Extends
  <2>2. i <= Len(b)
    BY <1>1, <1>3, <2>1
  <2>3. i \in Tips(b) /\ b[i] = c[i]
    BY <2>2, TipsOfLater
  <2>4. QED
    BY <1>3, <2>3 DEF WalkOK
<1>4. QED
  BY <1>1, <1>2, <1>3 DEF WalkOK

LEMMA AppendExtends ==
    ASSUME NEW b \in Seq(Nat), NEW t \in Nat
    PROVE  Extends(b, Append(b, t))
  BY DEF Extends

\* The page of threads.
LEMMA ThreadsPage ==
    ASSUME NEW b \in Seq(Nat), NEW since \in Nat, NEW before \in Nat
    PROVE  LET page == RenderThreads(b, since, before)
               tips == {i \in Tips(b) : (since > 0 => i > since)
                                        /\ (before > 0 => i < before)}
           IN  /\ page.seq = Len(b)
               /\ \A l \in page.links : LinkOK(b, l)
               /\ \A i \in tips : b[i] \notin page.lists =>
                    /\ \E l \in page.links : l.at = "threads" /\ l.before # 0
                    /\ Leads(i, page.links)
<1> DEFINE tips == {i \in Tips(b) : (since > 0 => i > since) /\ (before > 0 => i < before)}
           kept == Top(tips, ThreadsPerPage)
           older == IF kept = tips THEN {} ELSE {Threads(0, Min(kept))}
           archive == IF b # <<>> /\ since = 0 /\ before = 0 THEN {Archive} ELSE {}
           page == RenderThreads(b, since, before)
<1>1. /\ page.seq = Len(b) /\ page.lists = {b[i] : i \in kept}
      /\ page.links = {Thread(b[i]) : i \in kept} \cup older \cup archive
  BY DEF RenderThreads, Page
<1>2. kept \subseteq tips /\ tips \subseteq Tips(b) /\ \A i \in Tips(b) : i \in 1 .. Len(b)
  BY DEF Top, Tips
<1>3. tips # {} =>
        /\ kept # {} /\ Min(kept) \in tips
        /\ \A i \in tips \ kept : i < Min(kept)
  <2>1. \A i \in tips : i \in 0 .. Len(b)
    BY <1>2
  <2> HIDE DEF tips
  <2>2. QED
    BY <2>1, TopIsAbove, PageConstants, LenProperties
<1> HIDE DEF tips, kept, page
<1>4. kept # tips => Min(kept) \in Nat \ {0} /\ \A i \in tips \ kept : i < Min(kept)
  <2> SUFFICES ASSUME kept # tips
               PROVE  Min(kept) \in Nat \ {0} /\ \A i \in tips \ kept : i < Min(kept)
    OBVIOUS
  <2>1. tips # {}
    BY <1>2
  <2>2. Min(kept) \in 1 .. Len(b)
    BY <1>2, <1>3, <2>1
  <2>3. QED
    BY <1>3, <2>1, <2>2
<1>5. ASSUME NEW l \in page.links PROVE LinkOK(b, l)
  <2>1. CASE l \in {Thread(b[i]) : i \in kept}
    <3>1. PICK i \in kept : l = Thread(b[i])
      BY <2>1
    <3>2. i \in Of(b, b[i])
      BY <1>2 DEF Of
    <3>3. QED
      BY <3>1, <3>2 DEF LinkOK, Thread
  <2>2. CASE l \in older
    BY <1>4, <2>2 DEF LinkOK, Threads
  <2>3. CASE l \in archive
    BY <2>3 DEF LinkOK, Archive
  <2>4. QED
    BY <1>1, <1>5, <2>1, <2>2, <2>3
<1>6. ASSUME NEW i \in tips, b[i] \notin page.lists
      PROVE  /\ \E l \in page.links : l.at = "threads" /\ l.before # 0
             /\ Leads(i, page.links)
  <2>1. i \in tips \ kept
    BY <1>1, <1>6
  <2>2. /\ older = {Threads(0, Min(kept))} /\ Min(kept) \in Nat \ {0}
        /\ i < Min(kept)
    BY <1>4, <2>1
  <2>3. ASSUME NEW l \in page.links, l.at = "threads" PROVE l = Threads(0, Min(kept))
    BY <1>1, <2>2, <2>3 DEF Thread, Archive
  <2>4. Threads(0, Min(kept)) \in page.links
    BY <1>1, <2>2
  <2>5. QED
    BY <2>2, <2>3, <2>4 DEF Threads, Leads
<1>7. QED
  BY <1>1, <1>5, <1>6 DEF page, tips

\* What any page offers is served.
LEMMA PagesOffer ==
    ASSUME NEW b \in Seq(Nat), NEW p, LinkOK(b, p), p.at # "more"
    PROVE  Render(b, p).seq \in Nat /\ \A l \in Render(b, p).links : LinkOK(b, l)
<1>1. CASE p.at = "threads"
  BY <1>1, ThreadsPage, LenProperties DEF LinkOK, Render
<1>2. CASE p.at = "thread"
  BY <1>2, LenProperties DEF Render, RenderThread, Page, LinkOK, More, FrontPage, Threads
<1>3. CASE p.at = "archive"
  BY <1>3 DEF Render, RenderArchive, Page, LinkOK, Month, FrontPage, Threads
<1>4. CASE p.at = "month"
  <2> DEFINE kept == Top(Tips(b), ThreadsPerPage)
  <2>1. \A i \in kept : i \in Of(b, b[i])
    BY DEF Top, Tips, Of
  <2>2. /\ Render(b, p).seq = 0
        /\ Render(b, p).links = {Thread(b[i]) : i \in kept} \cup {Archive}
    BY <1>4 DEF Render, RenderMonth, Page
  <2>3. QED
    BY <2>1, <2>2 DEF LinkOK, Thread, Archive
<1>5. QED
  BY <1>1, <1>2, <1>3, <1>4 DEF LinkOK

\* A page that is shown, of the log as it is or as it has become.
LEMMA ShowKeepsPages ==
    ASSUME PagesInv, Extends(posts, posts'), NEW p, LinkOK(posts', p),
           p.at # "more", Show(posts', p)
    PROVE  PagesInv'
<1> DEFINE b == posts'
           page == Render(b, p)
<1>1. b \in Seq(Nat) /\ Len(b) \in Nat /\ Len(posts) \in Nat /\ Len(posts) <= Len(b)
  BY LenProperties DEF Extends, PagesInv
<1>2. /\ path' = p /\ links' = page.links /\ walk' = WalkAfter(p, page)
      /\ seen' = IF page.seq > seen THEN page.seq ELSE seen
  BY DEF Show
<1>3. page.seq \in Nat /\ \A l \in page.links : LinkOK(b, l)
  BY <1>1, PagesOffer
<1>4. WalkOK(b, page.links, WalkAfter(p, page))
  <2>1. CASE p.at = "threads" /\ (p.before = 0 \/ p \in links)
    <3> DEFINE tips == {i \in Tips(b) : (p.since > 0 => i > p.since)
                                          /\ (p.before > 0 => i < p.before)}
               w == WalkAfter(p, page)
    <3>1. p.since \in Nat /\ p.before \in Nat /\ (p.before > 0 => p.since = 0)
      BY <2>1 DEF LinkOK
    <3>2. /\ page.seq = Len(b)
          /\ \A i \in tips : b[i] \notin page.lists =>
               /\ \E l \in page.links : l.at = "threads" /\ l.before # 0
               /\ Leads(i, page.links)
      BY <1>1, <2>1, <3>1, ThreadsPage DEF Render
    <3>3. \A i \in Tips(b) : i \in 1 .. Len(b)
      BY <1>1 DEF Tips
    <3> HIDE DEF page
    <3>4. CASE p.before = 0
      <4>1. /\ w.since = p.since /\ w.top = Len(b) /\ w.listed = page.lists
            /\ w.done = \A l \in page.links : l.at = "threads" => l.before = 0
        BY <2>1, <3>2, <3>4 DEF WalkAfter
      <4> HIDE DEF w
      <4>2. ASSUME NEW i \in Tips(b), w.since < i, b[i] \notin w.listed
            PROVE  ~w.done /\ Leads(i, page.links)
        <5>1. i \in tips
          BY <3>1, <3>3, <3>4, <4>1, <4>2
        <5>2. QED
          BY <3>2, <4>1, <4>2, <5>1
      <4>3. w.since \in Nat /\ w.top \in 0 .. Len(b)
        BY <1>1, <3>1, <4>1
      <4>4. QED
        BY <4>2, <4>3 DEF WalkOK, w
    <3>5. CASE p.before # 0
      <4>1. p \in links
        BY <2>1, <3>5
      <4>2. /\ w.since = walk.since /\ w.top = walk.top
            /\ w.listed = walk.listed \cup page.lists
            /\ w.done = \A l \in page.links : l.at = "threads" => l.before = 0
        BY <2>1, <3>5, <4>1 DEF WalkAfter
      <4>3. WalkOK(b, links, walk)
        BY WalkOfLater DEF PagesInv
      <4> HIDE DEF w
      <4>4. ASSUME NEW i \in Tips(b), w.since < i, i <= w.top, b[i] \notin w.listed
            PROVE  ~w.done /\ Leads(i, page.links)
        <5>1. Leads(i, links)
          BY <4>2, <4>3, <4>4 DEF WalkOK
        <5>2. i < p.before
          BY <2>1, <3>1, <3>5, <4>1, <5>1 DEF Leads
        <5>3. i \in tips /\ b[i] \notin page.lists
          BY <3>1, <3>5, <4>2, <4>4, <5>2
        <5>4. QED
          BY <3>2, <4>2, <5>3
      <4>5. QED
        BY <4>2, <4>3, <4>4 DEF WalkOK, w
    <3>6. QED
      BY <3>4, <3>5
  <2>2. CASE ~(p.at = "threads" /\ (p.before = 0 \/ p \in links))
    <3>1. WalkAfter(p, page) = NoWalk
      BY <2>2 DEF WalkAfter
    <3>2. \A i \in Tips(b) : i \in 1 .. Len(b)
      BY <1>1 DEF Tips
    <3>3. QED
      BY <1>1, <3>1, <3>2 DEF WalkOK, NoWalk
  <2>3. QED
    BY <2>1, <2>2
<1> HIDE DEF page
<1>5. QED
  BY <1>1, <1>2, <1>3, <1>4 DEF PagesInv

LEMMA PagesStep == PagesInv /\ [PagesNext]_pagesVars => PagesInv'
<1> SUFFICES ASSUME PagesInv, [PagesNext]_pagesVars PROVE PagesInv'
  OBVIOUS
<1>1. CASE UNCHANGED pagesVars
  BY <1>1 DEF pagesVars, PagesInv, LinkOK, WalkOK, Of, Tips, Leads
<1>2. posts \in Seq(Nat) /\ Len(posts) \in Nat /\ seen \in Nat
  BY LenProperties DEF PagesInv
<1>3. CASE Open
  <2>1. PICK p \in {FrontPage, Threads(seen, 0)} \cup links :
               Served(posts, p) /\ Show(posts, p) /\ UNCHANGED posts
    BY <1>3 DEF Open
  <2>2. LinkOK(posts, p)
    BY <1>2, <2>1 DEF PagesInv, LinkOK, FrontPage, Threads
  <2>3. p.at # "more"
    BY <2>1 DEF Served
  <2>4. Extends(posts, posts')
    BY <1>2, <2>1 DEF Extends
  <2>5. LinkOK(posts', p) /\ Show(posts', p)
    BY <2>1, <2>2
  <2>6. QED
    BY <2>3, <2>4, <2>5, ShowKeepsPages
<1>4. CASE OpenFails
  BY <1>1, <1>4 DEF OpenFails
<1>5. CASE Post
  <2>1. LinkOK(posts, path) /\ path.at # "more"
    BY <1>5 DEF Post, PagesInv, Elsewhere
  <2>2. PICK t : posts' = Append(posts, t)
                 /\ t = IF path.at = "thread" THEN path.thread ELSE Len(posts) + 1
    BY <1>5 DEF Post
  <2>3. t \in Nat
    <3>1. CASE path.at = "thread"
      <4>1. PICK i \in 1 .. Len(posts) : posts[i] = path.thread
        BY <1>2, <2>1, <3>1 DEF LinkOK, Of
      <4>2. QED
        BY <1>2, <2>2, <3>1, <4>1
    <3>2. CASE path.at # "thread"
      BY <1>2, <2>2, <3>2
    <3>3. QED
      BY <3>1, <3>2
  <2>4. Extends(posts, posts')
    BY <1>2, <2>2, <2>3, AppendExtends
  <2>5. LinkOK(posts', path)
    BY <1>2, <2>1, <2>4, LinksOfLater
  <2>6. Show(posts', path)
    BY <1>5 DEF Post
  <2>7. QED
    BY <2>1, <2>4, <2>5, <2>6, ShowKeepsPages
<1>6. CASE PostRejected
  BY <1>1, <1>6 DEF PostRejected
<1>7. CASE OthersPost
  <2>1. PICK t : posts' = Append(posts, t)
                 /\ t \in {posts[i] : i \in DOMAIN posts} \cup {Len(posts) + 1}
    BY <1>7 DEF OthersPost
  <2>2. t \in Nat
    BY <1>2, <2>1
  <2>3. Extends(posts, posts')
    BY <1>2, <2>1, <2>2, AppendExtends
  <2>4. posts' \in Seq(Nat) /\ UNCHANGED <<path, links, seen, walk>>
    BY <1>7, <2>3 DEF OthersPost, Extends
  <2>5. WalkOK(posts', links, walk)
    BY <1>2, <2>3, WalkOfLater DEF PagesInv
  <2>6. path = Elsewhere \/ LinkOK(posts', path)
    BY <1>2, <2>3, LinksOfLater DEF PagesInv
  <2>7. \A l \in links : LinkOK(posts', l)
    BY <1>2, <2>3, LinksOfLater DEF PagesInv
  <2>8. QED
    BY <1>2, <2>4, <2>5, <2>6, <2>7 DEF PagesInv
<1>8. QED
  BY <1>1, <1>3, <1>4, <1>5, <1>6, <1>7 DEF PagesNext

LEMMA PagesStart == PagesInit => PagesInv
<1> SUFFICES ASSUME PagesInit PROVE PagesInv
  OBVIOUS
<1>1. posts = <<>> /\ posts \in Seq(Nat) /\ Len(posts) = 0
  BY EmptySeq DEF PagesInit
<1>2. Tips(posts) = {}
  BY <1>1 DEF Tips
<1>3. WalkOK(posts, links, walk)
  BY <1>1, <1>2 DEF PagesInit, WalkOK, NoWalk
<1>4. QED
  BY <1>1, <1>3 DEF PagesInit, PagesInv

LEMMA PagesInvariant == Spec => []PagesInv
<1>1. Init => PagesInv
  BY PagesStart DEF Init
<1>2. PagesInv /\ [Next]_vars => PagesInv'
  BY StepOfEach, PagesStep
<1>3. QED
  BY <1>1, <1>2, PTL DEF Spec

\* Whoever pages back to the end while others post has seen every thread, for
\* any number of threads on a page and of posts.
THEOREM NothingIsMissed == Spec => []PagingMissesNothing
<1>1. PagesInv => PagingMissesNothing
  BY DEF PagesInv, WalkOK, PagingMissesNothing
<1>2. QED
  BY <1>1, PagesInvariant, PTL

\* No link of a page goes stale while others post, but for the one to the rest
\* of a thread.
THEOREM LinksHold == Spec => []LinksStayServed
<1>1. PagesInv => LinksStayServed
  BY DEF PagesInv, LinkOK, LinksStayServed, Served
<1>2. QED
  BY <1>1, PagesInvariant, PTL

-----------------------------------------------------------------------------
(* The log of a board *)

\* What the readers make of one row more.
LEMMA ReadableAppend ==
    ASSUME NEW A, NEW s \in Seq(A), NEW e \in A
    PROVE  Readable(Append(s, e)) =
             IF e.look # "split" THEN Append(Readable(s), e) ELSE Readable(s)
<1> DEFINE t == Append(s, e)
           P == {i \in DOMAIN t : t[i].look # "split"}
           Q == {i \in DOMAIN s : s[i].look # "split"}
<1>1. /\ Len(s) \in Nat /\ DOMAIN s = 1 .. Len(s) /\ DOMAIN t = 1 .. Len(s) + 1
      /\ t[Len(s) + 1] = e /\ \A i \in 1 .. Len(s) : t[i] = s[i]
  BY LenProperties
<1>2. \A i \in 1 .. Len(s) : i \in P <=> i \in Q
  BY <1>1
<1>3. Len(s) + 1 \in P <=> e.look # "split"
  BY <1>1
<1> HIDE DEF P, Q
<1>4. AtPlaces(t, P) = IF Len(s) + 1 \in P THEN Append(AtPlaces(s, Q), e) ELSE AtPlaces(s, Q)
  BY <1>2, AtPlacesAppend
<1>5. QED
  BY <1>3, <1>4 DEF Readable, P, Q

LEMMA ReadableType ==
    ASSUME NEW A, NEW s \in Seq(A)
    PROVE  Readable(s) \in Seq(A)
  BY AtPlacesType DEF Readable

LEMMA ReadableNone == Readable(<<>>) = <<>>
  BY AtPlacesEmpty DEF Readable

\* A log without its last row.
LEMMA WithoutLast ==
    ASSUME NEW A, NEW s \in Seq(A), s # <<>>
    PROVE  LET front == SubSeq(s, 1, Len(s) - 1)
           IN  /\ front \in Seq(A) /\ Final(s) \in A /\ Len(front) = Len(s) - 1
               /\ Len(s) \in Nat \ {0} /\ \A i \in 1 .. Len(s) - 1 : front[i] = s[i]
               /\ s = Append(front, Final(s))
<1> DEFINE front == SubSeq(s, 1, Len(s) - 1)
<1>1. Len(s) \in Nat \ {0} /\ \A i \in 1 .. Len(s) : s[i] \in A
  BY LenProperties, EmptySeq
<1>2. front \in Seq(A) /\ Len(front) = Len(s) - 1
      /\ \A i \in 1 .. Len(s) - 1 : front[i] = s[i]
  <2> DEFINE k == Len(s) - 1
  <2>1. 1 \in Int /\ k \in Int /\ \A i \in 1 .. k : s[i] \in A
    BY <1>1
  <2>2. /\ SubSeq(s, 1, k) \in Seq(A)
        /\ Len(SubSeq(s, 1, k)) = IF 1 <= k THEN k - 1 + 1 ELSE 0
        /\ \A i \in 1 .. k - 1 + 1 : SubSeq(s, 1, k)[i] = s[1 + i - 1]
    <3> HIDE DEF k
    <3>1. QED
      BY <2>1, SubSeqProperties
  <2>3. k \in Nat
    BY <1>1
  <2> HIDE DEF k
  <2>4. \A i \in 1 .. k : i \in 1 .. k - 1 + 1 /\ 1 + i - 1 = i
    BY <2>3
  <2>5. Len(SubSeq(s, 1, k)) = k
    BY <2>2, <2>3
  <2>6. \A i \in 1 .. k : SubSeq(s, 1, k)[i] = s[i]
    BY <2>2, <2>4
  <2>7. QED
    BY <2>2, <2>5, <2>6 DEF k
<1>3. Final(s) \in A
  BY <1>1 DEF Final
<1>4. s = Append(front, Final(s))
  BY <1>1, <1>2, <1>3, AppendProperties, SeqEqual DEF Final
<1>5. QED
  BY <1>1, <1>2, <1>3, <1>4

LogTypes ==
    /\ rows \in Seq(Row)
    /\ tail \in {"closed", "cut", "bare"} /\ broken \in BOOLEAN
    /\ junk \in {"none", "short", "long"}
    /\ pending \in [Writers -> {Idle} \cup Row]
    /\ begun \in 0 .. MaxBegun /\ tears \in 0 .. MaxTears
    /\ reported \subseteq 1 .. begun /\ shown \in Nat
    /\ mark \in Nat /\ read \subseteq 1 .. MaxBegun
    /\ raced \in BOOLEAN /\ bared \in BOOLEAN

\* Posts are told apart, wherever they are.
Once ==
    /\ \A i, j \in 1 .. Len(rows) : rows[i].id = rows[j].id => i = j
    /\ \A i \in 1 .. Len(rows) : rows[i].id <= begun
    /\ \A w \in Writers : pending[w] # Idle =>
         /\ pending[w].id <= begun /\ pending[w].id \notin reported
         /\ \A i \in 1 .. Len(rows) : rows[i].id # pending[w].id
    /\ \A v, w \in Writers : pending[v] # Idle /\ pending[v].id = pending[w].id => v = w

\* The row that may be lost with the next one was not reported; what is lost, or
\* may be with the next row, is no more than the writes that stopped.
Losses ==
    /\ tail = "bare" => bared /\ rows # <<>> /\ Final(rows).id \notin reported
    /\ Cardinality(reported \ Ids(rows)) + (IF tail = "closed" THEN 0 ELSE 1) <= tears

\* As long as the log was not read by two at once, the posts are numbered by
\* their places, and so is the one that is pending.
Numbered ==
    ~raced =>
      /\ \A k \in 1 .. Len(Readable(rows)) : Readable(rows)[k].seq = k
      /\ \A v, w \in Writers : pending[v] # Idle /\ pending[w] # Idle => v = w
      /\ \A w \in Writers : pending[w] # Idle =>
           /\ pending[w].seq = Len(Readable(rows)) + 1
           /\ \/ pending[w].thread = pending[w].seq
              \/ \E k \in 1 .. Len(Readable(rows)) :
                   pending[w].thread = Readable(rows)[k].thread
      /\ shown <= Len(Readable(rows)) + (IF bared THEN 1 ELSE 0)
      /\ tail = "bare" /\ Final(rows).look # "split" => shown <= Len(Readable(rows))

\* The client has read the posts up to its mark.
Marked ==
    ~raced /\ ~bared =>
      /\ \A j, k \in 1 .. Len(Readable(rows)) :
           Readable(rows)[j].id = Readable(rows)[k].id => j = k
      /\ \A k \in 1 .. Len(Readable(rows)) : Readable(rows)[k].id \in Ids(rows)
      /\ mark <= Len(Readable(rows))
      /\ read = {Readable(rows)[k].id : k \in 1 .. mark}

LogInv == LogTypes /\ Once /\ Losses /\ Numbered /\ Marked

-----------------------------------------------------------------------------

LEMMA LogFacts ==
    ASSUME LogInv
    PROVE  /\ Len(rows) \in Nat /\ DOMAIN rows = 1 .. Len(rows)
           /\ \A i \in 1 .. Len(rows) : rows[i] \in Row
           /\ Readable(rows) \in Seq(Row) /\ Len(Readable(rows)) \in Nat
           /\ DOMAIN Readable(rows) = 1 .. Len(Readable(rows))
           /\ \A k \in 1 .. Len(Readable(rows)) : Readable(rows)[k] \in Row
           /\ \A w \in Writers : pending[w] # Idle => pending[w] \in Row
  BY ReadableType, LenProperties DEF LogInv, LogTypes

\* The number of the last post.
LEMMA LastSeqIs ==
    ASSUME NEW s \in Seq(Row)
    PROVE  /\ LastSeq(s) \in Nat
           /\ (\A k \in 1 .. Len(Readable(s)) : Readable(s)[k].seq = k) =>
                LastSeq(s) = Len(Readable(s))
<1> DEFINE r == Readable(s)
<1>1. r \in Seq(Row)
  BY ReadableType
<1>2. LastSeq(s) = IF r = <<>> THEN 0 ELSE r[Len(r)].seq
  BY DEF LastSeq, Final
<1> HIDE DEF r
<1>3. CASE r = <<>>
  BY <1>2, <1>3 DEF r
<1>4. CASE r # <<>>
  <2>1. Len(r) \in 1 .. Len(r) /\ Len(r) \in Nat
    BY <1>1, <1>4, EmptySeq
  <2>2. r[Len(r)].seq \in Nat
    <3>1. r[Len(r)] \in Row
      BY <1>1, <2>1, ElementOfSeq
    <3>2. QED
      BY <3>1 DEF Row
  <2>3. QED
    BY <1>2, <1>4, <2>1, <2>2 DEF r
<1>5. QED
  BY <1>3, <1>4

LEMMA ReadsKeepsLog ==
    ASSUME LogInv, NEW w \in Writers, Reads(w)
    PROVE  LogInv'
<1> DEFINE n == Len(Readable(rows))
           seq == LastSeq(rows) + 1
<1>1. PICK look \in Texts, t \in {seq} \cup {Readable(rows)[i].thread : i \in DOMAIN Readable(rows)} :
        pending' = [pending EXCEPT ![w] =
                      [id |-> begun', seq |-> seq, thread |-> t, look |-> look]]
  BY DEF Reads
<1> DEFINE p == [id |-> begun', seq |-> seq, thread |-> t, look |-> look]
<1>2. /\ begun' = begun + 1 /\ begun < MaxBegun
      /\ UNCHANGED <<rows, tail, broken, junk, tears, reported, shown, bared, mark, read>>
      /\ raced' = (raced \/ \E v \in Writers : pending[v] # Idle)
  BY DEF Reads, Overlaps, clientVars
<1>3. LogTypes /\ begun \in 0 .. MaxBegun /\ MaxBegun \in Nat
  BY LogConstants DEF LogInv, LogTypes
<1>4. seq \in Nat \ {0}
  BY <1>3, LastSeqIs DEF LogTypes
<1>5. t \in Nat \ {0}
  BY <1>4, LogFacts DEF Row
<1>6. p \in Row
  <2>1. begun' \in 1 .. MaxBegun
    BY <1>2, <1>3
  <2> HIDE DEF seq
  <2>2. QED
    BY <1>4, <1>5, <2>1 DEF Row
<1>7. /\ pending' \in [Writers -> {Idle} \cup Row] /\ pending'[w] = p
      /\ \A v \in Writers : v # w => pending'[v] = pending[v]
  BY <1>1, <1>3, <1>6 DEF LogTypes
<1>8. p.id = begun + 1 /\ p.seq = seq /\ p.thread = t
  BY <1>2
<1> HIDE DEF p
<1>9. LogTypes'
  <2>1. begun' \in 0 .. MaxBegun /\ reported \subseteq 1 .. begun'
    BY <1>2, <1>3 DEF LogTypes
  <2>2. raced' \in BOOLEAN
    BY <1>2
  <2>3. QED
    BY <1>2, <1>3, <1>7, <2>1, <2>2 DEF LogTypes
<1>10. Once'
  <2>1. Once /\ Len(rows) \in Nat /\ begun \in Nat
    BY <1>3, LogFacts DEF LogInv
  <2>2. /\ \A i \in 1 .. Len(rows) : rows[i].id \in Nat
        /\ \A v \in Writers : pending[v].id \in Nat
        /\ \A v \in Writers : pending[v].id <= begun
    <3>1. \A v \in Writers : pending[v] = Idle \/ pending[v] \in Row
      BY <1>3 DEF LogTypes
    <3>2. Idle.id = 0
      BY DEF Idle
    <3>3. QED
      BY <2>1, <3>1, <3>2, LogFacts DEF Once, Row
  <2>3. \A r \in reported : r \in Nat /\ r <= begun
    BY <1>3 DEF LogTypes
  <2>4. QED
    BY <1>2, <1>7, <1>8, <2>1, <2>2, <2>3 DEF Once
<1>11. Losses'
  BY <1>2 DEF LogInv, Losses, Ids, Final
<1>12. Numbered'
  <2> SUFFICES ASSUME ~raced' PROVE Numbered'
    BY DEF Numbered
  <2>1. ~raced /\ \A v \in Writers : pending[v] = Idle
    BY <1>2
  <2>2. Numbered
    BY DEF LogInv
  <2>3. seq = n + 1
    BY <1>3, <2>1, <2>2, LastSeqIs DEF LogTypes, Numbered
  <2>4. t = seq \/ \E k \in 1 .. n : t = Readable(rows)[k].thread
    BY LogFacts
  <2> HIDE DEF seq, n
  <2>5. QED
    BY <1>2, <1>7, <1>8, <2>1, <2>2, <2>3, <2>4 DEF Numbered, n
<1>13. Marked'
  BY <1>2 DEF LogInv, Marked, Ids
<1>14. QED
  BY <1>9, <1>10, <1>11, <1>12, <1>13 DEF LogInv

\* What a writer leaves alone, and that it is done.
Ends(w) ==
    /\ pending[w] # Idle /\ pending' = [pending EXCEPT ![w] = Idle]
    /\ begun' = begun /\ raced' = raced /\ broken' \in BOOLEAN
    /\ junk' \in {"none", "short", "long"}
    /\ bared' \in BOOLEAN /\ (bared => bared')
    /\ reported' \subseteq reported \cup {pending[w].id}
    /\ UNCHANGED clientVars
    /\ Shows(rows')

\* The rows are those there were and the one that was pending.
LEMMA RowAppended ==
    ASSUME LogInv, NEW w \in Writers, Ends(w), tail = "closed",
           rows' = Append(rows, pending[w]), tail' = "bare" => bared'
    PROVE  rows' \in Seq(Row) /\ shown' \in Nat /\ Once' /\ Numbered' /\ Marked'
<1> DEFINE p == pending[w]
           n == Len(Readable(rows))
           m == Len(rows)
<1>1. p \in Row /\ p # Idle
  BY LogFacts DEF Ends
<1>2. /\ rows' \in Seq(Row) /\ Len(rows') = m + 1 /\ rows'[m + 1] = p /\ m \in Nat
      /\ \A i \in 1 .. m : rows'[i] = rows[i]
      /\ DOMAIN rows' = 1 .. m + 1 /\ DOMAIN rows = 1 .. m
  BY <1>1, LogFacts DEF LogInv, LogTypes
<1>3. Readable(rows') = IF p.look # "split" THEN Append(Readable(rows), p) ELSE Readable(rows)
  BY <1>1, ReadableAppend DEF LogInv, LogTypes
<1>4. /\ pending'[w] = Idle /\ \A v \in Writers : v # w => pending'[v] = pending[v]
  BY DEF Ends, LogInv, LogTypes
<1>5. LastSeq(rows') \in Nat
  BY <1>2, LastSeqIs
<1>6. shown \in Nat /\ shown' = IF LastSeq(rows') > shown THEN LastSeq(rows') ELSE shown
  BY DEF Ends, Shows, LogInv, LogTypes
<1>7. shown' \in Nat
  BY <1>5, <1>6
<1> HIDE DEF p, m
<1>8. Once'
  <2>1. /\ p.id <= begun /\ \A i \in 1 .. m : rows[i].id # p.id
        /\ \A v \in Writers : pending[v] # Idle /\ v # w => pending[v].id # p.id
    BY DEF LogInv, Once, p, m, Ends
  <2>2. \A i \in 1 .. m + 1 : i \in 1 .. m \/ i = m + 1
    BY <1>2
  <2>3. \A i, j \in 1 .. m + 1 : rows'[i].id = rows'[j].id => i = j
    BY <1>2, <2>1, <2>2 DEF LogInv, Once, m
  <2>4. \A i \in 1 .. m + 1 : rows'[i].id <= begun'
    BY <1>2, <2>1, <2>2 DEF LogInv, Once, m, Ends
  <2>5. ASSUME NEW v \in Writers, pending'[v] # Idle
        PROVE  /\ pending'[v].id <= begun' /\ pending'[v].id \notin reported'
               /\ \A i \in 1 .. m + 1 : rows'[i].id # pending'[v].id
    <3>1. v # w /\ pending'[v] = pending[v]
      BY <1>4, <2>5
    <3>2. /\ pending[v].id <= begun /\ pending[v].id \notin reported
          /\ \A i \in 1 .. m : rows[i].id # pending[v].id
          /\ pending[v].id # p.id
      BY <2>1, <2>5, <3>1 DEF LogInv, Once, m
    <3>3. QED
      BY <1>2, <2>2, <3>1, <3>2 DEF Ends, p
  <2>6. \A v, u \in Writers :
          pending'[v] # Idle /\ pending'[v].id = pending'[u].id => v = u
    <3>1. SUFFICES ASSUME NEW v \in Writers, NEW u \in Writers, pending'[v] # Idle,
                          pending'[v].id = pending'[u].id
                   PROVE  v = u
      OBVIOUS
    <3>2. v # w /\ pending'[v] = pending[v] /\ pending[v] \in Row
      BY <1>4, <3>1, LogFacts
    <3>3. CASE u = w
      <4>1. pending'[u].id = 0
        BY <1>4, <3>3 DEF Idle
      <4>2. QED
        BY <3>1, <3>2, <4>1 DEF Row
    <3>4. CASE u # w
      BY <1>4, <3>1, <3>2, <3>4 DEF LogInv, Once
    <3>5. QED
      BY <3>3, <3>4
  <2>7. QED
    BY <1>2, <2>3, <2>4, <2>5, <2>6 DEF Once
<1>9. Numbered'
  <2> SUFFICES ASSUME ~raced' PROVE Numbered'
    BY DEF Numbered
  <2> DEFINE n2 == Len(Readable(rows'))
  <2>1. ~raced /\ Numbered
    BY DEF Ends, LogInv
  <2>2. n \in Nat /\ Readable(rows) \in Seq(Row)
    BY LogFacts
  <2>3. p.seq = n + 1
    BY <1>1, <2>1 DEF Numbered, p
  <2>4. \A k \in 1 .. n2 : Readable(rows')[k].seq = k
    <3>1. CASE p.look = "split"
      BY <1>3, <2>1, <3>1 DEF Numbered
    <3>2. CASE p.look # "split"
      <4>1. /\ n2 = n + 1 /\ Readable(rows')[n + 1] = p
            /\ \A k \in 1 .. n : Readable(rows')[k] = Readable(rows)[k]
        BY <1>1, <1>3, <2>2, <3>2
      <4>2. \A k \in 1 .. n : Readable(rows)[k].seq = k
        BY <2>1 DEF Numbered
      <4> HIDE DEF n, n2
      <4>3. \A k \in 1 .. n + 1 : k \in 1 .. n \/ k = n + 1
        BY <2>2
      <4>4. QED
        BY <2>3, <4>1, <4>2, <4>3
    <3>3. QED
      BY <3>1, <3>2
  <2>5. LastSeq(rows') = n2
    BY <1>2, <2>4, LastSeqIs
  <2>6. \A v \in Writers : pending'[v] = Idle
    BY <1>1, <1>4, <2>1 DEF Numbered, p
  <2>7. n2 = IF p.look # "split" THEN n + 1 ELSE n
    BY <1>1, <1>3, <2>2
  <2>8. shown <= n + (IF bared THEN 1 ELSE 0)
    BY <2>1 DEF Numbered
  <2> HIDE DEF n, n2
  <2>9. shown' <= n2 + (IF bared' THEN 1 ELSE 0)
    BY <1>6, <2>2, <2>5, <2>7, <2>8 DEF Ends
  <2>10. Final(rows') = p
    BY <1>2 DEF Final
  <2>11. tail' = "bare" /\ Final(rows').look # "split" => shown' <= n2
    BY <1>6, <2>2, <2>5, <2>7, <2>8, <2>10
  <2>12. QED
    BY <2>4, <2>6, <2>9, <2>11 DEF Numbered, n2
<1>10. Marked'
  <2> SUFFICES ASSUME ~raced', ~bared' PROVE Marked'
    BY DEF Marked
  <2>1. ~raced /\ ~bared /\ Marked /\ UNCHANGED <<mark, read>>
    BY DEF Ends, LogInv, clientVars
  <2>2. n \in Nat /\ Readable(rows) \in Seq(Row)
    BY LogFacts
  <2>3. Ids(rows) \subseteq Ids(rows') /\ p.id \in Ids(rows') /\ p.id \notin Ids(rows)
    <3>1. \A i \in 1 .. m : rows[i].id # p.id
      BY DEF LogInv, Once, m, p, Ends
    <3>2. m + 1 \in 1 .. m + 1 /\ \A i \in 1 .. m : i \in 1 .. m + 1
      BY <1>2
    <3>3. QED
      BY <1>2, <3>1, <3>2 DEF Ids
  <2>4. CASE p.look = "split"
    BY <1>3, <2>1, <2>3, <2>4 DEF Marked
  <2>5. CASE p.look # "split"
    <3> DEFINE r == Readable(rows')
    <3>1. /\ Len(r) = n + 1 /\ r[n + 1] = p
          /\ \A k \in 1 .. n : r[k] = Readable(rows)[k]
      BY <1>1, <1>3, <2>2, <2>5
    <3>2. /\ \A j, k \in 1 .. n : Readable(rows)[j].id = Readable(rows)[k].id => j = k
          /\ \A k \in 1 .. n : Readable(rows)[k].id \in Ids(rows)
          /\ mark <= n /\ mark \in Nat
          /\ read = {Readable(rows)[k].id : k \in 1 .. mark}
      BY <2>1 DEF Marked, LogInv, LogTypes
    <3> HIDE DEF n, r
    <3>3. \A k \in 1 .. n + 1 : k \in 1 .. n \/ k = n + 1
      BY <2>2
    <3>4. \A k \in 1 .. n + 1 : r[k].id \in Ids(rows')
      BY <2>3, <3>1, <3>2, <3>3
    <3>5. \A j, k \in 1 .. n + 1 : r[j].id = r[k].id => j = k
      BY <2>3, <3>1, <3>2, <3>3
    <3>6. mark <= n + 1
      BY <2>2, <3>2
    <3>7. \A k \in 1 .. mark : k \in 1 .. n /\ r[k] = Readable(rows)[k]
      BY <2>2, <3>1, <3>2
    <3>8. read = {r[k].id : k \in 1 .. mark}
      BY <3>2, <3>7
    <3>9. QED
      BY <2>1, <3>1, <3>4, <3>5, <3>6, <3>8 DEF Marked, r
  <2>6. QED
    BY <2>4, <2>5
<1>11. QED
  BY <1>2, <1>7, <1>8, <1>9, <1>10

\* What stands before a row that is lost, with the row it is lost with.
LEMMA KeptRows ==
    ASSUME LogInv
    PROVE  /\ Kept \in Seq(Row) /\ Len(Kept) \in Nat /\ Len(Kept) <= Len(rows)
           /\ DOMAIN Kept = 1 .. Len(Kept)
           /\ \A i \in 1 .. Len(Kept) : Kept[i] = rows[i]
           /\ tail # "bare" => Kept = rows
           /\ tail = "bare" =>
                Readable(rows) = IF Final(rows).look # "split"
                                 THEN Append(Readable(Kept), Final(rows))
                                 ELSE Readable(Kept)
           /\ tail = "bare" => Ids(rows) = Ids(Kept) \cup {Final(rows).id}
<1>1. rows \in Seq(Row) /\ Len(rows) \in Nat /\ DOMAIN rows = 1 .. Len(rows)
  BY LogFacts DEF LogInv, LogTypes
<1>2. CASE tail # "bare"
  BY <1>1, <1>2 DEF Kept
<1>3. CASE tail = "bare"
  <2> DEFINE l == Final(rows)
  <2>1. rows # <<>> /\ Kept = SubSeq(rows, 1, Len(rows) - 1)
    BY <1>3 DEF LogInv, Losses, Kept
  <2>2. /\ Kept \in Seq(Row) /\ l \in Row /\ Len(Kept) = Len(rows) - 1
        /\ Len(rows) \in Nat \ {0} /\ \A i \in 1 .. Len(rows) - 1 : Kept[i] = rows[i]
        /\ rows = Append(Kept, l)
    BY <1>1, <2>1, WithoutLast
  <2>3. DOMAIN Kept = 1 .. Len(Kept)
    BY <2>2
  <2>4. Readable(rows) = IF l.look # "split" THEN Append(Readable(Kept), l)
                         ELSE Readable(Kept)
    BY <2>2, ReadableAppend
  <2>5. Ids(rows) = Ids(Kept) \cup {l.id}
    <3>1. /\ \A i \in 1 .. Len(rows) : i \in 1 .. Len(Kept) \/ i = Len(rows)
          /\ \A i \in 1 .. Len(Kept) : i \in 1 .. Len(rows)
          /\ Len(rows) \in 1 .. Len(rows)
      BY <2>2
    <3>2. rows[Len(rows)] = l
      BY DEF Final
    <3>3. \A i \in 1 .. Len(Kept) : Kept[i] = rows[i]
      BY <2>2
    <3> HIDE DEF l
    <3>4. QED
      BY <1>1, <2>3, <3>1, <3>2, <3>3 DEF Ids
  <2>6. Len(Kept) \in Nat /\ Len(Kept) <= Len(rows)
    BY <2>2
  <2>7. \A i \in 1 .. Len(Kept) : Kept[i] = rows[i]
    BY <2>2
  <2> HIDE DEF l
  <2>8. QED
    BY <1>3, <2>2, <2>3, <2>4, <2>5, <2>6, <2>7 DEF l
<1>4. QED
  BY <1>2, <1>3

\* The row that was pending is lost, and one without a newline with it.
LEMMA RowLost ==
    ASSUME LogInv, NEW w \in Writers, Ends(w), rows' = Kept, tail' # "bare"
    PROVE  rows' \in Seq(Row) /\ shown' \in Nat /\ Once' /\ Numbered' /\ Marked'
<1> DEFINE m == Len(Kept)
<1>1. /\ rows' \in Seq(Row) /\ Len(rows') = m /\ m \in Nat /\ m <= Len(rows)
      /\ \A i \in 1 .. m : rows'[i] = rows[i]
      /\ Len(rows) \in Nat
  BY KeptRows, LogFacts
<1>2. /\ pending'[w] = Idle /\ \A v \in Writers : v # w => pending'[v] = pending[v]
  BY DEF Ends, LogInv, LogTypes
<1>3. LastSeq(rows') \in Nat
  BY <1>1, LastSeqIs
<1>4. shown \in Nat /\ shown' = IF LastSeq(rows') > shown THEN LastSeq(rows') ELSE shown
  BY DEF Ends, Shows, LogInv, LogTypes
<1>5. shown' \in Nat
  BY <1>3, <1>4
<1> HIDE DEF m
<1>6. Once'
  <2>1. \A i \in 1 .. m : i \in 1 .. Len(rows)
    BY <1>1
  <2>2. \A i, j \in 1 .. m : rows'[i].id = rows'[j].id => i = j
    BY <1>1, <2>1 DEF LogInv, Once
  <2>3. \A i \in 1 .. m : rows'[i].id <= begun'
    BY <1>1, <2>1 DEF LogInv, Once, Ends
  <2>4. ASSUME NEW v \in Writers, pending'[v] # Idle
        PROVE  /\ pending'[v].id <= begun' /\ pending'[v].id \notin reported'
               /\ \A i \in 1 .. m : rows'[i].id # pending'[v].id
    <3>1. v # w /\ pending'[v] = pending[v]
      BY <1>2, <2>4
    <3>2. /\ pending[v].id <= begun /\ pending[v].id \notin reported
          /\ \A i \in 1 .. Len(rows) : rows[i].id # pending[v].id
          /\ pending[v].id # pending[w].id
      BY <2>4, <3>1 DEF LogInv, Once
    <3>3. QED
      BY <1>1, <2>1, <3>1, <3>2 DEF Ends
  <2>5. \A v, u \in Writers :
          pending'[v] # Idle /\ pending'[v].id = pending'[u].id => v = u
    <3>1. SUFFICES ASSUME NEW v \in Writers, NEW u \in Writers, pending'[v] # Idle,
                          pending'[v].id = pending'[u].id
                   PROVE  v = u
      OBVIOUS
    <3>2. v # w /\ pending'[v] = pending[v] /\ pending[v] \in Row
      BY <1>2, <3>1, LogFacts
    <3>3. CASE u = w
      <4>1. pending'[u].id = 0
        BY <1>2, <3>3 DEF Idle
      <4>2. QED
        BY <3>1, <3>2, <4>1 DEF Row
    <3>4. CASE u # w
      BY <1>2, <3>1, <3>2, <3>4 DEF LogInv, Once
    <3>5. QED
      BY <3>3, <3>4
  <2>6. QED
    BY <1>1, <2>2, <2>3, <2>4, <2>5 DEF Once
<1>7. Numbered'
  <2> SUFFICES ASSUME ~raced' PROVE Numbered'
    BY DEF Numbered
  <2> DEFINE n == Len(Readable(rows))
             n2 == Len(Readable(rows'))
             cut == tail = "bare" /\ Final(rows).look # "split"
  <2>1. ~raced /\ Numbered
    BY DEF Ends, LogInv
  <2>2. /\ n \in Nat /\ Readable(rows) \in Seq(Row) /\ n2 \in Nat
        /\ Readable(rows') \in Seq(Row)
    BY <1>1, LogFacts, ReadableType, LenProperties
  <2>3. /\ cut => n = n2 + 1 /\ \A k \in 1 .. n2 : Readable(rows')[k] = Readable(rows)[k]
        /\ ~cut => Readable(rows') = Readable(rows)
    <3>1. CASE cut
      <4>1. Readable(rows) = Append(Readable(rows'), Final(rows))
        BY <3>1, KeptRows
      <4>2. QED
        BY <2>2, <3>1, <4>1
    <3>2. CASE ~cut
      BY <3>2, KeptRows
    <3>3. QED
      BY <3>1, <3>2
  <2>4. \A k \in 1 .. n : Readable(rows)[k].seq = k
    BY <2>1 DEF Numbered
  <2>5. /\ shown <= n + (IF bared THEN 1 ELSE 0)
        /\ cut => shown <= n /\ bared
    BY <2>1 DEF Numbered, LogInv, Losses
  <2>6. \A v \in Writers : pending'[v] = Idle
    BY <1>2, <2>1 DEF Numbered, Ends
  <2>7. ~cut => n2 = n
    BY <2>3
  <2> HIDE DEF n, n2, cut
  <2>8. \A k \in 1 .. n2 : Readable(rows')[k].seq = k
    <3>1. CASE cut
      BY <2>2, <2>3, <2>4, <3>1
    <3>2. CASE ~cut
      BY <2>3, <2>4, <2>7, <3>2
    <3>3. QED
      BY <3>1, <3>2
  <2>9. LastSeq(rows') = n2
    BY <1>1, <2>8, LastSeqIs DEF n2
  <2>10. shown' <= n2 + (IF bared' THEN 1 ELSE 0)
    BY <1>4, <2>2, <2>3, <2>5, <2>7, <2>9 DEF Ends
  <2>11. QED
    BY <2>6, <2>8, <2>10 DEF Numbered, n2
<1>8. Marked'
  <2> SUFFICES ASSUME ~raced', ~bared' PROVE Marked'
    BY DEF Marked
  <2>1. ~raced /\ ~bared /\ Marked /\ UNCHANGED <<mark, read>>
    BY DEF Ends, LogInv, clientVars
  <2>2. rows' = rows
    BY <2>1, KeptRows DEF LogInv, Losses
  <2>3. QED
    BY <2>1, <2>2 DEF Marked, Ids
<1>9. QED
  BY <1>1, <1>5, <1>6, <1>7, <1>8

\* How many are lost, of the posts that were reported.
LEMMA LostAreFew ==
    ASSUME LogTypes, NEW lost \in SUBSET Nat,
           NEW x, lost \subseteq (reported \ Ids(rows)) \cup {x}
    PROVE  /\ Cardinality(reported \ Ids(rows)) \in Nat /\ Cardinality(lost) \in Nat
           /\ Cardinality(lost) <= Cardinality(reported \ Ids(rows)) + 1
           /\ lost \subseteq reported \ Ids(rows) =>
                Cardinality(lost) <= Cardinality(reported \ Ids(rows))
<1> DEFINE old == reported \ Ids(rows)
<1>1. IsFiniteSet(1 .. begun)
  BY FS_Interval DEF LogTypes
<1>2. IsFiniteSet(old)
  <2>1. old \subseteq 1 .. begun
    BY DEF LogTypes
  <2>2. QED
    BY <1>1, <2>1, FS_Subset
<1> HIDE DEF old
<1>3. /\ IsFiniteSet(old \cup {x}) /\ Cardinality(old) \in Nat
      /\ Cardinality(old \cup {x}) <= Cardinality(old) + 1
  <2>1. Cardinality(old) \in Nat
    BY <1>2, FS_CardinalityType
  <2>2. /\ IsFiniteSet(old \cup {x})
        /\ Cardinality(old \cup {x}) =
             IF x \in old THEN Cardinality(old) ELSE Cardinality(old) + 1
    BY <1>2, FS_AddElement
  <2>3. QED
    BY <2>1, <2>2
<1>4. /\ IsFiniteSet(lost) /\ Cardinality(lost) <= Cardinality(old \cup {x})
      /\ lost \subseteq old => Cardinality(lost) <= Cardinality(old)
  BY <1>2, <1>3, FS_Subset DEF old
<1>5. Cardinality(lost) \in Nat /\ Cardinality(old \cup {x}) \in Nat
  BY <1>3, <1>4, FS_CardinalityType
<1>6. Cardinality(lost) <= Cardinality(old) + 1
  BY <1>3, <1>4, <1>5
<1>7. QED
  BY <1>3, <1>4, <1>5, <1>6 DEF old

LEMMA EndsTypes ==
    ASSUME LogInv, NEW w \in Writers, Ends(w)
    PROVE  /\ pending' \in [Writers -> {Idle} \cup Row]
           /\ reported' \subseteq 1 .. begun' /\ raced' \in BOOLEAN
           /\ begun' \in 0 .. MaxBegun /\ mark' \in Nat /\ read' \subseteq 1 .. MaxBegun
           /\ reported' \in SUBSET Nat /\ pending[w] \in Row /\ pending[w].id \notin reported
<1>1. LogTypes /\ pending[w] \in Row /\ pending[w].id \notin reported
  BY LogFacts DEF LogInv, Ends, Once
<1>2. pending[w].id \in 1 .. begun /\ begun \in Nat
  BY <1>1 DEF LogInv, Once, Ends, Row, LogTypes
<1>3. reported' \subseteq 1 .. begun'
  BY <1>1, <1>2 DEF Ends, LogTypes
<1>4. QED
  BY <1>1, <1>2, <1>3 DEF Ends, LogTypes, clientVars

LEMMA WritesKeepsLog ==
    ASSUME LogInv, NEW w \in Writers, Writes(w)
    PROVE  LogInv'
<1> DEFINE x == pending[w].id
           lost == reported' \ Ids(rows')
<1>1. LogTypes /\ Losses
  BY DEF LogInv
<1>2. /\ pending[w] # Idle /\ tail' = "closed" /\ tears' = tears
      /\ reported' = reported \cup {x} /\ broken' = broken
      /\ junk' \in {"none", "short", "long"}
      /\ rows' = IF tail = "closed" THEN Append(rows, pending[w]) ELSE Kept
  BY DEF Writes, OnItsOwnLine, JunkWith
<1>3. Ends(w)
  BY <1>1, <1>2 DEF Ends, Writes, LogTypes
<1>4. pending[w] \in Row /\ reported' \in SUBSET Nat
  BY <1>3, EndsTypes
<1>5. CASE tail = "closed"
  <2>1. rows' = Append(rows, pending[w]) /\ tail' # "bare"
    BY <1>2, <1>5
  <2>2. rows' \in Seq(Row) /\ shown' \in Nat /\ Once' /\ Numbered' /\ Marked'
    BY <1>3, <1>5, <2>1, RowAppended
  <2>3. Ids(rows') = Ids(rows) \cup {x}
    <3>1. /\ rows \in Seq(Row) /\ Len(rows) \in Nat
          /\ DOMAIN rows = 1 .. Len(rows) /\ DOMAIN rows' = 1 .. Len(rows) + 1
          /\ rows'[Len(rows) + 1] = pending[w]
          /\ \A i \in 1 .. Len(rows) : rows'[i] = rows[i]
      BY <1>1, <1>4, <2>1, LogFacts DEF LogTypes
    <3>2. \A i \in 1 .. Len(rows) + 1 : i \in 1 .. Len(rows) \/ i = Len(rows) + 1
      BY <3>1
    <3>3. Len(rows) + 1 \in 1 .. Len(rows) + 1
          /\ \A i \in 1 .. Len(rows) : i \in 1 .. Len(rows) + 1
      BY <3>1
    <3>4. QED
      BY <3>1, <3>2, <3>3 DEF Ids
  <2>4. lost \subseteq reported \ Ids(rows)
    BY <1>2, <2>3
  <2>5. Losses'
    <3>1. /\ Cardinality(lost) <= Cardinality(reported \ Ids(rows))
          /\ Cardinality(lost) \in Nat /\ Cardinality(reported \ Ids(rows)) \in Nat
      BY <1>1, <1>4, <2>4, LostAreFew
    <3>2. Cardinality(reported \ Ids(rows)) <= tears
      BY <1>1, <1>5, <3>1 DEF Losses
    <3> HIDE DEF lost
    <3>3. Cardinality(lost) + 0 <= tears
      BY <1>1, <3>1, <3>2 DEF LogTypes
    <3>4. QED
      BY <1>2, <3>3 DEF Losses, lost
  <2>6. QED
    BY <1>1, <1>2, <1>3, <2>2, <2>5, EndsTypes DEF LogInv, LogTypes, Ends
<1>6. CASE tail # "closed"
  <2>1. rows' = Kept /\ tail' # "bare"
    BY <1>2, <1>6
  <2>2. rows' \in Seq(Row) /\ shown' \in Nat /\ Once' /\ Numbered' /\ Marked'
    BY <1>3, <2>1, RowLost
  <2>3. lost \subseteq (reported \ Ids(rows)) \cup {x}
    BY <1>1, <1>2, <2>1, KeptRows DEF Losses
  <2>4. Losses'
    <3>1. /\ Cardinality(lost) <= Cardinality(reported \ Ids(rows)) + 1
          /\ Cardinality(lost) \in Nat /\ Cardinality(reported \ Ids(rows)) \in Nat
      BY <1>1, <1>4, <2>3, LostAreFew
    <3>2. Cardinality(reported \ Ids(rows)) + 1 <= tears
      BY <1>1, <1>6, <3>1 DEF Losses
    <3> HIDE DEF lost
    <3>3. Cardinality(lost) + 0 <= tears
      BY <1>1, <3>1, <3>2 DEF LogTypes
    <3>4. QED
      BY <1>2, <3>3 DEF Losses, lost
  <2>5. QED
    BY <1>1, <1>2, <1>3, <2>2, <2>4, EndsTypes DEF LogInv, LogTypes, Ends
<1>7. QED
  BY <1>5, <1>6

LEMMA StopsKeepsLog ==
    ASSUME LogInv, NEW w \in Writers, Stops(w)
    PROVE  LogInv'
<1> DEFINE lost == reported' \ Ids(rows')
<1>1. LogTypes /\ Losses
  BY DEF LogInv
<1>2. PICK t \in Tears :
        /\ rows' = IF t = "bare" /\ tail = "closed" THEN Append(rows, pending[w]) ELSE Kept
        /\ tail' = IF t = "bare" /\ tail = "closed" THEN "bare" ELSE "cut"
        /\ junk' = IF t = "bare" /\ tail = "closed" THEN "none" ELSE JunkWith(w)
        /\ broken' = (broken \/ t = "midchar")
        /\ bared' = (bared \/ t = "bare")
  BY DEF Stops, OnItsOwnLine
<1>3. /\ pending[w] # Idle /\ tears < MaxTears /\ tears' = tears + 1
      /\ reported' = reported
  BY DEF Stops
<1>4. Ends(w)
  BY <1>1, <1>2 DEF Ends, Stops, LogTypes, JunkWith
<1>5. /\ pending[w] \in Row /\ reported' \in SUBSET Nat /\ pending[w].id \notin reported
  BY <1>4, EndsTypes
<1>6. tears' \in 0 .. MaxTears /\ tears \in Nat
  BY <1>1, <1>3, LogConstants DEF LogTypes
<1>7. ASSUME lost \subseteq reported \ Ids(rows) PROVE Cardinality(lost) + 1 <= tears'
  <2>1. /\ Cardinality(lost) <= Cardinality(reported \ Ids(rows))
        /\ Cardinality(lost) \in Nat /\ Cardinality(reported \ Ids(rows)) \in Nat
    BY <1>1, <1>5, <1>7, LostAreFew
  <2>2. Cardinality(reported \ Ids(rows)) <= tears
    BY <1>1, <1>6, <2>1 DEF Losses
  <2> HIDE DEF lost
  <2>3. QED
    BY <1>3, <1>6, <2>1, <2>2
<1>8. CASE t = "bare" /\ tail = "closed"
  <2>1. rows' = Append(rows, pending[w]) /\ bared' /\ tail' = "bare"
    BY <1>2, <1>8
  <2>2. rows' \in Seq(Row) /\ shown' \in Nat /\ Once' /\ Numbered' /\ Marked'
    BY <1>4, <1>8, <2>1, RowAppended
  <2>3. rows' # <<>> /\ Final(rows') = pending[w] /\ Ids(rows) \subseteq Ids(rows')
    <3>1. /\ rows \in Seq(Row) /\ Len(rows) \in Nat
          /\ Len(rows') = Len(rows) + 1
          /\ DOMAIN rows = 1 .. Len(rows) /\ DOMAIN rows' = 1 .. Len(rows) + 1
          /\ rows'[Len(rows) + 1] = pending[w]
          /\ \A i \in 1 .. Len(rows) : rows'[i] = rows[i]
      BY <1>1, <1>5, <2>1, LogFacts DEF LogTypes
    <3>2. \A i \in 1 .. Len(rows) : i \in 1 .. Len(rows) + 1
      BY <3>1
    <3>3. QED
      BY <3>1, <3>2 DEF Ids, Final
  <2>4. lost \subseteq reported \ Ids(rows)
    BY <1>3, <2>3
  <2>5. Losses'
    BY <1>3, <1>5, <1>7, <2>1, <2>3, <2>4 DEF Losses
  <2>6. QED
    BY <1>1, <1>2, <1>4, <1>6, <2>1, <2>2, <2>5, EndsTypes DEF LogInv, LogTypes, Ends
<1>9. CASE ~(t = "bare" /\ tail = "closed")
  <2>1. rows' = Kept /\ tail' = "cut"
    BY <1>2, <1>9
  <2>2. rows' \in Seq(Row) /\ shown' \in Nat /\ Once' /\ Numbered' /\ Marked'
    BY <1>4, <2>1, RowLost
  <2>3. lost \subseteq reported \ Ids(rows)
    BY <1>1, <1>3, <2>1, KeptRows DEF Losses
  <2>4. Losses'
    BY <1>7, <2>1, <2>3 DEF Losses
  <2>5. QED
    BY <1>1, <1>2, <1>4, <1>6, <2>1, <2>2, <2>4, EndsTypes DEF LogInv, LogTypes, Ends
<1>10. QED
  BY <1>8, <1>9

LEMMA DeclinesKeepsLog ==
    ASSUME LogInv, NEW w \in Writers, Declines(w)
    PROVE  LogInv'
<1>1. /\ begun' = begun + 1 /\ begun < MaxBegun
      /\ UNCHANGED <<rows, tail, broken, junk, pending, tears, reported, shown,
                     raced, bared, mark, read>>
  BY DEF Declines, history, clientVars
<1>2. LogTypes /\ Once /\ begun \in Nat /\ MaxBegun \in Nat
  BY LogConstants DEF LogInv, LogTypes
<1>3. begun' \in 0 .. MaxBegun /\ 1 .. begun \subseteq 1 .. begun'
  BY <1>1, <1>2
<1>4. LogTypes'
  BY <1>1, <1>2, <1>3 DEF LogTypes
<1>5. Once'
  <2>1. /\ \A i \in 1 .. Len(rows) : rows[i].id \in Nat
        /\ \A v \in Writers : pending[v] # Idle => pending[v].id \in Nat
    BY LogFacts DEF Row
  <2>2. \A k \in Nat : k <= begun => k <= begun'
    BY <1>1, <1>2
  <2>3. QED
    BY <1>1, <1>2, <2>1, <2>2 DEF Once
<1>6. QED
  BY <1>1, <1>4, <1>5 DEF LogInv, Losses, Numbered, Marked, Ids, Final

LEMMA OpenKeepsLog ==
    ASSUME LogInv, OpenBoard
    PROVE  LogInv'
<1> DEFINE r == Readable(rows)
<1>1. /\ mark' = IF LastSeq(rows) > mark THEN LastSeq(rows) ELSE mark
      /\ read' = Ids(r)
      /\ UNCHANGED <<rows, tail, broken, junk, pending, begun, tears, reported,
                     shown, raced, bared>>
  BY DEF OpenBoard, history
<1>2. /\ LogTypes /\ r \in Seq(Row) /\ Len(r) \in Nat /\ DOMAIN r = 1 .. Len(r)
      /\ \A k \in 1 .. Len(r) : r[k] \in Row
  BY LogFacts DEF LogInv
<1>3. mark' \in Nat
  BY <1>1, <1>2, LastSeqIs DEF LogTypes
<1>4. read' \subseteq 1 .. MaxBegun
  <2> HIDE DEF r
  <2>1. QED
    BY <1>1, <1>2 DEF Ids, Row
<1>5. LogTypes'
  BY <1>1, <1>2, <1>3, <1>4 DEF LogTypes
<1>6. Marked'
  <2> SUFFICES ASSUME ~raced, ~bared PROVE Marked'
    BY <1>1 DEF Marked
  <2>1. Marked /\ Numbered /\ mark <= Len(r)
    BY DEF LogInv, Marked
  <2>2. LastSeq(rows) = Len(r)
    BY <1>2, <2>1, LastSeqIs DEF LogTypes, Numbered
  <2>3. mark' = Len(r)
    <3>1. mark \in Nat /\ Len(r) \in Nat
      BY <1>2 DEF LogTypes
    <3>2. mark' = IF Len(r) > mark THEN Len(r) ELSE mark
      BY <1>1, <2>2
    <3> HIDE DEF r
    <3>3. QED
      BY <2>1, <3>1, <3>2
  <2>4. read' = {r[k].id : k \in 1 .. mark'}
    BY <1>1, <1>2, <2>3 DEF Ids
  <2>5. mark' <= Len(r)
    BY <1>2, <2>3
  <2>6. /\ Ids(rows)' = Ids(rows) /\ Readable(rows)' = r
    BY <1>1 DEF Ids
  <2>7. QED
    BY <2>1, <2>4, <2>5, <2>6 DEF Marked
<1>7. Once' /\ Losses' /\ Numbered'
  BY <1>1 DEF LogInv, Once, Losses, Numbered, Ids, Final
<1>8. QED
  BY <1>5, <1>6, <1>7 DEF LogInv

LEMMA LogStep == LogInv /\ [LogNext]_logVars => LogInv'
<1>1. CASE UNCHANGED logVars
  <2>1. UNCHANGED <<rows, tail, broken, junk, pending, begun, tears, reported,
                    shown, raced, bared, mark, read>>
    BY <1>1 DEF logVars, history, clientVars
  <2>2. QED
    BY <2>1 DEF LogInv, LogTypes, Once, Losses, Numbered, Marked, Ids, Final
<1>2. CASE LogNext
  BY <1>2, ReadsKeepsLog, DeclinesKeepsLog, WritesKeepsLog, StopsKeepsLog, OpenKeepsLog
  DEF LogNext
<1>3. QED
  BY <1>1, <1>2

LEMMA LogStart == LogInit => LogInv
<1> SUFFICES ASSUME LogInit PROVE LogInv
  OBVIOUS
<1>1. rows = <<>> /\ rows \in Seq(Row) /\ Len(rows) = 0 /\ Ids(rows) = {}
  BY EmptySeq DEF LogInit, Ids
<1>2. Readable(rows) = <<>> /\ Len(Readable(rows)) = 0
  BY <1>1, ReadableNone
<1>3. LogTypes
  <2>1. pending \in [Writers -> {Idle} \cup Row]
    BY DEF LogInit
  <2>2. begun \in 0 .. MaxBegun /\ tears \in 0 .. MaxTears
    BY LogConstants DEF LogInit
  <2>3. QED
    BY <1>1, <2>1, <2>2 DEF LogInit, LogTypes
<1>4. Once
  BY <1>1 DEF LogInit, Once
<1>5. Losses
  <2>1. reported \ Ids(rows) = {}
    BY DEF LogInit
  <2>2. QED
    BY <2>1, FS_EmptySet DEF LogInit, Losses
<1>6. Numbered
  BY <1>2 DEF LogInit, Numbered
<1>7. Marked
  BY <1>1, <1>2 DEF LogInit, Marked
<1>8. QED
  BY <1>3, <1>4, <1>5, <1>6, <1>7 DEF LogInv

LEMMA LogInvariant == Spec => []LogInv
<1>1. Init => LogInv
  BY LogStart DEF Init
<1>2. LogInv /\ [Next]_vars => LogInv'
  BY StepOfEach, LogStep
<1>3. QED
  BY <1>1, <1>2, PTL DEF Spec

\* What was reported as stored is in the file, but for one post for each write
\* that stopped, for any number of writers, posts and tears.
THEOREM ReportedPostsStay == Spec => []PostsStay
<1>1. LogInv => PostsStay
  <2> SUFFICES ASSUME LogInv PROVE PostsStay
    OBVIOUS
  <2>1. LogTypes /\ Once /\ Losses
    BY DEF LogInv
  <2>2. Cardinality(Ids(rows)) = Len(rows)
    <3> DEFINE f == [i \in 1 .. Len(rows) |-> rows[i].id]
    <3>1. Len(rows) \in Nat /\ DOMAIN rows = 1 .. Len(rows)
      BY LogFacts
    <3>2. f \in [1 .. Len(rows) -> Ids(rows)]
      BY <3>1 DEF Ids
    <3>3. \A i, j \in 1 .. Len(rows) : f[i] = f[j] => i = j
      BY <2>1 DEF Once
    <3>4. \A x \in Ids(rows) : \E i \in 1 .. Len(rows) : f[i] = x
      BY <3>1 DEF Ids
    <3> HIDE DEF f
    <3>5. f \in Bijection(1 .. Len(rows), Ids(rows))
      BY <3>2, <3>3, <3>4 DEF Bijection, Injection, Surjection, IsInjective
    <3>6. ExistsBijection(1 .. Len(rows), Ids(rows))
      BY <3>5 DEF ExistsBijection
    <3>7. QED
      BY <3>1, <3>6, FS_CountingElements
  <2>3. \A w \in Writers : pending[w].id \notin Ids(rows)
    <3> SUFFICES ASSUME NEW w \in Writers PROVE pending[w].id \notin Ids(rows)
      OBVIOUS
    <3>1. CASE pending[w] = Idle
      <4>1. \A i \in 1 .. Len(rows) : rows[i].id # 0
        BY LogFacts DEF Row
      <4>2. QED
        BY <3>1, <4>1, LogFacts DEF Idle, Ids
    <3>2. CASE pending[w] # Idle
      BY <2>1, <3>2, LogFacts DEF Once, Ids
    <3>3. QED
      BY <3>1, <3>2
  <2>4. LogTypeOK
    <3>1. reported \subseteq 1 .. MaxBegun
      BY <2>1, LogConstants DEF LogTypes
    <3>2. QED
      BY <2>1, <2>2, <2>3, <3>1 DEF LogTypes, LogTypeOK
  <2>5. Cardinality(reported \ Ids(rows)) <= tears
    <3>1. {} \subseteq (reported \ Ids(rows)) \cup {0} /\ {} \in SUBSET Nat
      OBVIOUS
    <3>2. Cardinality(reported \ Ids(rows)) \in Nat
      BY <2>1, <3>1, LostAreFew
    <3>3. tears \in Nat
      BY <2>1 DEF LogTypes
    <3>4. QED
      BY <2>1, <3>2, <3>3 DEF Losses
  <2>6. QED
    BY <2>4, <2>5 DEF PostsStay
<1>2. QED
  BY <1>1, LogInvariant, PTL

\* A row that is new, and the number it has.
LEMMA NewRowsAreNumbered ==
    ASSUME LogInv, NEW w \in Writers, Writes(w) \/ Stops(w), ~raced'
    PROVE  /\ ~raced /\ pending[w] \in Row /\ rows \in Seq(Row)
           /\ pending[w].seq = Len(Readable(rows)) + 1
           /\ (rows' = Append(rows, pending[w]) /\ tail = "closed") \/ rows' = Kept
           /\ tears' = 0 => Writes(w) /\ tail = "closed"
<1>1. ~raced /\ pending[w] # Idle
  BY DEF Writes, Stops
<1>2. pending[w] \in Row /\ rows \in Seq(Row) /\ tears \in Nat
  BY <1>1, LogFacts DEF LogInv, LogTypes
<1>3. pending[w].seq = Len(Readable(rows)) + 1
  BY <1>1 DEF LogInv, Numbered
<1>4. (rows' = Append(rows, pending[w]) /\ tail = "closed") \/ rows' = Kept
  BY DEF Writes, Stops, OnItsOwnLine
<1>5. tears' = 0 => Writes(w) /\ tail = "closed"
  <2> SUFFICES ASSUME tears' = 0 PROVE Writes(w) /\ tail = "closed"
    OBVIOUS
  <2>1. ~Stops(w)
    BY <1>2 DEF Stops
  <2>2. tears = 0
    BY <2>1 DEF Writes
  <2>3. Cardinality(reported \ Ids(rows)) \in Nat
    <3>1. {} \subseteq (reported \ Ids(rows)) \cup {0} /\ {} \in SUBSET Nat
      OBVIOUS
    <3>2. QED
      BY <3>1, LostAreFew DEF LogInv
  <2>4. tail = "closed"
    BY <2>2, <2>3 DEF LogInv, Losses
  <2>5. QED
    BY <2>1, <2>4
<1>6. QED
  BY <1>1, <1>2, <1>3, <1>4, <1>5

\* What else may happen leaves the rows as they are.
LEMMA OthersLeaveRows ==
    ASSUME [LogNext]_logVars
    PROVE  rows' = rows \/ \E w \in Writers : Writes(w) \/ Stops(w)
  BY DEF LogNext, logVars, Reads, Declines, OpenBoard

\* Whoever asks for what came after a page gets it: whatever else happens, a
\* post that becomes readable has a higher number than any page has shown.
THEOREM NewPostsComeAfter == Spec => NewPostsAreNewer
<1> DEFINE Newer ==
      \A i \in DOMAIN rows' :
        ~raced' /\ rows'[i].look = "whole" /\ rows'[i].id \notin Ids(rows)
          => rows'[i].seq > shown \/ (bared /\ rows'[i].seq = shown)
<1>1. LogInv /\ [LogNext]_logVars => Newer
  <2> SUFFICES ASSUME LogInv, [LogNext]_logVars, NEW i \in DOMAIN rows', ~raced',
                      rows'[i].id \notin Ids(rows)
               PROVE  rows'[i].seq > shown \/ (bared /\ rows'[i].seq = shown)
    OBVIOUS
  <2>1. PICK w \in Writers : Writes(w) \/ Stops(w)
    BY OthersLeaveRows DEF Ids
  <2> DEFINE n == Len(Readable(rows))
  <2>2. /\ ~raced /\ pending[w] \in Row /\ rows \in Seq(Row) /\ pending[w].seq = n + 1
        /\ rows' = Append(rows, pending[w]) \/ rows' = Kept
    BY <2>1, NewRowsAreNumbered
  <2>3. rows'[i] = pending[w]
    <3>1. /\ Len(rows) \in Nat /\ DOMAIN rows = 1 .. Len(rows)
          /\ Len(Kept) <= Len(rows) /\ Len(Kept) \in Nat /\ DOMAIN Kept = 1 .. Len(Kept)
          /\ \A j \in 1 .. Len(Kept) : Kept[j] = rows[j]
      BY LogFacts, KeptRows
    <3>2. rows' # Kept
      BY <3>1 DEF Ids
    <3>3. rows' = Append(rows, pending[w])
      BY <2>2, <3>2
    <3>4. /\ DOMAIN rows' = 1 .. Len(rows) + 1 /\ rows'[Len(rows) + 1] = pending[w]
          /\ \A j \in 1 .. Len(rows) : rows'[j] = rows[j]
      BY <2>2, <3>1, <3>3
    <3>5. i \notin 1 .. Len(rows)
      BY <3>1, <3>4 DEF Ids
    <3>6. QED
      BY <3>1, <3>4, <3>5
  <2>4. shown <= n + (IF bared THEN 1 ELSE 0) /\ shown \in Nat /\ n \in Nat
    BY <2>2, LogFacts DEF LogInv, Numbered, LogTypes
  <2> HIDE DEF n
  <2>5. QED
    BY <2>2, <2>3, <2>4
<1>2. Spec => [][LogNext]_logVars
  <2>1. [Next]_vars => [LogNext]_logVars
    BY StepOfEach
  <2>2. QED
    BY <2>1, PTL DEF Spec
<1>3. LogInv /\ [LogNext]_logVars => [Newer]_logVars
  BY <1>1
<1>4. QED
  BY <1>2, <1>3, LogInvariant, PTL DEF NewPostsAreNewer

\* As long as no write stops and the log is not read by two at once, every step
\* of the log is a step of the log of a board, or leaves it as it is.
THEOREM LogIsABoard == Spec => ImplementsBoard
<1> DEFINE Good == (raced' = FALSE /\ tears' = 0) => ABoard!Next \/ UNCHANGED Readable(rows)
<1>1. Init => ABoard!Init
  <2> SUFFICES ASSUME Init PROVE ABoard!Init
    OBVIOUS
  <2>1. Readable(rows) = <<>>
    BY ReadableNone DEF Init, LogInit
  <2>2. QED
    BY <2>1 DEF ABoard!Init
<1>2. LogInv /\ [LogNext]_logVars => Good
  <2> SUFFICES ASSUME LogInv, [LogNext]_logVars, ~raced', tears' = 0,
                      Readable(rows') # Readable(rows)
               PROVE  ABoard!Next
    OBVIOUS
  <2> DEFINE r == Readable(rows)
             n == Len(r)
             shape(s) == [i \in DOMAIN s |-> [seq |-> s[i].seq, thread |-> s[i].thread]]
  <2>1. PICK w \in Writers : Writes(w) \/ Stops(w)
    BY OthersLeaveRows
  <2> DEFINE p == pending[w]
  <2>2. /\ ~raced /\ p \in Row /\ rows \in Seq(Row) /\ p.seq = n + 1
        /\ Writes(w) /\ tail = "closed"
    BY <2>1, NewRowsAreNumbered
  <2>3. rows' = Append(rows, p) /\ p # Idle
    BY <2>2 DEF Writes, OnItsOwnLine
  <2>4. Readable(rows') = Append(r, p)
    BY <2>2, <2>3, ReadableAppend
  <2>5. /\ r \in Seq(Row) /\ n \in Nat /\ DOMAIN r = 1 .. n
        /\ \A k \in 1 .. n : r[k] \in Row
    BY LogFacts
  <2>6. p.thread = n + 1 \/ \E k \in 1 .. n : p.thread = r[k].thread
    BY <2>2, <2>3 DEF LogInv, Numbered
  <2> HIDE DEF r, p, n
  <2>7. /\ Len(shape(r)) = n /\ DOMAIN shape(r) = 1 .. n
        /\ \A k \in 1 .. n : shape(r)[k].thread = r[k].thread
        /\ shape(Append(r, p)) = Append(shape(r), [seq |-> n + 1, thread |-> p.thread])
    <3> DEFINE Post2 == [seq : Nat, thread : Nat]
               q == [seq |-> n + 1, thread |-> p.thread]
    <3>1. shape(r) \in Seq(Post2) /\ Len(shape(r)) = n /\ DOMAIN shape(r) = 1 .. n
      <4>1. \A k \in 1 .. n : [seq |-> r[k].seq, thread |-> r[k].thread] \in Post2
        BY <2>5 DEF Row
      <4>2. shape(r) = [k \in 1 .. n |-> [seq |-> r[k].seq, thread |-> r[k].thread]]
        BY <2>5
      <4> HIDE DEF Post2, shape
      <4>3. shape(r) \in [1 .. n -> Post2] /\ DOMAIN shape(r) = 1 .. n
        BY <4>1, <4>2
      <4>4. QED
        BY <2>5, <4>3
    <3>2. q \in Post2
      BY <2>2, <2>5 DEF Row
    <3>3. DOMAIN Append(r, p) = 1 .. n + 1 /\ Append(r, p)[n + 1] = p
          /\ \A k \in 1 .. n : Append(r, p)[k] = r[k]
      BY <2>2, <2>5 DEF n
    <3>4. DOMAIN Append(shape(r), q) = 1 .. n + 1 /\ Append(shape(r), q)[n + 1] = q
          /\ \A k \in 1 .. n : Append(shape(r), q)[k] = shape(r)[k]
      <4> HIDE DEF shape
      <4>1. QED
        BY <2>5, <3>1, <3>2
    <3>5. \A k \in 1 .. n + 1 : shape(Append(r, p))[k] = Append(shape(r), q)[k]
      BY <2>2, <2>5, <3>3, <3>4
    <3>6. QED
      BY <3>1, <3>3, <3>4, <3>5
  <2>8. QED
    BY <2>4, <2>6, <2>7
    DEF ABoard!Next, ABoard!Open, ABoard!Reply, ABoard!Add, r
<1>3. Spec => [][LogNext]_logVars
  <2>1. [Next]_vars => [LogNext]_logVars
    BY StepOfEach
  <2>2. QED
    BY <2>1, PTL DEF Spec
<1>4. LogInv /\ [LogNext]_logVars => [Good]_logVars
  BY <1>2
<1>5. QED
  BY <1>1, <1>3, <1>4, LogInvariant, PTL DEF Spec, ImplementsBoard

\* What the list of boards calls unread is what the client has not read, as
\* long as the two ways to the last number can agree.
THEOREM UnreadIsTold == Spec => []UnreadTells
<1>1. LogInv => UnreadTells
  <2> SUFFICES ASSUME LogInv, rows # <<>>, Final(rows).look = "whole", junk # "long",
                      ~raced, ~bared, NEW k \in IndexedSeq
               PROVE  k > mark <=> ~(Ids(Readable(rows)) \subseteq read)
    BY DEF UnreadTells
  <2> DEFINE r == Readable(rows)
             n == Len(r)
             front == SubSeq(rows, 1, Len(rows) - 1)
  <2>1. k = Final(rows).seq
    BY DEF IndexedSeq
  <2>2. /\ r \in Seq(Row) /\ n \in Nat /\ DOMAIN r = 1 .. n
        /\ \A j \in 1 .. n : r[j] \in Row
    BY LogFacts
  <2>3. n > 0 /\ r[n] = Final(rows)
    <3>1. /\ front \in Seq(Row) /\ Final(rows) \in Row
          /\ rows = Append(front, Final(rows))
      BY WithoutLast DEF LogInv, LogTypes
    <3>2. r = Append(Readable(front), Final(rows))
      BY <3>1, ReadableAppend
    <3>3. Readable(front) \in Seq(Row)
      BY <3>1, ReadableType
    <3> HIDE DEF r, front
    <3>4. QED
      BY <3>1, <3>2, <3>3
  <2>4. /\ \A i, j \in 1 .. n : r[i].id = r[j].id => i = j
        /\ \A j \in 1 .. n : r[j].seq = j
        /\ mark <= n /\ mark \in Nat /\ read = {r[j].id : j \in 1 .. mark}
    BY DEF LogInv, Marked, Numbered, LogTypes
  <2> HIDE DEF r, n
  <2>5. k = n
    BY <2>1, <2>2, <2>3, <2>4
  <2>6. CASE mark = n
    BY <2>2, <2>4, <2>5, <2>6 DEF Ids, r, n
  <2>7. CASE mark < n
    <3>1. r[n].id \notin read
      BY <2>2, <2>3, <2>4, <2>7
    <3>2. r[n].id \in Ids(r)
      BY <2>2, <2>3 DEF Ids
    <3>3. QED
      BY <2>2, <2>4, <2>5, <2>7, <3>1, <3>2 DEF r
  <2>8. QED
    BY <2>2, <2>4, <2>6, <2>7
<1>2. QED
  BY <1>1, LogInvariant, PTL

-----------------------------------------------------------------------------
(* The text between the one who writes it and the one who reads it *)

\* The lines that may be on the wire, and what parse makes of them.
Tints == Colours \cup {Default}
Wires == Line \cup {C(t) : t \in Colours}
Lit == [line : Wires, colour : Tints]
Done == [lines : Seq(Lit), colour : Tints]
Start == [lines |-> <<>>, colour |-> Default]

\* What page.py tells a line by.
LEMMA LineKinds ==
    /\ \A l \in Wires : l.kind \in {"text", "blank", "rule", "link", "allow", "seq", "c"}
    /\ \A l \in Line : l.kind = "c" => l.colour \in {Default, "red", "purple"}
    /\ Line \subseteq Wires
    /\ Text \in Line /\ Blank \in Line /\ Rule \in Line /\ Seqs \in Line
    /\ C(Default) \in Line /\ C("cyan") \in Wires /\ C("yellow") \in Wires
    /\ Text.kind = "text" /\ Blank.kind = "blank" /\ Rule.kind = "rule"
    /\ Seqs.kind = "seq" /\ \A t : C(t).kind = "c" /\ C(t).colour = t
  BY DEF Wires, Line, Text, Blank, Rule, Allow, Seqs, Link, C, Colours

LEMMA DefaultIsNone == Default \notin Colours
  BY Zenon DEF Default, Colours

LEMMA ParseLineIs ==
    ASSUME NEW d \in Done, NEW l \in Wires
    PROVE  /\ ParseLine(d, l) \in Done
           /\ l.kind \in {"allow", "seq"} => ParseLine(d, l) = d
           /\ l.kind = "c" =>
                ParseLine(d, l) = [lines |-> d.lines,
                                   colour |-> IF l.colour \in Colours THEN l.colour
                                              ELSE Default]
           /\ l.kind \notin {"allow", "seq", "c"} =>
                /\ [line |-> l, colour |-> d.colour] \in Lit
                /\ ParseLine(d, l) =
                     [lines |-> Append(d.lines, [line |-> l, colour |-> d.colour]),
                      colour |-> d.colour]
<1>1. d = [lines |-> d.lines, colour |-> d.colour] /\ d.lines \in Seq(Lit) /\ d.colour \in Tints
  BY DEF Done
<1>2. [line |-> l, colour |-> d.colour] \in Lit
  BY <1>1 DEF Lit
<1>3. CASE l.kind \in {"allow", "seq"}
  BY <1>3 DEF ParseLine, IsServerDirective, IsClientDirective
<1>4. CASE l.kind = "c"
  <2> DEFINE t == IF l.colour \in Colours THEN l.colour ELSE Default
  <2>1. t \in Tints
    BY DEF Tints
  <2>2. ParseLine(d, l) = [d EXCEPT !.colour = t]
    BY <1>4 DEF ParseLine, IsServerDirective, IsClientDirective
  <2>3. ParseLine(d, l) = [lines |-> d.lines, colour |-> t]
    BY <1>1, <2>2
  <2> HIDE DEF t
  <2>4. ParseLine(d, l) \in Done
    BY <1>1, <2>1, <2>3 DEF Done
  <2>5. QED
    BY <1>4, <2>3, <2>4 DEF t
<1>5. CASE l.kind \notin {"allow", "seq", "c"}
  <2> DEFINE x == [line |-> l, colour |-> d.colour]
  <2>1. ParseLine(d, l) = [d EXCEPT !.lines = Append(@, x)]
    BY <1>5 DEF ParseLine, IsServerDirective, IsClientDirective
  <2>2. ParseLine(d, l) = [lines |-> Append(d.lines, x), colour |-> d.colour]
    BY <1>1, <2>1
  <2>3. x \in Lit
    BY <1>2
  <2> HIDE DEF x
  <2>4. ParseLine(d, l) \in Done
    BY <1>1, <2>2, <2>3 DEF Done
  <2>5. QED
    BY <1>2, <1>5, <2>2, <2>4 DEF x
<1>6. QED
  BY <1>3, <1>4, <1>5

\* f[n] is what parse has made of the first n lines.
Parses(f, s) ==
    /\ f \in [0 .. Len(s) -> Done] /\ Parsed(s) = f[Len(s)] /\ f[0] = Start
    /\ \A n \in 1 .. Len(s) : f[n] = ParseLine(f[n - 1], s[n])

LEMMA ParsedUpTo == ASSUME NEW s \in Seq(Wires) PROVE \E f : Parses(f, s)
<1> DEFINE step == [n \in 1 .. Len(s) |-> [d \in Done |-> ParseLine(d, s[n])]]
           F(f) == [n \in 0 .. Len(s) |->
                      IF n = 0 THEN Start ELSE ParseLine(f[n - 1], s[n])]
           h == CHOOSE f : f = F(f)
<1>1. Len(s) \in Nat /\ Start \in Done /\ \A n \in 1 .. Len(s) : s[n] \in Wires
  <2>1. <<>> \in Seq(Lit)
    BY EmptySeq
  <2>2. QED
    BY <2>1, LenProperties DEF Start, Done, Tints
<1>2. step \in [1 .. Len(s) -> [Done -> Done]]
  BY <1>1, ParseLineIs
<1>3. \A n \in 1 .. Len(s), d \in Done : step[n][d] = ParseLine(d, s[n])
  OBVIOUS
<1> HIDE DEF step
<1>4. PICK f : Follows(f, Done, Start, Len(s), step)
  <2> DEFINE n == Len(s)
  <2>1. n \in Nat /\ step \in [1 .. n -> [Done -> Done]]
    BY <1>1, <1>2
  <2> HIDE DEF n
  <2>2. \E f : Follows(f, Done, Start, n, step)
    BY <1>1, <2>1, Recursion
  <2>3. QED
    BY <2>2 DEF n
<1>5. f = F(f)
  <2>1. \A n \in 1 .. Len(s) : f[n - 1] \in Done
    BY <1>1, <1>4 DEF Follows
  <2>2. ASSUME NEW n \in 1 .. Len(s) PROVE f[n] = ParseLine(f[n - 1], s[n])
    BY <1>3, <1>4, <2>1 DEF Follows
  <2>3. \A n \in 0 .. Len(s) : n = 0 \/ n \in 1 .. Len(s)
    BY <1>1
  <2>4. \A n \in 0 .. Len(s) : f[n] = F(f)[n]
    BY <1>4, <2>2, <2>3 DEF Follows
  <2>5. QED
    BY <1>4, <2>4 DEF Follows
<1>6. h = F(h)
  BY <1>5
<1>7. Parsed(s) = h[Len(s)]
  BY DEF Parsed, Start
<1> HIDE DEF h
<1>8. /\ DOMAIN h = 0 .. Len(s) /\ h[0] = Start
      /\ \A n \in 1 .. Len(s) : h[n] = ParseLine(h[n - 1], s[n])
  <2>1. DOMAIN F(h) = 0 .. Len(s) /\ F(h)[0] = Start
    BY <1>1
  <2>2. \A n \in 1 .. Len(s) : F(h)[n] = ParseLine(h[n - 1], s[n])
    BY <1>1
  <2> HIDE DEF F
  <2>3. QED
    BY <1>6, <2>1, <2>2
<1> DEFINE T == {n \in Nat : n <= Len(s) => h[n] \in Done}
<1>9. T = Nat
  <2>1. 0 \in T
    BY <1>1, <1>8
  <2>2. ASSUME NEW n \in T PROVE n + 1 \in T
    <3> SUFFICES ASSUME n + 1 <= Len(s) PROVE h[n + 1] \in Done
      OBVIOUS
    <3>1. n \in Nat /\ n + 1 \in 1 .. Len(s) /\ (n + 1) - 1 = n
      BY <1>1
    <3>2. h[n] \in Done /\ s[n + 1] \in Wires
      BY <1>1, <3>1
    <3>3. h[n + 1] = ParseLine(h[n], s[n + 1])
      BY <1>8, <3>1
    <3>4. QED
      BY <3>2, <3>3, ParseLineIs
  <2>3. T \subseteq Nat
    OBVIOUS
  <2> HIDE DEF T
  <2>4. QED
    BY <2>1, <2>2, <2>3, SetInduction
<1>10. h \in [0 .. Len(s) -> Done]
  <2>1. h = [n \in 0 .. Len(s) |-> h[n]]
    BY <1>6
  <2>2. \A n \in 0 .. Len(s) : h[n] \in Done
    BY <1>1, <1>9
  <2>3. QED
    BY <2>1, <2>2
<1>11. QED
  BY <1>7, <1>8, <1>10 DEF Parses

\* What parse makes of nothing, and of one line more.
LEMMA ParsedNone == Parsed(<<>>) = Start
<1>1. <<>> \in Seq(Wires) /\ Len(<<>>) = 0
  OBVIOUS
<1>2. PICK f : Parses(f, <<>>)
  BY <1>1, ParsedUpTo
<1>3. QED
  BY <1>1, <1>2 DEF Parses

LEMMA ParsedAppend ==
    ASSUME NEW s \in Seq(Wires), NEW e \in Wires
    PROVE  /\ Parsed(s) \in Done /\ Append(s, e) \in Seq(Wires)
           /\ Parsed(Append(s, e)) = ParseLine(Parsed(s), e)
<1> DEFINE t == Append(s, e)
           m == Len(s)
<1>1. /\ t \in Seq(Wires) /\ m \in Nat /\ Len(t) = m + 1 /\ t[m + 1] = e
      /\ \A i \in 1 .. m : t[i] = s[i]
  BY LenProperties
<1>2. PICK f \in [0 .. m -> Done] :
        /\ Parsed(s) = f[m] /\ f[0] = Start
        /\ \A n \in 1 .. m : f[n] = ParseLine(f[n - 1], s[n])
  BY ParsedUpTo DEF Parses
<1>3. PICK g \in [0 .. m + 1 -> Done] :
        /\ Parsed(t) = g[m + 1] /\ g[0] = Start
        /\ \A n \in 1 .. m + 1 : g[n] = ParseLine(g[n - 1], t[n])
  <2> HIDE DEF t
  <2>1. \E g : Parses(g, t)
    BY <1>1, ParsedUpTo
  <2>2. QED
    BY <1>1, <2>1 DEF Parses
<1> HIDE DEF t, m
<1> DEFINE T == {n \in Nat : n <= m => g[n] = f[n]}
<1>4. T = Nat
  <2>1. 0 \in T
    BY <1>2, <1>3
  <2>2. ASSUME NEW n \in T PROVE n + 1 \in T
    <3> SUFFICES ASSUME n + 1 <= m PROVE g[n + 1] = f[n + 1]
      OBVIOUS
    <3>1. n \in Nat /\ n + 1 \in 1 .. m /\ n + 1 \in 1 .. m + 1 /\ (n + 1) - 1 = n
      BY <1>1
    <3>2. g[n] = f[n] /\ t[n + 1] = s[n + 1]
      BY <1>1, <3>1
    <3>3. g[n + 1] = ParseLine(g[n], t[n + 1])
      BY <1>3, <3>1
    <3>4. f[n + 1] = ParseLine(f[n], s[n + 1])
      BY <1>2, <3>1
    <3>5. QED
      BY <3>2, <3>3, <3>4
  <2>3. T \subseteq Nat
    OBVIOUS
  <2> HIDE DEF T
  <2>4. QED
    BY <2>1, <2>2, <2>3, SetInduction
<1>5. g[m] = f[m] /\ f[m] \in Done
  BY <1>1, <1>2, <1>4
<1>6. g[m + 1] = ParseLine(g[m], e)
  <2>1. m + 1 \in 1 .. m + 1 /\ (m + 1) - 1 = m /\ t[m + 1] = e
    BY <1>1
  <2>2. QED
    BY <1>3, <2>1
<1>7. QED
  BY <1>1, <1>2, <1>3, <1>5, <1>6 DEF t, m

LEMMA ParsedType ==
    ASSUME NEW s \in Seq(Wires)
    PROVE  /\ Parsed(s) \in Done /\ Parsed(s).lines \in Seq(Lit) /\ Parsed(s).colour \in Tints
           /\ Len(Parsed(s).lines) \in Nat
<1>1. Text \in Wires
  BY LineKinds
<1>2. Parsed(s) \in Done
  BY <1>1, ParsedAppend
<1>3. QED
  BY <1>2, LenProperties DEF Done

\* The same, by the kind of the line.
LEMMA LineMore ==
    ASSUME NEW s \in Seq(Wires), NEW e \in Wires
    PROVE  LET d == Parsed(s)
               n == Parsed(Append(s, e))
           IN  /\ e.kind \in {"allow", "seq"} => n.lines = d.lines /\ n.colour = d.colour
               /\ e.kind = "c" =>
                    /\ n.lines = d.lines
                    /\ n.colour = IF e.colour \in Colours THEN e.colour ELSE Default
               /\ e.kind \notin {"allow", "seq", "c"} =>
                    /\ [line |-> e, colour |-> d.colour] \in Lit
                    /\ n.lines = Append(d.lines, [line |-> e, colour |-> d.colour])
                    /\ n.colour = d.colour
<1>1. Parsed(s) \in Done /\ Parsed(Append(s, e)) = ParseLine(Parsed(s), e)
  BY ParsedAppend
<1>2. QED
  BY <1>1, ParseLineIs

LEMMA ConcatAppend ==
    ASSUME NEW A, NEW s \in Seq(A), NEW t \in Seq(A), NEW e \in A
    PROVE  s \o Append(t, e) = Append(s \o t, e)
<1>1. <<e>> \in Seq(A) /\ s \o t \in Seq(A)
  BY ConcatProperties
<1>2. Append(t, e) = t \o <<e>> /\ Append(s \o t, e) = (s \o t) \o <<e>>
  BY <1>1, AppendIsConcat
<1>3. QED
  BY <1>1, <1>2, ConcatAssociative

\* What follows where no colour is open is parsed as if it stood alone.
LEMMA ParsedConcat ==
    ASSUME NEW s \in Seq(Wires), Parsed(s).colour = Default, NEW t \in Seq(Wires)
    PROVE  /\ s \o t \in Seq(Wires)
           /\ Parsed(s \o t).lines = Parsed(s).lines \o Parsed(t).lines
           /\ Parsed(s \o t).colour = Parsed(t).colour
<1> DEFINE OK(u) == /\ Parsed(s \o u).lines = Parsed(s).lines \o Parsed(u).lines
                    /\ Parsed(s \o u).colour = Parsed(u).colour
           S == {u \in Seq(Wires) : OK(u)}
<1>1. S = Seq(Wires)
  <2>1. <<>> \in S
    <3>1. s \o <<>> = s /\ Parsed(s).lines \o <<>> = Parsed(s).lines
      BY ParsedType, ConcatEmptySeq
    <3>2. Parsed(<<>>).lines = <<>> /\ Parsed(<<>>).colour = Default
      BY ParsedNone DEF Start
    <3>3. OK(<<>>)
      BY <3>1, <3>2
    <3>4. QED
      BY <3>3, EmptySeq
  <2>2. ASSUME NEW u \in S, NEW e \in Wires PROVE Append(u, e) \in S
    <3>1. u \in Seq(Wires) /\ OK(u)
      OBVIOUS
    <3> DEFINE v == s \o u
    <3>2. /\ v \in Seq(Wires) /\ s \o Append(u, e) = Append(v, e)
          /\ Append(u, e) \in Seq(Wires)
      BY <3>1, ConcatAppend, ConcatProperties
    <3>3. Parsed(v).lines = Parsed(s).lines \o Parsed(u).lines
          /\ Parsed(v).colour = Parsed(u).colour
      BY <3>1
    <3> HIDE DEF v
    <3>4. CASE e.kind \in {"allow", "seq"}
      <4>1. /\ Parsed(Append(v, e)).lines = Parsed(v).lines
            /\ Parsed(Append(v, e)).colour = Parsed(v).colour
        BY <3>2, <3>4, LineMore
      <4>2. /\ Parsed(Append(u, e)).lines = Parsed(u).lines
            /\ Parsed(Append(u, e)).colour = Parsed(u).colour
        BY <3>1, <3>4, LineMore
      <4>3. OK(Append(u, e))
        BY <3>2, <3>3, <4>1, <4>2
      <4>4. QED
        BY <3>2, <4>3
    <3>5. CASE e.kind = "c"
      <4>1. /\ Parsed(Append(v, e)).lines = Parsed(v).lines
            /\ Parsed(Append(v, e)).colour = IF e.colour \in Colours THEN e.colour ELSE Default
        BY <3>2, <3>5, LineMore
      <4>2. /\ Parsed(Append(u, e)).lines = Parsed(u).lines
            /\ Parsed(Append(u, e)).colour = IF e.colour \in Colours THEN e.colour ELSE Default
        BY <3>1, <3>5, LineMore
      <4>3. OK(Append(u, e))
        BY <3>2, <3>3, <4>1, <4>2
      <4>4. QED
        BY <3>2, <4>3
    <3>6. CASE e.kind \notin {"allow", "seq", "c"}
      <4> DEFINE x == [line |-> e, colour |-> Parsed(u).colour]
                 L == Parsed(s).lines
                 M == Parsed(u).lines
      <4>1. /\ x \in Lit /\ Parsed(Append(u, e)).lines = Append(M, x)
            /\ Parsed(Append(u, e)).colour = Parsed(u).colour
        BY <3>1, <3>6, LineMore
      <4>2. /\ Parsed(Append(v, e)).lines = Append(L \o M, x)
            /\ Parsed(Append(v, e)).colour = Parsed(u).colour
        BY <3>2, <3>3, <3>6, LineMore
      <4>3. L \in Seq(Lit) /\ M \in Seq(Lit)
        BY <3>1, ParsedType
      <4> HIDE DEF x, L, M
      <4>4. L \o Append(M, x) = Append(L \o M, x)
        BY <4>1, <4>3, ConcatAppend
      <4>5. QED
        BY <3>2, <4>1, <4>2, <4>4 DEF L
    <3>7. QED
      BY <3>4, <3>5, <3>6
  <2>3. S \subseteq Seq(Wires)
    OBVIOUS
  <2> HIDE DEF S
  <2>4. QED
    BY <2>1, <2>2, <2>3, SeqInduction
<1>2. OK(t)
  BY <1>1
<1>3. QED
  BY <1>2, ConcatProperties

\* The links that are numbered are those of the lines.
LinksAgree(s) ==
    LET L == Parsed(s).lines
        X == AtPlaces(s, {i \in DOMAIN s : s[i].kind = "link"})
        Y == AtPlaces(L, {i \in DOMAIN L : L[i].line.kind = "link"})
    IN  /\ X \in Seq(Wires) /\ Y \in Seq(Lit) /\ Len(X) = Len(Y)
        /\ \A k \in 1 .. Len(X) : Y[k].line = X[k]

\* What passes a test, and when there is one more.
Where(s, K) == AtPlaces(s, {i \in DOMAIN s : s[i] \in K})

LEMMA WhereMore ==
    ASSUME NEW A, NEW s \in Seq(A), NEW e \in A, NEW K, K \subseteq A
    PROVE  Where(Append(s, e), K) = IF e \in K THEN Append(Where(s, K), e) ELSE Where(s, K)
<1> DEFINE t == Append(s, e)
           P == {i \in DOMAIN t : t[i] \in K}
           Q == {i \in DOMAIN s : s[i] \in K}
<1>1. /\ Len(s) \in Nat /\ DOMAIN s = 1 .. Len(s) /\ DOMAIN t = 1 .. Len(s) + 1
      /\ t[Len(s) + 1] = e /\ \A i \in 1 .. Len(s) : t[i] = s[i]
  BY LenProperties
<1>2. \A i \in 1 .. Len(s) : i \in P <=> i \in Q
  BY <1>1
<1>3. Len(s) + 1 \in P <=> e \in K
  BY <1>1
<1> HIDE DEF P, Q
<1>4. AtPlaces(t, P) = IF Len(s) + 1 \in P THEN Append(AtPlaces(s, Q), e) ELSE AtPlaces(s, Q)
  BY <1>2, AtPlacesAppend
<1>5. QED
  BY <1>3, <1>4 DEF Where, P, Q

LEMMA LinksAreThose == ASSUME NEW s \in Seq(Wires) PROVE LinksAgree(s)
<1> DEFINE S == {u \in Seq(Wires) : LinksAgree(u)}
           K == {l \in Wires : l.kind = "link"}
           J == {x \in Lit : x.line.kind = "link"}
           X(u) == Where(u, K)
           Y(u) == Where(Parsed(u).lines, J)
           OK(u) == /\ X(u) \in Seq(Wires) /\ Y(u) \in Seq(Lit) /\ Len(X(u)) = Len(Y(u))
                    /\ \A k \in 1 .. Len(X(u)) : Y(u)[k].line = X(u)[k]
<1>1. \A u \in Seq(Wires) : OK(u) <=> LinksAgree(u)
  <2> TAKE u \in Seq(Wires)
  <2>1. \A i \in DOMAIN u : u[i] \in Wires
    BY LenProperties
  <2>2. \A i \in DOMAIN Parsed(u).lines : Parsed(u).lines[i] \in Lit
    BY ParsedType, LenProperties
  <2>3. {i \in DOMAIN u : u[i].kind = "link"} = {i \in DOMAIN u : u[i] \in K}
    BY <2>1
  <2> DEFINE L == Parsed(u).lines
  <2>4. {i \in DOMAIN L : L[i].line.kind = "link"} = {i \in DOMAIN L : L[i] \in J}
    BY <2>2
  <2> HIDE DEF K, J
  <2>5. QED
    BY <2>3, <2>4 DEF LinksAgree, Where
<1>2. S = Seq(Wires)
  <2>1. <<>> \in S
    <3>1. Parsed(<<>>).lines = <<>>
      BY ParsedNone DEF Start
    <3>2. X(<<>>) = <<>> /\ Y(<<>>) = <<>>
      BY <3>1, AtPlacesEmpty DEF Where
    <3> HIDE DEF X, Y
    <3>3. <<>> \in Seq(Wires) /\ <<>> \in Seq(Lit) /\ Len(<<>>) = 0
      OBVIOUS
    <3>4. OK(<<>>)
      <4>1. 1 .. Len(X(<<>>)) = {}
        BY <3>2, <3>3
      <4>2. /\ X(<<>>) \in Seq(Wires) /\ Y(<<>>) \in Seq(Lit)
            /\ Len(X(<<>>)) = Len(Y(<<>>))
        BY <3>2, <3>3
      <4>3. QED
        BY <4>1, <4>2
    <3> HIDE DEF OK
    <3>5. QED
      BY <1>1, <3>3, <3>4
  <2>2. ASSUME NEW u \in S, NEW e \in Wires PROVE Append(u, e) \in S
    <3>1. u \in Seq(Wires) /\ OK(u)
      BY <1>1
    <3> DEFINE v == Append(u, e)
               L == Parsed(u).lines
    <3>2. v \in Seq(Wires) /\ L \in Seq(Lit)
      BY <3>1, ParsedAppend, ParsedType
    <3>3. K \subseteq Wires /\ J \subseteq Lit
      OBVIOUS
    <3>4. X(v) = IF e \in K THEN Append(X(u), e) ELSE X(u)
      <4> HIDE DEF K
      <4>1. QED
        BY <3>1, <3>3, WhereMore
    <3>5. CASE e.kind \in {"allow", "seq", "c"}
      <4>1. Parsed(v).lines = L
        BY <3>1, <3>5, LineMore
      <4>2. Y(v) = Y(u)
        BY <4>1
      <4>3. e \notin K
        BY <3>5
      <4>4. X(v) = X(u)
        BY <3>4, <4>3
      <4> HIDE DEF X, Y, v
      <4>5. OK(v)
        BY <3>1, <4>2, <4>4
      <4> HIDE DEF OK
      <4>6. QED
        BY <1>1, <3>2, <4>5 DEF v
    <3>6. CASE e.kind \notin {"allow", "seq", "c"}
      <4> DEFINE x == [line |-> e, colour |-> Parsed(u).colour]
      <4>1. x \in Lit /\ Parsed(v).lines = Append(L, x)
        BY <3>1, <3>6, LineMore
      <4>2. Y(v) = IF x \in J THEN Append(Y(u), x) ELSE Y(u)
        <5>1. Where(Append(L, x), J) =
                IF x \in J THEN Append(Where(L, J), x) ELSE Where(L, J)
          <6> HIDE DEF J, L, x
          <6>1. QED
            BY <3>2, <3>3, <4>1, WhereMore
        <5>2. QED
          BY <4>1, <5>1
      <4>3. (x \in J <=> e \in K) /\ x.line = e
        BY <4>1
      <4> HIDE DEF X, Y, v, K, J, x
      <4>4. CASE e \in K
        <5>1. X(v) = Append(X(u), e) /\ Y(v) = Append(Y(u), x)
          BY <3>4, <4>2, <4>3, <4>4
        <5> DEFINE a == X(u)
                   b == Y(u)
        <5>2. a \in Seq(Wires) /\ b \in Seq(Lit) /\ Len(a) = Len(b)
              /\ \A k \in 1 .. Len(a) : b[k].line = a[k]
          BY <3>1
        <5> HIDE DEF a, b
        <5>3. /\ Append(a, e) \in Seq(Wires) /\ Append(b, x) \in Seq(Lit)
              /\ Len(Append(a, e)) = Len(a) + 1 /\ Len(Append(b, x)) = Len(a) + 1
              /\ Len(a) \in Nat
          BY <4>1, <5>2
        <5>4. \A k \in 1 .. Len(a) + 1 : Append(b, x)[k].line = Append(a, e)[k]
          <6> TAKE k \in 1 .. Len(a) + 1
          <6>1. CASE k = Len(a) + 1
            BY <4>1, <4>3, <5>2, <6>1
          <6>2. CASE k \in 1 .. Len(a)
            BY <4>1, <5>2, <6>2
          <6>3. QED
            BY <5>3, <6>1, <6>2
        <5>5. OK(v)
          BY <5>1, <5>3, <5>4 DEF a, b
        <5> HIDE DEF OK
        <5>6. QED
          BY <1>1, <3>2, <5>5 DEF v
      <4>5. CASE e \notin K
        <5>1. OK(v)
          BY <3>1, <3>4, <4>2, <4>3, <4>5
        <5> HIDE DEF OK
        <5>2. QED
          BY <1>1, <3>2, <5>1 DEF v
      <4>6. QED
        BY <4>4, <4>5
    <3>7. QED
      BY <3>5, <3>6
  <2>3. S \subseteq Seq(Wires)
    OBVIOUS
  <2> HIDE DEF S
  <2>4. QED
    BY <2>1, <2>2, <2>3, SeqInduction
<1>3. QED
  BY <1>2

\* What the server takes off changes nothing for parse.
LEMMA StrippedIsTheSame ==
    ASSUME NEW s \in Seq(Wires)
    PROVE  /\ StripServerDirectives(s) \in Seq(Wires)
           /\ Parsed(StripServerDirectives(s)) = Parsed(s)
<1> DEFINE K == {l \in Wires : l.kind # "allow"}
           S == {u \in Seq(Wires) :
                   Where(u, K) \in Seq(Wires) /\ Parsed(Where(u, K)) = Parsed(u)}
<1>1. S = Seq(Wires)
  <2>1. <<>> \in S
    <3>1. Where(<<>>, K) = <<>>
      BY AtPlacesEmpty DEF Where
    <3>2. <<>> \in Seq(Wires)
      OBVIOUS
    <3> HIDE DEF K
    <3>3. Where(<<>>, K) \in Seq(Wires) /\ Parsed(Where(<<>>, K)) = Parsed(<<>>)
      BY Zenon, <3>1, <3>2
    <3>4. QED
      BY <3>2, <3>3
  <2>2. ASSUME NEW u \in S, NEW e \in Wires PROVE Append(u, e) \in S
    <3> DEFINE w == Where(u, K)
    <3>1. u \in Seq(Wires) /\ w \in Seq(Wires) /\ Parsed(w) = Parsed(u)
      OBVIOUS
    <3>2. K \subseteq Wires /\ (e \in K <=> e.kind # "allow")
      OBVIOUS
    <3> HIDE DEF K
    <3>3. Where(Append(u, e), K) = IF e \in K THEN Append(w, e) ELSE w
      BY <3>1, <3>2, WhereMore
    <3> HIDE DEF w
    <3>4. Append(u, e) \in Seq(Wires) /\ Parsed(Append(u, e)) = ParseLine(Parsed(u), e)
      BY <3>1, ParsedAppend
    <3>5. CASE e \in K
      <4>1. Append(w, e) \in Seq(Wires) /\ Parsed(Append(w, e)) = ParseLine(Parsed(w), e)
        BY <3>1, ParsedAppend
      <4>2. QED
        BY <3>1, <3>3, <3>4, <3>5, <4>1
    <3>6. CASE e \notin K
      <4>1. ParseLine(Parsed(u), e) = Parsed(u)
        BY <3>1, <3>2, <3>6, ParsedAppend, ParseLineIs
      <4>2. QED
        BY <3>1, <3>3, <3>4, <3>6, <4>1
    <3>7. QED
      BY <3>5, <3>6
  <2>3. S \subseteq Seq(Wires)
    OBVIOUS
  <2> HIDE DEF S
  <2>4. QED
    BY <2>1, <2>2, <2>3, SeqInduction
<1>2. StripServerDirectives(s) = Where(s, K)
  <2>1. \A i \in DOMAIN s : s[i] \in Wires
    BY LenProperties
  <2>2. {i \in DOMAIN s : ~IsServerDirective(s[i])} = {i \in DOMAIN s : s[i] \in K}
    BY <2>1 DEF IsServerDirective
  <2> HIDE DEF K
  <2>3. QED
    BY <2>2 DEF StripServerDirectives, Where
<1>3. QED
  BY <1>1, <1>2

\* The places of what passes a test, and of one more.
Spots(s, K) == AtPlaces([i \in DOMAIN s |-> i], {i \in DOMAIN s : s[i] \in K})

LEMMA SpotsMore ==
    ASSUME NEW A, NEW s \in Seq(A), NEW e \in A, NEW K
    PROVE  /\ Spots(s, K) \in Seq(Nat) /\ Spots(<<>>, K) = <<>>
           /\ Spots(Append(s, e), K) =
                IF e \in K THEN Append(Spots(s, K), Len(s) + 1) ELSE Spots(s, K)
<1> DEFINE t == Append(s, e)
           m == Len(s)
           P == {i \in DOMAIN t : t[i] \in K}
           Q == {i \in DOMAIN s : s[i] \in K}
           a == [i \in DOMAIN s |-> i]
           b == [i \in DOMAIN t |-> i]
<1>1. /\ m \in Nat /\ DOMAIN s = 1 .. m /\ DOMAIN t = 1 .. m + 1
      /\ t[m + 1] = e /\ \A i \in 1 .. m : t[i] = s[i]
  BY LenProperties
<1>2. a \in Seq(Nat) /\ Len(a) = m /\ DOMAIN a = 1 .. m /\ \A i \in 1 .. m : a[i] = i
  <2>1. a = [i \in 1 .. m |-> i]
    BY <1>1
  <2>2. QED
    BY <1>1, <2>1
<1>3. b = Append(a, m + 1)
  <2>1. b = [i \in 1 .. m + 1 |-> i]
    BY <1>1
  <2>2. b \in Seq(Nat) /\ Len(b) = m + 1 /\ \A i \in 1 .. m + 1 : b[i] = i
    BY <1>1, <2>1
  <2> HIDE DEF a, b
  <2>3. /\ Append(a, m + 1) \in Seq(Nat) /\ Len(Append(a, m + 1)) = m + 1
        /\ \A i \in 1 .. m + 1 : Append(a, m + 1)[i] = i
    BY <1>1, <1>2
  <2>4. QED
    BY <2>2, <2>3, SeqEqual
<1>4. \A i \in 1 .. m : i \in P <=> i \in Q
  BY <1>1
<1>5. m + 1 \in P <=> e \in K
  BY <1>1
<1>6. Spots(s, K) = AtPlaces(a, Q) /\ Spots(t, K) = AtPlaces(b, P)
  BY DEF Spots
<1>7. Spots(<<>>, K) = <<>>
  <2>1. [i \in DOMAIN <<>> |-> i] = <<>>
    OBVIOUS
  <2>2. QED
    BY <2>1, AtPlacesEmpty DEF Spots
<1> HIDE DEF P, Q, a, b
<1>8. AtPlaces(Append(a, m + 1), P) =
        IF m + 1 \in P THEN Append(AtPlaces(a, Q), m + 1) ELSE AtPlaces(a, Q)
  <2> DEFINE x == m + 1
  <2>1. x \in Nat /\ Len(a) + 1 = x /\ \A i \in 1 .. Len(a) : i \in P <=> i \in Q
    BY <1>1, <1>2, <1>4
  <2> DEFINE N == Nat
  <2>2. AtPlaces(Append(a, x), P) =
          IF Len(a) + 1 \in P THEN Append(AtPlaces(a, Q), x) ELSE AtPlaces(a, Q)
    <3>1. a \in Seq(N) /\ x \in N
      BY <1>2, <2>1
    <3> HIDE DEF N, x
    <3>2. QED
      BY <2>1, <3>1, AtPlacesAppend
  <2> HIDE DEF x
  <2>3. AtPlaces(Append(a, x), P) =
          IF x \in P THEN Append(AtPlaces(a, Q), x) ELSE AtPlaces(a, Q)
    BY <2>1, <2>2
  <2>4. QED
    BY <2>3 DEF x
<1>9. Spots(s, K) \in Seq(Nat)
  BY <1>2, <1>6, AtPlacesType
<1>10. QED
  BY <1>3, <1>5, <1>6, <1>7, <1>8, <1>9

\* The places of the !c that counts above a line.
Counts(text, i) ==
    {j \in 1 .. i - 1 : /\ text[j].kind = "c" /\ text[j].colour \in Colours
                        /\ \A k \in j + 1 .. i - 1 : text[k].kind # "c"}

ColourAt(text, last) ==
    IF last = {} THEN Default ELSE text[CHOOSE j \in last : TRUE].colour

LEMMA ColourMore ==
    ASSUME NEW s \in Seq(Wires), NEW e \in Wires
    PROVE  /\ ColourAbove(<<>>, 1) = Default
           /\ \A i \in 1 .. Len(s) + 1 : ColourAbove(Append(s, e), i) = ColourAbove(s, i)
           /\ ColourAbove(Append(s, e), Len(s) + 2) =
                IF e.kind = "c" THEN IF e.colour \in Colours THEN e.colour ELSE Default
                ELSE ColourAbove(s, Len(s) + 1)
<1> DEFINE t == Append(s, e)
           m == Len(s)
<1>1. m \in Nat /\ t[m + 1] = e /\ \A i \in 1 .. m : t[i] = s[i]
  BY LenProperties
<1>2. \A u, i : ColourAbove(u, i) = ColourAt(u, Counts(u, i))
  BY Zenon DEF ColourAbove, ColourAt, Counts
<1> HIDE DEF t, m
<1>3. ASSUME NEW i \in 1 .. m + 1 PROVE ColourAbove(t, i) = ColourAbove(s, i)
  <2>1. \A j \in 1 .. i - 1 : j \in 1 .. m
    BY <1>1
  <2>2. \A j \in 1 .. i - 1 : \A k \in j + 1 .. i - 1 : k \in 1 .. m
    BY <1>1
  <2>3. \A j \in 1 .. i - 1 : t[j] = s[j] /\ \A k \in j + 1 .. i - 1 : t[k] = s[k]
    BY <1>1, <2>1, <2>2
  <2>4. Counts(t, i) = Counts(s, i)
    BY <2>3 DEF Counts
  <2> DEFINE j == CHOOSE k \in Counts(s, i) : TRUE
  <2>5. CASE Counts(s, i) = {}
    BY <1>2, <2>4, <2>5 DEF ColourAt
  <2>6. CASE Counts(s, i) # {}
    <3>1. j \in Counts(s, i)
      BY <2>6
    <3>2. ColourAbove(s, i) = s[j].colour /\ ColourAbove(t, i) = t[j].colour
      BY <1>2, <2>4, <2>6 DEF ColourAt
    <3> HIDE DEF j
    <3>3. j \in 1 .. i - 1
      BY <3>1 DEF Counts
    <3>4. QED
      BY <2>3, <3>2, <3>3
  <2>7. QED
    BY <2>5, <2>6
<1>4. (m + 2) - 1 = m + 1 /\ (m + 1) - 1 = m /\ m + 1 \in 1 .. m + 1
      /\ \A j \in 1 .. m + 1 : j = m + 1 \/ j \in 1 .. m
  BY <1>1
<1>5. ASSUME e.kind = "c"
      PROVE  ColourAbove(t, m + 2) = IF e.colour \in Colours THEN e.colour ELSE Default
  <2>1. \A j \in 1 .. m : m + 1 \in j + 1 .. m + 1
    BY <1>1
  <2>2. \A j \in Counts(t, m + 2) : j = m + 1
    BY <1>1, <1>4, <1>5, <2>1 DEF Counts
  <2>3. \A k \in (m + 1) + 1 .. m + 1 : FALSE
    BY <1>1
  <2>4. m + 1 \in Counts(t, m + 2) <=> e.colour \in Colours
    BY <1>1, <1>4, <1>5, <2>3 DEF Counts
  <2>5. CASE e.colour \in Colours
    <3>1. Counts(t, m + 2) = {m + 1}
      BY <2>2, <2>4, <2>5
    <3>2. ColourAbove(t, m + 2) = t[m + 1].colour
      BY <1>2, <3>1 DEF ColourAt
    <3>3. QED
      BY <1>1, <2>5, <3>2
  <2>6. CASE e.colour \notin Colours
    <3>1. Counts(t, m + 2) = {}
      BY <2>2, <2>4, <2>6
    <3>2. ColourAbove(t, m + 2) = Default
      BY <1>2, <3>1 DEF ColourAt
    <3>3. QED
      BY <2>6, <3>2
  <2>7. QED
    BY <2>5, <2>6
<1>6. ASSUME e.kind # "c" PROVE ColourAbove(t, m + 2) = ColourAbove(s, m + 1)
  <2>1. \A j \in 1 .. m : (\A k \in j + 1 .. m + 1 : t[k].kind # "c")
                           <=> (\A k \in j + 1 .. m : t[k].kind # "c")
    <3> TAKE j \in 1 .. m
    <3>1. \A k \in j + 1 .. m + 1 : k = m + 1 \/ k \in j + 1 .. m
      BY <1>1
    <3>2. \A k \in j + 1 .. m : k \in j + 1 .. m + 1
      BY <1>1
    <3>3. t[m + 1].kind # "c"
      BY <1>1, <1>6
    <3>4. QED
      BY <3>1, <3>2, <3>3
  <2>2. m + 1 \notin Counts(t, m + 2)
    BY <1>1, <1>6 DEF Counts
  <2>3. 1 .. m \subseteq 1 .. m + 1
    BY <1>1
  <2>4. Counts(t, m + 2) = Counts(t, m + 1)
    BY <1>4, <2>1, <2>2, <2>3 DEF Counts
  <2>5. ColourAbove(t, m + 2) = ColourAbove(t, m + 1)
    <3>1. ColourAbove(t, m + 2) = ColourAt(t, Counts(t, m + 2))
          /\ ColourAbove(t, m + 1) = ColourAt(t, Counts(t, m + 1))
      BY <1>2
    <3>2. QED
      BY Zenon, <2>4, <3>1
  <2>6. ColourAbove(t, m + 1) = ColourAbove(s, m + 1)
    BY <1>3, <1>4
  <2>7. QED
    BY <2>5, <2>6
<1>7. ColourAbove(<<>>, 1) = Default
  <2>1. Counts(<<>>, 1) = {}
    BY DEF Counts
  <2>2. QED
    BY <1>2, <2>1 DEF ColourAt
<1>8. QED
  BY <1>3, <1>5, <1>6, <1>7 DEF t, m

\* The lines of a text are those to be read, in the colours above them.
AsWritten(s, spots) ==
    /\ Parsed(s).colour = ColourAbove(s, Len(s) + 1)
    /\ spots \in Seq(Nat) /\ Len(spots) = Len(Parsed(s).lines)
    /\ \A k \in 1 .. Len(spots) :
         /\ spots[k] \in 1 .. Len(s)
         /\ Parsed(s).lines[k] = [line |-> s[spots[k]], colour |-> ColourAbove(s, spots[k])]

LEMMA LinesAsWritten == ASSUME NEW s \in Seq(Wires) PROVE AsWritten(s, Plain(s))
<1> DEFINE K == {l \in Wires : l.kind \notin {"allow", "seq", "c"}}
           S == {u \in Seq(Wires) : AsWritten(u, Spots(u, K))}
<1>1. S = Seq(Wires)
  <2>1. <<>> \in S
    <3>1. Text \in Wires /\ <<>> \in Seq(Wires) /\ <<>> \in Seq(Nat) /\ Len(<<>>) = 0
      BY LineKinds
    <3> HIDE DEF K
    <3>2. Spots(<<>>, K) = <<>>
      BY <3>1, SpotsMore
    <3>3. Parsed(<<>>).lines = <<>> /\ Parsed(<<>>).colour = Default
      BY ParsedNone DEF Start
    <3>4. ColourAbove(<<>>, 1) = Default
      BY <3>1, ColourMore
    <3>5. AsWritten(<<>>, <<>>)
      <4>1. 1 .. Len(<<>>) = {} /\ Len(<<>>) + 1 = 1
        BY <3>1
      <4>2. QED
        BY <3>1, <3>3, <3>4, <4>1 DEF AsWritten
    <3>6. QED
      BY <3>1, <3>2, <3>5
  <2>2. ASSUME NEW u \in S, NEW e \in Wires PROVE Append(u, e) \in S
    <3> DEFINE v == Append(u, e)
               m == Len(u)
               a == Spots(u, K)
               b == Spots(v, K)
               L == Parsed(u).lines
    <3>1. u \in Seq(Wires) /\ AsWritten(u, a)
      OBVIOUS
    <3>2. /\ m \in Nat /\ v \in Seq(Wires) /\ Len(v) = m + 1 /\ v[m + 1] = e
          /\ \A i \in 1 .. m : v[i] = u[i]
      BY <3>1, LenProperties
    <3>3. e \in K <=> e.kind \notin {"allow", "seq", "c"}
      OBVIOUS
    <3> HIDE DEF K
    <3>4. b = IF e \in K THEN Append(a, m + 1) ELSE a
      BY <3>1, SpotsMore
    <3>5. /\ \A i \in 1 .. m + 1 : ColourAbove(v, i) = ColourAbove(u, i)
          /\ ColourAbove(v, m + 2) =
               IF e.kind = "c" THEN IF e.colour \in Colours THEN e.colour ELSE Default
               ELSE ColourAbove(u, m + 1)
      BY <3>1, ColourMore
    <3>6. /\ a \in Seq(Nat) /\ Len(a) = Len(L) /\ L \in Seq(Lit) /\ Len(L) \in Nat
          /\ Parsed(u).colour = ColourAbove(u, m + 1)
          /\ \A k \in 1 .. Len(a) :
               /\ a[k] \in 1 .. m
               /\ L[k] = [line |-> u[a[k]], colour |-> ColourAbove(u, a[k])]
      BY <3>1, ParsedType DEF AsWritten
    <3> HIDE DEF a, b
    <3>7. \A k \in 1 .. Len(a) :
            /\ a[k] \in 1 .. m + 1
            /\ L[k] = [line |-> v[a[k]], colour |-> ColourAbove(v, a[k])]
      <4> TAKE k \in 1 .. Len(a)
      <4>1. a[k] \in 1 .. m
        BY <3>6
      <4>2. a[k] \in 1 .. m + 1
        BY <3>2, <4>1
      <4>3. v[a[k]] = u[a[k]] /\ ColourAbove(v, a[k]) = ColourAbove(u, a[k])
        BY <3>2, <3>5, <4>1, <4>2
      <4>4. QED
        BY <3>6, <4>2, <4>3
    <3> HIDE DEF v, m
    <3>8. (m + 1) + 1 = m + 2
      BY <3>2
    <3>9. CASE e.kind \in {"allow", "seq", "c"}
      <4>1. /\ Parsed(v).lines = L
            /\ Parsed(v).colour = IF e.kind = "c"
                                  THEN IF e.colour \in Colours THEN e.colour ELSE Default
                                  ELSE Parsed(u).colour
        BY <3>1, <3>9, LineMore DEF v
      <4>2. Parsed(v).colour = ColourAbove(v, m + 2)
        BY <3>5, <3>6, <4>1
      <4>3. b = a
        BY <3>3, <3>4, <3>9
      <4> HIDE DEF L
      <4>4. AsWritten(v, b)
        BY <3>2, <3>6, <3>7, <3>8, <4>1, <4>2, <4>3 DEF AsWritten
      <4>5. QED
        BY <3>2, <4>4 DEF v, b
    <3>10. CASE e.kind \notin {"allow", "seq", "c"}
      <4> DEFINE x == [line |-> e, colour |-> Parsed(u).colour]
      <4>1. /\ x \in Lit /\ Parsed(v).lines = Append(L, x)
            /\ Parsed(v).colour = Parsed(u).colour
        BY <3>1, <3>10, LineMore DEF v
      <4>2. Parsed(v).colour = ColourAbove(v, m + 2)
        BY <3>5, <3>6, <3>10, <4>1
      <4>3. b = Append(a, m + 1)
        BY <3>3, <3>4, <3>10
      <4>4. x = [line |-> v[m + 1], colour |-> ColourAbove(v, m + 1)]
        BY <3>2, <3>5, <3>6
      <4> HIDE DEF L, x
      <4> DEFINE n == Len(a)
      <4>5. n \in Nat /\ m + 1 \in Nat /\ Len(L) = n
        BY <3>2, <3>6
      <4>6. /\ b \in Seq(Nat) /\ Len(b) = n + 1 /\ b[n + 1] = m + 1
            /\ \A k \in 1 .. n : b[k] = a[k]
        BY <3>6, <4>3, <4>5, AppendProperties
      <4>7. /\ Len(Append(L, x)) = n + 1 /\ Append(L, x)[n + 1] = x
            /\ \A k \in 1 .. n : Append(L, x)[k] = L[k]
        BY <3>6, <4>1, <4>5, AppendProperties
      <4> HIDE DEF n
      <4>8. ASSUME NEW k \in 1 .. n + 1
            PROVE  /\ b[k] \in 1 .. m + 1
                   /\ Append(L, x)[k] = [line |-> v[b[k]], colour |-> ColourAbove(v, b[k])]
        <5>1. CASE k = n + 1
          <6>1. b[k] = m + 1 /\ Append(L, x)[k] = x
            BY <4>6, <4>7, <5>1
          <6>2. m + 1 \in 1 .. m + 1
            BY <3>2
          <6>3. QED
            BY Zenon, <4>4, <6>1, <6>2
        <5>2. CASE k \in 1 .. n
          <6>1. b[k] = a[k] /\ Append(L, x)[k] = L[k]
            BY <4>6, <4>7, <5>2
          <6>2. a[k] \in 1 .. m + 1
                /\ L[k] = [line |-> v[a[k]], colour |-> ColourAbove(v, a[k])]
            BY <3>7, <5>2 DEF n
          <6>3. QED
            BY <6>1, <6>2
        <5>3. QED
          BY <4>5, <5>1, <5>2
      <4>9. AsWritten(v, b)
        BY <3>2, <3>8, <4>1, <4>2, <4>6, <4>7, <4>8 DEF AsWritten
      <4>10. QED
        BY <3>2, <4>9 DEF v, b
    <3>11. QED
      BY <3>9, <3>10
  <2>3. S \subseteq Seq(Wires)
    OBVIOUS
  <2> HIDE DEF S
  <2>4. QED
    BY <2>1, <2>2, <2>3, SeqInduction
<1>2. Plain(s) = Spots(s, K)
  <2>1. \A i \in DOMAIN s : s[i] \in Wires
    BY LenProperties
  <2>2. {i \in DOMAIN s : s[i].kind \notin {"allow", "seq", "c"}} = {i \in DOMAIN s : s[i] \in K}
    BY <2>1
  <2> HIDE DEF K
  <2>3. QED
    BY <2>2 DEF Plain, Spots
<1>3. QED
  BY <1>1, <1>2

\* A text that leaves no colour open is followed by plain lines; one of an
\* author or an operator shows nothing in cyan.
LEMMA LeftClosed ==
    ASSUME NEW s \in Seq(Line)
    PROVE  /\ s \in Seq(Wires)
           /\ Parsed(s).colour \in {Default, "red"}
           /\ ~LeavesOpen(s) => Parsed(s).colour = Default
           /\ \A k \in 1 .. Len(Parsed(s).lines) : Parsed(s).lines[k].colour # "cyan"
<1> DEFINE OK(u) == /\ Parsed(u).colour \in {Default, "red"}
                    /\ Parsed(u).colour # Default => LeavesOpen(u)
                    /\ \A k \in 1 .. Len(Parsed(u).lines) : Parsed(u).lines[k].colour # "cyan"
           S == {u \in Seq(Line) : OK(u)}
<1>1. \A u \in Seq(Line) : u \in Seq(Wires)
  BY LineKinds, SeqMonotonic
<1>2. Default \notin {"red", "cyan"} /\ "red" \in Colours /\ "red" # "cyan"
      /\ "purple" \notin Colours
  BY DefaultIsNone DEF Colours
<1>3. S = Seq(Line)
  <2>1. <<>> \in S
    <3>1. Parsed(<<>>).lines = <<>> /\ Parsed(<<>>).colour = Default /\ Len(<<>>) = 0
      BY ParsedNone DEF Start
    <3>2. OK(<<>>)
      <4>1. 1 .. Len(Parsed(<<>>).lines) = {}
        BY <3>1
      <4>2. QED
        BY <3>1, <4>1
    <3> HIDE DEF OK
    <3>3. QED
      BY <3>2, EmptySeq
  <2>2. ASSUME NEW u \in S, NEW e \in Line PROVE Append(u, e) \in S
    <3> DEFINE v == Append(u, e)
               m == Len(u)
               L == Parsed(u).lines
    <3>1. u \in Seq(Line) /\ OK(u) /\ u \in Seq(Wires) /\ e \in Wires
      BY <1>1, LineKinds
    <3>2. /\ m \in Nat /\ v \in Seq(Line) /\ Len(v) = m + 1 /\ v[m + 1] = e
          /\ DOMAIN v = 1 .. m + 1 /\ DOMAIN u = 1 .. m
          /\ \A i \in 1 .. m : v[i] = u[i]
      BY <3>1, LenProperties
    <3>3. e.kind = "c" /\ e.colour # Default => LeavesOpen(v)
      <4>1. \A j \in (m + 1) + 1 .. Len(v) : FALSE
        BY <3>2
      <4>2. m + 1 \in DOMAIN v
        BY <3>2
      <4>3. QED
        BY <3>2, <4>1, <4>2 DEF LeavesOpen
    <3>4. e.kind # "c" /\ LeavesOpen(u) => LeavesOpen(v)
      <4> SUFFICES ASSUME e.kind # "c", LeavesOpen(u) PROVE LeavesOpen(v)
        OBVIOUS
      <4>1. PICK i \in 1 .. m : /\ u[i].kind = "c" /\ u[i].colour # Default
                                /\ \A j \in i + 1 .. m : u[j].kind # "c"
        BY <3>2 DEF LeavesOpen
      <4>2. \A j \in i + 1 .. Len(v) : j = m + 1 \/ j \in i + 1 .. m
        BY <3>2
      <4>3. \A j \in i + 1 .. m : v[j] = u[j]
        BY <3>2
      <4>4. \A j \in i + 1 .. Len(v) : v[j].kind # "c"
        BY <3>2, <4>1, <4>2, <4>3
      <4>5. i \in DOMAIN v /\ v[i] = u[i]
        BY <3>2
      <4>6. QED
        BY <4>1, <4>4, <4>5 DEF LeavesOpen
    <3> HIDE DEF v
    <3>5. CASE e.kind \in {"allow", "seq"}
      <4>1. Parsed(v).lines = L /\ Parsed(v).colour = Parsed(u).colour
        BY <3>1, <3>5, LineMore DEF v
      <4>2. OK(v)
        BY <3>1, <3>4, <3>5, <4>1
      <4>3. QED
        BY <3>2, <4>2 DEF v
    <3>6. CASE e.kind = "c"
      <4>1. /\ Parsed(v).lines = L
            /\ Parsed(v).colour = IF e.colour \in Colours THEN e.colour ELSE Default
        BY <3>1, <3>6, LineMore DEF v
      <4>2. e.colour \in {Default, "red", "purple"}
        BY <3>6, LineKinds
      <4>3. Parsed(v).colour \in {Default, "red"}
            /\ (Parsed(v).colour # Default => LeavesOpen(v))
        BY <1>2, <3>3, <3>6, <4>1, <4>2
      <4>4. OK(v)
        BY <3>1, <4>1, <4>3
      <4>5. QED
        BY <3>2, <4>4 DEF v
    <3>7. CASE e.kind \notin {"allow", "seq", "c"}
      <4> DEFINE x == [line |-> e, colour |-> Parsed(u).colour]
      <4>1. /\ x \in Lit /\ Parsed(v).lines = Append(L, x)
            /\ Parsed(v).colour = Parsed(u).colour
        BY <3>1, <3>7, LineMore DEF v
      <4>2. x.colour # "cyan" /\ L \in Seq(Lit)
            /\ \A k \in 1 .. Len(L) : L[k].colour # "cyan"
        BY <1>2, <3>1, ParsedType
      <4> HIDE DEF x, L
      <4>3. \A k \in 1 .. Len(Append(L, x)) : Append(L, x)[k].colour # "cyan"
        <5>1. /\ Len(L) \in Nat /\ Len(Append(L, x)) = Len(L) + 1
              /\ Append(L, x)[Len(L) + 1] = x
              /\ \A k \in 1 .. Len(L) : Append(L, x)[k] = L[k]
          BY <4>1, <4>2, AppendProperties, LenProperties
        <5>2. \A k \in 1 .. Len(L) + 1 : k = Len(L) + 1 \/ k \in 1 .. Len(L)
          BY <5>1
        <5>3. QED
          BY <4>2, <5>1, <5>2
      <4>4. OK(v)
        BY <3>1, <3>4, <3>7, <4>1, <4>3
      <4>5. QED
        BY <3>2, <4>4 DEF v
    <3>8. QED
      BY <3>5, <3>6, <3>7
  <2>3. S \subseteq Seq(Line)
    OBVIOUS
  <2> HIDE DEF S
  <2>4. QED
    BY <2>1, <2>2, <2>3, SeqInduction
<1>4. QED
  BY <1>1, <1>3

\* A notice is text of its author, and leaves no colour open.
LEMMA NoticesClose ==
    ASSUME NEW text \in Seq(Line)
    PROVE  ReadNotice(text) \in Seq(Line) /\ Parsed(ReadNotice(text)).colour = Default
<1> DEFINE n == IF Len(text) < MaxNotice THEN Len(text) ELSE MaxNotice
           kept == NoBlanks(Trim(text))
<1>1. Len(text) \in Nat /\ \A i \in 1 .. Len(text) : text[i] \in Line
  BY LenProperties
<1>2. n \in Nat /\ n <= Len(text)
  BY <1>1, MarkConstants
<1>3. Trim(text) = SubSeq(text, 1, n)
  BY DEF Trim
<1> HIDE DEF n
<1>4. Trim(text) \in Seq(Line)
  <2>1. \A i \in 1 .. n : text[i] \in Line
    BY <1>1, <1>2
  <2>2. QED
    BY <1>2, <1>3, <2>1, SubSeqProperties
<1>5. kept \in Seq(Line)
  BY <1>4, AtPlacesType DEF NoBlanks
<1>6. ReadNotice(text) = IF LeavesOpen(kept) THEN Append(kept, C(Default)) ELSE kept
  BY DEF ReadNotice
<1> HIDE DEF kept
<1>7. CASE LeavesOpen(kept)
  <2>1. C(Default) \in Line /\ C(Default) \in Wires /\ C(Default).kind = "c"
        /\ C(Default).colour = Default /\ kept \in Seq(Wires)
    BY <1>5, LineKinds, LeftClosed
  <2>2. Append(kept, C(Default)) \in Seq(Line)
    BY <1>5, <2>1
  <2>3. Parsed(Append(kept, C(Default))).colour = Default
    BY <2>1, DefaultIsNone, LineMore
  <2>4. QED
    BY <1>6, <1>7, <2>2, <2>3
<1>8. CASE ~LeavesOpen(kept)
  BY <1>5, <1>6, <1>8, LeftClosed
<1>9. QED
  BY <1>7, <1>8

LEMMA Three ==
    ASSUME NEW A, NEW s \in Seq(A), NEW a \in A, NEW b \in A, NEW c \in A
    PROVE  /\ s \o <<a, b, c>> = Append(Append(Append(s, a), b), c)
           /\ s \o <<a, b>> = Append(Append(s, a), b)
           /\ <<a, b, c>> \in Seq(A) /\ <<a, b>> \in Seq(A)
<1>1. <<a>> \in Seq(A) /\ <<a, b>> \in Seq(A) /\ <<a, b, c>> \in Seq(A)
  OBVIOUS
<1>2. <<a, b>> = Append(<<a>>, b) /\ <<a, b, c>> = Append(<<a, b>>, c)
  OBVIOUS
<1>3. s \o <<a>> = Append(s, a)
  BY AppendIsConcat
<1>4. s \o <<a, b>> = Append(Append(s, a), b)
  BY <1>1, <1>2, <1>3, ConcatAppend
<1>5. s \o <<a, b, c>> = Append(Append(Append(s, a), b), c)
  BY <1>1, <1>2, <1>4, ConcatAppend
<1>6. QED
  BY <1>1, <1>4, <1>5

\* The line a page ends with has the colour that is open.
LEMMA LastLine ==
    ASSUME NEW s \in Seq(Wires)
    PROVE  /\ s \o <<Text>> \in Seq(Wires)
           /\ LET L == Parsed(s).lines
                  N == Parsed(s \o <<Text>>).lines
              IN  /\ N \in Seq(Lit) /\ Len(N) = Len(L) + 1
                  /\ \A i \in 1 .. Len(L) : N[i] = L[i]
                  /\ N[Len(L) + 1] = [line |-> Text, colour |-> Parsed(s).colour]
                  /\ Last(N).colour = Parsed(s).colour
<1> DEFINE L == Parsed(s).lines
           x == [line |-> Text, colour |-> Parsed(s).colour]
<1>1. Text \in Wires /\ Text.kind = "text"
  BY LineKinds
<1>2. s \o <<Text>> = Append(s, Text) /\ Append(s, Text) \in Seq(Wires)
  BY <1>1, AppendIsConcat
<1>3. x \in Lit /\ Parsed(Append(s, Text)).lines = Append(L, x)
  BY <1>1, LineMore
<1>4. L \in Seq(Lit) /\ Len(L) \in Nat
  BY ParsedType
<1>5. x.colour = Parsed(s).colour
  OBVIOUS
<1> HIDE DEF L, x
<1>6. /\ Append(L, x) \in Seq(Lit) /\ Len(Append(L, x)) = Len(L) + 1
      /\ \A i \in 1 .. Len(L) : Append(L, x)[i] = L[i]
      /\ Append(L, x)[Len(L) + 1] = x
  BY <1>3, <1>4, AppendProperties
<1>7. Last(Append(L, x)) = x
  BY <1>6 DEF Last
<1>8. QED
  BY <1>2, <1>3, <1>5, <1>6, <1>7 DEF L, x

\* A line that is no !c leaves the colour as it is.
LEMMA SameColour ==
    ASSUME NEW s \in Seq(Wires), NEW e \in {Text, Blank, Rule, Seqs}
    PROVE  Append(s, e) \in Seq(Wires) /\ Parsed(Append(s, e)).colour = Parsed(s).colour
<1>1. e \in Wires /\ e.kind # "c"
  BY LineKinds
<1>2. ASSUME NEW l \in Wires, l.kind # "c"
      PROVE  Parsed(Append(s, l)).colour = Parsed(s).colour
  <2>1. l.kind \in {"allow", "seq"} \/ l.kind \notin {"allow", "seq", "c"}
    BY <1>2
  <2>2. l.kind \in {"allow", "seq"} => Parsed(Append(s, l)).colour = Parsed(s).colour
    BY LineMore
  <2>3. l.kind \notin {"allow", "seq", "c"} =>
          Parsed(Append(s, l)).colour = Parsed(s).colour
    BY LineMore
  <2>4. QED
    BY <2>1, <2>2, <2>3
<1>3. QED
  BY <1>1, <1>2

\* The list below a notice is plain.
LEMMA PlainBelowNotice ==
    ASSUME NEW text \in Seq(Line)
    PROVE  /\ RenderIndex(text) \in Seq(Wires) /\ RenderPinned(text) \in Seq(Wires)
           /\ Last(Parsed(RenderIndex(text)).lines).colour = Default
           /\ Last(Parsed(RenderPinned(text)).lines).colour = Default
<1> DEFINE n == ReadNotice(text)
<1>1. /\ n \in Seq(Wires) /\ Parsed(n).colour = Default /\ n \in Seq(Line)
      /\ Text \in Wires /\ Blank \in Wires /\ Rule \in Wires /\ Seqs \in Wires
      /\ C(Default) \in Wires /\ C("yellow") \in Wires
      /\ Text.kind = "text" /\ Blank.kind = "blank" /\ Rule.kind = "rule"
      /\ Seqs.kind = "seq" /\ C(Default).kind = "c" /\ C(Default).colour = Default
  BY NoticesClose, LeftClosed, LineKinds
<1>2. /\ <<>> \in Seq(Wires) /\ Parsed(<<>>).colour = Default
      /\ \A s \in Seq(Wires) : <<>> \o s = s
  BY ParsedNone, ConcatEmptySeq DEF Start
<1>3. /\ <<Text, Blank>> \in Seq(Wires) /\ <<Text, Seqs, Blank>> \in Seq(Wires)
      /\ Parsed(<<Text, Blank>>).colour = Default
      /\ Parsed(<<Text, Seqs, Blank>>).colour = Default
  <2> DEFINE a == Append(<<>>, Text)
             b == Append(a, Seqs)
  <2>1. /\ <<Text, Blank>> = Append(a, Blank) /\ <<Text, Seqs, Blank>> = Append(b, Blank)
        /\ <<Text, Blank>> \in Seq(Wires) /\ <<Text, Seqs, Blank>> \in Seq(Wires)
    BY <1>1, <1>2, Three
  <2>2. a \in Seq(Wires) /\ b \in Seq(Wires)
    BY <1>1
  <2>3. Parsed(a).colour = Default
    BY <1>2, SameColour
  <2>4. Parsed(b).colour = Default
    <3> HIDE DEF a
    <3>1. QED
      BY <2>2, <2>3, SameColour
  <2> HIDE DEF a, b
  <2>5. QED
    BY <2>1, <2>2, <2>3, <2>4, SameColour
<1> HIDE DEF n
<1>4. RenderIndex(text) \in Seq(Wires) /\ Last(Parsed(RenderIndex(text)).lines).colour = Default
  <2> DEFINE p == <<Text, Blank>>
             q == IF n = <<>> THEN <<>> ELSE Append(n, Rule)
  <2>1. q \in Seq(Wires) /\ Parsed(q).colour = Default
    <3>1. Append(n, Rule) \in Seq(Wires) /\ Parsed(Append(n, Rule)).colour = Default
      BY <1>1, SameColour
    <3>2. QED
      BY <1>2, <3>1
  <2>2. RenderIndex(text) = (p \o q) \o <<Text>>
    BY DEF RenderIndex, n
  <2>3. p \in Seq(Wires) /\ Parsed(p).colour = Default
    BY <1>3
  <2> HIDE DEF p, q
  <2>4. p \o q \in Seq(Wires) /\ Parsed(p \o q).colour = Default
    BY <2>1, <2>3, ParsedConcat
  <2>5. QED
    BY <2>2, <2>4, LastLine
<1>5. RenderPinned(text) \in Seq(Wires) /\ Last(Parsed(RenderPinned(text)).lines).colour = Default
  <2> DEFINE p == <<Text, Seqs, Blank>>
             y == <<C("yellow")>>
             r == y \o n
             q == IF n = <<>> THEN <<>> ELSE r \o <<C(Default), Rule>>
  <2>1. RenderPinned(text) = (p \o q) \o <<Text>>
    BY DEF RenderPinned, n
  <2>2. y \in Seq(Wires) /\ r \in Seq(Wires)
    BY <1>1, ConcatProperties
  <2>3. p \in Seq(Wires) /\ Parsed(p).colour = Default
    BY <1>3
  <2> HIDE DEF p, r, y
  <2>4. p \o q \in Seq(Wires) /\ Parsed(p \o q).colour = Default
    <3>1. CASE n = <<>>
      BY <1>2, <2>3, <3>1, ParsedConcat
    <3>2. CASE n # <<>>
      <4> DEFINE w == Append(r, C(Default))
      <4>1. q = Append(w, Rule) /\ w \in Seq(Wires)
        BY <1>1, <2>2, <3>2, Three
      <4> HIDE DEF q
      <4>2. Parsed(w).colour = Default
        BY <1>1, <2>2, DefaultIsNone, LineMore
      <4> HIDE DEF w
      <4>3. Parsed(Append(w, Rule)).colour = Default /\ Append(w, Rule) \in Seq(Wires)
        BY <4>1, <4>2, SameColour
      <4>4. QED
        BY <2>3, <4>1, <4>3, ParsedConcat
    <3>3. QED
      BY <3>1, <3>2
  <2> HIDE DEF q
  <2>5. QED
    BY <2>1, <2>4, LastLine
<1>6. QED
  BY <1>4, <1>5

\* N is L with more at its end.
Longer(L, N) == Len(L) <= Len(N) /\ \A i \in 1 .. Len(L) : N[i] = L[i]

\* What fails a test moves nothing that passes it.
LEMMA SpotsSame ==
    ASSUME NEW A, NEW K, NEW L \in Seq(A), NEW N \in Seq(A), Longer(L, N),
           \A i \in Len(L) + 1 .. Len(N) : N[i] \notin K
    PROVE  Spots(N, K) = Spots(L, K)
<1> DEFINE OK(u) == Longer(L, u) /\ (\A i \in Len(L) + 1 .. Len(u) : u[i] \notin K)
                      => Spots(u, K) = Spots(L, K)
           S == {u \in Seq(A) : OK(u)}
<1>1. S = Seq(A)
  <2>1. <<>> \in S
    <3>1. <<>> \in Seq(A) /\ Len(<<>>) = 0 /\ Len(L) \in Nat
      BY LenProperties
    <3>2. Longer(L, <<>>) => L = <<>>
      BY <3>1, EmptySeq DEF Longer
    <3>3. QED
      BY <3>1, <3>2
  <2>2. ASSUME NEW u \in S, NEW e \in A PROVE Append(u, e) \in S
    <3> DEFINE v == Append(u, e)
    <3>1. /\ u \in Seq(A) /\ v \in Seq(A) /\ Len(u) \in Nat /\ Len(L) \in Nat
          /\ Len(v) = Len(u) + 1 /\ v[Len(u) + 1] = e
          /\ \A i \in 1 .. Len(u) : v[i] = u[i]
      BY LenProperties
    <3> SUFFICES ASSUME Longer(L, v), \A i \in Len(L) + 1 .. Len(v) : v[i] \notin K
                 PROVE  Spots(v, K) = Spots(L, K)
      BY <3>1
    <3>2. OK(u)
      OBVIOUS
    <3> HIDE DEF v, S
    <3>3. CASE Len(L) = Len(v)
      <4>1. L = v
        BY <3>1, <3>3, SeqEqual DEF Longer
      <4>2. QED
        BY <4>1
    <3>4. CASE Len(L) # Len(v)
      <4>1. Len(L) <= Len(u)
        BY <3>1, <3>4 DEF Longer
      <4>2. /\ Len(u) + 1 \in Len(L) + 1 .. Len(v)
            /\ \A i \in Len(L) + 1 .. Len(u) : i \in Len(L) + 1 .. Len(v) /\ i \in 1 .. Len(u)
            /\ \A i \in 1 .. Len(L) : i \in 1 .. Len(u)
        BY <3>1, <4>1
      <4>3. e \notin K /\ \A i \in Len(L) + 1 .. Len(u) : u[i] \notin K
        BY <3>1, <4>2
      <4>4. Longer(L, u)
        BY <3>1, <4>1, <4>2 DEF Longer
      <4>5. Spots(v, K) = Spots(u, K)
        BY <3>1, <4>3, SpotsMore DEF v
      <4>6. QED
        BY <3>2, <4>3, <4>4, <4>5
    <3>5. QED
      BY <3>3, <3>4
  <2>3. S \subseteq Seq(A)
    OBVIOUS
  <2> HIDE DEF S
  <2>4. QED
    BY <2>1, <2>2, <2>3, SeqInduction
<1>2. OK(N)
  BY <1>1
<1>3. QED
  BY <1>2

\* A post whose author stands at h, above lines that look like it.
Author == [line |-> Text, colour |-> "cyan"]

PostShown(N, h, look) ==
    /\ h \in Nat \ {0} /\ h + Len(look) <= Len(N)
    /\ N[h] = Author /\ \A k \in 1 .. Len(look) : N[h + k] = look[k]

LEMMA ShownLonger ==
    ASSUME NEW L \in Seq(Lit), NEW N \in Seq(Lit), Longer(L, N), NEW h,
           NEW look \in Seq(Lit), PostShown(L, h, look)
    PROVE  PostShown(N, h, look)
<1>1. Len(look) \in Nat /\ Len(L) \in Nat /\ Len(N) \in Nat
  BY LenProperties
<1>2. h \in 1 .. Len(L) /\ \A k \in 1 .. Len(look) : h + k \in 1 .. Len(L)
  BY <1>1 DEF PostShown
<1>3. h + Len(look) <= Len(N)
  BY <1>1 DEF PostShown, Longer
<1>4. QED
  BY <1>2, <1>3 DEF PostShown, Longer

LEMMA ShownIsPart ==
    ASSUME NEW N \in Seq(Lit), NEW h, NEW look \in Seq(Lit), PostShown(N, h, look)
    PROVE  SubSeq(N, h, h + Len(look)) = <<Author>> \o look
<1> DEFINE n == Len(look)
           z == h + n
           a == SubSeq(N, h, z)
           b == <<Author>> \o look
<1>1. /\ n \in Nat /\ Len(N) \in Nat /\ h \in Nat \ {0} /\ z \in Nat /\ z <= Len(N)
      /\ \A i \in 1 .. Len(N) : N[i] \in Lit
  BY LenProperties DEF PostShown
<1>2. \A i \in h .. z : i \in 1 .. Len(N)
  BY <1>1
<1>3. h <= z /\ z - h + 1 = n + 1
  BY <1>1
<1>4. Author \in Lit
  BY <1>1, <1>2, <1>3 DEF PostShown
<1>5. /\ b \in Seq(Lit) /\ Len(b) = n + 1 /\ b[1] = Author
      /\ \A k \in 1 .. n : b[k + 1] = look[k]
  <2>1. <<Author>> \in Seq(Lit) /\ Len(<<Author>>) = 1 /\ <<Author>>[1] = Author
    BY <1>4
  <2> DEFINE y == <<Author>>
  <2> HIDE DEF y
  <2>2. /\ y \o look \in Seq(Lit) /\ Len(y \o look) = 1 + n
        /\ \A i \in 1 .. 1 + n : (y \o look)[i] = IF i <= 1 THEN y[i] ELSE look[i - 1]
    BY <2>1, ConcatProperties DEF y
  <2>3. 1 \in 1 .. 1 + n /\ \A k \in 1 .. n : k + 1 \in 1 .. 1 + n /\ (k + 1) - 1 = k
                                            /\ ~(k + 1 <= 1)
    BY <1>1
  <2>4. QED
    BY <1>1, <2>1, <2>2, <2>3 DEF y
<1> HIDE DEF z, b
<1>6. /\ a \in Seq(Lit) /\ Len(a) = n + 1
      /\ \A i \in 1 .. n + 1 : a[i] = N[h + i - 1]
  <2>1. h \in Int /\ z \in Int /\ \A i \in h .. z : N[i] \in Lit
    BY <1>1, <1>2
  <2>2. /\ SubSeq(N, h, z) \in Seq(Lit)
        /\ Len(SubSeq(N, h, z)) = IF h <= z THEN z - h + 1 ELSE 0
        /\ \A i \in 1 .. z - h + 1 : SubSeq(N, h, z)[i] = N[h + i - 1]
    BY <2>1, SubSeqProperties
  <2>3. QED
    BY <1>3, <2>2
<1> HIDE DEF a, n
<1>7. ASSUME NEW i \in 1 .. n + 1 PROVE a[i] = b[i]
  <2>1. CASE i = 1
    <3>1. h + i - 1 = h
      BY <1>1, <2>1
    <3>2. QED
      BY <1>5, <1>6, <2>1, <3>1 DEF PostShown
  <2>2. CASE i # 1
    <3>1. i - 1 \in 1 .. n /\ (i - 1) + 1 = i /\ h + i - 1 = h + (i - 1)
      BY <1>1, <2>2
    <3>2. N[h + (i - 1)] = look[i - 1]
      BY <3>1 DEF PostShown, n
    <3>3. b[i] = look[i - 1]
      BY <1>5, <3>1
    <3>4. a[i] = N[h + (i - 1)]
      BY <1>6, <3>1
    <3>5. QED
      BY <3>2, <3>3, <3>4
  <2>3. QED
    BY <2>1, <2>2
<1>8. a = b
  BY <1>5, <1>6, <1>7, SeqEqual
<1>9. QED
  BY <1>8 DEF a, b, z, n

\* A post is added to the page of its thread: its author is named in cyan, its
\* text looks as it does alone, and no other line is in cyan.
LEMMA PostMore ==
    ASSUME NEW s \in Seq(Wires), NEW post \in Seq(Line)
    PROVE  LET L == Parsed(s).lines
               t == s \o RenderPost(post)
               N == Parsed(t).lines
           IN  /\ t \in Seq(Wires) /\ Parsed(t).colour \in {Default, "red"}
               /\ N \in Seq(Lit) /\ Longer(L, N) /\ Len(L) + 1 <= Len(N)
               /\ PostShown(N, Len(L) + 1, Parse(post))
               /\ \A i \in Len(L) + 2 .. Len(N) : N[i].colour # "cyan"
<1> DEFINE body == IF post = <<>> THEN <<Blank>> ELSE post
           head == <<C("cyan"), Text, C(Default)>>
           t == s \o RenderPost(post)
           N == Parsed(t).lines
           L == Parsed(s).lines
           M == Parsed(body).lines
           a == Append(s, C("cyan"))
           b == Append(a, Text)
           c == Append(b, C(Default))
           d == c \o body
           z == [line |-> Rule, colour |-> Parsed(body).colour]
<1>1. /\ Text \in Wires /\ Rule \in Wires /\ C(Default) \in Wires /\ C("cyan") \in Wires
      /\ Blank \in Line /\ Text.kind = "text" /\ Rule.kind = "rule"
      /\ \A x : C(x).kind = "c" /\ C(x).colour = x
      /\ "cyan" \in Colours /\ Default \notin Colours
  BY LineKinds, DefaultIsNone DEF Colours
<1>2. body \in Seq(Line) /\ body \in Seq(Wires)
  <2>1. <<Blank>> \in Seq(Line)
    BY <1>1
  <2>2. body \in Seq(Line)
    BY <2>1
  <2> HIDE DEF body
  <2>3. QED
    BY <2>2, LeftClosed
<1>3. /\ M \in Seq(Lit) /\ Len(M) \in Nat /\ Parsed(body).colour \in {Default, "red"}
      /\ \A k \in 1 .. Len(M) : M[k].colour # "cyan"
  <2> HIDE DEF body
  <2>1. QED
    BY <1>2, LeftClosed, ParsedType
<1>4. Len(Parse(post)) <= Len(M) /\ \A k \in 1 .. Len(Parse(post)) : Parse(post)[k] = M[k]
  <2>1. CASE post = <<>>
    <3>1. Parse(post) = <<>> /\ Len(Parse(post)) = 0
      BY <2>1, ParsedNone DEF Parse, Start
    <3> HIDE DEF M
    <3>2. QED
      BY <1>3, <3>1
  <2>2. CASE post # <<>>
    <3>1. M = Parse(post)
      BY <2>2 DEF Parse
    <3> HIDE DEF M
    <3>2. QED
      BY <1>3, <3>1
  <2>3. QED
    BY <2>1, <2>2
<1>5. L \in Seq(Lit) /\ Len(L) \in Nat
  BY ParsedType
<1>6. t = Append(d, Rule) /\ c \in Seq(Wires)
  <2>1. head \in Seq(Wires) /\ s \o head = c /\ c \in Seq(Wires)
    BY <1>1, Three
  <2>2. RenderPost(post) = (head \o body) \o <<Rule>>
    BY DEF RenderPost
  <2> HIDE DEF head, body, c
  <2>3. head \o body \in Seq(Wires)
    BY <1>2, <2>1, ConcatProperties
  <2>4. RenderPost(post) = Append(head \o body, Rule)
    BY <1>1, <2>2, <2>3, AppendIsConcat
  <2>5. t = Append(s \o (head \o body), Rule)
    BY <1>1, <2>3, <2>4, ConcatAppend
  <2>6. s \o (head \o body) = (s \o head) \o body
    <3>1. s \in Seq(Wires) /\ head \in Seq(Wires) /\ body \in Seq(Wires)
      BY <1>2, <2>1
    <3>2. QED
      BY ONLY <3>1, ConcatAssociative
  <2>7. QED
    BY <2>1, <2>5, <2>6
<1> HIDE DEF head, t, body
<1>7. a \in Seq(Wires) /\ Parsed(a).lines = L /\ Parsed(a).colour = "cyan"
  <2> DEFINE y == C("cyan")
  <2>1. y.kind = "c" /\ y.colour = "cyan" /\ y \in Wires /\ "cyan" \in Colours
    BY <1>1
  <2> HIDE DEF y
  <2>2. /\ Parsed(Append(s, y)).lines = Parsed(s).lines
        /\ Parsed(Append(s, y)).colour = "cyan"
    BY <2>1, LineMore
  <2>3. Append(s, y) \in Seq(Wires)
    BY <2>1
  <2>4. QED
    BY <2>2, <2>3 DEF y
<1>8. /\ Author \in Lit /\ b \in Seq(Wires)
      /\ Parsed(b).lines = Append(L, Author) /\ Parsed(b).colour = "cyan"
  <2> HIDE DEF a, L
  <2>1. b \in Seq(Wires) /\ Text.kind \notin {"allow", "seq", "c"}
    BY <1>1, <1>7
  <2>2. QED
    BY <1>1, <1>7, <2>1, LineMore DEF Author
<1>9. Parsed(c).lines = Append(L, Author) /\ Parsed(c).colour = Default
  <2> HIDE DEF b, L
  <2>1. C(Default).kind = "c" /\ C(Default).colour \notin Colours
    BY <1>1
  <2>2. QED
    BY <1>1, <1>8, <2>1, LineMore
<1> HIDE DEF c
<1>10. /\ d \in Seq(Wires) /\ Parsed(d).lines = Append(L, Author) \o M
       /\ Parsed(d).colour = Parsed(body).colour
  BY <1>2, <1>6, <1>9, ParsedConcat
<1> HIDE DEF d
<1>11. /\ t \in Seq(Wires) /\ Parsed(t).colour = Parsed(body).colour
       /\ z \in Lit /\ N = Append(Append(L, Author) \o M, z)
  <2>1. Rule.kind \notin {"allow", "seq", "c"} /\ Append(d, Rule) \in Seq(Wires)
    BY <1>1, <1>10
  <2> HIDE DEF L, M
  <2>2. /\ Parsed(Append(d, Rule)).colour = Parsed(d).colour
        /\ [line |-> Rule, colour |-> Parsed(d).colour] \in Lit
        /\ Parsed(Append(d, Rule)).lines =
             Append(Parsed(d).lines, [line |-> Rule, colour |-> Parsed(d).colour])
    BY <1>1, <1>10, <2>1, LineMore
  <2>3. QED
    BY <1>6, <1>10, <2>1, <2>2
<1>12. z.colour # "cyan"
  <2>1. "red" # "cyan" /\ Default # "cyan"
    BY <1>1
  <2>2. QED
    BY <1>3, <2>1
<1> DEFINE l == Len(L)
           m == Len(M)
           P == Append(L, Author)
           Q == P \o M
<1> HIDE DEF L, M, N, z
<1>13. /\ P \in Seq(Lit) /\ Len(P) = l + 1 /\ P[l + 1] = Author
       /\ \A i \in 1 .. l : P[i] = L[i]
  BY <1>5, <1>8, AppendProperties
<1> HIDE DEF P
<1>14. /\ Q \in Seq(Lit) /\ Len(Q) = l + 1 + m
       /\ \A i \in 1 .. l + 1 + m : Q[i] = IF i <= l + 1 THEN P[i] ELSE M[i - (l + 1)]
  BY <1>3, <1>13, ConcatProperties
<1> HIDE DEF Q
<1>15. /\ N \in Seq(Lit) /\ Len(N) = l + 1 + m + 1 /\ N[l + 1 + m + 1] = z
       /\ \A i \in 1 .. l + 1 + m : N[i] = Q[i]
  BY <1>11, <1>14, AppendProperties DEF P, Q
<1>16. l \in Nat /\ m \in Nat
  BY <1>3, <1>5
<1> HIDE DEF l, m
<1>17. \A i \in 1 .. l : N[i] = L[i]
  <2>1. \A i \in 1 .. l : i \in 1 .. l + 1 + m /\ i <= l + 1
    BY <1>16
  <2>2. QED
    BY <1>13, <1>14, <1>15, <2>1
<1>18. N[l + 1] = Author
  <2>1. l + 1 \in 1 .. l + 1 + m /\ l + 1 <= l + 1
    BY <1>16
  <2>2. QED
    BY <1>13, <1>14, <1>15, <2>1
<1>19. \A k \in 1 .. m : N[l + 1 + k] = M[k]
  <2> TAKE k \in 1 .. m
  <2> DEFINE i == l + 1 + k
  <2>1. i \in 1 .. l + 1 + m /\ ~(i <= l + 1) /\ i - (l + 1) = k
    BY <1>16
  <2> HIDE DEF i
  <2>2. N[i] = M[k]
    BY <1>14, <1>15, <2>1
  <2>3. QED
    BY <2>2 DEF i
<1>20. ASSUME NEW i \in l + 2 .. Len(N) PROVE N[i].colour # "cyan"
  <2>1. CASE i = l + 1 + m + 1
    BY <1>12, <1>15, <2>1
  <2>2. CASE i # l + 1 + m + 1
    <3> DEFINE k == i - (l + 1)
    <3>1. k \in 1 .. m /\ l + 1 + k = i
      BY <1>15, <1>16, <2>2
    <3> HIDE DEF k
    <3>2. N[i] = M[k]
      BY <1>19, <3>1
    <3>3. QED
      BY <1>3, <3>1, <3>2 DEF m
  <2>3. QED
    BY <2>1, <2>2
<1>21. Longer(L, N) /\ l + 1 <= Len(N)
  BY <1>15, <1>16, <1>17 DEF Longer, l
<1>22. PostShown(N, l + 1, Parse(post))
  <2> DEFINE r == Len(Parse(post))
  <2>1. r \in Nat
    BY LeftClosed, ParsedType DEF Parse
  <2>2. r <= m /\ \A k \in 1 .. r : Parse(post)[k] = M[k]
    BY <1>4 DEF m
  <2> HIDE DEF r
  <2>3. l + 1 \in Nat \ {0} /\ l + 1 + r <= Len(N) /\ \A k \in 1 .. r : k \in 1 .. m
    BY <1>15, <1>16, <2>1, <2>2
  <2>4. \A k \in 1 .. r : N[l + 1 + k] = Parse(post)[k]
    BY <1>19, <2>2, <2>3
  <2>5. QED
    BY <1>18, <2>3, <2>4 DEF PostShown, r
<1>23. Parsed(t).colour \in {Default, "red"}
  BY <1>3, <1>11
<1>24. QED
  BY <1>11, <1>15, <1>20, <1>21, <1>22, <1>23 DEF t, N, L, l

\* f[n] is the page of a thread up to its nth post.
Top3 == <<Text, Seqs, Blank>>

Renders(f, texts) ==
    /\ f \in [0 .. Len(texts) -> Seq(Wires)] /\ f[0] = Top3
    /\ RenderPosts(texts) = f[Len(texts)] \o <<Text>>
    /\ \A n \in 1 .. Len(texts) : f[n] = f[n - 1] \o RenderPost(texts[n])

LEMMA RendersUpTo == ASSUME NEW texts \in Seq(Seq(Line)) PROVE \E f : Renders(f, texts)
<1> DEFINE step == [n \in 1 .. Len(texts) |->
                      [s \in Seq(Wires) |-> s \o RenderPost(texts[n])]]
           F(f) == [n \in 0 .. Len(texts) |->
                      IF n = 0 THEN Top3 ELSE f[n - 1] \o RenderPost(texts[n])]
           h == CHOOSE f : f = F(f)
<1>1. Len(texts) \in Nat /\ \A n \in 1 .. Len(texts) : texts[n] \in Seq(Line)
  BY LenProperties
<1>2. Top3 \in Seq(Wires)
  <2>1. Text \in Wires /\ Seqs \in Wires /\ Blank \in Wires /\ <<>> \in Seq(Wires)
    BY LineKinds
  <2>2. QED
    BY <2>1, Three DEF Top3
<1>3. \A n \in 1 .. Len(texts), s \in Seq(Wires) : s \o RenderPost(texts[n]) \in Seq(Wires)
  BY <1>1, PostMore
<1>4. step \in [1 .. Len(texts) -> [Seq(Wires) -> Seq(Wires)]]
  BY <1>3
<1>5. \A n \in 1 .. Len(texts), s \in Seq(Wires) : step[n][s] = s \o RenderPost(texts[n])
  OBVIOUS
<1> HIDE DEF step
<1>6. PICK f : Follows(f, Seq(Wires), Top3, Len(texts), step)
  <2> DEFINE n == Len(texts)
             B == Seq(Wires)
  <2>1. n \in Nat /\ step \in [1 .. n -> [B -> B]] /\ Top3 \in B
    BY <1>1, <1>2, <1>4
  <2> HIDE DEF n, B
  <2>2. \E f : Follows(f, B, Top3, n, step)
    BY <2>1, Recursion
  <2>3. QED
    BY <2>2 DEF n, B
<1>7. f = F(f)
  <2>1. \A n \in 1 .. Len(texts) : f[n - 1] \in Seq(Wires)
    <3>1. \A n \in 1 .. Len(texts) : n - 1 \in 0 .. Len(texts)
      BY <1>1
    <3>2. \A n \in 0 .. Len(texts) : f[n] \in Seq(Wires)
      BY <1>6 DEF Follows
    <3>3. QED
      BY <3>1, <3>2
  <2>2. ASSUME NEW n \in 1 .. Len(texts) PROVE f[n] = f[n - 1] \o RenderPost(texts[n])
    BY <1>5, <1>6, <2>1 DEF Follows
  <2>3. \A n \in 0 .. Len(texts) : n = 0 \/ n \in 1 .. Len(texts)
    BY <1>1
  <2>4. \A n \in 0 .. Len(texts) : f[n] = F(f)[n]
    BY <1>6, <2>2, <2>3 DEF Follows
  <2>5. QED
    BY <1>6, <2>4 DEF Follows
<1>8. h = F(h)
  BY <1>7
<1>9. RenderPosts(texts) = h[Len(texts)] \o <<Text>>
  BY DEF RenderPosts, Top3
<1> HIDE DEF h
<1>10. /\ DOMAIN h = 0 .. Len(texts) /\ h[0] = Top3
       /\ \A n \in 1 .. Len(texts) : h[n] = h[n - 1] \o RenderPost(texts[n])
  <2>1. DOMAIN F(h) = 0 .. Len(texts) /\ F(h)[0] = Top3
    BY <1>1
  <2>2. \A n \in 1 .. Len(texts) : F(h)[n] = h[n - 1] \o RenderPost(texts[n])
    <3>1. \A n \in 1 .. Len(texts) : n \in 0 .. Len(texts) /\ n # 0
      BY <1>1
    <3>2. QED
      BY <3>1
  <2> HIDE DEF F
  <2>3. QED
    BY <1>8, <2>1, <2>2
<1> DEFINE T == {n \in Nat : n <= Len(texts) => h[n] \in Seq(Wires)}
<1>11. T = Nat
  <2>1. 0 \in T
    BY <1>2, <1>10
  <2>2. ASSUME NEW n \in T PROVE n + 1 \in T
    <3> SUFFICES ASSUME n + 1 <= Len(texts) PROVE h[n + 1] \in Seq(Wires)
      OBVIOUS
    <3>1. n \in Nat /\ n + 1 \in 1 .. Len(texts) /\ (n + 1) - 1 = n
      BY <1>1
    <3>2. h[n] \in Seq(Wires)
      BY <1>1, <3>1
    <3>3. h[n + 1] = h[n] \o RenderPost(texts[n + 1])
      BY <1>10, <3>1
    <3>4. QED
      BY <1>3, <3>1, <3>2, <3>3
  <2>3. T \subseteq Nat
    OBVIOUS
  <2> HIDE DEF T
  <2>4. QED
    BY <2>1, <2>2, <2>3, SetInduction
<1>12. h \in [0 .. Len(texts) -> Seq(Wires)]
  <2>1. h = [n \in 0 .. Len(texts) |-> h[n]]
    BY <1>8
  <2>2. \A n \in 0 .. Len(texts) : h[n] \in Seq(Wires)
    BY <1>1, <1>11
  <2>3. QED
    BY <2>1, <2>2
<1>13. QED
  BY <1>9, <1>10, <1>12 DEF Renders

\* The first n posts are shown, and theirs are the lines in cyan.
Cyan == {x \in Lit : x.colour = "cyan"}

PostsShown(N, texts, n) ==
    /\ Len(Spots(N, Cyan)) = n
    /\ \A k \in 1 .. n : PostShown(N, Spots(N, Cyan)[k], Parse(texts[k]))

LEMMA ThreadsShown ==
    ASSUME NEW texts \in Seq(Seq(Line))
    PROVE  /\ RenderPosts(texts) \in Seq(Wires)
           /\ PostsShown(Parsed(RenderPosts(texts)).lines, texts, Len(texts))
<1> DEFINE m == Len(texts)
<1>1. PICK f : Renders(f, texts)
  BY RendersUpTo
<1>2. /\ m \in Nat /\ \A n \in 1 .. m : texts[n] \in Seq(Line)
      /\ \A n \in 1 .. m : Parse(texts[n]) \in Seq(Lit)
  <2>1. m \in Nat /\ \A n \in 1 .. m : texts[n] \in Seq(Line)
    BY LenProperties
  <2>2. \A n \in 1 .. m : Parse(texts[n]) \in Seq(Lit)
    BY <2>1, LeftClosed, ParsedType DEF Parse
  <2>3. QED
    BY <2>1, <2>2
<1> HIDE DEF m
<1>3. /\ \A n \in 0 .. m : f[n] \in Seq(Wires)
      /\ f[0] = Top3 /\ RenderPosts(texts) = f[m] \o <<Text>>
      /\ \A n \in 1 .. m : f[n] = f[n - 1] \o RenderPost(texts[n])
  BY <1>1 DEF Renders, m
<1> DEFINE OK(n) == /\ Parsed(f[n]).colour \in {Default, "red"}
                    /\ PostsShown(Parsed(f[n]).lines, texts, n)
           T == {n \in Nat : n <= m => OK(n)}
<1>4. "red" # "cyan" /\ Default # "cyan"
  BY DefaultIsNone DEF Colours
<1>5. OK(0)
  <2> DEFINE a == Append(<<>>, Text)
             b == Append(a, Seqs)
             x == [line |-> Text, colour |-> Default]
             y == [line |-> Blank, colour |-> Default]
  <2>1. /\ Text \in Wires /\ Seqs \in Wires /\ Blank \in Wires
        /\ Text.kind = "text" /\ Seqs.kind = "seq" /\ Blank.kind = "blank"
        /\ <<>> \in Seq(Wires) /\ <<>> \in Seq(Lit) /\ Len(<<>>) = 0
        /\ Parsed(<<>>).lines = <<>> /\ Parsed(<<>>).colour = Default
    BY LineKinds, ParsedNone DEF Start
  <2>2. Top3 = Append(b, Blank) /\ a \in Seq(Wires) /\ b \in Seq(Wires)
    BY <2>1, Three DEF Top3
  <2>3. x \in Lit /\ Parsed(a).lines = Append(<<>>, x) /\ Parsed(a).colour = Default
    <3>1. Text.kind \notin {"allow", "seq", "c"}
      BY <2>1
    <3>2. /\ [line |-> Text, colour |-> Parsed(<<>>).colour] \in Lit
          /\ Parsed(a).lines =
               Append(Parsed(<<>>).lines, [line |-> Text, colour |-> Parsed(<<>>).colour])
          /\ Parsed(a).colour = Parsed(<<>>).colour
      BY <2>1, <3>1, LineMore
    <3>3. QED
      BY <2>1, <3>2
  <2> HIDE DEF a, x
  <2>4. Parsed(b).lines = Append(<<>>, x) /\ Parsed(b).colour = Default
    <3>1. Seqs.kind \in {"allow", "seq"}
      BY <2>1
    <3>2. Parsed(b).lines = Parsed(a).lines /\ Parsed(b).colour = Parsed(a).colour
      BY <2>1, <2>2, <3>1, LineMore
    <3>3. QED
      BY <2>3, <3>2
  <2> HIDE DEF b
  <2>5. /\ y \in Lit /\ Parsed(Top3).lines = Append(Append(<<>>, x), y)
        /\ Parsed(Top3).colour = Default
    <3>1. Blank.kind \notin {"allow", "seq", "c"}
      BY <2>1
    <3>2. /\ [line |-> Blank, colour |-> Parsed(b).colour] \in Lit
          /\ Parsed(Append(b, Blank)).lines =
               Append(Parsed(b).lines, [line |-> Blank, colour |-> Parsed(b).colour])
          /\ Parsed(Append(b, Blank)).colour = Parsed(b).colour
      BY <2>1, <2>2, <3>1, LineMore
    <3>3. QED
      BY <2>2, <2>4, <3>2
  <2>6. x \notin Cyan /\ y \notin Cyan
    BY <1>4 DEF Cyan, x
  <2> HIDE DEF y
  <2> DEFINE p == Append(<<>>, x)
  <2>7. p \in Seq(Lit)
    BY <2>1, <2>3
  <2>8. Spots(p, Cyan) = <<>>
    <3> DEFINE q == <<>>
    <3>1. q \in Seq(Lit) /\ Spots(q, Cyan) = <<>>
      BY <2>1, <2>3, SpotsMore
    <3> HIDE DEF q
    <3>2. Spots(Append(q, x), Cyan) = <<>>
      BY <2>3, <2>6, <3>1, SpotsMore
    <3>3. QED
      BY <3>2 DEF q
  <2> HIDE DEF p
  <2>9. Spots(Append(p, y), Cyan) = <<>>
    BY <2>5, <2>6, <2>7, <2>8, SpotsMore
  <2>10. Spots(Parsed(Top3).lines, Cyan) = <<>>
    BY <2>5, <2>9 DEF p
  <2>11. PostsShown(Parsed(Top3).lines, texts, 0)
    <3>1. 1 .. 0 = {} /\ Len(<<>>) = 0
      BY <2>1
    <3>2. QED
      BY <2>10, <3>1 DEF PostsShown
  <2>12. QED
    BY <1>3, <2>5, <2>11
<1>6. ASSUME NEW n \in Nat, n + 1 <= m, OK(n) PROVE OK(n + 1)
  <2> DEFINE s == f[n]
             L == Parsed(s).lines
             N == Parsed(f[n + 1]).lines
             l == Len(L)
             X == Spots(L, Cyan)
             Y == Spots(N, Cyan)
             post == texts[n + 1]
  <2>1. n + 1 \in 1 .. m /\ (n + 1) - 1 = n /\ n \in 0 .. m
    BY <1>2, <1>6
  <2>2. s \in Seq(Wires) /\ post \in Seq(Line) /\ f[n + 1] = s \o RenderPost(post)
    BY <1>2, <1>3, <2>1
  <2>3. /\ Parsed(f[n + 1]).colour \in {Default, "red"}
        /\ N \in Seq(Lit) /\ Longer(L, N) /\ l + 1 <= Len(N)
        /\ PostShown(N, l + 1, Parse(post))
        /\ \A i \in l + 2 .. Len(N) : N[i].colour # "cyan"
    <3> HIDE DEF s, post
    <3>1. QED
      BY <2>2, PostMore
  <2>4. L \in Seq(Lit) /\ l \in Nat /\ Len(N) \in Nat
    BY <2>2, <2>3, ParsedType, LenProperties
  <2>5. Len(X) = n /\ \A k \in 1 .. n : PostShown(L, X[k], Parse(texts[k]))
    BY <1>6 DEF PostsShown
  <2> DEFINE P == Append(L, Author)
  <2>6. N[l + 1] = Author /\ Author \in Lit /\ Author \in Cyan
    <3>1. l + 1 \in 1 .. Len(N)
      BY <2>3, <2>4
    <3>2. N[l + 1] = Author /\ N[l + 1] \in Lit
      BY <2>3, <3>1, LenProperties DEF PostShown
    <3>3. Author.colour = "cyan"
      BY DEF Author
    <3>4. QED
      BY <3>2, <3>3 DEF Cyan
  <2> HIDE DEF L, N, s, post
  <2>7. /\ P \in Seq(Lit) /\ Len(P) = l + 1 /\ P[l + 1] = Author
        /\ \A i \in 1 .. l : P[i] = L[i]
    BY <2>4, <2>6, AppendProperties
  <2>8. Spots(P, Cyan) = Append(X, l + 1) /\ X \in Seq(Nat)
    BY <2>4, <2>6, SpotsMore
  <2> HIDE DEF P
  <2>9. Longer(P, N)
    <3>1. \A i \in 1 .. l + 1 : i = l + 1 \/ i \in 1 .. l
      BY <2>4
    <3>2. QED
      BY <2>3, <2>6, <2>7, <3>1 DEF Longer
  <2>10. \A i \in Len(P) + 1 .. Len(N) : N[i] \notin Cyan
    <3>1. Len(P) + 1 = l + 2
      BY <2>4, <2>7
    <3>2. QED
      BY <2>3, <3>1 DEF Cyan
  <2>11. Y = Append(X, l + 1)
    BY <2>3, <2>7, <2>8, <2>9, <2>10, SpotsSame
  <2> HIDE DEF X, Y
  <2>12. /\ Len(Y) = n + 1 /\ Y[n + 1] = l + 1
         /\ \A k \in 1 .. n : Y[k] = X[k]
    <3>1. l + 1 \in Nat
      BY <2>4
    <3>2. QED
      BY <2>5, <2>8, <2>11, <3>1, AppendProperties
  <2>13. ASSUME NEW k \in 1 .. n + 1 PROVE PostShown(N, Y[k], Parse(texts[k]))
    <3>1. CASE k = n + 1
      BY <2>3, <2>12, <3>1 DEF post
    <3>2. CASE k \in 1 .. n
      <4>1. k \in 1 .. m
        BY <1>2, <1>6, <3>2
      <4>2. Parse(texts[k]) \in Seq(Lit) /\ PostShown(L, X[k], Parse(texts[k]))
        BY <1>2, <2>5, <3>2, <4>1
      <4>3. PostShown(N, X[k], Parse(texts[k]))
        BY <2>3, <2>4, <4>2, ShownLonger
      <4>4. QED
        BY <2>12, <3>2, <4>3
    <3>3. QED
      BY <3>1, <3>2
  <2>14. PostsShown(N, texts, n + 1)
    BY <2>12, <2>13 DEF PostsShown, Y
  <2>15. QED
    BY <2>3, <2>14 DEF N
<1>7. T = Nat
  <2>1. 0 \in T
    BY <1>5
  <2>2. ASSUME NEW n \in T PROVE n + 1 \in T
    <3> HIDE DEF OK
    <3> SUFFICES ASSUME n + 1 <= m PROVE OK(n + 1)
      OBVIOUS
    <3>1. n \in Nat /\ n <= m
      BY <1>2
    <3>2. OK(n)
      BY <3>1
    <3>3. QED
      BY <1>6, <3>1, <3>2
  <2>3. T \subseteq Nat
    OBVIOUS
  <2> HIDE DEF T
  <2>4. QED
    BY <2>1, <2>2, <2>3, SetInduction
<1>8. OK(m)
  BY <1>2, <1>7
<1> DEFINE s == f[m]
           L == Parsed(s).lines
           N == Parsed(s \o <<Text>>).lines
           l == Len(L)
<1>9. s \in Seq(Wires) /\ Parsed(s).colour # "cyan" /\ PostsShown(L, texts, m)
  <2>1. m \in 0 .. m
    BY <1>2
  <2>2. QED
    BY <1>3, <1>4, <1>8, <2>1
<1> HIDE DEF s
<1>10. /\ s \o <<Text>> \in Seq(Wires) /\ N \in Seq(Lit) /\ Len(N) = l + 1
       /\ \A i \in 1 .. l : N[i] = L[i]
       /\ N[l + 1].colour # "cyan"
  <2>1. /\ s \o <<Text>> \in Seq(Wires) /\ N \in Seq(Lit) /\ Len(N) = l + 1
        /\ \A i \in 1 .. l : N[i] = L[i]
        /\ N[l + 1] = [line |-> Text, colour |-> Parsed(s).colour]
    BY <1>9, LastLine
  <2>2. [line |-> Text, colour |-> Parsed(s).colour].colour # "cyan"
    BY <1>9
  <2>3. QED
    BY <2>1, <2>2
<1>11. L \in Seq(Lit) /\ l \in Nat
  BY <1>9, ParsedType
<1> HIDE DEF L, N
<1>12. Longer(L, N)
  BY <1>10, <1>11 DEF Longer
<1>13. \A i \in l + 1 .. Len(N) : N[i] \notin Cyan
  BY <1>10, <1>11 DEF Cyan
<1>14. Spots(N, Cyan) = Spots(L, Cyan)
  BY <1>10, <1>11, <1>12, <1>13, SpotsSame
<1>15. \A k \in 1 .. m : PostShown(N, Spots(L, Cyan)[k], Parse(texts[k]))
  <2> TAKE k \in 1 .. m
  <2>1. Parse(texts[k]) \in Seq(Lit) /\ PostShown(L, Spots(L, Cyan)[k], Parse(texts[k]))
    BY <1>2, <1>9 DEF PostsShown
  <2>2. QED
    BY <1>10, <1>11, <1>12, <2>1, ShownLonger
<1>16. PostsShown(N, texts, m)
  BY <1>9, <1>14, <1>15 DEF PostsShown
<1>17. QED
  BY <1>3, <1>10, <1>16 DEF s, N, m

\* What is shown is what the text on the wire is parsed to.
MarkInv ==
    /\ sort \in {"page", "motd", "pinned", "thread"}
    /\ parts \in Seq(Seq(Line)) /\ parts # <<>>
    /\ display.open => /\ display.links = ExtractLinks(Wire)
                       /\ display.lines = Parse(Wire)

LEMMA MarkStart == MarkInit => MarkInv
<1> SUFFICES ASSUME MarkInit PROVE MarkInv
  OBVIOUS
<1>1. <<>> \in Seq(Line)
  BY EmptySeq
<1> DEFINE B == Seq(Line)
<1>2. \A x \in B : <<x>> \in Seq(B) /\ <<x>> # <<>>
  <2> HIDE DEF B
  <2>1. QED
    OBVIOUS
<1>3. <<<<>>>> \in Seq(Seq(Line)) /\ <<<<>>>> # <<>>
  BY <1>1, <1>2
<1>4. ~display.open
  BY DEF MarkInit, Unseen
<1>5. QED
  BY <1>3, <1>4 DEF MarkInit, MarkInv

LEMMA MarkStep == MarkInv /\ [MarkNext]_markVars => MarkInv'
<1> SUFFICES ASSUME MarkInv, [MarkNext]_markVars PROVE MarkInv'
  OBVIOUS
<1>1. CASE UNCHANGED markVars
  BY <1>1 DEF MarkInv, markVars, Wire
<1>2. ASSUME NEW l \in Line, WriteLine(l) PROVE MarkInv'
  <2> DEFINE n == Len(parts)
             B == Seq(Line)
  <2>1. parts \in Seq(B) /\ n \in 1 .. n /\ parts[n] \in B
    <3>1. parts \in Seq(B) /\ parts # <<>>
      BY DEF MarkInv
    <3> HIDE DEF B
    <3>2. n \in Nat \ {0}
      BY <3>1, EmptySeq
    <3>3. n \in 1 .. n
      BY <3>2
    <3>4. QED
      BY <3>1, <3>3, ElementOfSeq
  <2>2. Append(parts[n], l) \in B
    BY <2>1
  <2>3. parts' = [parts EXCEPT ![n] = Append(parts[n], l)]
    BY <1>2 DEF WriteLine
  <2> DEFINE x == Append(parts[n], l)
  <2> HIDE DEF B, n, x
  <2>4. parts' = [parts EXCEPT ![n] = x] /\ x \in B /\ n \in 1 .. Len(parts)
    BY <2>1, <2>2, <2>3 DEF x, n
  <2>5. parts' \in Seq(B) /\ Len(parts') = Len(parts)
    BY <2>1, <2>4, ExceptSeq
  <2>6. parts' # <<>>
    <3>1. Len(parts) # 0
      BY <2>4
    <3>2. QED
      BY <2>5, <3>1
  <2>7. sort' = sort /\ ~display'.open
    BY <1>2 DEF WriteLine
  <2>8. QED
    BY <2>5, <2>6, <2>7 DEF MarkInv, B
<1>3. CASE NextPost
  <2> DEFINE B == Seq(Line)
             e == <<>>
  <2>1. parts \in Seq(B) /\ e \in B /\ parts' = Append(parts, e)
    BY <1>3, EmptySeq DEF NextPost, MarkInv
  <2> HIDE DEF B, e
  <2>2. parts' \in Seq(B) /\ parts' # <<>>
    BY <2>1, AppendProperties
  <2>3. sort' = sort /\ ~display'.open
    BY <1>3 DEF NextPost
  <2>4. QED
    BY <2>2, <2>3 DEF MarkInv, B
<1>4. CASE Read
  <2>1. UNCHANGED <<sort, parts>> /\ Wire' = Wire
    BY <1>4 DEF Read, Wire
  <2>2. display'.links = ExtractLinks(Wire) /\ display'.lines = Parse(Wire)
    BY <1>4 DEF Read
  <2>3. QED
    BY <2>1, <2>2 DEF MarkInv
<1>5. QED
  BY <1>1, <1>2, <1>3, <1>4 DEF MarkNext

\* A text is read as it was written, whatever was written.
LEMMA PagesAsWritten ==
    ASSUME NEW text \in Seq(Line)
    PROVE  Parse(StripServerDirectives(text)) =
             [k \in DOMAIN Plain(text) |->
                [line |-> text[Plain(text)[k]],
                 colour |-> ColourAbove(text, Plain(text)[k])]]
<1> DEFINE L == Parsed(text).lines
           p == Plain(text)
           F == [k \in DOMAIN p |-> [line |-> text[p[k]], colour |-> ColourAbove(text, p[k])]]
<1>1. text \in Seq(Wires)
  BY LeftClosed
<1>2. Parse(StripServerDirectives(text)) = L
  BY <1>1, StrippedIsTheSame DEF Parse
<1>3. /\ p \in Seq(Nat) /\ Len(p) = Len(L)
      /\ \A k \in 1 .. Len(p) :
           L[k] = [line |-> text[p[k]], colour |-> ColourAbove(text, p[k])]
  BY <1>1, LinesAsWritten DEF AsWritten
<1>4. L \in Seq(Lit)
  BY <1>1, ParsedType
<1> HIDE DEF L, p
<1>5. DOMAIN p = 1 .. Len(p) /\ L \in [1 .. Len(L) -> Lit]
  BY <1>3, <1>4, LenProperties
<1>6. DOMAIN F = 1 .. Len(L) /\ \A k \in 1 .. Len(L) : F[k] = L[k]
  BY <1>3, <1>5
<1>7. F = [k \in 1 .. Len(L) |-> L[k]] /\ L = [k \in 1 .. Len(L) |-> L[k]]
  BY <1>3, <1>5
<1>8. QED
  BY <1>2, <1>7 DEF L, p

LEMMA WireType == ASSUME MarkInv PROVE Wire \in Seq(Wires) /\ parts[1] \in Seq(Line)
<1> DEFINE B == Seq(Line)
<1>1. parts \in Seq(B) /\ parts # <<>>
  BY DEF MarkInv
<1>2. parts[1] \in B
  <2> HIDE DEF B
  <2>1. 1 \in 1 .. Len(parts)
    BY <1>1, EmptySeq
  <2>2. QED
    BY <1>1, <2>1, ElementOfSeq
<1>3. CASE sort = "page"
  BY <1>2, <1>3, LeftClosed, StrippedIsTheSame DEF Wire
<1>4. CASE sort = "motd"
  BY <1>2, <1>4, PlainBelowNotice DEF Wire
<1>5. CASE sort = "pinned"
  BY <1>2, <1>5, PlainBelowNotice DEF Wire
<1>6. CASE sort = "thread"
  BY <1>1, <1>6, ThreadsShown DEF Wire
<1>7. QED
  BY <1>2, <1>3, <1>4, <1>5, <1>6 DEF MarkInv

\* For texts of any length and threads of any number of posts, what is shown is
\* what was written, in the colours it was written in.
THEOREM TextsAreShown == Spec => []ShownAsWritten
<1>1. MarkInv => ShownAsWritten
  <2> SUFFICES ASSUME MarkInv, display.open PROVE ShownAsWritten
    BY DEF ShownAsWritten
  <2> DEFINE L == display.lines
             P == display.links
  <2>1. /\ L = Parsed(Wire).lines /\ P = ExtractLinks(Wire)
        /\ Wire \in Seq(Wires) /\ parts[1] \in Seq(Line)
    BY WireType DEF MarkInv, Parse
  <2>2. ASSUME sort = "page"
        PROVE  L = [k \in DOMAIN Plain(parts[1]) |->
                      [line |-> parts[1][Plain(parts[1])[k]],
                       colour |-> ColourAbove(parts[1], Plain(parts[1])[k])]]
    <3>1. Wire = StripServerDirectives(parts[1])
      BY <2>2 DEF Wire
    <3>2. QED
      BY <2>1, <3>1, PagesAsWritten DEF Parse
  <2> DEFINE X == AtPlaces(Wire, {i \in DOMAIN Wire : Wire[i].kind = "link"})
             LinkLines(M) == AtPlaces(M, {i \in DOMAIN M : M[i].line.kind = "link"})
             Y == LinkLines(L)
  <2>3. P = [k \in DOMAIN Y |-> Y[k].line.path]
    <3>1. /\ X \in Seq(Wires) /\ Y \in Seq(Lit) /\ Len(X) = Len(Y)
          /\ \A k \in 1 .. Len(X) : Y[k].line = X[k]
      <4>1. LinksAgree(Wire)
        BY <2>1, LinksAreThose
      <4> DEFINE Z == LinkLines(Parsed(Wire).lines)
      <4>2. /\ X \in Seq(Wires) /\ Z \in Seq(Lit) /\ Len(X) = Len(Z)
            /\ \A k \in 1 .. Len(X) : Z[k].line = X[k]
        BY <4>1 DEF LinksAgree
      <4> HIDE DEF LinkLines, X
      <4>3. Y = Z
        BY <2>1
      <4>4. QED
        BY <4>2, <4>3
    <3>2. P = [i \in DOMAIN X |-> X[i].path]
      BY <2>1 DEF ExtractLinks
    <3> HIDE DEF X, Y, P
    <3>3. DOMAIN X = 1 .. Len(X) /\ DOMAIN Y = 1 .. Len(X)
      BY <3>1, LenProperties
    <3>4. QED
      BY <3>1, <3>2, <3>3
  <2>4. ASSUME sort \in {"motd", "pinned"} PROVE Last(L).colour = Default
    <3>1. Wire = RenderIndex(parts[1]) \/ Wire = RenderPinned(parts[1])
      BY <2>4 DEF Wire
    <3>2. QED
      BY <2>1, <3>1, PlainBelowNotice
  <2>5. ASSUME sort = "thread"
        PROVE  /\ Len(Heads(L)) = Len(parts)
               /\ \A k \in DOMAIN parts :
                    SubSeq(L, Heads(L)[k], Heads(L)[k] + Len(Parse(parts[k]))) =
                      <<[line |-> Text, colour |-> "cyan"]>> \o Parse(parts[k])
    <3>1. Wire = RenderPosts(parts) /\ parts \in Seq(Seq(Line))
      BY <2>5 DEF Wire, MarkInv
    <3>2. PostsShown(L, parts, Len(parts)) /\ L \in Seq(Lit)
      BY <2>1, <3>1, ThreadsShown, ParsedType
    <3> HIDE DEF L
    <3>3. Heads(L) = Spots(L, Cyan)
      <4>1. \A i \in DOMAIN L : L[i] \in Lit
        BY <3>2, LenProperties
      <4>2. {i \in DOMAIN L : L[i].colour = "cyan"} = {i \in DOMAIN L : L[i] \in Cyan}
        BY <4>1 DEF Cyan
      <4>3. QED
        BY <4>2 DEF Heads, Spots
    <3> DEFINE B == Seq(Line)
    <3>4. ASSUME NEW k \in DOMAIN parts
          PROVE  SubSeq(L, Heads(L)[k], Heads(L)[k] + Len(Parse(parts[k]))) =
                   <<Author>> \o Parse(parts[k])
      <4>1. k \in 1 .. Len(parts) /\ parts[k] \in B
        <5>1. parts \in Seq(B)
          BY <3>1
        <5> HIDE DEF B
        <5>2. k \in 1 .. Len(parts)
          BY <5>1, LenProperties
        <5>3. QED
          BY <5>1, <5>2, ElementOfSeq
      <4>2. Parse(parts[k]) \in Seq(Lit)
        BY <4>1, LeftClosed, ParsedType DEF Parse
      <4>3. PostShown(L, Heads(L)[k], Parse(parts[k]))
        BY <3>2, <3>3, <4>1 DEF PostsShown
      <4>4. QED
        BY <3>2, <4>2, <4>3, ShownIsPart
    <3>5. QED
      BY <3>2, <3>3, <3>4 DEF PostsShown, Author
  <2>6. QED
    BY <2>2, <2>3, <2>4, <2>5 DEF ShownAsWritten
<1>2. Init => MarkInv
  BY MarkStart DEF Init
<1>3. MarkInv /\ [Next]_vars => MarkInv'
  BY StepOfEach, MarkStep
<1>4. QED
  BY <1>1, <1>2, <1>3, PTL DEF Spec
=============================================================================
