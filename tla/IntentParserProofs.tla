---- MODULE IntentParserProofs ----
(***************************************************************************)
(* What the strategies find in a text of any length, for every table of    *)
(* aliases and every order of the fuzzy tools. Their loops are recursive   *)
(* functions: what they compute is proved by induction on how much of the  *)
(* text has been read.                                                     *)
(***************************************************************************)
EXTENDS MCIntentParser, SequenceTheorems, WellFoundedInduction, TLAPS

----
(* Induction over naturals, as statements about sets of them.              *)

LEMMA LeastNatural ==
  ASSUME NEW S \in SUBSET Nat, S # {} PROVE \E m \in S : \A n \in S : m <= n
<1>1. PICK m \in S : \A n \in S : ~(<<n, m>> \in OpToRel(<, Nat))
  BY NatLessThanWellFounded, WFMin, Zenon
<1>2. ASSUME NEW n \in S PROVE m <= n
  <2>1. n \in Nat /\ m \in Nat
    OBVIOUS
  <2>2. n < m => <<n, m>> \in OpToRel(<, Nat)
    BY <2>1 DEF OpToRel
  <2>3. ~(<<n, m>> \in OpToRel(<, Nat))
    BY <1>1
  <2>4. ~(n < m)
    BY <2>2, <2>3
  <2> QED BY <2>1, <2>4
<1> QED BY <1>2

LEMMA NextIsFurther ==
  \A m \in Nat : \A k \in {m, m + 1} : k \in Nat /\ m <= k /\ \A i \in 1..m : i \in 1..k
OBVIOUS

LEMMA SeqFacts ==
  ASSUME NEW S, NEW s \in Seq(S)
  PROVE  Len(s) \in Nat /\ DOMAIN s = 1..Len(s) /\ \A i \in 1..Len(s) : s[i] \in S
OBVIOUS

LEMMA NothingFound == DOMAIN << >> = {}
<1>1. << >> \in Seq({}) /\ Len(<< >>) = 0 /\ 1..0 = {}
  OBVIOUS
<1> QED BY <1>1, SeqFacts

\* A sequence grows by the element appended, and keeps the others.
LEMMA Appended ==
  ASSUME NEW S, NEW s \in Seq(S), NEW e \in S
  PROVE  /\ Append(s, e) \in Seq(S) /\ Len(Append(s, e)) = Len(s) + 1
         /\ DOMAIN Append(s, e) = 1..Len(s)+1
         /\ \A k \in 1..Len(s) : Append(s, e)[k] = s[k]
         /\ Append(s, e)[Len(s)+1] = e
OBVIOUS

LEMMA Induction ==
  ASSUME NEW S \in SUBSET Nat, NEW n \in Nat, 0 \in S,
         \A k \in 0..n-1 : k \in S => k + 1 \in S
  PROVE  0..n \subseteq S
<1> SUFFICES ASSUME ~(0..n \subseteq S) PROVE FALSE
  OBVIOUS
<1> DEFINE missed == (0..n) \ S
<1>1. missed \in SUBSET Nat /\ missed # {}
  OBVIOUS
<1>2. PICK m \in missed : \A k \in missed : m <= k
  BY <1>1, LeastNatural
<1>3. m \in Nat /\ m <= n /\ m \notin S /\ m # 0
  BY <1>2
<1>4. m - 1 \in 0..n-1 /\ (m - 1) + 1 = m /\ m - 1 \in 0..n /\ ~(m <= m - 1)
  BY <1>3
<1>5. m - 1 \in S
  BY <1>2, <1>4
<1> QED BY <1>3, <1>4, <1>5

----
(* The loop.                                                               *)

\* What has been found when the next offer has been looked at.
Read(found, offers, places, i) ==
  IF i \in places THEN AddIntent(found, offers[i]) ELSE found

\* found[i] is what has been found after i of the offers.
Reads(offers, places, n, found) ==
  /\ DOMAIN found = 0..n /\ found = [i \in 0..n |-> found[i]]
  /\ found[0] = << >>
  /\ \A i \in 1..n : found[i] = Read(found[i-1], offers, places, i)

LEMMA CollectReads ==
  ASSUME NEW offers, NEW places, Len(offers) \in Nat
  PROVE  \E found : /\ Reads(offers, places, Len(offers), found)
                    /\ Collect(offers, places) = found[Len(offers)]
<1> DEFINE n == Len(offers)
           S == {k \in Nat : \E found : Reads(offers, places, k, found)}
           Body(found) == [i \in 0..n |->
             IF i = 0 THEN << >>
             ELSE IF i \in places THEN AddIntent(found[i-1], offers[i]) ELSE found[i-1]]
<1>1. 0 \in S
  <2>1. Reads(offers, places, 0, [i \in 0..0 |-> << >>])
    BY DEF Reads
  <2> QED BY <2>1
<1>2. ASSUME NEW k \in S PROVE k + 1 \in S
  <2>1. PICK found : Reads(offers, places, k, found)
    OBVIOUS
  <2> DEFINE longer == [i \in 0..k+1 |->
               IF i = k + 1 THEN Read(found[k], offers, places, k + 1) ELSE found[i]]
  <2>2. \A i \in 0..k : i \in 0..k+1 /\ i # k + 1 /\ longer[i] = found[i]
    OBVIOUS
  <2>3. longer[k+1] = Read(found[k], offers, places, k + 1)
    OBVIOUS
  <2>4. ASSUME NEW i \in 1..k+1 PROVE longer[i] = Read(longer[i-1], offers, places, i)
    <3>1. i - 1 \in 0..k
      OBVIOUS
    <3>2. CASE i = k + 1
      <4>1. longer[i-1] = found[k]
        BY <2>2, <3>1, <3>2
      <4> QED BY <2>3, <3>2, <4>1
    <3>3. CASE i # k + 1
      <4>1. i \in 1..k /\ i \in 0..k
        BY <3>3
      <4> HIDE DEF longer
      <4> QED BY <2>1, <2>2, <3>1, <4>1 DEF Reads
    <3> QED BY <3>2, <3>3
  <2>5. longer[0] = << >>
    BY <2>1, <2>2 DEF Reads
  <2>6. Reads(offers, places, k + 1, longer)
    BY <2>4, <2>5 DEF Reads
  <2> QED BY <2>6
<1>3. n \in S
  <2> HIDE DEF S
  <2>1. S \in SUBSET Nat
    BY DEF S
  <2>2. 0..n \subseteq S
    BY <1>1, <1>2, <2>1, Induction
  <2> QED BY <2>2
<1>4. \E found : found = Body(found)
  <2>1. PICK found : Reads(offers, places, n, found)
    BY <1>3
  <2>2. \A i \in 1..n : i # 0
    OBVIOUS
  <2>3. ASSUME NEW i \in 0..n PROVE found[i] = Body(found)[i]
    <3>1. CASE i = 0
      BY <2>1, <3>1 DEF Reads
    <3>2. CASE i # 0
      <4>1. i \in 1..n
        BY <3>2
      <4> QED BY <2>1, <3>2, <4>1 DEF Reads, Read
    <3> QED BY <3>1, <3>2
  <2>4. found = [i \in 0..n |-> found[i]]
    BY <2>1 DEF Reads
  <2>5. found = Body(found)
    BY <2>3, <2>4
  <2> QED BY <2>5
<1> DEFINE chosen == CHOOSE found : found = Body(found)
<1>5. chosen = Body(chosen)
  BY <1>4
<1>6. Collect(offers, places) = chosen[n]
  BY DEF Collect
<1>7. Reads(offers, places, n, chosen)
  <2> HIDE DEF chosen
  <2>1. \A i \in 1..n : i \in 0..n /\ i # 0
    OBVIOUS
  <2>2. chosen[0] = << >> /\ \A i \in 1..n : chosen[i] = Read(chosen[i-1], offers, places, i)
    BY <1>5, <2>1 DEF Read
  <2> QED BY <1>5, <2>2 DEF Reads
<1> QED BY <1>6, <1>7

----
(* What a loop finds: the first offers of their tools, in order.           *)

\* An offer nobody made before, up to the k-th.
Firsts(offers, places, k) ==
  {i \in places : /\ i <= k /\ offers[i].tool # ""
                  /\ \A j \in places : j < i => offers[j].tool # offers[i].tool}

\* The offers that are made are those of some loop.
Offers(offers, places) ==
  /\ Len(offers) \in Nat /\ DOMAIN offers = 1..Len(offers)
  /\ places \subseteq 1..Len(offers)

Offered(offers) == {offers[i] : i \in DOMAIN offers}

\* place shows where each of the intents found was offered.
Shows(place, intents, offers, firsts) ==
  /\ place \in [1..Len(intents) -> firsts]
  /\ \A a, b \in 1..Len(intents) : a < b => place[a] < place[b]
  /\ \A c \in firsts : \E a \in 1..Len(intents) : place[a] = c
  /\ \A a \in 1..Len(intents) : intents[a] = offers[place[a]]

Sifted(intents, offers, places, k) ==
  /\ intents \in Seq(Offered(offers))
  /\ \E place : Shows(place, intents, offers, Firsts(offers, places, k))

LEMMA LaterIsNotBefore ==
  \A a, b \in Nat : (a < b => ~(b <= a)) /\ (~(a < b) /\ ~(b < a) => a = b)
OBVIOUS

LEMMA IntervalIsNatural == \A n \in Nat : \A i \in 1..n : i \in Nat
OBVIOUS

LEMMA PlacesAreNatural ==
  ASSUME NEW offers, NEW places, Offers(offers, places), NEW i \in places
  PROVE  i \in Nat /\ 1 <= i /\ i <= Len(offers) /\ i \in 1..Len(offers)
<1>1. Len(offers) \in Nat /\ i \in 1..Len(offers)
  BY DEF Offers
<1> QED BY <1>1

\* A tool that was offered was offered for the first time.
LEMMA FirstExists ==
  ASSUME NEW offers, NEW places, Offers(offers, places), NEW i \in places,
         offers[i].tool # ""
  PROVE  \E m \in Firsts(offers, places, i) : offers[m].tool = offers[i].tool
<1> DEFINE same == {j \in places : offers[j].tool = offers[i].tool}
<1>3. \A j \in places : j \in Nat
  BY PlacesAreNatural
<1>1. same \in SUBSET Nat /\ same # {} /\ i \in same
  BY <1>3
<1>2. PICK m \in same : \A j \in same : m <= j
  BY <1>1, LeastNatural
<1>4. m \in places /\ m \in Nat /\ m <= i /\ offers[m].tool = offers[i].tool
  BY <1>1, <1>2, <1>3
<1>5. ASSUME NEW j \in places, j < m PROVE offers[j].tool # offers[m].tool
  <2>0. j \in Nat /\ m \in Nat
    BY <1>3, <1>4
  <2>1. ~(m <= j)
    BY <1>5, <2>0, LaterIsNotBefore, Zenon
  <2>2. j \notin same
    BY <1>2, <2>1
  <2> QED BY <1>4, <2>2
<1> QED BY <1>4, <1>5 DEF Firsts

LEMMA SiftStep ==
  ASSUME NEW offers, NEW places, Offers(offers, places),
         NEW k \in 0..Len(offers)-1, NEW intents, Sifted(intents, offers, places, k)
  PROVE  Sifted(Read(intents, offers, places, k + 1), offers, places, k + 1)
<1> DEFINE F == Firsts(offers, places, k)
           G == Firsts(offers, places, k + 1)
           n == Len(intents)
           o == offers[k + 1]
<1>0. /\ Len(offers) \in Nat /\ k \in Nat /\ k + 1 \in 1..Len(offers)
      /\ \A i \in places : i \in Nat /\ i \in 1..Len(offers)
  <2>1. Len(offers) \in Nat
    BY DEF Offers
  <2> QED BY <2>1, PlacesAreNatural
<1>6. \A i \in places : (i <= k + 1 <=> i <= k \/ i = k + 1) /\ (i < k + 1 <=> i <= k)
  BY <1>0
<1>7. /\ F = {i \in places : i <= k /\ offers[i].tool # ""
                 /\ \A j \in places : j < i => offers[j].tool # offers[i].tool}
      /\ G = {i \in places : i <= k + 1 /\ offers[i].tool # ""
                 /\ \A j \in places : j < i => offers[j].tool # offers[i].tool}
  BY DEF Firsts
<1> HIDE DEF F, G
<1>1. PICK place : Shows(place, intents, offers, F)
  BY DEF Sifted, F
<1>2. intents \in Seq(Offered(offers)) /\ n \in Nat /\ DOMAIN intents = 1..n
  BY DEF Sifted
<1>3. \A i \in F : i \in Nat /\ i <= k /\ i \in places /\ offers[i].tool # ""
  BY <1>0, <1>7
<1>4. CASE k + 1 \in G
  <2>1. G = F \cup {k + 1}
    <3>1. \A i : i \in G => i \in F \/ i = k + 1
      BY <1>6, <1>7, Zenon
    <3>2. \A i : i \in F => i \in G
      BY <1>6, <1>7, Zenon
    <3> QED BY <1>4, <3>1, <3>2
  <2>2. k + 1 \in places /\ o.tool # "" /\ \A j \in places : j < k + 1 => offers[j].tool # o.tool
    BY <1>4, <1>7
  <2>3. ~intentExists(intents, o.tool)
    <3> SUFFICES ASSUME NEW a \in 1..n, intents[a].tool = o.tool PROVE FALSE
      BY <1>2 DEF intentExists
    <3>1. place[a] \in F /\ intents[a] = offers[place[a]]
      BY <1>1 DEF Shows
    <3>2. place[a] \in places /\ place[a] < k + 1
      <4>1. place[a] \in places /\ place[a] <= k
        BY <1>3, <3>1
      <4> QED BY <1>6, <4>1
    <3> QED BY <2>2, <3>1, <3>2
  <2> DEFINE longer == Append(intents, o)
             further == [a \in 1..n+1 |-> IF a = n + 1 THEN k + 1 ELSE place[a]]
  <2>4. Read(intents, offers, places, k + 1) = longer
    BY <2>2, <2>3 DEF Read, AddIntent
  <2>5. o \in Offered(offers)
    BY <1>0 DEF Offered, Offers
  <2>6. /\ longer \in Seq(Offered(offers)) /\ Len(longer) = n + 1
        /\ \A a \in 1..n : longer[a] = intents[a]
        /\ longer[n+1] = o
    BY <1>2, <2>5
  <2>7. Shows(further, longer, offers, G)
    <3>1. \A a \in 1..n : a \in 1..n+1 /\ a # n + 1 /\ further[a] = place[a] /\ place[a] \in F
      BY <1>1, <1>2 DEF Shows
    <3>2. further[n+1] = k + 1
      BY <1>2
    <3>3. \A a \in 1..n+1 : a \in 1..n \/ a = n + 1
      BY <1>2
    <3>a. further = [a \in 1..n+1 |-> further[a]]
      OBVIOUS
    <3> HIDE DEF further, longer
    <3>4. further \in [1..n+1 -> G]
      <4>1. \A a \in 1..n+1 : further[a] \in G
        BY <2>1, <3>1, <3>2, <3>3
      <4> QED BY <3>a, <4>1
    <3>5. ASSUME NEW a \in 1..n+1, NEW b \in 1..n+1, a < b PROVE further[a] < further[b]
      <4>1. a \in 1..n
        BY <1>2, <3>5
      <4>2. CASE b \in 1..n
        BY <1>1, <3>1, <3>5, <4>1, <4>2 DEF Shows
      <4>3. CASE b = n + 1
        <5>1. place[a] \in Nat /\ place[a] <= k
          BY <1>3, <3>1, <4>1
        <5> QED BY <1>0, <3>1, <3>2, <4>1, <4>3, <5>1
      <4> QED BY <3>3, <4>2, <4>3
    <3>6. ASSUME NEW c \in G PROVE \E a \in 1..n+1 : further[a] = c
      <4>1. CASE c \in F
        <5>1. PICK a \in 1..n : place[a] = c
          BY <1>1, <4>1 DEF Shows
        <5> QED BY <3>1, <5>1
      <4>2. CASE c = k + 1
        <5>1. n + 1 \in 1..n+1
          BY <1>2
        <5> QED BY <3>2, <4>2, <5>1
      <4> QED BY <2>1, <4>1, <4>2
    <3>7. ASSUME NEW a \in 1..n+1 PROVE longer[a] = offers[further[a]]
      <4>1. CASE a \in 1..n
        BY <1>1, <2>6, <3>1, <4>1 DEF Shows
      <4>2. CASE a = n + 1
        BY <2>6, <3>2, <4>2
      <4> QED BY <3>3, <4>1, <4>2
    <3> QED BY <2>6, <3>4, <3>5, <3>6, <3>7 DEF Shows
  <2> QED BY <2>4, <2>6, <2>7 DEF Sifted, G
<1>5. CASE k + 1 \notin G
  <2>1. G = F
    <3>1. \A i : i \in G => i \in F
      BY <1>5, <1>6, <1>7, Zenon
    <3>2. \A i : i \in F => i \in G
      BY <1>6, <1>7, Zenon
    <3> QED BY <3>1, <3>2
  <2>2. Read(intents, offers, places, k + 1) = intents
    <3>1. CASE k + 1 \notin places \/ o.tool = ""
      BY <3>1 DEF Read, AddIntent
    <3>2. CASE k + 1 \in places /\ o.tool # ""
      <4>1. PICK m \in G : offers[m].tool = o.tool
        BY <3>2, FirstExists DEF G
      <4>2. PICK a \in 1..n : place[a] = m
        BY <1>1, <2>1, <4>1 DEF Shows
      <4>3. intents[a] = offers[m]
        BY <1>1, <4>2 DEF Shows
      <4>4. intentExists(intents, o.tool)
        BY <1>2, <4>1, <4>3 DEF intentExists
      <4> QED BY <4>4 DEF Read, AddIntent
    <3> QED BY <3>1, <3>2
  <2> QED BY <1>1, <1>2, <2>1, <2>2 DEF Sifted, G
<1> QED BY <1>4, <1>5

\* A loop finds the first offers of their tools.
LEMMA CollectSifts ==
  ASSUME NEW offers, NEW places, Offers(offers, places)
  PROVE  Sifted(Collect(offers, places), offers, places, Len(offers))
<1> DEFINE n == Len(offers)
<1>1. PICK found : Reads(offers, places, n, found) /\ Collect(offers, places) = found[n]
  BY CollectReads DEF Offers
<1> DEFINE S == {k \in Nat : k <= n => Sifted(found[k], offers, places, k)}
<1>2. 0 \in S
  <2>1. found[0] = << >>
    BY <1>1 DEF Reads
  <2>2. Firsts(offers, places, 0) = {}
    <3>1. \A i \in places : ~(i <= 0)
      BY PlacesAreNatural
    <3> QED BY <3>1 DEF Firsts
  <2>3. << >> \in Seq(Offered(offers)) /\ Len(<< >>) = 0 /\ 1..0 = {}
    OBVIOUS
  <2>4. Shows([a \in 1..0 |-> 0], << >>, offers, {})
    BY <2>3 DEF Shows
  <2> QED BY <2>1, <2>2, <2>3, <2>4 DEF Sifted
<1>3. ASSUME NEW k \in 0..n-1, k \in S PROVE k + 1 \in S
  <2>1. n \in Nat /\ k \in Nat /\ k <= n /\ k + 1 \in 1..n
    BY DEF Offers
  <2>2. Sifted(found[k], offers, places, k)
    BY <1>3, <2>1
  <2>3. found[k+1] = Read(found[k], offers, places, k + 1)
    <3>1. \A i \in 1..n : found[i] = Read(found[i-1], offers, places, i)
      BY <1>1 DEF Reads
    <3>2. found[k+1] = Read(found[(k+1)-1], offers, places, k + 1)
      BY <2>1, <3>1
    <3>3. (k+1)-1 = k
      BY <2>1
    <3> QED BY <3>2, <3>3
  <2>4. Sifted(Read(found[k], offers, places, k + 1), offers, places, k + 1)
    BY <2>2, SiftStep
  <2>5. Sifted(found[k+1], offers, places, k + 1)
    BY <2>3, <2>4
  <2> QED BY <2>1, <2>5
<1>4. n \in S
  <2> HIDE DEF S
  <2>1. n \in Nat /\ n \in 0..n
    BY DEF Offers
  <2>2. S \in SUBSET Nat
    BY DEF S
  <2>3. 0..n \subseteq S
    BY <1>2, <1>3, <2>1, <2>2, Induction
  <2> QED BY <2>1, <2>3
<1>5. n \in Nat /\ n <= n
  BY DEF Offers
<1> QED BY <1>1, <1>4, <1>5

----
(* What the strategies read.                                               *)

\* A text of any length.
Typed(t) ==
  /\ t.form \in Forms /\ t.calls \in Seq(Calls)
  /\ t.prose \in [ToSet(FuzzyOrder) -> Matches]

TextInv == <<strategy, fallback>> \in Pairs /\ Typed(text)

LEMMA TextsTyped == Spec => []TextInv
<1>1. Init => TextInv
  <2> SUFFICES ASSUME Init PROVE TextInv
    OBVIOUS
  <2>1. <<strategy, fallback>> \in Pairs
    <3>1. PICK p \in Pairs : strategy = p[1] /\ fallback = p[2]
      BY DEF Init
    <3>2. p = <<p[1], p[2]>>
      <4>1. \A a, b : <<a, b>>[1] = a /\ <<a, b>>[2] = b
        OBVIOUS
      <4>2. \E a, b : p = <<a, b>>
        BY Zenon DEF Pairs
      <4> QED BY <4>1, <4>2, Zenon
    <3> QED BY <3>1, <3>2
  <2>2. text \in [form : Forms, calls : {<< >>}, done : BOOLEAN, prose : Prose]
    BY DEF Init
  <2>3. << >> \in Seq(Calls)
    OBVIOUS
  <2> QED BY <2>1, <2>2, <2>3, TextAssumption DEF TextInv, Typed
<1>2. TextInv /\ [WriteCall]_vars => TextInv'
  <2> SUFFICES ASSUME TextInv, [WriteCall]_vars PROVE TextInv'
    OBVIOUS
  <2>1. CASE WriteCall
    <3>1. PICK c \in Calls : text' = [text EXCEPT !.calls = Append(@, c)]
      BY <2>1 DEF WriteCall
    <3>2. UNCHANGED <<strategy, fallback>>
      BY <2>1 DEF WriteCall
    <3>3. /\ text'.form = text.form /\ text'.prose = text.prose
          /\ text'.calls = Append(text.calls, c)
      BY <3>1 DEF TextInv, Typed
    <3> QED BY <3>2, <3>3 DEF TextInv, Typed
  <2>2. CASE UNCHANGED vars
    BY <2>2 DEF vars, TextInv, Typed
  <2> QED BY <2>1, <2>2
<1> QED BY <1>1, <1>2, PTL DEF Spec

----
(* The loop of each strategy: what it is offered, and where.               *)

SpelledCalls(t) == [i \in DOMAIN t.calls |-> Intent(t.calls[i].name, t.calls[i].input)]

\* The input of an action, of its own or of a later one.
inputs(i, t) == {k \in i..Len(t.calls) : t.calls[k].input # << >>}
input(i, t) == IF inputs(i, t) = {} THEN << >> ELSE t.calls[Min(inputs(i, t))].input
Actions(t) == [i \in DOMAIN t.calls |-> Intent(t.calls[i].name, input(i, t))]

Found(i, t) ==
  [key \in {fuzzyArgKeys[FuzzyOrder[i]]} |->
     IF t.prose[FuzzyOrder[i]] = "arg" THEN "value" ELSE ""]
Requests(t) == [i \in DOMAIN FuzzyOrder |-> [tool |-> FuzzyOrder[i], args |-> Found(i, t)]]

OffersOf(s, t) ==
  IF s = "react" THEN Actions(t) ELSE IF s = "fuzzy" THEN Requests(t) ELSE SpelledCalls(t)

PlacesOf(s, t) ==
  CASE s = "react" -> {i \in DOMAIN t.calls : \A j \in 1..i : t.calls[j].name # "done"}
    [] s = "markers" -> {i \in DOMAIN t.calls : t.calls[i].input # << >>}
    [] s = "fuzzy" -> {i \in DOMAIN FuzzyOrder : t.prose[FuzzyOrder[i]] # "none"}
    [] OTHER -> DOMAIN t.calls

\* A text written in another syntax offers nothing.
ReadBy(s, t) ==
  CASE s = "guided_json" -> t.form \in {"json", "fenced"}
    [] s = "react" -> t.form = "react"
    [] s = "markers" -> t.form = "markers"
    [] OTHER -> s = "fuzzy"

LEMMA StrategyCollects ==
  ASSUME NEW t, NEW s \in Strategies \cup {""}
  PROVE  runStrategy(s, t) =
           IF ReadBy(s, t) THEN Collect(OffersOf(s, t), PlacesOf(s, t)) ELSE << >>
<1>1. CASE s = "guided_json"
  BY <1>1 DEF runStrategy, parseGuidedJSON, OffersOf, PlacesOf, ReadBy, SpelledCalls
<1>2. CASE s = "react"
  BY <1>2 DEF runStrategy, parseReAct, OffersOf, PlacesOf, ReadBy, Actions, input, inputs
<1>3. CASE s = "markers"
  BY <1>3 DEF runStrategy, parseMarkers, OffersOf, PlacesOf, ReadBy, SpelledCalls
<1>4. CASE s = "fuzzy"
  BY <1>4 DEF runStrategy, parseFuzzy, OffersOf, PlacesOf, ReadBy, Requests, Found
<1>5. CASE s = ""
  BY <1>5 DEF runStrategy, ReadBy
<1> QED BY <1>1, <1>2, <1>3, <1>4, <1>5 DEF Strategies

\* What is offered is offered by a loop.
LEMMA TheyOffer ==
  ASSUME NEW t, Typed(t), NEW s \in Strategies
  PROVE  Offers(OffersOf(s, t), PlacesOf(s, t))
<1>1. t.calls \in Seq(Calls) /\ FuzzyOrder \in Seq(DOMAIN fuzzyArgKeys)
  BY ParserAssumption DEF Typed
<1>2. /\ Len(t.calls) \in Nat /\ DOMAIN t.calls = 1..Len(t.calls)
      /\ Len(FuzzyOrder) \in Nat /\ DOMAIN FuzzyOrder = 1..Len(FuzzyOrder)
  BY <1>1, SeqFacts
<1>3. /\ Len(SpelledCalls(t)) = Len(t.calls) /\ DOMAIN SpelledCalls(t) = DOMAIN t.calls
      /\ Len(Actions(t)) = Len(t.calls) /\ DOMAIN Actions(t) = DOMAIN t.calls
      /\ Len(Requests(t)) = Len(FuzzyOrder) /\ DOMAIN Requests(t) = DOMAIN FuzzyOrder
  BY <1>2 DEF SpelledCalls, Actions, Requests
<1>4. PlacesOf(s, t) \subseteq DOMAIN OffersOf(s, t)
  BY <1>3 DEF Strategies, PlacesOf, OffersOf
<1>5. Len(OffersOf(s, t)) \in Nat /\ DOMAIN OffersOf(s, t) = 1..Len(OffersOf(s, t))
  BY <1>2, <1>3 DEF OffersOf
<1> QED BY <1>4, <1>5 DEF Offers

\* What a strategy finds, in terms of what it is offered.
LEMMA StrategySifts ==
  ASSUME NEW t, Typed(t), NEW s \in Strategies, ReadBy(s, t)
  PROVE  LET offers == OffersOf(s, t)
             places == PlacesOf(s, t)
             found == runStrategy(s, t)
         IN /\ Offers(offers, places)
            /\ found \in Seq(Offered(offers)) /\ DOMAIN found = 1..Len(found)
            /\ Len(found) \in Nat
            /\ \E place : Shows(place, found, offers, Firsts(offers, places, Len(offers)))
<1>1. Offers(OffersOf(s, t), PlacesOf(s, t))
  BY TheyOffer
<1>2. Sifted(Collect(OffersOf(s, t), PlacesOf(s, t)),
             OffersOf(s, t), PlacesOf(s, t), Len(OffersOf(s, t)))
  BY <1>1, CollectSifts
<1>3. runStrategy(s, t) = Collect(OffersOf(s, t), PlacesOf(s, t))
  BY StrategyCollects
<1> QED BY <1>1, <1>2, <1>3 DEF Sifted

----
(* The properties.                                                         *)

\* What a strategy finds is found for one offer each.
LEMMA FoundOnce ==
  ASSUME TextInv, NEW s \in Strategies \cup {""}
  PROVE  LET found == runStrategy(s, text)
         IN \A i, j \in DOMAIN found : found[i].tool = found[j].tool => i = j
<1> DEFINE found == runStrategy(s, text)
<1>1. CASE s # "" /\ ReadBy(s, text)
  <2> DEFINE offers == OffersOf(s, text)
             places == PlacesOf(s, text)
  <2>1. /\ Offers(offers, places) /\ DOMAIN found = 1..Len(found) /\ Len(found) \in Nat
        /\ \E place : Shows(place, found, offers, Firsts(offers, places, Len(offers)))
    BY <1>1, StrategySifts DEF TextInv
  <2>2. PICK place : Shows(place, found, offers, Firsts(offers, places, Len(offers)))
    BY <2>1
  <2> HIDE DEF found, offers, places
  <2>3. ASSUME NEW i \in DOMAIN found, NEW j \in DOMAIN found, found[i].tool = found[j].tool
        PROVE  ~(i < j)
    <3>1. place[i] \in Firsts(offers, places, Len(offers)) /\ found[i] = offers[place[i]]
      BY <2>1, <2>2 DEF Shows
    <3>2. place[j] \in Firsts(offers, places, Len(offers)) /\ found[j] = offers[place[j]]
      BY <2>1, <2>2 DEF Shows
    <3>3. i < j => place[i] < place[j]
      BY <2>1, <2>2 DEF Shows
    <3> QED BY <2>3, <3>1, <3>2, <3>3 DEF Firsts
  <2>4. ASSUME NEW i \in DOMAIN found, NEW j \in DOMAIN found, found[i].tool = found[j].tool
        PROVE  i = j
    <3>1. ~(i < j) /\ ~(j < i)
      BY <2>3, <2>4
    <3>2. i \in Nat /\ j \in Nat
      BY <2>1, IntervalIsNatural
    <3> QED BY <3>1, <3>2, LaterIsNotBefore
  <2> QED BY <2>4 DEF found
<1>2. CASE ~(s # "" /\ ReadBy(s, text))
  <2>1. DOMAIN << >> = {}
    BY NothingFound
  <2>2. found = << >>
    BY <1>2, StrategyCollects DEF ReadBy
  <2>3. DOMAIN found = {}
    BY <2>1, <2>2
  <2> QED BY <2>3
<1> QED BY <1>1, <1>2

LEMMA StrategiesInUse ==
  ASSUME TextInv
  PROVE  /\ strategy \in Strategies /\ fallback \in {"fuzzy", ""}
         /\ strategy = "fuzzy" <=> fallback = ""
<1>1. \E p \in Pairs : p = <<strategy, fallback>>
  BY DEF TextInv
<1>2. \/ <<strategy, fallback>> = <<"guided_json", "fuzzy">>
      \/ <<strategy, fallback>> = <<"react", "fuzzy">>
      \/ <<strategy, fallback>> = <<"markers", "fuzzy">>
      \/ <<strategy, fallback>> = <<"fuzzy", "">>
  BY <1>1, Zenon DEF Pairs
<1>3. \/ strategy \in {"guided_json", "react", "markers"} /\ fallback = "fuzzy"
      \/ strategy = "fuzzy" /\ fallback = ""
  BY <1>2
<1> QED BY <1>3 DEF Strategies

\* A reply asks for a tool at most once, however often and under whatever
\* names it is called: every strategy skips a tool it has found already.
THEOREM OneIntentEach == Spec => []OneIntentPerTool
<1>1. ASSUME TextInv PROVE OneIntentPerTool
  <2>1. strategy \in Strategies \cup {""} /\ fallback \in Strategies \cup {""}
    BY <1>1, StrategiesInUse DEF Strategies
  <2>2. Intents = runStrategy(strategy, text) \/ Intents = runStrategy(fallback, text)
    BY DEF Intents, ParseText
  <2>3. \A i, j \in DOMAIN Intents : Intents[i].tool = Intents[j].tool => i = j
    BY <1>1, <2>1, <2>2, FoundOnce
  <2> QED BY <2>3 DEF OneIntentPerTool, Tools
<1> QED BY <1>1, TextsTyped, PTL

\* The arguments an intent is sent with that are still empty.
EmptySent(intent) ==
  LET sent == gatewayArgs(fillEmptyArgs(intent, "a query"))
  IN {key \in DOMAIN sent : sent[key] = ""}

\* What a fuzzy intent is sent with: the value found or else the query, under
\* the key Execute looks up, and no text to write.
LEMMA FuzzySent ==
  ASSUME NEW tool \in DOMAIN fuzzyArgKeys, NEW value \in {"value", ""},
         NEW intent, intent = [tool |-> tool, args |-> [key \in {fuzzyArgKeys[tool]} |-> value]]
  PROVE  EmptySent(intent) = IF tool = "write" THEN {"file_text"} ELSE {}
<1> DEFINE key == fuzzyArgKeys[tool]
           given == IF value = "" THEN "a query" ELSE value
           filled == fillEmptyArgs(intent, "a query")
           sent == gatewayArgs(filled)
<1>1. given # ""
  OBVIOUS
<1>2. /\ tool \in {"web_search", "web_fetch", "read", "write", "exec"}
      /\ tool \in DOMAIN sentAlways
      /\ sentAlways[tool] = IF tool = "write" THEN {"path", "file_text"} ELSE {key}
      /\ tool = "write" => key = "path"
      /\ key \notin {"content", "file_text"}
  <2>1. tool \in {"web_search", "web_fetch", "read", "write", "exec"}
    BY DEF fuzzyArgKeys
  <2>2. \A t \in {"web_search", "web_fetch", "read", "write", "exec"} :
          /\ t \in DOMAIN sentAlways
          /\ sentAlways[t] = IF t = "write" THEN {"path", "file_text"} ELSE {fuzzyArgKeys[t]}
          /\ t = "write" => fuzzyArgKeys[t] = "path"
          /\ fuzzyArgKeys[t] \notin {"content", "file_text"}
    <3>1. /\ fuzzyArgKeys["web_search"] = "query" /\ fuzzyArgKeys["web_fetch"] = "url"
          /\ fuzzyArgKeys["read"] = "path" /\ fuzzyArgKeys["write"] = "path"
          /\ fuzzyArgKeys["exec"] = "command"
      BY DEF fuzzyArgKeys
    <3>2. /\ sentAlways["web_search"] = {"query"} /\ sentAlways["web_fetch"] = {"url"}
          /\ sentAlways["read"] = {"path"} /\ sentAlways["write"] = {"path", "file_text"}
          /\ sentAlways["exec"] = {"command"}
      BY DEF sentAlways
    <3>3. {"web_search", "web_fetch", "read", "write", "exec"} \subseteq DOMAIN sentAlways
      BY DEF sentAlways
    <3> QED BY <3>1, <3>2, <3>3
  <2> QED BY <2>1, <2>2
<1> HIDE DEF given, key
<1>3. filled.tool = tool /\ filled.args = [k \in {key} |-> given]
  BY DEF fillEmptyArgs, given, key
<1> HIDE DEF filled
<1>4. /\ DOMAIN sent = sentAlways[tool]
      /\ \A k \in sentAlways[tool] : sent[k] = IF k = key THEN given ELSE ""
  BY <1>2, <1>3 DEF gatewayArgs
<1> HIDE DEF sent
<1>5. {k \in DOMAIN sent : sent[k] = ""} = IF tool = "write" THEN {"file_text"} ELSE {}
  BY <1>1, <1>2, <1>4
<1> QED BY <1>5 DEF sent, filled, EmptySent

\* A tool the fuzzy tier found is invoked with all that Execute always sends,
\* but for the text of a write, which is always empty: parseFuzzy files what
\* it found, or "", under the key Execute looks up, and fillEmptyArgs replaces
\* the "" by the query without adding a key.
THEOREM FuzzyIsFilled == Spec => []FuzzyArgumentsFilled
<1>1. ASSUME TextInv PROVE FuzzyArgumentsFilled
  <2> SUFFICES ASSUME \/ strategy = "fuzzy"
                      \/ fallback = "fuzzy" /\ runStrategy(strategy, text) = << >>,
                      NEW intent \in ToSet(Intents)
               PROVE  EmptySent(intent) = IF intent.tool = "write" THEN {"file_text"} ELSE {}
    BY DEF FuzzyArgumentsFilled, EmptySent
  <2>1. Intents = runStrategy("fuzzy", text)
    BY <1>1, StrategiesInUse DEF Intents, ParseText
  <2> DEFINE offers == OffersOf("fuzzy", text)
             places == PlacesOf("fuzzy", text)
  <2>2. /\ Offers(offers, places) /\ DOMAIN Intents = 1..Len(Intents)
        /\ Intents \in Seq(Offered(offers))
    BY <1>1, <2>1, StrategySifts DEF ReadBy, Strategies, TextInv
  <2>3. intent \in Offered(offers)
    BY <2>2 DEF ToSet
  <2>4. PICK j \in DOMAIN FuzzyOrder : intent = [tool |-> FuzzyOrder[j], args |-> Found(j, text)]
    BY <2>3 DEF Offered, OffersOf, Requests
  <2>5. FuzzyOrder[j] \in DOMAIN fuzzyArgKeys
    BY ParserAssumption, SeqFacts
  <2>6. PICK value \in {"value", ""} :
          Found(j, text) = [key \in {fuzzyArgKeys[FuzzyOrder[j]]} |-> value]
    BY DEF Found
  <2>7. intent.tool = FuzzyOrder[j]
    BY <2>4
  <2>8. intent = [tool |-> FuzzyOrder[j],
                  args |-> [key \in {fuzzyArgKeys[FuzzyOrder[j]]} |-> value]]
    BY <2>4, <2>6
  <2>9. EmptySent(intent) = IF FuzzyOrder[j] = "write" THEN {"file_text"} ELSE {}
    BY <2>5, <2>8, FuzzySent
  <2> QED BY <2>7, <2>9
<1> QED BY <1>1, TextsTyped, PTL

\* What is found depends on the tools that are offered, and on nothing that
\* is offered later.
SameTools(one, other) ==
  /\ DOMAIN one = DOMAIN other
  /\ \A i \in DOMAIN one : one[i].tool = other[i].tool

LEMMA AppendAlike ==
  ASSUME NEW S, NEW one \in Seq(S), NEW T, NEW other \in Seq(T), SameTools(one, other),
         NEW d \in S, NEW e \in T, d.tool = e.tool
  PROVE  SameTools(Append(one, d), Append(other, e))
<1>1. /\ Len(one) \in Nat /\ DOMAIN one = 1..Len(one)
      /\ Len(other) \in Nat /\ DOMAIN other = 1..Len(other)
      /\ Len(one) = Len(other)
  BY SeqFacts DEF SameTools
<1>2. /\ DOMAIN Append(one, d) = 1..Len(one)+1
      /\ \A k \in 1..Len(one) : Append(one, d)[k] = one[k]
      /\ Append(one, d)[Len(one)+1] = d
  BY Appended
<1>3. /\ DOMAIN Append(other, e) = 1..Len(one)+1
      /\ \A k \in 1..Len(one) : Append(other, e)[k] = other[k]
      /\ Append(other, e)[Len(one)+1] = e
  BY <1>1, Appended
<1>4. \A k \in 1..Len(one)+1 : k \in 1..Len(one) \/ k = Len(one)+1
  BY <1>1
<1> QED BY <1>1, <1>2, <1>3, <1>4, Zenon DEF SameTools

LEMMA ReadAlike ==
  ASSUME NEW S, NEW one \in Seq(S), NEW T, NEW other \in Seq(T), SameTools(one, other),
         NEW offers, NEW more, NEW places, NEW further, NEW i,
         i \in places <=> i \in further,
         i \in places => offers[i].tool = more[i].tool /\ offers[i] \in S /\ more[i] \in T
  PROVE  /\ Read(one, offers, places, i) \in Seq(S) /\ Read(other, more, further, i) \in Seq(T)
         /\ SameTools(Read(one, offers, places, i), Read(other, more, further, i))
<1>1. \A tool : intentExists(one, tool) <=> intentExists(other, tool)
  BY DEF SameTools, intentExists
<1>2. CASE i \in places /\ offers[i].tool # "" /\ ~intentExists(one, offers[i].tool)
  <2>1. /\ Read(one, offers, places, i) = Append(one, offers[i])
        /\ Read(other, more, further, i) = Append(other, more[i])
    BY <1>1, <1>2 DEF Read, AddIntent
  <2>2. offers[i] \in S /\ more[i] \in T /\ offers[i].tool = more[i].tool
    BY <1>2
  <2>3. SameTools(Append(one, offers[i]), Append(other, more[i]))
    BY <2>2, AppendAlike
  <2>4. Append(one, offers[i]) \in Seq(S) /\ Append(other, more[i]) \in Seq(T)
    BY <2>2, AppendProperties
  <2> QED BY <2>1, <2>3, <2>4
<1>3. CASE ~(i \in places /\ offers[i].tool # "" /\ ~intentExists(one, offers[i].tool))
  <2>1. Read(one, offers, places, i) = one /\ Read(other, more, further, i) = other
    BY <1>1, <1>3 DEF Read, AddIntent
  <2> QED BY <2>1
<1> QED BY <1>2, <1>3

\* What shows that one sequence is a prefix of another.
LEMMA LongerIsAfter ==
  ASSUME NEW m \in Nat, NEW n \in Nat, m <= n, NEW s, NEW t, Len(s) = m, Len(t) = n,
         \A i \in 1..m : s[i] = t[i]
  PROVE  IsPrefix(s, t)
<1>1. SubSeq(s, 1, m) = [i \in 1..m |-> s[i]] /\ SubSeq(t, 1, m) = [i \in 1..m |-> t[i]]
  OBVIOUS
<1> QED BY <1>1 DEF IsPrefix

LEMMA ToolsLength ==
  ASSUME NEW n \in Nat, NEW f, DOMAIN f = 1..n PROVE Len(Tools(f)) = n
BY DEF Tools

LEMMA ToolsPrefix ==
  ASSUME NEW S, NEW f \in Seq(S), NEW T, NEW g \in Seq(T), SameTools(f, g),
         NEW e \in T, NEW h, h = g \/ h = Append(g, e)
  PROVE  IsPrefix(Tools(f), Tools(h))
<1>1. /\ f \in Seq(S) /\ Len(f) \in Nat /\ DOMAIN f = 1..Len(f) /\ DOMAIN g = 1..Len(f)
      /\ g \in Seq(T) /\ Len(g) = Len(f)
      /\ \A i \in 1..Len(f) : f[i].tool = g[i].tool
  <2>1. /\ f \in Seq(S) /\ Len(f) \in Nat /\ DOMAIN f = 1..Len(f) /\ DOMAIN g = DOMAIN f
        /\ g \in Seq(T) /\ Len(g) \in Nat /\ DOMAIN g = 1..Len(g)
        /\ \A i \in 1..Len(f) : f[i].tool = g[i].tool
    BY SeqFacts DEF SameTools
  <2>2. Len(g) = Len(f)
    BY <2>1
  <2> QED BY <2>1, <2>2
<1>2. /\ h \in Seq(T) /\ Len(h) \in {Len(f), Len(f) + 1} /\ DOMAIN h = 1..Len(h)
      /\ \A i \in 1..Len(f) : h[i] = g[i]
  <2>1. CASE h = g
    BY <1>1, <2>1
  <2>2. CASE h = Append(g, e)
    <3>1. /\ Append(g, e) \in Seq(T) /\ Len(Append(g, e)) = Len(g) + 1
          /\ \A i \in 1..Len(g) : Append(g, e)[i] = g[i]
      BY Appended
    <3>2. DOMAIN h = 1..Len(h)
      BY <2>2, <3>1, SeqFacts
    <3> QED BY <1>1, <2>2, <3>1, <3>2
  <2> QED BY <2>1, <2>2
<1>3. /\ DOMAIN Tools(f) = 1..Len(f) /\ DOMAIN Tools(h) = 1..Len(h)
      /\ \A i \in 1..Len(f) : Tools(f)[i] = f[i].tool
      /\ \A i \in 1..Len(h) : Tools(h)[i] = h[i].tool
  BY <1>1, <1>2 DEF Tools
<1>4. \A i \in 1..Len(f) : i \in 1..Len(h)
  <2>1. \A m \in Nat : \A k \in {m, m + 1} : \A i \in 1..m : i \in 1..k
    BY NextIsFurther
  <2> QED BY <1>1, <1>2, <2>1
<1>5. \A i \in 1..Len(f) : Tools(f)[i] = Tools(h)[i]
  BY <1>1, <1>2, <1>3, <1>4, Zenon
<1>6. Len(f) \in Nat /\ Len(h) \in Nat /\ Len(f) <= Len(h)
  BY <1>1, <1>2, NextIsFurther
<1>7. Len(Tools(f)) = Len(f) /\ Len(Tools(h)) = Len(h)
  BY <1>1, <1>2, <1>6, ToolsLength
<1> QED BY <1>5, <1>6, <1>7, LongerIsAfter

LEMMA SameIsPrefix ==
  ASSUME NEW t, Typed(t), NEW s \in Strategies
  PROVE  IsPrefix(Tools(runStrategy(s, t)), Tools(runStrategy(s, t)))
<1> DEFINE found == runStrategy(s, t)
           tools == Tools(found)
<1>1. Len(found) \in Nat /\ DOMAIN found = 1..Len(found)
  <2>1. CASE ReadBy(s, t)
    BY <2>1, StrategySifts
  <2>2. CASE ~ReadBy(s, t)
    <3>1. found = << >>
      BY <2>2, StrategyCollects
    <3> QED BY <3>1, NothingFound
  <2> QED BY <2>1, <2>2
<1> HIDE DEF found
<1>2. Len(tools) = Len(found)
  BY <1>1 DEF Tools
<1> HIDE DEF tools
<1>3. IsPrefix(tools, tools)
  BY <1>1, <1>2, LongerIsAfter
<1> QED BY <1>3 DEF tools, found

LEMMA CollectGrows ==
  ASSUME NEW offers, NEW places, Offers(offers, places),
         NEW more, NEW further, Offers(more, further),
         Len(more) = Len(offers) + 1,
         \A i \in 1..Len(offers) : offers[i].tool = more[i].tool /\ (i \in places <=> i \in further)
  PROVE  IsPrefix(Tools(Collect(offers, places)), Tools(Collect(more, further)))
<1> DEFINE n == Len(offers)
           S == Offered(offers)
           T == Offered(more)
<1>1. n \in Nat /\ DOMAIN offers = 1..n /\ DOMAIN more = 1..n+1 /\ n \in 0..n /\ n + 1 \in 1..n+1
  BY DEF Offers
<1>2. PICK one : Reads(offers, places, n, one) /\ Collect(offers, places) = one[n]
  BY <1>1, CollectReads
<1>3. PICK other : Reads(more, further, n + 1, other) /\ Collect(more, further) = other[n+1]
  BY <1>1, CollectReads
<1> DEFINE Alike(k) == one[k] \in Seq(S) /\ other[k] \in Seq(T) /\ SameTools(one[k], other[k])
           alike == {k \in Nat : Alike(k)}
<1>4. 0 \in alike
  <2>1. one[0] = << >> /\ other[0] = << >>
    BY <1>2, <1>3 DEF Reads
  <2>2. << >> \in Seq(S) /\ << >> \in Seq(T)
    OBVIOUS
  <2> QED BY <2>1, <2>2, NothingFound DEF SameTools
<1>5. ASSUME NEW k \in 0..n-1, k \in alike PROVE k + 1 \in alike
  <2>1. k \in Nat /\ k + 1 \in 1..n /\ k + 1 \in 1..n+1 /\ (k + 1) - 1 = k
    BY <1>1
  <2>2. one[k+1] = Read(one[k], offers, places, k + 1)
    <3>1. \A i \in 1..n : one[i] = Read(one[i-1], offers, places, i)
      BY <1>2 DEF Reads
    <3> QED BY <2>1, <3>1
  <2>3. other[k+1] = Read(other[k], more, further, k + 1)
    <3>1. \A i \in 1..n+1 : other[i] = Read(other[i-1], more, further, i)
      BY <1>3 DEF Reads
    <3> QED BY <2>1, <3>1
  <2>4. Alike(k)
    BY <1>5
  <2>5. offers[k+1] \in S /\ more[k+1] \in T
    BY <1>1, <2>1 DEF Offered
  <2>6. offers[k+1].tool = more[k+1].tool /\ (k + 1 \in places <=> k + 1 \in further)
    BY <2>1
  <2> HIDE DEF S, T
  <2>7. Alike(k+1)
    BY <2>2, <2>3, <2>4, <2>5, <2>6, ReadAlike
  <2> QED BY <2>1, <2>7
<1>6. Alike(n)
  <2> HIDE DEF Alike
  <2>1. alike \in SUBSET Nat
    OBVIOUS
  <2> HIDE DEF alike
  <2>2. 0..n \subseteq alike
    BY <1>1, <1>4, <1>5, <2>1, Induction
  <2> QED BY <1>1, <2>2 DEF alike
<1>7. other[n+1] = Read(other[n], more, further, n + 1)
  <2>1. \A i \in 1..n+1 : other[i] = Read(other[i-1], more, further, i)
    BY <1>3 DEF Reads
  <2>2. (n + 1) - 1 = n
    BY <1>1
  <2> QED BY <1>1, <2>1, <2>2
<1>8. other[n+1] = other[n] \/ other[n+1] = Append(other[n], more[n+1])
  BY <1>7 DEF Read, AddIntent
<1>9. more[n+1] \in T
  BY <1>1 DEF Offered
<1>10. IsPrefix(Tools(one[n]), Tools(other[n+1]))
  <2> HIDE DEF n, S, T
  <2> QED BY <1>6, <1>8, <1>9, ToolsPrefix
<1> QED BY <1>2, <1>3, <1>10

\* A strategy finds in a text of its own syntax the calls Parse is to honour,
\* all of them and in the order of the text: Honoured are the first offers.
THEOREM FindsTheWritten == Spec => []FindsWhatIsWritten
<1>1. ASSUME TextInv PROVE FindsWhatIsWritten
  <2> DEFINE found == runStrategy(strategy, text)
             tools == Tools(found)
             offers == OffersOf(strategy, text)
             places == PlacesOf(strategy, text)
             firsts == Firsts(offers, places, Len(offers))
  <2> SUFFICES ASSUME ReadsItsForm
               PROVE  \E place \in [DOMAIN tools -> Honoured] :
                        /\ \A i, j \in DOMAIN tools : i < j => place[i] < place[j]
                        /\ \A c \in Honoured : \E i \in DOMAIN tools : place[i] = c
                        /\ \A i \in DOMAIN tools : tools[i] = Aliases[text.calls[place[i]].name]
    BY DEF FindsWhatIsWritten
  <2>1. strategy \in {"guided_json", "react", "markers"} /\ ReadBy(strategy, text)
    BY <1>1, StrategiesInUse DEF ReadsItsForm, ReadBy, TextInv, Typed, Forms, Strategies
  <2>2. /\ Offers(offers, places)
        /\ DOMAIN found = 1..Len(found) /\ Len(found) \in Nat
        /\ \E place : Shows(place, found, offers, firsts)
    BY <1>1, <2>1, StrategySifts DEF Strategies, TextInv
  <2>3. /\ DOMAIN offers = DOMAIN text.calls
        /\ \A i \in DOMAIN text.calls : offers[i].tool = normalizeTool(text.calls[i].name)
    BY <2>1 DEF OffersOf, Actions, SpelledCalls, Intent
  <2>4. Honoured = firsts
    <3> DEFINE readable(i) == /\ text.calls[i].name \in DOMAIN Aliases
                              /\ strategy = "markers" => text.calls[i].input # << >>
                              /\ strategy = "react" => \A j \in 1..i : text.calls[j].name # "done"
    <3>1. \A i \in DOMAIN text.calls : readable(i) <=> i \in places /\ offers[i].tool # ""
      BY <2>1, <2>3, ParserAssumption DEF normalizeTool, PlacesOf
    <3>2. \A i \in DOMAIN text.calls : readable(i) =>
             offers[i].tool = Aliases[text.calls[i].name]
      BY <2>3 DEF normalizeTool
    <3>3. Honoured = {i \in DOMAIN text.calls :
             /\ readable(i)
             /\ \A j \in 1..i-1 :
                  readable(j) => Aliases[text.calls[j].name] # Aliases[text.calls[i].name]}
      BY DEF Honoured
    <3> HIDE DEF readable, offers, places
    <3>4. \A i \in DOMAIN text.calls : /\ i \in Nat /\ i <= Len(offers)
                                       /\ 1..i-1 = {j \in DOMAIN text.calls : j < i}
      BY <2>2, <2>3 DEF Offers
    <3>5. places \subseteq DOMAIN text.calls
      BY <2>2, <2>3 DEF Offers
    <3>6. ASSUME NEW i \in DOMAIN text.calls, i \in places, offers[i].tool # ""
          PROVE  (\A j \in 1..i-1 :
                    readable(j) => Aliases[text.calls[j].name] # Aliases[text.calls[i].name])
                 <=> \A j \in places : j < i => offers[j].tool # offers[i].tool
      <4>1. Aliases[text.calls[i].name] = offers[i].tool
        BY <3>1, <3>2, <3>6
      <4>2. \A j \in DOMAIN text.calls : readable(j) => Aliases[text.calls[j].name] = offers[j].tool
        BY <3>2
      <4>3. \A j \in 1..i-1 : j \in DOMAIN text.calls /\ j < i
        BY <3>4
      <4>4. \A j \in places : j < i => j \in DOMAIN text.calls /\ j \in 1..i-1
        BY <3>4, <3>5
      <4> QED BY <3>1, <3>6, <4>1, <4>2, <4>3, <4>4, Zenon
    <3>7. \A i : i \in Honoured <=> i \in firsts
      BY <3>1, <3>3, <3>4, <3>5, <3>6, Zenon DEF Firsts
    <3> QED BY <3>7
  <2>5. DOMAIN tools = 1..Len(found) /\ \A i \in DOMAIN tools : tools[i] = found[i].tool
    BY <2>2 DEF Tools
  <2>6. PICK place : Shows(place, found, offers, firsts)
    BY <2>2
  <2>7. \A c \in Honoured : c \in DOMAIN text.calls /\ offers[c].tool = Aliases[text.calls[c].name]
    BY <2>3 DEF Honoured, normalizeTool
  <2> HIDE DEF found, tools, offers, places, firsts
  <2>8. place \in [DOMAIN tools -> Honoured]
    BY <2>4, <2>5, <2>6 DEF Shows
  <2>9. \A i \in DOMAIN tools : tools[i] = Aliases[text.calls[place[i]].name]
    BY <2>4, <2>5, <2>6, <2>7 DEF Shows
  <2> QED BY <2>4, <2>5, <2>6, <2>8, <2>9 DEF Shows
<1> QED BY <1>1, TextsTyped, PTL

\* A longer text offers what the shorter one did, and one call more.
LEMMA TextGrows ==
  ASSUME NEW t, Typed(t), NEW c \in Calls, NEW u, u = [t EXCEPT !.calls = Append(@, c)],
         NEW s \in {"guided_json", "react", "markers"}
  PROVE  /\ Len(OffersOf(s, u)) = Len(OffersOf(s, t)) + 1
         /\ \A i \in 1..Len(OffersOf(s, t)) :
              /\ OffersOf(s, t)[i].tool = OffersOf(s, u)[i].tool
              /\ i \in PlacesOf(s, t) <=> i \in PlacesOf(s, u)
<1>1. t.calls \in Seq(Calls) /\ u.calls = Append(t.calls, c)
  BY DEF Typed
<1> DEFINE n == Len(t.calls)
<1>2. /\ n \in Nat /\ DOMAIN t.calls = 1..n /\ DOMAIN u.calls = 1..n+1
      /\ \A i \in 1..n : u.calls[i] = t.calls[i]
  BY <1>1, SeqFacts, Appended
<1>3. \A i \in 1..n : i \in 1..n+1 /\ 1..i \subseteq 1..n
  BY <1>2
<1>4. \A v \in {t, u} : /\ DOMAIN OffersOf(s, v) = DOMAIN v.calls
                        /\ \A i \in DOMAIN v.calls :
                             OffersOf(s, v)[i].tool = normalizeTool(v.calls[i].name)
  BY DEF OffersOf, Actions, SpelledCalls, Intent
<1> HIDE DEF n
<1>5. Len(OffersOf(s, t)) = n /\ Len(OffersOf(s, u)) = n + 1
  BY <1>2, <1>4
<1>6. ASSUME NEW i \in 1..n
      PROVE  /\ OffersOf(s, t)[i].tool = OffersOf(s, u)[i].tool
             /\ i \in PlacesOf(s, t) <=> i \in PlacesOf(s, u)
  <2>1. OffersOf(s, t)[i].tool = OffersOf(s, u)[i].tool
    <3>1. i \in DOMAIN t.calls /\ i \in DOMAIN u.calls /\ u.calls[i] = t.calls[i]
      BY <1>2, <1>3
    <3>2. /\ OffersOf(s, t)[i].tool = normalizeTool(t.calls[i].name)
          /\ OffersOf(s, u)[i].tool = normalizeTool(u.calls[i].name)
      BY <1>4, <3>1
    <3> QED BY <3>1, <3>2
  <2>2. CASE s = "react"
    <3>1. \A j \in 1..i : u.calls[j].name = t.calls[j].name
      BY <1>2, <1>3
    <3>2. i \in DOMAIN t.calls /\ i \in DOMAIN u.calls
      BY <1>2, <1>3
    <3>3. i \in PlacesOf(s, t) <=> i \in PlacesOf(s, u)
      BY <2>2, <3>1, <3>2 DEF PlacesOf
    <3> QED BY <2>1, <3>3
  <2>3. CASE s # "react"
    BY <1>2, <1>3, <2>1, <2>3 DEF PlacesOf
  <2> QED BY <2>2, <2>3
<1> QED BY <1>5, <1>6

\* What a text offers a strategy is found again in a longer text.
LEMMA ReadingOn ==
  ASSUME NEW t, Typed(t), NEW c \in Calls, NEW u, u = [t EXCEPT !.calls = Append(@, c)],
         NEW s \in Strategies
  PROVE  IsPrefix(Tools(runStrategy(s, t)), Tools(runStrategy(s, u)))
<1>1. /\ Typed(u) /\ u.form = t.form /\ u.prose = t.prose
  <2>1. u.form = t.form /\ u.prose = t.prose /\ u.calls = Append(t.calls, c)
    BY DEF Typed
  <2>2. u.calls \in Seq(Calls)
    BY <2>1, AppendProperties DEF Typed
  <2> QED BY <2>1, <2>2 DEF Typed
<1>2. ReadBy(s, u) <=> ReadBy(s, t)
  BY <1>1 DEF ReadBy
<1>3. CASE s # "fuzzy" /\ ReadBy(s, t)
  <2>1. Offers(OffersOf(s, t), PlacesOf(s, t)) /\ Offers(OffersOf(s, u), PlacesOf(s, u))
    BY <1>1, TheyOffer
  <2>2. /\ runStrategy(s, t) = Collect(OffersOf(s, t), PlacesOf(s, t))
        /\ runStrategy(s, u) = Collect(OffersOf(s, u), PlacesOf(s, u))
    BY <1>2, <1>3, StrategyCollects
  <2>3. s \in {"guided_json", "react", "markers"}
    BY <1>3 DEF Strategies
  <2> QED BY <2>1, <2>2, <2>3, TextGrows, CollectGrows
<1>4. CASE s = "fuzzy" \/ ~ReadBy(s, t)
  <2>1. runStrategy(s, u) = runStrategy(s, t)
    BY <1>1, <1>2, <1>4, StrategyCollects DEF OffersOf, PlacesOf, Requests, Found
  <2> QED BY <2>1, SameIsPrefix
<1> QED BY <1>3, <1>4

\* Reading on changes nothing that was found: the loops decide on a call from
\* the calls before it, and what a later call brings comes behind.
THEOREM WhatIsFoundStays == Spec => FoundStaysFound
<1> DEFINE Stays == \A found \in {Tools(runStrategy(strategy, text))},
                       further \in {Tools(runStrategy(strategy', text'))} : IsPrefix(found, further)
<1>1. ASSUME TextInv, [WriteCall]_vars PROVE [Stays]_vars
  <2>1. strategy \in Strategies /\ Typed(text)
    BY <1>1, StrategiesInUse DEF TextInv
  <2>2. CASE WriteCall
    <3>1. PICK c \in Calls : text' = [text EXCEPT !.calls = Append(@, c)]
      BY <2>2 DEF WriteCall
    <3>2. strategy' = strategy
      BY <2>2 DEF WriteCall
    <3>3. IsPrefix(Tools(runStrategy(strategy, text)), Tools(runStrategy(strategy, text')))
      BY <2>1, <3>1, ReadingOn
    <3> QED BY <3>2, <3>3
  <2>3. CASE UNCHANGED vars
    BY <2>3
  <2> QED BY <1>1, <2>2, <2>3
<1> QED BY <1>1, TextsTyped, PTL DEF Spec, FoundStaysFound

====
