-------------------------- MODULE MCEnricherProofs --------------------------
(***************************************************************************)
(* Theorems about the functions a search is made of (modules Search,       *)
(* CacheCodec and Matching), for inputs of any size, and about the         *)
(* invariants MCEnricher states of them for bounded ones.                  *)
(*                                                                         *)
(* What a recursive function computes is proved by induction on a set: the *)
(* set of the numbers of which a statement holds contains zero and with    *)
(* every number the next one.  That there is a function that satisfies a   *)
(* recursive definition is proved in the same way.                         *)
(***************************************************************************)
EXTENDS MCEnricher, WellFoundedInduction, FiniteSetTheorems, SequenceTheorems, TLAPS

LEMMA LeastNatural ==
  ASSUME NEW T, T \subseteq Nat, T # {}
  PROVE  \E x \in T : \A y \in T : x <= y
  <1> DEFINE R == OpToRel(<, Nat)
  <1>1. \A x, y \in Nat : y < x => <<y, x>> \in R
    BY DEF OpToRel
  <1>2. IsWellFoundedOn(R, Nat)
    BY NatLessThanWellFounded
  <1> HIDE DEF R
  <1>3. PICK x \in T : \A y \in T : ~(<<y, x>> \in R)
    BY <1>2, WFMin
  <1>4. ASSUME NEW y \in T PROVE x <= y
    <2>1. x \in Nat /\ y \in Nat /\ ~(y < x)
      BY <1>1, <1>3
    <2> QED
      BY <2>1
  <1> QED
    BY <1>4

(* What Min of FiniteSetsExt chooses.                                      *)
LEMMA MinIsLeast ==
  ASSUME NEW T, T \subseteq Nat, T # {}
  PROVE  Min(T) \in T /\ \A y \in T : Min(T) <= y
  BY LeastNatural DEF Min

LEMMA MinIs ==
  ASSUME NEW T, T \subseteq Nat, NEW x \in T, \A y \in T : x <= y
  PROVE  Min(T) = x
  <1>1. Min(T) \in T /\ Min(T) <= x /\ x <= Min(T)
    BY MinIsLeast
  <1>2. Min(T) \in Nat /\ x \in Nat
    BY <1>1
  <1> HIDE DEF Min
  <1> QED
    BY <1>1, <1>2

LEMMA SetInduction ==
  ASSUME NEW T, 0 \in T, \A n \in Nat : n \in T => n + 1 \in T
  PROVE  Nat \subseteq T
  <1> DEFINE rest == Nat \ T
  <1> SUFFICES ASSUME rest # {} PROVE FALSE
    OBVIOUS
  <1>1. PICK x \in rest : \A y \in rest : x <= y
    <2>1. rest \subseteq Nat
      OBVIOUS
    <2> HIDE DEF rest
    <2> QED
      BY <2>1, LeastNatural
  <1>2. x - 1 \in Nat /\ x - 1 + 1 = x
    BY <1>1
  <1>3. x - 1 \in T
    BY <1>1, <1>2
  <1> QED
    BY <1>1, <1>2, <1>3

-----------------------------------------------------------------------------
(* Search                                                                  *)

(* An item that has the part lends it to itself.                           *)
LEMMA OwnPartIsFound ==
  ASSUME NEW page \in Seq(Items), NEW i \in 1..Len(page), NEW part, page[i][part] # Absent
  PROVE  findDescendantWithAttr(page, i, part) = page[i][part]
  <1> DEFINE there == {j \in FromItem(page, i) : page[j][part] # Absent}
  <1>1. i \in there
    BY DEF FromItem
  <1>2. there \subseteq Nat /\ \A j \in there : i <= j
    BY DEF FromItem
  <1> HIDE DEF there
  <1>3. Min(there) = i
    BY <1>1, <1>2, MinIs
  <1> QED
    BY <1>1, <1>3 DEF findDescendantWithAttr, there

(* A search gives the link and the image of the first item whose title and *)
(* artist match, on a page of any length on which no item lacks a part.    *)
THEOREM FirstMatchAlwaysTaken ==
  ASSUME NEW pages, \A page \in pages : page \in Seq(Items) /\ page # Malformed
  PROVE  FirstMatchIsTaken(pages)
  <1> SUFFICES ASSUME NEW page \in pages, \A i \in DOMAIN page : IsComplete(page[i])
               PROVE  LET matches == {i \in DOMAIN page : IsMatch(page[i])}
                          match == page[Min(matches)]
                      IN  scraperSearchTrack([curl |-> "ok", HTTPCode |-> 200, output |-> page]) =
                            IF matches = {} THEN Nothing ELSE <<match.image = "url", match.link>>
    BY DEF FirstMatchIsTaken
  <1> DEFINE matches == {i \in DOMAIN page : IsMatch(page[i])}
             hits == {i \in DOMAIN page : trackMatches(page, i)}
             r == [curl |-> "ok", HTTPCode |-> 200, output |-> page]
  <1>1. page \in Seq(Items) /\ page # Malformed /\ DOMAIN page = 1..Len(page)
    OBVIOUS
  <1>2. ASSUME NEW i \in DOMAIN page, NEW part \in {"title", "artist", "link", "image"}
        PROVE  /\ findDescendantWithAttr(page, i, part) = page[i][part]
               /\ page[i][part] # Absent
    BY <1>1, OwnPartIsFound DEF IsComplete
  <1>3. hits = matches
    BY <1>2 DEF trackMatches, IsMatch
  <1>4. checkResponse(r) /\ r.output = page
    BY DEF checkResponse, transferred, httpOk
  <1>5. CASE matches = {}
    BY <1>3, <1>4, <1>5 DEF scraperSearchTrack
  <1>6. CASE matches # {}
    <2> DEFINE match == Min(matches)
    <2>1. match \in DOMAIN page
      <3>1. matches \subseteq Nat
        BY <1>1
      <3>2. match \in matches
        <4> HIDE DEF matches
        <4> QED
          BY <1>6, <3>1, MinIsLeast
      <3> QED
        BY <3>2
    <2> HIDE DEF matches, hits, match
    <2>2. /\ findDescendantWithAttr(page, match, "image") = page[match].image
          /\ getAttribute(findDescendantWithAttr(page, match, "link")) = page[match].link
      BY <1>2, <2>1 DEF getAttribute
    <2>3. scraperSearchTrack(r) =
            <<findDescendantWithAttr(page, match, "image") = "url",
              getAttribute(findDescendantWithAttr(page, match, "link"))>>
      BY <1>1, <1>3, <1>4, <1>6 DEF scraperSearchTrack, hits, match
    <2> QED
      BY <1>6, <2>2, <2>3 DEF match, matches
  <1> QED
    BY <1>5, <1>6

(* In every state: what Scraper::searchTrack gives for a page without gaps *)
(* is its first match, for pages of any number of items.                   *)
THEOREM FirstMatch == Spec => []FirstMatchTaken
  <1>1. ASSUME NEW page \in Pages PROVE page \in Seq(Items) /\ page # Malformed
    BY PagesAssumption DEF Pages
  <1>2. FirstMatchTaken
    BY <1>1, FirstMatchAlwaysTaken DEF FirstMatchTaken, PagesChecked
  <1> QED
    BY <1>2, PTL

-----------------------------------------------------------------------------
(* CacheCodec                                                              *)

(* f goes from c, for zero, by a next step to each number.                 *)
Unrolls(f, n, S, c, next) ==
  /\ f \in [0..n -> S]
  /\ f[0] = c
  /\ \A i \in 1..n : f[i] = next[<<f[i - 1], i>>]

(* There is such a function, whatever the value and the step.              *)
LEMMA Recursion ==
  ASSUME NEW n \in Nat, NEW S, NEW c \in S, NEW next \in [S \X (1..n) -> S]
  PROVE  \E f : Unrolls(f, n, S, c, next)
  <1> DEFINE Good(f, m) == f[0] = c /\ \A i \in 1..n : i <= m => f[i] = next[<<f[i - 1], i>>]
             T == {m \in Nat : \E f \in [0..n -> S] : Good(f, m)}
  <1>1. 0 \in T
    <2>1. Good([i \in 0..n |-> c], 0)
      OBVIOUS
    <2> QED
      BY <2>1
  <1>2. ASSUME NEW m \in Nat, m \in T PROVE \E f \in [0..n -> S] : Good(f, m + 1)
    <2>1. PICK f \in [0..n -> S] : Good(f, m)
      BY <1>2
    <2>2. CASE m + 1 > n
      <3>1. Good(f, m + 1)
        BY <2>1, <2>2
      <3> QED
        BY <3>1
    <2>3. CASE m + 1 <= n
      <3> DEFINE g == [i \in 0..n |-> IF i = m + 1 THEN next[<<f[m], m + 1>>] ELSE f[i]]
      <3>1. f[m] \in S /\ m + 1 \in 1..n /\ next[<<f[m], m + 1>>] \in S
        BY <2>3
      <3>2. g \in [0..n -> S]
        BY <3>1
      <3>3. g[0] = c
        BY <2>1
      <3>4. ASSUME NEW i \in 1..n, i <= m + 1 PROVE g[i] = next[<<g[i - 1], i>>]
        <4>1. CASE i = m + 1
          <5>1. g[i - 1] = f[m] /\ g[i] = next[<<f[m], m + 1>>]
            BY <4>1
          <5> QED
            BY <4>1, <5>1
        <4>2. CASE i # m + 1
          <5>1. i <= m /\ g[i] = f[i] /\ g[i - 1] = f[i - 1]
            BY <3>4, <4>2
          <5> QED
            BY <2>1, <5>1
        <4> QED
          BY <4>1, <4>2
      <3> HIDE DEF g
      <3>5. Good(g, m + 1)
        BY <3>3, <3>4
      <3> HIDE DEF Good
      <3> QED
        BY <3>2, <3>5
    <2> HIDE DEF Good
    <2> QED
      BY <2>2, <2>3
  <1>3. \A m \in Nat : m \in T => m + 1 \in T
    <2> HIDE DEF Good
    <2> QED
      BY <1>2
  <1>4. n \in T
    <2> HIDE DEF T
    <2> QED
      BY <1>1, <1>3, SetInduction
  <1>5. PICK f \in [0..n -> S] : Good(f, n)
    <2> HIDE DEF Good
    <2> QED
      BY <1>4
  <1>6. \A i \in 1..n : f[i] = next[<<f[i - 1], i>>]
    BY <1>5
  <1>7. f[0] = c
    BY <1>5
  <1> QED
    BY <1>6, <1>7 DEF Unrolls

LEMMA CodecFacts ==
  /\ Base \in Nat /\ Base > 1 /\ Width \in Nat
  /\ \A b \in Bytes : b \in Nat /\ b < Base
  /\ \A b \in Nat : b < Base => b \in Bytes
  BY NumbersAssumption DEF Bytes

LEMMA WeightDef ==
  /\ Weight \in [0..Width -> Nat \ {0}]
  /\ Weight[0] = 1
  /\ \A i \in 1..Width : Weight[i] = Base * Weight[i - 1]
  <1> DEFINE P == Nat \ {0}
             next == [x \in P \X (1..Width) |-> Base * x[1]]
  <1>1. next \in [P \X (1..Width) -> P] /\ 1 \in P
    BY CodecFacts
  <1>2. Width \in Nat
    BY CodecFacts
  <1>3. PICK f : Unrolls(f, Width, P, 1, next)
    <2> HIDE DEF next, P
    <2> QED
      BY <1>1, <1>2, Recursion
  <1>4. ASSUME NEW i \in 1..Width PROVE f[i] = Base * f[i - 1]
    <2>1. f[i - 1] \in P
      <3> HIDE DEF P, next
      <3> QED
        BY <1>2, <1>3 DEF Unrolls
    <2>2. next[<<f[i - 1], i>>] = Base * f[i - 1]
      BY <2>1
    <2> HIDE DEF next
    <2> QED
      BY <1>3, <2>2 DEF Unrolls
  <1> HIDE DEF next
  <1>5. f = [i \in 0..Width |-> IF i = 0 THEN 1 ELSE Base * f[i - 1]]
    <2>1. \A i \in 0..Width : f[i] = IF i = 0 THEN 1 ELSE Base * f[i - 1]
      BY <1>3, <1>4 DEF Unrolls
    <2> QED
      BY <1>3, <2>1 DEF Unrolls
  <1>6. Weight = [i \in 0..Width |-> IF i = 0 THEN 1 ELSE Base * Weight[i - 1]]
    BY <1>5 DEF Weight
  <1>7. Weight[0] = 1 /\ \A i \in 1..Width : Weight[i] = Base * Weight[i - 1]
    <2> HIDE DEF Weight
    <2>1. \A i \in 0..Width : Weight[i] = IF i = 0 THEN 1 ELSE Base * Weight[i - 1]
      BY <1>6
    <2> QED
      BY <1>2, <2>1
  <1>8. \A i \in 0..Width : Weight[i] \in P
    <2> DEFINE T == {i \in Nat : i <= Width => Weight[i] \in P}
    <2>1. 0 \in T
      BY <1>7
    <2>2. ASSUME NEW i \in Nat, i \in T, i + 1 <= Width PROVE Weight[i + 1] \in P
      <3>1. Weight[i] \in P
        BY <2>2, <1>2
      <3>2. Weight[i + 1] = Base * Weight[i]
        BY <1>7, <2>2, <1>2
      <3>3. Base \in Nat \ {0}
        BY CodecFacts
      <3> QED
        BY <3>1, <3>2, <3>3
    <2>3. \A i \in Nat : i \in T => i + 1 \in T
      BY <2>2
    <2>4. Nat \subseteq T
      <3> HIDE DEF T
      <3> QED
        BY <2>1, <2>3, SetInduction
    <2> QED
      BY <2>4
  <1>9. Weight \in [0..Width -> P]
    <2> HIDE DEF P
    <2>1. Weight = [i \in 0..Width |-> Weight[i]]
      BY <1>6
    <2> QED
      BY <1>8, <2>1
  <1> QED
    BY <1>7, <1>9

LEMMA SumsDef ==
  ASSUME NEW buf, NEW offset \in Nat, \A i \in 1..Width : buf[offset + i] \in Nat
  PROVE  /\ Sums(buf, offset) \in [0..Width -> Nat]
         /\ Sums(buf, offset)[0] = 0
         /\ \A i \in 1..Width :
              Sums(buf, offset)[i] = Sums(buf, offset)[i - 1] + buf[offset + i] * Weight[i - 1]
  <1> DEFINE next == [x \in Nat \X (1..Width) |-> x[1] + buf[offset + x[2]] * Weight[x[2] - 1]]
             s == Sums(buf, offset)
  <1>1. Width \in Nat
    BY CodecFacts
  <1>2. \A i \in 1..Width : buf[offset + i] * Weight[i - 1] \in Nat
    <2> SUFFICES ASSUME NEW i \in 1..Width PROVE buf[offset + i] * Weight[i - 1] \in Nat
      OBVIOUS
    <2>1. Weight[i - 1] \in Nat /\ buf[offset + i] \in Nat
      BY <1>1, WeightDef
    <2> QED
      BY <2>1
  <1>3. next \in [Nat \X (1..Width) -> Nat]
    BY <1>2
  <1>4. PICK f : Unrolls(f, Width, Nat, 0, next)
    <2> HIDE DEF next
    <2> QED
      BY <1>1, <1>3, Recursion
  <1>5. ASSUME NEW i \in 1..Width PROVE f[i] = f[i - 1] + buf[offset + i] * Weight[i - 1]
    <2>1. f[i - 1] \in Nat
      BY <1>1, <1>4 DEF Unrolls
    <2>2. next[<<f[i - 1], i>>] = f[i - 1] + buf[offset + i] * Weight[i - 1]
      BY <2>1
    <2> HIDE DEF next
    <2> QED
      BY <1>4, <2>2 DEF Unrolls
  <1> HIDE DEF next
  <1>6. f = [i \in 0..Width |-> IF i = 0 THEN 0 ELSE f[i - 1] + buf[offset + i] * Weight[i - 1]]
    <2>1. \A i \in 0..Width :
            f[i] = IF i = 0 THEN 0 ELSE f[i - 1] + buf[offset + i] * Weight[i - 1]
      BY <1>4, <1>5 DEF Unrolls
    <2> QED
      BY <1>4, <2>1 DEF Unrolls
  <1>7. s = [i \in 0..Width |-> IF i = 0 THEN 0 ELSE s[i - 1] + buf[offset + i] * Weight[i - 1]]
    BY <1>6 DEF Sums
  <1> HIDE DEF s
  <1>8. s[0] = 0 /\ \A i \in 1..Width : s[i] = s[i - 1] + buf[offset + i] * Weight[i - 1]
    <2>1. \A i \in 0..Width :
            s[i] = IF i = 0 THEN 0 ELSE s[i - 1] + buf[offset + i] * Weight[i - 1]
      BY <1>7
    <2> QED
      BY <1>1, <2>1
  <1>9. \A i \in 0..Width : s[i] \in Nat
    <2> DEFINE T == {i \in Nat : i <= Width => s[i] \in Nat}
    <2>1. 0 \in T
      BY <1>8
    <2>2. ASSUME NEW i \in Nat, i \in T, i + 1 <= Width PROVE s[i + 1] \in Nat
      <3>1. s[i] \in Nat
        BY <1>1, <2>2
      <3>2. i + 1 \in 1..Width /\ i + 1 - 1 = i
        BY <1>1, <2>2
      <3>3. s[i + 1] = s[i] + buf[offset + (i + 1)] * Weight[i + 1 - 1]
        BY <1>8, <3>2
      <3> QED
        BY <1>2, <3>1, <3>2, <3>3
    <2>3. \A i \in Nat : i \in T => i + 1 \in T
      BY <2>2
    <2>4. Nat \subseteq T
      <3> HIDE DEF T
      <3> QED
        BY <2>1, <2>3, SetInduction
    <2> QED
      BY <2>4
  <1>10. s \in [0..Width -> Nat]
    <2>1. s = [i \in 0..Width |-> s[i]]
      BY <1>7
    <2> QED
      BY <1>9, <2>1
  <1> QED
    BY <1>8, <1>10 DEF s

(* A number that is written is read, if it fits in Width bytes.            *)
LEMMA Quotients ==
  ASSUME NEW v \in Nat, NEW a \in Nat \ {0}, NEW b \in Nat \ {0}
  PROVE  /\ v \div a \in Nat /\ (v \div a) % b \in Nat /\ (v \div a) % b < b
         /\ v - a * (v \div a) + ((v \div a) % b) * a = v - (b * a) * (v \div (b * a))
         /\ v < a => v \div a = 0
  <1>1. v \div a \in Nat /\ (v \div a) % b \in Nat /\ (v \div a) % b < b
    OBVIOUS
  <1>2. (v \div a) \div b = v \div (b * a)
    OBVIOUS
  <1>3. (v \div a) % b = (v \div a) - b * ((v \div a) \div b)
    OBVIOUS
  <1> DEFINE q == v \div a
             d == q \div b
  <1>4. q \in Nat /\ d \in Nat
    OBVIOUS
  <1> HIDE DEF q, d
  <1>5. (q - b * d) * a = q * a - (b * a) * d
    BY <1>4
  <1>6. v - a * q + (q - b * d) * a = v - (b * a) * d
    BY <1>4, <1>5
  <1>7. v < a => v \div a = 0
    OBVIOUS
  <1> QED
    BY <1>1, <1>2, <1>3, <1>6, <1>7 DEF q, d

LEMMA WeightStep ==
  ASSUME NEW i \in 1..Width
  PROVE  /\ i - 1 \in 0..Width /\ i \in 0..Width
         /\ Weight[i - 1] \in Nat \ {0} /\ Weight[i] \in Nat \ {0}
         /\ Weight[i] = Base * Weight[i - 1]
  <1>1. i - 1 \in 0..Width /\ i \in 0..Width
    BY CodecFacts
  <1> QED
    BY <1>1, WeightDef

LEMMA NumberIsBytes ==
  ASSUME NEW v \in Nat
  PROVE  putU32(v) \in Seq(Bytes) /\ Len(putU32(v)) = Width
  <1>1. ASSUME NEW i \in 1..Width PROVE (v \div Weight[i - 1]) % Base \in Bytes
    <2>1. Weight[i - 1] \in Nat \ {0} /\ Base \in Nat \ {0}
      BY WeightStep, CodecFacts
    <2>2. (v \div Weight[i - 1]) % Base \in Nat /\ (v \div Weight[i - 1]) % Base < Base
      BY <2>1, Quotients
    <2> QED
      BY <2>2, CodecFacts
  <1>2. putU32(v) \in [1..Width -> Bytes]
    BY <1>1 DEF putU32
  <1> QED
    BY <1>2, CodecFacts

(* A number that is written is read, if it fits in Width bytes.            *)
LEMMA NumberReadBack ==
  ASSUME NEW buf, NEW offset \in Nat, NEW v \in Nat, v < Weight[Width],
         \A i \in 1..Width : buf[offset + i] = putU32(v)[i]
  PROVE  readU32(buf, offset) = v
  <1> DEFINE s == Sums(buf, offset)
  <1>1. Width \in Nat /\ Base \in Nat \ {0}
    BY CodecFacts
  <1>2. \A i \in 1..Width : putU32(v)[i] = (v \div Weight[i - 1]) % Base
    BY DEF putU32
  <1>3. \A i \in 1..Width : buf[offset + i] \in Nat
    <2> SUFFICES ASSUME NEW i \in 1..Width PROVE buf[offset + i] \in Nat
      OBVIOUS
    <2>1. Weight[i - 1] \in Nat \ {0}
      BY WeightStep
    <2>2. (v \div Weight[i - 1]) % Base \in Nat
      BY <1>1, <2>1, Quotients
    <2> QED
      BY <1>2, <2>2
  <1>4. /\ s[0] = 0
        /\ \A i \in 1..Width : s[i] = s[i - 1] + buf[offset + i] * Weight[i - 1]
    BY <1>3, SumsDef
  <1> HIDE DEF s
  <1> DEFINE T == {i \in Nat : i <= Width => s[i] = v - Weight[i] * (v \div Weight[i])}
  <1>5. 0 \in T
    <2>1. v - 1 * (v \div 1) = 0
      OBVIOUS
    <2> QED
      BY <1>4, <2>1, WeightDef
  <1>6. ASSUME NEW i \in Nat, i \in T, i + 1 <= Width
        PROVE  s[i + 1] = v - Weight[i + 1] * (v \div Weight[i + 1])
    <2>1. i + 1 \in 1..Width /\ i + 1 - 1 = i
      BY <1>1, <1>6
    <2>2. Weight[i] \in Nat \ {0} /\ Weight[i + 1] = Base * Weight[i]
      BY <2>1, WeightStep
    <2>3. s[i] = v - Weight[i] * (v \div Weight[i])
      BY <1>1, <1>6
    <2>4. s[i + 1] = s[i] + ((v \div Weight[i]) % Base) * Weight[i]
      BY <1>2, <1>4, <2>1
    <2> DEFINE w == Weight[i]
    <2>5. v - w * (v \div w) + ((v \div w) % Base) * w = v - (Base * w) * (v \div (Base * w))
      BY <1>1, <2>2, Quotients
    <2> HIDE DEF T
    <2> QED
      BY <2>2, <2>3, <2>4, <2>5
  <1>7. \A i \in Nat : i \in T => i + 1 \in T
    BY <1>6
  <1>8. Width \in T
    <2> HIDE DEF T
    <2> QED
      BY <1>1, <1>5, <1>7, SetInduction
  <1>9. Weight[Width] \in Nat \ {0} /\ v \div Weight[Width] = 0
    <2>1. Weight[Width] \in Nat \ {0}
      BY <1>1, WeightDef
    <2> QED
      BY <2>1, Quotients
  <1>10. s[Width] = v - Weight[Width] * (v \div Weight[Width])
    BY <1>1, <1>8
  <1>11. s[Width] = v
    <2> HIDE DEF T
    <2> QED
      BY <1>9, <1>10
  <1> QED
    BY <1>11 DEF readU32, s

(* The bytes of a number that is read are those it is written as.          *)
LEMMA NumberWrittenAgain ==
  ASSUME NEW buf, NEW offset \in Nat, \A i \in 1..Width : buf[offset + i] \in Bytes
  PROVE  /\ readU32(buf, offset) \in Nat /\ readU32(buf, offset) < Weight[Width]
         /\ \A i \in 1..Width : putU32(readU32(buf, offset))[i] = buf[offset + i]
  <1> DEFINE s == Sums(buf, offset)
             b(i) == buf[offset + i]
  <1>1. Width \in Nat /\ Base \in Nat \ {0}
    BY CodecFacts
  <1>2. \A i \in 1..Width : b(i) \in Nat /\ b(i) < Base
    BY CodecFacts
  <1>3. /\ s \in [0..Width -> Nat]
        /\ s[0] = 0
        /\ \A i \in 1..Width : s[i] = s[i - 1] + b(i) * Weight[i - 1]
    BY <1>2, SumsDef
  <1>4. readU32(buf, offset) = s[Width]
    BY DEF readU32
  <1> HIDE DEF s, b
  <1>5. \A i \in 0..Width : s[i] < Weight[i]
    <2> DEFINE T == {i \in Nat : i <= Width => s[i] < Weight[i]}
    <2>1. 0 \in T
      BY <1>3, WeightDef
    <2>2. ASSUME NEW i \in Nat, i \in T, i + 1 <= Width PROVE s[i + 1] < Weight[i + 1]
      <3> DEFINE w == Weight[i]
                 c == b(i + 1)
      <3>1. i + 1 \in 1..Width /\ i + 1 - 1 = i /\ i \in 0..Width
        BY <1>1, <2>2
      <3>2. w \in Nat \ {0} /\ Weight[i + 1] = Base * w
        BY <3>1, WeightStep
      <3>3. s[i] \in Nat /\ s[i] < w /\ s[i + 1] = s[i] + c * w /\ c \in Nat /\ c <= Base - 1
        BY <1>1, <1>2, <1>3, <2>2, <3>1
      <3> HIDE DEF w, c
      <3>4. c * w <= (Base - 1) * w /\ (Base - 1) * w = Base * w - w
        BY <1>1, <3>2, <3>3
      <3>5. c * w \in Nat /\ Base * w \in Nat
        BY <1>1, <3>2, <3>3
      <3> QED
        BY <3>2, <3>3, <3>4, <3>5
    <2>3. \A i \in Nat : i \in T => i + 1 \in T
      BY <2>2
    <2>4. Nat \subseteq T
      <3> HIDE DEF T
      <3> QED
        BY <2>1, <2>3, SetInduction
    <2> QED
      BY <2>4
  <1> DEFINE Rest(i) == \E r \in Nat : s[Width] = s[i] + Weight[i] * r
  <1>6. \A i \in 0..Width : Rest(i)
    <2> DEFINE T == {k \in Nat : k <= Width => Rest(Width - k)}
    <2>1. 0 \in T
      <3>1. s[Width] = s[Width] + Weight[Width] * 0
        BY <1>1, <1>3, WeightDef
      <3> QED
        BY <1>1, <3>1
    <2>2. ASSUME NEW k \in Nat, k \in T, k + 1 <= Width PROVE Rest(Width - (k + 1))
      <3> DEFINE i == Width - (k + 1)
                 w == Weight[i]
                 c == b(i + 1)
      <3>1. i \in Nat /\ i + 1 \in 1..Width /\ i + 1 - 1 = i /\ i + 1 = Width - k /\ i \in 0..Width
        BY <1>1, <2>2
      <3>2. w \in Nat \ {0} /\ Weight[i + 1] = Base * w
        <4> HIDE DEF i
        <4> QED
          BY <3>1, WeightStep
      <3>3. s[i] \in Nat /\ s[i + 1] = s[i] + c * w /\ c \in Nat
        <4> HIDE DEF i
        <4> QED
          BY <1>2, <1>3, <3>1
      <3>4. PICK r \in Nat : s[Width] = s[i + 1] + Weight[i + 1] * r
        BY <1>1, <2>2, <3>1
      <3> HIDE DEF w, c
      <3>5. (c * w) + (Base * w) * r = w * (c + Base * r) /\ c + Base * r \in Nat
        BY <1>1, <3>2, <3>3
      <3>6. c * w \in Nat /\ (Base * w) * r \in Nat
        BY <1>1, <3>2, <3>3
      <3>7. s[Width] = s[i] + w * (c + Base * r)
        <4> HIDE DEF i
        <4> QED
          BY <3>2, <3>3, <3>4, <3>5, <3>6
      <3> HIDE DEF i
      <3> QED
        BY <3>5, <3>7 DEF i, w
    <2>3. \A k \in Nat : k \in T => k + 1 \in T
      BY <2>2
    <2>4. Nat \subseteq T
      <3> HIDE DEF T
      <3> QED
        BY <2>1, <2>3, SetInduction
    <2>5. SUFFICES ASSUME NEW i \in 0..Width PROVE Rest(i)
      OBVIOUS
    <2>6. Width - i \in Nat /\ Width - i <= Width /\ Width - (Width - i) = i
      BY <1>1
    <2>7. Width - i \in T
      BY <2>4, <2>6
    <2>8. Rest(Width - (Width - i))
      BY <2>6, <2>7
    <2> QED
      BY <2>6, <2>8
  <1>7. ASSUME NEW i \in 1..Width PROVE putU32(s[Width])[i] = b(i)
    <2> DEFINE w == Weight[i - 1]
               c == b(i)
               low == s[i - 1]
    <2>1. w \in Nat \ {0} /\ Weight[i] = Base * w /\ i - 1 \in 0..Width /\ i \in 0..Width
      BY WeightStep
    <2>2. /\ low \in Nat /\ low < w /\ s[i] = low + c * w
          /\ c \in Nat /\ c < Base
      BY <1>2, <1>3, <1>5, <2>1
    <2>3. PICK r \in Nat : s[Width] = s[i] + Weight[i] * r
      BY <1>6, <2>1
    <2>4. putU32(s[Width])[i] = (s[Width] \div w) % Base
      BY DEF putU32
    <2> HIDE DEF w, c, low
    <2> DEFINE q == c + Base * r
    <2>5. c * w + (Base * w) * r = w * q /\ q \in Nat
      BY <1>1, <2>1, <2>2
    <2>6. s[Width] = low + w * q
      <3>1. c * w \in Nat /\ (Base * w) * r \in Nat
        BY <1>1, <2>1, <2>2
      <3> QED
        BY <2>1, <2>2, <2>3, <2>5, <3>1
    <2>7. q % Base = c
      BY <1>1, <2>2
    <2> HIDE DEF q
    <2>8. (low + w * q) \div w = q
      BY <2>1, <2>2, <2>5
    <2> QED
      BY <2>4, <2>6, <2>7, <2>8 DEF c
  <1> QED
    BY <1>1, <1>3, <1>4, <1>5, <1>7 DEF b

-----------------------------------------------------------------------------
(* Texts in a row.                                                         *)

(* The bytes of part stand in buf from offset on.                          *)
Holds(buf, offset, part) ==
  offset + Len(part) <= Len(buf) /\ SubSeq(buf, offset + 1, offset + Len(part)) = part

LEMMA HoldsBytes ==
  ASSUME NEW buf \in Seq(Bytes), NEW offset \in Nat, NEW part \in Seq(Bytes)
  PROVE  Holds(buf, offset, part) <=>
           /\ offset + Len(part) <= Len(buf)
           /\ \A i \in 1..Len(part) : buf[offset + i] = part[i]
  <1> DEFINE there == SubSeq(buf, offset + 1, offset + Len(part))
  <1> SUFFICES ASSUME offset + Len(part) <= Len(buf)
               PROVE  there = part <=> \A i \in 1..Len(part) : buf[offset + i] = part[i]
    BY DEF Holds
  <1>1. Len(part) \in Nat /\ Len(buf) \in Nat
    OBVIOUS
  <1>2. /\ there \in Seq(Bytes) /\ Len(there) = Len(part)
        /\ \A i \in 1..Len(part) : there[i] = buf[offset + i]
    OBVIOUS
  <1> HIDE DEF there
  <1>3. there = part => \A i \in 1..Len(part) : buf[offset + i] = part[i]
    BY <1>2
  <1>4. (\A i \in 1..Len(part) : buf[offset + i] = part[i]) => there = part
    BY <1>2, SeqEqual
  <1> QED
    BY <1>3, <1>4

LEMMA HoldsBoth ==
  ASSUME NEW buf \in Seq(Bytes), NEW offset \in Nat, NEW s \in Seq(Bytes), NEW t \in Seq(Bytes),
         Holds(buf, offset, s \o t)
  PROVE  Holds(buf, offset, s) /\ Holds(buf, offset + Len(s), t)
  <1>1. s \o t \in Seq(Bytes) /\ Len(s \o t) = Len(s) + Len(t) /\ Len(s) \in Nat /\ Len(t) \in Nat
    OBVIOUS
  <1>2. /\ offset + (Len(s) + Len(t)) <= Len(buf)
        /\ \A i \in 1..(Len(s) + Len(t)) : buf[offset + i] = (s \o t)[i]
    <2> DEFINE both == s \o t
    <2>1. both \in Seq(Bytes) /\ Len(both) = Len(s) + Len(t) /\ Holds(buf, offset, both)
      BY <1>1
    <2> HIDE DEF both
    <2>2. offset + Len(both) <= Len(buf) /\ \A i \in 1..Len(both) : buf[offset + i] = both[i]
      BY <2>1, HoldsBytes
    <2> QED
      BY <2>1, <2>2 DEF both
  <1>3. offset + Len(s) <= Len(buf) /\ (offset + Len(s)) + Len(t) <= Len(buf)
    BY <1>1, <1>2
  <1>4. ASSUME NEW i \in 1..Len(s) PROVE buf[offset + i] = s[i]
    BY <1>1, <1>2
  <1>5. ASSUME NEW i \in 1..Len(t) PROVE buf[(offset + Len(s)) + i] = t[i]
    <2>1. Len(s) + i \in 1..(Len(s) + Len(t)) /\ offset + (Len(s) + i) = (offset + Len(s)) + i
      BY <1>1
    <2>2. (s \o t)[Len(s) + i] = t[i]
      BY <1>1
    <2> QED
      BY <1>2, <2>1, <2>2
  <1>6. offset + Len(s) \in Nat
    BY <1>1
  <1> QED
    BY <1>3, <1>4, <1>5, <1>6, HoldsBytes

LEMMA TextIsBytes ==
  ASSUME NEW text \in Seq(Bytes)
  PROVE  putText(text) \in Seq(Bytes) /\ Len(putText(text)) = Width + Len(text)
  <1>1. Len(text) \in Nat
    OBVIOUS
  <1>2. putU32(Len(text)) \in Seq(Bytes) /\ Len(putU32(Len(text))) = Width
    BY <1>1, NumberIsBytes
  <1> QED
    BY <1>2, ConcatProperties DEF putText

LEMMA NumberThere ==
  ASSUME NEW buf \in Seq(Bytes), NEW offset \in Nat, NEW v \in Nat, v < Weight[Width],
         Holds(buf, offset, putU32(v))
  PROVE  hasU32(buf, offset) /\ readU32(buf, offset) = v
  <1>1. putU32(v) \in Seq(Bytes) /\ Len(putU32(v)) = Width
    BY NumberIsBytes
  <1>2. offset + Width <= Len(buf) /\ \A i \in 1..Width : buf[offset + i] = putU32(v)[i]
    BY <1>1, HoldsBytes
  <1> QED
    BY <1>2, NumberReadBack DEF hasU32

(* A text that is written is read, wherever it stands.                     *)
LEMMA TextReadBack ==
  ASSUME NEW buf \in Seq(Bytes), NEW offset \in Nat, NEW text \in Seq(Bytes),
         Len(text) < Weight[Width], Holds(buf, offset, putText(text))
  PROVE  /\ hasText(buf, offset)
         /\ endOfText(buf, offset) = offset + Len(putText(text))
         /\ readText(buf, offset) = text
  <1> DEFINE n == Len(text)
             number == putU32(n)
  <1>1. n \in Nat /\ Width \in Nat /\ number \in Seq(Bytes) /\ Len(number) = Width
    BY NumberIsBytes, CodecFacts
  <1>2. Len(putText(text)) = Width + n
    BY TextIsBytes
  <1> HIDE DEF n, number
  <1>3. Holds(buf, offset, number) /\ Holds(buf, offset + Width, text)
    <2>1. Holds(buf, offset, number \o text)
      BY DEF putText, n, number
    <2> QED
      BY <1>1, <2>1, HoldsBoth
  <1>4. hasU32(buf, offset) /\ readU32(buf, offset) = n
    BY <1>1, <1>3, NumberThere DEF number, n
  <1>5. (offset + Width) + n <= Len(buf)
        /\ SubSeq(buf, offset + Width + 1, (offset + Width) + n) = text
    BY <1>3 DEF Holds, n
  <1> QED
    BY <1>1, <1>2, <1>4, <1>5 DEF hasText, endOfText, readText

LEMMA NumberThereAgain ==
  ASSUME NEW buf \in Seq(Bytes), NEW offset \in Nat, hasU32(buf, offset)
  PROVE  /\ readU32(buf, offset) \in Nat /\ readU32(buf, offset) < Weight[Width]
         /\ Holds(buf, offset, putU32(readU32(buf, offset)))
  <1>1. Width \in Nat /\ offset + Width <= Len(buf)
    BY CodecFacts DEF hasU32
  <1>2. \A i \in 1..Width : buf[offset + i] \in Bytes
    BY <1>1
  <1>3. /\ readU32(buf, offset) \in Nat /\ readU32(buf, offset) < Weight[Width]
        /\ \A i \in 1..Width : putU32(readU32(buf, offset))[i] = buf[offset + i]
    BY <1>2, NumberWrittenAgain
  <1>4. putU32(readU32(buf, offset)) \in Seq(Bytes) /\ Len(putU32(readU32(buf, offset))) = Width
    BY <1>3, NumberIsBytes
  <1> QED
    BY <1>1, <1>3, <1>4, HoldsBytes

(* The bytes of a text that is read are those it is written as.            *)
LEMMA TextWrittenAgain ==
  ASSUME NEW buf \in Seq(Bytes), NEW offset \in Nat, hasText(buf, offset)
  PROVE  /\ endOfText(buf, offset) \in Nat
         /\ offset <= endOfText(buf, offset) /\ endOfText(buf, offset) <= Len(buf)
         /\ readText(buf, offset) \in Seq(Bytes)
         /\ putText(readText(buf, offset)) = SubSeq(buf, offset + 1, endOfText(buf, offset))
  <1> DEFINE n == readU32(buf, offset)
             text == readText(buf, offset)
             end == endOfText(buf, offset)
             start == offset + Width
  <1>1. Width \in Nat /\ n \in Nat /\ Holds(buf, offset, putU32(n)) /\ end <= Len(buf)
    BY CodecFacts, NumberThereAgain DEF hasText, endOfText
  <1>2. start \in Nat /\ end \in Nat /\ end = start + n /\ offset <= start /\ start <= end
    BY <1>1 DEF endOfText
  <1>3. text = SubSeq(buf, start + 1, end)
    BY DEF readText
  <1>4. text \in Seq(Bytes) /\ Len(text) = n
    <2>1. \A i \in (start + 1)..end : buf[i] \in Bytes
      BY <1>1, <1>2
    <2> HIDE DEF text, end, start, n
    <2> QED
      BY <1>1, <1>2, <1>3, <2>1, SubSeqProperties
  <1>5. putU32(n) = SubSeq(buf, offset + 1, start)
    BY <1>1, NumberIsBytes DEF Holds
  <1>6. SubSeq(buf, offset + 1, start) \o SubSeq(buf, start + 1, end) = SubSeq(buf, offset + 1, end)
    <2>1. offset + 1 \in 1..(Len(buf) + 1) /\ start \in (offset + 1 - 1)..Len(buf) /\ end \in start..Len(buf)
      BY <1>1, <1>2
    <2> HIDE DEF end, start
    <2> QED
      BY <2>1, ConcatAdjacentSubSeq
  <1> HIDE DEF n, start
  <1>7. putText(text) = SubSeq(buf, offset + 1, end)
    BY <1>3, <1>4, <1>5, <1>6 DEF putText
  <1> QED
    BY <1>1, <1>2, <1>4, <1>7

LEMMA Joining ==
  ASSUME NEW S, NEW s \in Seq(S), NEW t \in Seq(S)
  PROVE  /\ s \o t \in Seq(S) /\ Len(s \o t) = Len(s) + Len(t) /\ Len(s) \in Nat /\ Len(t) \in Nat
         /\ \A i \in 1..Len(s) : (s \o t)[i] = s[i]
         /\ \A i \in 1..Len(t) : (s \o t)[Len(s) + i] = t[i]
  <1>1. Len(s) \in Nat /\ Len(t) \in Nat
    OBVIOUS
  <1>2. s \o t \in Seq(S) /\ Len(s \o t) = Len(s) + Len(t)
    OBVIOUS
  <1>3. ASSUME NEW i \in 1..Len(s) PROVE (s \o t)[i] = s[i]
    OBVIOUS
  <1>4. ASSUME NEW i \in 1..Len(t) PROVE (s \o t)[Len(s) + i] = t[i]
    OBVIOUS
  <1> QED
    BY <1>1, <1>2, <1>3, <1>4

LEMMA JoiningBytes ==
  \A s, t \in Seq(Bytes) :
    /\ s \o t \in Seq(Bytes) /\ Len(s \o t) = Len(s) + Len(t)
    /\ \A i \in 1..Len(t) : (s \o t)[Len(s) + i] = t[i]
  <1> SUFFICES ASSUME NEW s \in Seq(Bytes), NEW t \in Seq(Bytes)
               PROVE  /\ s \o t \in Seq(Bytes) /\ Len(s \o t) = Len(s) + Len(t)
                      /\ \A i \in 1..Len(t) : (s \o t)[Len(s) + i] = t[i]
    OBVIOUS
  <1>1. s \o t \in Seq(Bytes) /\ Len(s \o t) = Len(s) + Len(t)
    OBVIOUS
  <1>2. ASSUME NEW i \in 1..Len(t) PROVE (s \o t)[Len(s) + i] = t[i]
    OBVIOUS
  <1> QED
    BY <1>1, <1>2

Image == [writtenAt : Nat, type : Bytes, source : Seq(Bytes), url : Seq(Bytes)]

HeaderOf(image) == (putU32(image.writtenAt) \o <<image.type>>) \o putText(image.source)

(* What stands in the row of an image, and where its url begins.           *)
LEMMA ImageStands ==
  ASSUME NEW image \in Image, image.writtenAt < Weight[Width]
  PROVE  LET row == createImageValue(image)
             header == HeaderOf(image)
         IN  /\ row \in Seq(Bytes) /\ header \in Seq(Bytes)
             /\ row = header \o image.url
             /\ Len(header) = Width + 1 + Len(putText(image.source))
             /\ Len(row) = Len(header) + Len(image.url)
             /\ Len(putText(image.source)) \in Nat /\ Len(image.url) \in Nat
             /\ readU32(row, 0) = image.writtenAt /\ row[Width + 1] = image.type
             /\ Holds(row, Width + 1, putText(image.source))
             /\ Holds(row, Len(header), image.url)
  <1> DEFINE stamp == putU32(image.writtenAt)
             source == putText(image.source)
             type == <<image.type>>
             front == stamp \o type
             both == front \o source
             raw == createImageValue(image)
             url == image.url
  <1>1. /\ Width \in Nat /\ image.writtenAt \in Nat /\ image.type \in Bytes
        /\ image.source \in Seq(Bytes) /\ url \in Seq(Bytes)
    BY CodecFacts DEF Image
  <1>2. /\ stamp \in Seq(Bytes) /\ Len(stamp) = Width
        /\ source \in Seq(Bytes) /\ Len(source) \in Nat
    <2>1. stamp \in Seq(Bytes) /\ Len(stamp) = Width
      BY <1>1, NumberIsBytes
    <2>2. source \in Seq(Bytes)
      BY <1>1, TextIsBytes
    <2> QED
      BY <2>1, <2>2
  <1>3. raw = both \o url /\ HeaderOf(image) = both
    BY DEF createImageValue, HeaderOf
  <1> HIDE DEF stamp, source, raw, url
  <1>4. type \in Seq(Bytes) /\ Len(type) = 1 /\ type[1] = image.type
    BY <1>1
  <1> HIDE DEF type
  <1>5. front \in Seq(Bytes) /\ Len(front) = Width + 1 /\ front[Width + 1] = image.type
    <2>1. /\ front \in Seq(Bytes) /\ Len(front) = Len(stamp) + Len(type)
          /\ \A i \in 1..Len(type) : front[Len(stamp) + i] = type[i]
      BY <1>2, <1>4, JoiningBytes, Zenon
    <2> HIDE DEF front
    <2> QED
      BY <1>2, <1>4, <2>1
  <1> HIDE DEF front
  <1>6. both \in Seq(Bytes) /\ Len(both) = Width + 1 + Len(source)
    <2>1. both \in Seq(Bytes) /\ Len(both) = Len(front) + Len(source)
      BY <1>2, <1>5, Joining
    <2> QED
      BY <1>5, <2>1
  <1> HIDE DEF both
  <1>7. raw \in Seq(Bytes) /\ Len(raw) = Len(both) + Len(url) /\ Len(url) \in Nat
    <2>1. both \o url \in Seq(Bytes) /\ Len(both \o url) = Len(both) + Len(url) /\ Len(url) \in Nat
      BY <1>1, <1>6, Joining
    <2> QED
      BY <1>3, <2>1
  <1>8. Holds(raw, 0, both) /\ Holds(raw, Len(both), url)
    <2>1. Holds(raw, 0, both \o url)
      BY <1>3, <1>7, SubSeqFull DEF Holds
    <2> HIDE DEF both, raw, url
    <2>2. Holds(raw, 0, both) /\ Holds(raw, 0 + Len(both), url)
      BY <1>1, <1>6, <1>7, <2>1, HoldsBoth
    <2>3. 0 + Len(both) = Len(both)
      BY <1>6
    <2> QED
      BY <2>2, <2>3, Zenon
  <1>9. Holds(raw, 0, front) /\ Holds(raw, Width + 1, source)
    <2>1. Holds(raw, 0, front \o source)
      BY <1>8 DEF both
    <2> QED
      BY <1>1, <1>2, <1>5, <1>7, <2>1, HoldsBoth
  <1>10. Holds(raw, 0, stamp)
    <2>1. Holds(raw, 0, stamp \o type)
      BY <1>9 DEF front
    <2> QED
      BY <1>2, <1>4, <1>7, <2>1, HoldsBoth
  <1>11. readU32(raw, 0) = image.writtenAt
    BY <1>1, <1>7, <1>10, NumberThere DEF stamp
  <1>12. raw[Width + 1] = image.type
    <2>1. \A i \in 1..Len(front) : raw[0 + i] = front[i]
      BY <1>5, <1>7, <1>9, HoldsBytes
    <2> QED
      BY <1>1, <1>5, <2>1
  <1> QED
    BY <1>2, <1>3, <1>6, <1>7, <1>8, <1>9, <1>11, <1>12 DEF raw, url, source

LEMMA ImageReadBack ==
  ASSUME NEW image \in Image, image.writtenAt < Weight[Width], Len(image.source) < Weight[Width]
  PROVE  parseImageValue(createImageValue(image)) = image
  <1> DEFINE raw == createImageValue(image)
             source == putText(image.source)
             both == HeaderOf(image)
             url == image.url
  <1>1. Width \in Nat /\ image.source \in Seq(Bytes) /\ image.writtenAt \in Nat
    BY CodecFacts DEF Image
  <1>2. /\ raw \in Seq(Bytes) /\ Len(both) = Width + 1 + Len(source) /\ Len(raw) = Len(both) + Len(url)
        /\ Len(source) \in Nat /\ Len(url) \in Nat
        /\ readU32(raw, 0) = image.writtenAt /\ raw[Width + 1] = image.type
        /\ Holds(raw, Width + 1, source) /\ Holds(raw, Len(both), url)
    BY ImageStands
  <1> HIDE DEF raw, both, source, url
  <1>3. /\ hasText(raw, Width + 1) /\ endOfText(raw, Width + 1) = Len(both)
        /\ readText(raw, Width + 1) = image.source
    <2>1. Width + 1 \in Nat /\ Holds(raw, Width + 1, putText(image.source))
      BY <1>1, <1>2 DEF source
    <2>2. /\ hasText(raw, Width + 1) /\ endOfText(raw, Width + 1) = Width + 1 + Len(putText(image.source))
          /\ readText(raw, Width + 1) = image.source
      BY <1>1, <1>2, <2>1, TextReadBack
    <2> QED
      BY <1>2, <2>2 DEF source
  <1>4. SubSeq(raw, Len(both) + 1, Len(raw)) = url
    BY <1>2 DEF Holds
  <1>5. ~(Len(raw) <= Width)
    BY <1>1, <1>2
  <1>6. parseImageValue(raw) =
          [writtenAt |-> image.writtenAt, type |-> image.type, source |-> image.source, url |-> url]
    BY <1>2, <1>3, <1>4, <1>5 DEF parseImageValue
  <1> QED
    BY <1>6 DEF raw, url, Image

LEMMA ImageNotMadeUp ==
  ASSUME NEW raw \in Seq(Bytes), ~(Len(raw) <= Width \/ ~hasText(raw, Width + 1))
  PROVE  createImageValue(parseImageValue(raw)) = raw
  <1> DEFINE image == parseImageValue(raw)
             start == Width + 1
             end == endOfText(raw, start)
             n == Len(raw)
  <1>1. /\ Width \in Nat /\ n \in Nat /\ Width + 1 <= n /\ hasText(raw, start)
    BY CodecFacts
  <1>2. /\ image.writtenAt = readU32(raw, 0) /\ image.type = raw[Width + 1]
        /\ image.source = readText(raw, start) /\ image.url = SubSeq(raw, end + 1, n)
    BY DEF parseImageValue
  <1>3. putU32(readU32(raw, 0)) = SubSeq(raw, 1, Width)
    <2>1. hasU32(raw, 0)
      BY <1>1 DEF hasU32
    <2>2. readU32(raw, 0) \in Nat /\ Holds(raw, 0, putU32(readU32(raw, 0)))
      BY <2>1, NumberThereAgain
    <2> QED
      BY <1>1, <2>2, NumberIsBytes DEF Holds
  <1>4. <<raw[Width + 1]>> = SubSeq(raw, Width + 1, Width + 1)
    <2>1. Width + 1 \in 1..Len(raw) /\ raw[Width + 1] \in Bytes
      BY <1>1
    <2> DEFINE one == <<raw[Width + 1]>>
               there == SubSeq(raw, Width + 1, Width + 1)
    <2>2. one \in Seq(Bytes) /\ Len(one) = 1 /\ one[1] = raw[Width + 1]
      BY <2>1
    <2>3. there \in Seq(Bytes) /\ Len(there) = 1 /\ there[1] = raw[Width + 1]
      BY <1>1, <2>1
    <2> HIDE DEF one, there
    <2>4. one = there
      BY <2>2, <2>3, SeqEqual
    <2> QED
      BY <2>4 DEF one, there
  <1>5. /\ end \in Nat /\ start <= end /\ end <= n
        /\ putText(readText(raw, start)) = SubSeq(raw, start + 1, end)
    <2>1. start \in Nat
      BY <1>1
    <2> HIDE DEF start
    <2> QED
      BY <1>1, <2>1, TextWrittenAgain
  <1>6. createImageValue(image) =
          ((SubSeq(raw, 1, Width) \o SubSeq(raw, Width + 1, Width + 1)) \o SubSeq(raw, start + 1, end))
            \o SubSeq(raw, end + 1, n)
    <2> HIDE DEF image, end
    <2> QED
      BY <1>2, <1>3, <1>4, <1>5 DEF createImageValue
  <1> HIDE DEF image, end, start
  <1>7. SubSeq(raw, 1, Width) \o SubSeq(raw, Width + 1, Width + 1) = SubSeq(raw, 1, start)
    <2>1. 1 \in 1..(Len(raw) + 1) /\ Width \in (1 - 1)..Len(raw) /\ Width + 1 \in Width..Len(raw)
      BY <1>1
    <2> QED
      BY <2>1, ConcatAdjacentSubSeq DEF start
  <1>8. SubSeq(raw, 1, start) \o SubSeq(raw, start + 1, end) = SubSeq(raw, 1, end)
    <2>1. 1 \in 1..(Len(raw) + 1) /\ start \in (1 - 1)..Len(raw) /\ end \in start..Len(raw)
      BY <1>1, <1>5 DEF start
    <2> QED
      BY <2>1, ConcatAdjacentSubSeq
  <1>9. SubSeq(raw, 1, end) \o SubSeq(raw, end + 1, n) = raw
    <2>1. 1 \in 1..(Len(raw) + 1) /\ end \in (1 - 1)..Len(raw) /\ n \in end..Len(raw)
      BY <1>1, <1>5
    <2>2. SubSeq(raw, 1, end) \o SubSeq(raw, end + 1, n) = SubSeq(raw, 1, n)
      <3> HIDE DEF n
      <3> QED
        BY <2>1, ConcatAdjacentSubSeq
    <2> QED
      BY <2>2, SubSeqFull
  <1> QED
    BY <1>6, <1>7, <1>8, <1>9 DEF image

-----------------------------------------------------------------------------
(* Keys: the first bar of a key ends its title.                            *)

LEMMA AroundBar ==
  ASSUME NEW S, Bar \in S, NEW s \in Seq(S), NEW u \in Seq(S)
  PROVE  LET whole == s \o (<<Bar>> \o u)
         IN  /\ <<Bar>> \o u \in Seq(S)
             /\ whole \in Seq(S) /\ Len(whole) = Len(s) + (1 + Len(u))
             /\ \A i \in 1..Len(s) : whole[i] = s[i]
             /\ whole[Len(s) + 1] = Bar
             /\ \A i \in 1..Len(u) : whole[Len(s) + (1 + i)] = u[i]
  <1> DEFINE bar == <<Bar>>
             rest == bar \o u
             whole == s \o rest
  <1>1. Len(bar) = 1 /\ bar[1] = Bar /\ Len(s) \in Nat /\ Len(u) \in Nat
    OBVIOUS
  <1>2. bar \in Seq(S)
    OBVIOUS
  <1>3. rest \in Seq(S)
    BY <1>2
  <1> HIDE DEF bar
  <1>4. /\ rest \in Seq(S) /\ Len(rest) = Len(bar) + Len(u)
        /\ \A i \in 1..Len(bar) : rest[i] = bar[i]
        /\ \A i \in 1..Len(u) : rest[Len(bar) + i] = u[i]
    <2>1. rest \in Seq(S) /\ Len(rest) = Len(bar) + Len(u)
      BY <1>2, Joining
    <2>2. ASSUME NEW i \in 1..Len(bar) PROVE rest[i] = bar[i]
      BY <1>2, Joining
    <2>3. ASSUME NEW i \in 1..Len(u) PROVE rest[Len(bar) + i] = u[i]
      BY <1>2, Joining
    <2> QED
      BY <2>1, <2>2, <2>3
  <1> HIDE DEF rest
  <1>5. /\ whole \in Seq(S) /\ Len(whole) = Len(s) + Len(rest)
        /\ \A i \in 1..Len(s) : whole[i] = s[i]
        /\ \A i \in 1..Len(rest) : whole[Len(s) + i] = rest[i]
    <2>1. whole \in Seq(S) /\ Len(whole) = Len(s) + Len(rest)
      BY <1>3, Joining
    <2>2. ASSUME NEW i \in 1..Len(s) PROVE whole[i] = s[i]
      BY <1>3, Joining
    <2>3. ASSUME NEW i \in 1..Len(rest) PROVE whole[Len(s) + i] = rest[i]
      BY <1>3, Joining
    <2> QED
      BY <2>1, <2>2, <2>3
  <1> HIDE DEF whole
  <1>6. whole[Len(s) + 1] = Bar
    BY <1>1, <1>4, <1>5
  <1>7. ASSUME NEW i \in 1..Len(u) PROVE whole[Len(s) + (1 + i)] = u[i]
    <2>1. 1 + i \in 1..Len(rest) /\ rest[1 + i] = u[i]
      BY <1>1, <1>4
    <2> QED
      BY <1>5, <2>1
  <1>8. Len(whole) = Len(s) + (1 + Len(u))
    BY <1>1, <1>4, <1>5
  <1> QED
    BY <1>4, <1>5, <1>6, <1>7, <1>8 DEF whole, rest, bar

LEMMA FirstBar ==
  ASSUME NEW S, Bar \in S, NEW s \in Seq(S), NEW t \in Seq(S), NEW u \in Seq(S), NEW v \in Seq(S),
         \A i \in 1..Len(s) : s[i] # Bar, \A i \in 1..Len(t) : t[i] # Bar,
         s \o (<<Bar>> \o u) = t \o (<<Bar>> \o v)
  PROVE  s = t /\ u = v
  <1> DEFINE whole == s \o (<<Bar>> \o u)
  <1>1. /\ Len(whole) = Len(s) + (1 + Len(u))
        /\ \A i \in 1..Len(s) : whole[i] = s[i]
        /\ whole[Len(s) + 1] = Bar
        /\ \A i \in 1..Len(u) : whole[Len(s) + (1 + i)] = u[i]
    BY AroundBar
  <1>2. /\ Len(whole) = Len(t) + (1 + Len(v))
        /\ \A i \in 1..Len(t) : whole[i] = t[i]
        /\ whole[Len(t) + 1] = Bar
        /\ \A i \in 1..Len(v) : whole[Len(t) + (1 + i)] = v[i]
    <2> DEFINE other == t \o (<<Bar>> \o v)
    <2>1. /\ Len(other) = Len(t) + (1 + Len(v))
          /\ \A i \in 1..Len(t) : other[i] = t[i]
          /\ other[Len(t) + 1] = Bar
          /\ \A i \in 1..Len(v) : other[Len(t) + (1 + i)] = v[i]
      BY AroundBar
    <2>2. whole = other
      OBVIOUS
    <2> HIDE DEF whole, other
    <2> QED
      BY <2>1, <2>2
  <1> HIDE DEF whole
  <1>3. Len(s) \in Nat /\ Len(t) \in Nat /\ Len(u) \in Nat /\ Len(v) \in Nat
    OBVIOUS
  <1>4. Len(s) = Len(t)
    <2>1. ~(Len(s) < Len(t))
      <3> SUFFICES ASSUME Len(s) < Len(t) PROVE FALSE
        OBVIOUS
      <3>1. Len(s) + 1 \in 1..Len(t)
        BY <1>3
      <3> QED
        BY <1>1, <1>2, <3>1
    <2>2. ~(Len(t) < Len(s))
      <3> SUFFICES ASSUME Len(t) < Len(s) PROVE FALSE
        OBVIOUS
      <3>1. Len(t) + 1 \in 1..Len(s)
        BY <1>3
      <3> QED
        BY <1>1, <1>2, <3>1
    <2> QED
      BY <1>3, <2>1, <2>2
  <1>5. s = t
    <2>1. \A i \in 1..Len(s) : s[i] = t[i]
      BY <1>1, <1>2, <1>4
    <2> QED
      BY <1>4, <2>1, SeqEqual
  <1>6. Len(u) = Len(v)
    BY <1>1, <1>2, <1>3, <1>4
  <1>7. u = v
    <2>1. \A i \in 1..Len(u) : u[i] = v[i]
      BY <1>1, <1>2, <1>4, <1>6
    <2> QED
      BY <1>6, <2>1, SeqEqual
  <1> QED
    BY <1>5, <1>7

(* Whatever the texts of two tracks, the tracks share a key only if they   *)
(* differ in nothing but bars.                                             *)
THEOREM KeysAlwaysTellApart ==
  ASSUME NEW S, NEW tracks,
         \A track \in tracks : /\ track.title \in Seq(S)
                               /\ track.artist \in Seq(S)
                               /\ track.album \in Seq(S)
  PROVE  KeysTellApart(tracks)
  <1> DEFINE A == S \cup {Bar, Dash}
  <1>1. ASSUME NEW text \in Seq(S)
        PROVE  normalize(text) \in Seq(A) /\ \A i \in 1..Len(normalize(text)) : normalize(text)[i] # Bar
    <2>1. \A i \in 1..Len(text) : text[i] \in A
      OBVIOUS
    <2>2. normalize(text) = [i \in 1..Len(text) |-> IF text[i] = Bar THEN Dash ELSE text[i]]
      BY DEF normalize
    <2>3. Len(text) \in Nat /\ normalize(text) \in [1..Len(text) -> A]
      BY <2>1, <2>2
    <2>4. normalize(text) \in Seq(A) /\ Len(normalize(text)) = Len(text)
      BY <2>3
    <2> QED
      BY <2>2, <2>4, BarAssumption
  <1>2. Bar \in A
    OBVIOUS
  <1> HIDE DEF A
  <1>3. SUFFICES ASSUME NEW s \in tracks, NEW t \in tracks, getKey(s) = getKey(t)
                 PROVE  /\ normalize(s.title) = normalize(t.title)
                        /\ normalize(s.artist) = normalize(t.artist)
                        /\ normalize(s.album) = normalize(t.album)
    BY DEF KeysTellApart
  <1> DEFINE sTitle == normalize(s.title)
             sArtist == normalize(s.artist)
             sAlbum == normalize(s.album)
             tTitle == normalize(t.title)
             tArtist == normalize(t.artist)
             tAlbum == normalize(t.album)
  <1>4. /\ sTitle \in Seq(A) /\ sArtist \in Seq(A) /\ sAlbum \in Seq(A)
        /\ tTitle \in Seq(A) /\ tArtist \in Seq(A) /\ tAlbum \in Seq(A)
        /\ \A i \in 1..Len(sTitle) : sTitle[i] # Bar
        /\ \A i \in 1..Len(tTitle) : tTitle[i] # Bar
        /\ \A i \in 1..Len(sArtist) : sArtist[i] # Bar
        /\ \A i \in 1..Len(tArtist) : tArtist[i] # Bar
    BY <1>1
  <1>5. sTitle \o <<Bar>> \o sArtist \o <<Bar>> \o sAlbum = tTitle \o <<Bar>> \o tArtist \o <<Bar>> \o tAlbum
    BY <1>3 DEF getKey
  <1> HIDE DEF sTitle, sArtist, sAlbum, tTitle, tArtist, tAlbum
  <1>6. ASSUME NEW a \in Seq(A), NEW b \in Seq(A), NEW c \in Seq(A)
        PROVE  /\ a \o <<Bar>> \o b \o <<Bar>> \o c = a \o (<<Bar>> \o (b \o (<<Bar>> \o c)))
               /\ b \o (<<Bar>> \o c) \in Seq(A)
    <2> DEFINE bar == <<Bar>>
    <2>1. bar \in Seq(A)
      BY <1>2
    <2> HIDE DEF bar
    <2>2. b \o bar \in Seq(A) /\ bar \o c \in Seq(A) /\ a \o bar \in Seq(A) /\ b \o (bar \o c) \in Seq(A)
      BY <2>1
    <2>3. (a \o bar) \o b = a \o (bar \o b) /\ bar \o b \in Seq(A)
      BY <2>1, ConcatAssociative
    <2>4. ((a \o bar) \o b) \o bar = (a \o bar) \o (b \o bar)
      BY <2>1, <2>2, ConcatAssociative, SMTT(60)
    <2>5. ((a \o bar) \o (b \o bar)) \o c = (a \o bar) \o ((b \o bar) \o c)
      BY <2>2, ConcatAssociative, SMTT(60)
    <2>6. (b \o bar) \o c = b \o (bar \o c)
      BY <2>1, ConcatAssociative
    <2>7. (a \o bar) \o (b \o (bar \o c)) = a \o (bar \o (b \o (bar \o c)))
      <3> DEFINE tail == b \o (bar \o c)
      <3> HIDE DEF tail
      <3>1. tail \in Seq(A)
        BY <2>2 DEF tail
      <3>2. (a \o bar) \o tail = a \o (bar \o tail)
        BY <2>1, <3>1, ConcatAssociative, SMTT(60)
      <3> QED
        BY <3>2 DEF tail
    <2>8. a \o bar \o b \o bar \o c = a \o (bar \o (b \o (bar \o c)))
      BY <2>4, <2>5, <2>6, <2>7, Zenon
    <2> QED
      BY <2>2, <2>8 DEF bar
  <1> DEFINE sRest == sArtist \o (<<Bar>> \o sAlbum)
             tRest == tArtist \o (<<Bar>> \o tAlbum)
  <1>7. sRest \in Seq(A) /\ tRest \in Seq(A) /\ sTitle \o (<<Bar>> \o sRest) = tTitle \o (<<Bar>> \o tRest)
    BY <1>4, <1>5, <1>6, ZenonT(60)
  <1>8. \A a, b, c, d \in Seq(A) :
          /\ \A i \in 1..Len(a) : a[i] # Bar
          /\ \A i \in 1..Len(b) : b[i] # Bar
          /\ a \o (<<Bar>> \o c) = b \o (<<Bar>> \o d)
          => a = b /\ c = d
    <2> SUFFICES ASSUME NEW a \in Seq(A), NEW b \in Seq(A), NEW c \in Seq(A), NEW d \in Seq(A),
                        \A i \in 1..Len(a) : a[i] # Bar,
                        \A i \in 1..Len(b) : b[i] # Bar,
                        a \o (<<Bar>> \o c) = b \o (<<Bar>> \o d)
                 PROVE  a = b /\ c = d
      OBVIOUS
    <2> QED
      BY <1>2, FirstBar, ZenonT(30)
  <1>9. sTitle = tTitle /\ sRest = tRest
    <2> HIDE DEF sRest, tRest
    <2> QED
      BY <1>4, <1>7, <1>8, Zenon
  <1>10. sArtist = tArtist /\ sAlbum = tAlbum
    BY <1>4, <1>8, <1>9, Zenon
  <1> QED
    BY <1>9, <1>10 DEF sTitle, sArtist, sAlbum, tTitle, tArtist, tAlbum

-----------------------------------------------------------------------------
(* Links: what FlattenSeq joins, part by part.                             *)

Joins(f, parts) ==
  /\ f \in [0..Len(parts) -> Seq(Bytes)]
  /\ f[0] = <<>>
  /\ \A i \in 1..Len(parts) : f[i] = f[i - 1] \o parts[i]

LEMMA JoinsExists ==
  ASSUME NEW parts \in Seq(Seq(Bytes))
  PROVE  \E f : Joins(f, parts)
  <1> DEFINE n == Len(parts)
             S == Seq(Bytes)
             next == [x \in S \X (1..n) |-> x[1] \o parts[x[2]]]
  <1>1. n \in Nat /\ <<>> \in S
    OBVIOUS
  <1>2. \A i \in 1..n : parts[i] \in S
    OBVIOUS
  <1>3. next \in [S \X (1..n) -> S]
    BY <1>2
  <1>4. PICK f : Unrolls(f, n, S, <<>>, next)
    <2> HIDE DEF next, n, S
    <2> QED
      BY <1>1, <1>3, Recursion
  <1>5. f \in [0..n -> S] /\ f[0] = <<>> /\ \A i \in 1..n : f[i] = next[<<f[i - 1], i>>]
    BY <1>4 DEF Unrolls
  <1>6. ASSUME NEW i \in 1..n PROVE f[i] = f[i - 1] \o parts[i]
    <2>1. f[i - 1] \in S
      <3> HIDE DEF next, S, n
      <3> QED
        BY <1>1, <1>5
    <2>2. next[<<f[i - 1], i>>] = f[i - 1] \o parts[i]
      BY <2>1
    <2> HIDE DEF next
    <2> QED
      BY <1>5, <2>2
  <1> HIDE DEF next
  <1>7. Joins(f, parts)
    BY <1>5, <1>6 DEF Joins
  <1> QED
    BY <1>7

LEMMA JoinsIsFlattenSeq ==
  ASSUME NEW parts \in Seq(Seq(Bytes)), NEW f, Joins(f, parts)
  PROVE  FlattenSeq(parts) = f[Len(parts)]
  <1> DEFINE n == Len(parts)
  <1>1. n \in Nat
    OBVIOUS
  <1>2. CASE n = 0
    BY <1>2 DEF FlattenSeq, Joins
  <1>3. CASE n # 0
    <2> DEFINE flat == CHOOSE flatten :
                 flatten = [i \in 1..n |-> IF i = 1 THEN parts[i] ELSE flatten[i - 1] \o parts[i]]
               g == [i \in 1..n |-> f[i]]
    <2>1. f[0] = <<>> /\ f \in [0..n -> Seq(Bytes)] /\ \A i \in 1..n : f[i] = f[i - 1] \o parts[i]
      BY DEF Joins
    <2>2. f[1] = parts[1]
      <3>1. 1 \in 1..n
        BY <1>1, <1>3
      <3>2. parts[1] \in Seq(Bytes)
        BY <3>1
      <3>3. f[1] = f[0] \o parts[1]
        <4> HIDE DEF n
        <4>1. f[1] = f[1 - 1] \o parts[1]
          BY <2>1, <3>1, Zenon
        <4>2. 1 - 1 = 0
          OBVIOUS
        <4> QED
          BY <4>1, <4>2, Zenon
      <3> QED
        BY <2>1, <3>2, <3>3
    <2>3. \A i \in 1..n : g[i] = IF i = 1 THEN parts[i] ELSE g[i - 1] \o parts[i]
      <3> SUFFICES ASSUME NEW i \in 1..n PROVE g[i] = IF i = 1 THEN parts[i] ELSE g[i - 1] \o parts[i]
        OBVIOUS
      <3>1. CASE i = 1
        BY <2>2, <3>1
      <3>2. CASE i # 1
        <4>1. i - 1 \in 1..n
          BY <1>1, <3>2
        <4> QED
          BY <2>1, <3>2, <4>1
      <3> QED
        BY <3>1, <3>2
    <2>4. g = [i \in 1..n |-> IF i = 1 THEN parts[i] ELSE g[i - 1] \o parts[i]]
      <3> DEFINE h == [i \in 1..n |-> IF i = 1 THEN parts[i] ELSE g[i - 1] \o parts[i]]
      <3>1. \A i \in 1..n : g[i] = h[i]
        BY <2>3
      <3>2. g = [i \in 1..n |-> g[i]] /\ h = [i \in 1..n |-> h[i]]
        OBVIOUS
      <3> HIDE DEF g, h
      <3>3. g = h
        BY <3>1, <3>2, SMTT(60)
      <3> QED
        BY <3>3 DEF h
    <2>5. flat = [i \in 1..n |-> IF i = 1 THEN parts[i] ELSE flat[i - 1] \o parts[i]]
      <3> HIDE DEF g, n
      <3> QED
        BY <2>4, Zenon
    <2>6. FlattenSeq(parts) = flat[n]
      BY <1>3 DEF FlattenSeq
    <2> HIDE DEF flat, g
    <2>7. \A i \in 1..n : flat[i] = IF i = 1 THEN parts[i] ELSE flat[i - 1] \o parts[i]
      BY <2>5
    <2> DEFINE T == {i \in Nat : i \in 1..n => flat[i] = f[i]}
    <2>8. 0 \in T
      OBVIOUS
    <2>9. ASSUME NEW i \in Nat, i \in T, i + 1 \in 1..n PROVE flat[i + 1] = f[i + 1]
      <3>1. CASE i = 0
        <4>1. 1 \in 1..n /\ i + 1 = 1
          BY <2>9, <3>1
        <4>2. flat[1] = parts[1]
          BY <2>7, <4>1
        <4> QED
          BY <2>2, <4>1, <4>2
      <3>2. CASE i # 0
        <4>1. i \in 1..n /\ i + 1 # 1 /\ i + 1 - 1 = i
          BY <1>1, <2>9, <3>2
        <4>2. flat[i] = f[i]
          BY <2>9, <4>1
        <4> DEFINE j == i + 1
        <4>3. j \in 1..n /\ j # 1 /\ j - 1 = i
          BY <2>9, <4>1
        <4> HIDE DEF T, n, j
        <4>4. flat[j] = flat[j - 1] \o parts[j]
          BY <2>7, <4>3, Zenon
        <4>5. f[j] = f[j - 1] \o parts[j]
          BY <2>1, <4>3, Zenon
        <4>6. flat[j] = f[j]
          BY <4>2, <4>3, <4>4, <4>5, Zenon
        <4> QED
          BY <4>6 DEF j
      <3> QED
        BY <3>1, <3>2
    <2>10. \A i \in Nat : i \in T => i + 1 \in T
      <3> HIDE DEF n
      <3> QED
        BY <2>9
    <2>11. n \in T
      <3> HIDE DEF T, n
      <3> QED
        BY <1>1, <2>8, <2>10, SetInduction
    <2>12. n \in 1..n
      BY <1>1, <1>3
    <2> QED
      BY <2>6, <2>11, <2>12
  <1> QED
    BY <1>2, <1>3

Link == [source : Seq(Bytes), url : Seq(Bytes)]
UrlLists == Seq(Link)
Parts(urls) == [i \in DOMAIN urls |-> putUrl(urls[i])]

LEMMA PartsAreBytes ==
  ASSUME NEW urls \in UrlLists
  PROVE  /\ Len(urls) \in Nat
         /\ Parts(urls) \in Seq(Seq(Bytes)) /\ Len(Parts(urls)) = Len(urls)
         /\ \A i \in 1..Len(urls) : Parts(urls)[i] = putUrl(urls[i])
  <1>1. Len(urls) \in Nat /\ DOMAIN urls = 1..Len(urls)
    BY DEF UrlLists
  <1>2. ASSUME NEW i \in 1..Len(urls) PROVE putUrl(urls[i]) \in Seq(Bytes)
    <2>1. urls[i].source \in Seq(Bytes) /\ urls[i].url \in Seq(Bytes)
      <3>1. urls[i] \in Link
        BY ElementOfSeq, Zenon DEF UrlLists
      <3> QED
        BY <3>1 DEF Link
    <2>2. putText(urls[i].source) \in Seq(Bytes) /\ putText(urls[i].url) \in Seq(Bytes)
      BY <2>1, TextIsBytes
    <2> QED
      BY <2>2, Joining DEF putUrl
  <1>3. Parts(urls) = [i \in 1..Len(urls) |-> putUrl(urls[i])]
    BY <1>1 DEF Parts
  <1>4. Parts(urls) \in [1..Len(urls) -> Seq(Bytes)]
    BY <1>2, <1>3
  <1>5. Parts(urls) \in Seq(Seq(Bytes)) /\ Len(Parts(urls)) = Len(urls)
    BY <1>1, <1>4
  <1> QED
    BY <1>1, <1>3, <1>5

LEMMA LinksAreBytes ==
  ASSUME NEW urls \in UrlLists
  PROVE  putUrls(urls) \in Seq(Bytes)
  <1>1. PICK f : Joins(f, Parts(urls))
    BY PartsAreBytes, JoinsExists
  <1>2. putUrls(urls) = f[Len(urls)]
    BY <1>1, PartsAreBytes, JoinsIsFlattenSeq DEF putUrls, Parts
  <1> QED
    BY <1>1, <1>2, PartsAreBytes DEF Joins

(* What is joined begins with what its first parts join.                   *)
LEMMA JoinsBegin ==
  ASSUME NEW parts \in Seq(Seq(Bytes)), NEW f, Joins(f, parts), NEW i \in 0..Len(parts)
  PROVE  f[i] \in Seq(Bytes) /\ \E rest \in Seq(Bytes) : f[Len(parts)] = f[i] \o rest
  <1> DEFINE n == Len(parts)
             Begins(j) == \E rest \in Seq(Bytes) : f[n] = f[j] \o rest
             T == {k \in Nat : k <= n => Begins(n - k)}
  <1>1. n \in Nat
    OBVIOUS
  <1>2. \A j \in 0..n : f[j] \in Seq(Bytes)
    BY DEF Joins
  <1>3. \A j \in 1..n : f[j] = f[j - 1] \o parts[j]
    BY DEF Joins
  <1>4. 0 \in T
    <2>1. f[n] \in Seq(Bytes) /\ n - 0 = n
      BY <1>1, <1>2
    <2>2. f[n] = f[n] \o <<>> /\ <<>> \in Seq(Bytes)
      BY <2>1
    <2>3. Begins(n)
      <3> HIDE DEF n
      <3> QED
        BY <2>2
    <2> HIDE DEF n, Begins
    <2> QED
      BY <2>1, <2>3
  <1>5. ASSUME NEW k \in Nat, k \in T, k + 1 <= n PROVE Begins(n - (k + 1))
    <2> DEFINE j == n - k
    <2>1. j \in 1..n /\ j - 1 \in 0..n /\ j - 1 = n - (k + 1) /\ k <= n
      BY <1>1, <1>5
    <2>2. PICK rest \in Seq(Bytes) : f[n] = f[j] \o rest
      BY <1>5, <2>1
    <2> HIDE DEF n, j
    <2>3. f[j - 1] \in Seq(Bytes) /\ parts[j] \in Seq(Bytes)
      BY <1>2, <2>1 DEF n
    <2>4. f[j] = f[j - 1] \o parts[j]
      BY <1>3, <2>1, Zenon
    <2>5. (f[j - 1] \o parts[j]) \o rest = f[j - 1] \o (parts[j] \o rest)
      <3> DEFINE a == f[j - 1]
                 b == parts[j]
      <3>1. a \in Seq(Bytes) /\ b \in Seq(Bytes)
        BY <2>3
      <3> HIDE DEF a, b
      <3>2. (a \o b) \o rest = a \o (b \o rest)
        BY <3>1, ConcatAssociative, SMTT(60)
      <3> QED
        BY <3>2 DEF a, b
    <2>6. parts[j] \o rest \in Seq(Bytes)
      BY <2>3
    <2>7. f[n] = f[j - 1] \o (parts[j] \o rest)
      BY <2>2, <2>4, <2>5, Zenon
    <2>8. Begins(j - 1)
      BY <2>6, <2>7, Zenon
    <2> QED
      BY <2>1, <2>8
  <1>6. \A k \in Nat : k \in T => k + 1 \in T
    <2> HIDE DEF n, Begins
    <2> QED
      BY <1>5
  <1>7. n - i \in T
    <2>1. n - i \in Nat
      BY <1>1
    <2> HIDE DEF T, n
    <2> QED
      BY <1>4, <1>6, <2>1, SetInduction
  <1>8. n - i <= n /\ n - (n - i) = i
    BY <1>1
  <1>9. Begins(i)
    <2> HIDE DEF n, Begins
    <2> QED
      BY <1>7, <1>8
  <1> QED
    BY <1>2, <1>9

LEMMA NoLinks == putUrls(<<>>) = <<>>
  <1> DEFINE parts == [i \in DOMAIN <<>> |-> putUrl(<<>>[i])]
  <1>1. DOMAIN <<>> = {}
    OBVIOUS
  <1>2. parts = <<>>
    BY <1>1
  <1>3. FlattenSeq(<<>>) = <<>>
    BY DEF FlattenSeq
  <1> HIDE DEF parts
  <1>4. FlattenSeq(parts) = <<>>
    BY <1>2, <1>3
  <1> QED
    BY <1>4 DEF putUrls, parts

LEMMA LinkIsBytes ==
  ASSUME NEW link \in Link
  PROVE  /\ link.source \in Seq(Bytes) /\ link.url \in Seq(Bytes)
         /\ putText(link.source) \in Seq(Bytes) /\ putText(link.url) \in Seq(Bytes)
         /\ putUrl(link) \in Seq(Bytes)
  <1>1. link.source \in Seq(Bytes) /\ link.url \in Seq(Bytes)
    BY DEF Link
  <1>2. putText(link.source) \in Seq(Bytes) /\ putText(link.url) \in Seq(Bytes)
    BY <1>1, TextIsBytes
  <1> QED
    BY <1>1, <1>2, Joining DEF putUrl

LEMMA LinkAppended ==
  ASSUME NEW urls \in UrlLists, NEW link \in Link
  PROVE  /\ Append(urls, link) \in UrlLists
         /\ putUrls(Append(urls, link)) = putUrls(urls) \o putUrl(link)
  <1> DEFINE more == Append(urls, link)
             n == Len(urls)
             last == putUrl(link)
  <1>1. more \in UrlLists
    BY AppendProperties DEF UrlLists
  <1>2. n \in Nat /\ Len(more) = n + 1 /\ more[n + 1] = link /\ \A i \in 1..n : more[i] = urls[i]
    BY AppendProperties DEF UrlLists
  <1>3. last \in Seq(Bytes)
    BY LinkIsBytes
  <1> DEFINE parts == Parts(urls)
             moreParts == Parts(more)
  <1>4. /\ parts \in Seq(Seq(Bytes)) /\ Len(parts) = n
        /\ \A i \in 1..n : parts[i] = putUrl(urls[i])
    BY PartsAreBytes
  <1>5. /\ moreParts \in Seq(Seq(Bytes)) /\ Len(moreParts) = n + 1
        /\ \A i \in 1..(n + 1) : moreParts[i] = putUrl(more[i])
    <2> HIDE DEF more
    <2> QED
      BY <1>1, <1>2, PartsAreBytes
  <1>6. moreParts[n + 1] = last /\ \A i \in 1..n : moreParts[i] = parts[i]
    <2> HIDE DEF more, moreParts, parts
    <2>1. n + 1 \in 1..(n + 1) /\ \A i \in 1..n : i \in 1..(n + 1)
      BY <1>2
    <2>2. moreParts[n + 1] = putUrl(more[n + 1])
      BY <1>5, <2>1
    <2> QED
      BY <1>2, <1>4, <1>5, <2>1, <2>2
  <1>7. putUrls(urls) = FlattenSeq(parts) /\ putUrls(more) = FlattenSeq(moreParts)
    BY DEF putUrls, Parts
  <1>8. PICK f : Joins(f, parts)
    BY <1>4, JoinsExists
  <1>9. PICK g : Joins(g, moreParts)
    BY <1>5, JoinsExists
  <1> HIDE DEF more, last, parts, moreParts
  <1>10. f[0] = <<>> /\ \A i \in 1..n : f[i] = f[i - 1] \o parts[i]
    BY <1>4, <1>8 DEF Joins
  <1>11. g[0] = <<>> /\ \A i \in 1..(n + 1) : g[i] = g[i - 1] \o moreParts[i]
    BY <1>5, <1>9 DEF Joins
  <1> HIDE DEF n
  <1>12. f[n] = g[n]
    <2> DEFINE T == {i \in Nat : i <= n => f[i] = g[i]}
    <2>1. 0 \in T
      BY <1>10, <1>11
    <2>2. ASSUME NEW i \in Nat, i \in T, i + 1 <= n PROVE f[i + 1] = g[i + 1]
      <3> DEFINE j == i + 1
      <3>1. j \in 1..n /\ j \in 1..(n + 1) /\ j - 1 = i /\ f[i] = g[i]
        BY <1>2, <2>2
      <3> HIDE DEF j, T
      <3>2. f[j] = f[j - 1] \o parts[j]
        BY <1>10, <3>1, Zenon
      <3>3. g[j] = g[j - 1] \o moreParts[j] /\ moreParts[j] = parts[j]
        BY <1>6, <1>11, <3>1, Zenon
      <3>4. f[j] = g[j]
        BY <3>1, <3>2, <3>3, Zenon
      <3> QED
        BY <3>4 DEF j
    <2>3. \A i \in Nat : i \in T => i + 1 \in T
      BY <2>2
    <2>4. n \in T
      <3> HIDE DEF T
      <3> QED
        BY <1>2, <2>1, <2>3, SetInduction
    <2> QED
      BY <1>2, <2>4
  <1>13. g[n + 1] = f[n] \o last
    <2> DEFINE j == n + 1
    <2>1. j \in 1..(n + 1) /\ j - 1 = n
      BY <1>2
    <2>2. moreParts[j] = last
      BY <1>6
    <2> HIDE DEF j
    <2>3. g[j] = g[j - 1] \o moreParts[j]
      BY <1>11, <2>1, Zenon
    <2>4. g[j] = f[n] \o last
      BY <1>12, <2>1, <2>2, <2>3, Zenon
    <2> QED
      BY <2>4 DEF j
  <1>14. FlattenSeq(parts) = f[n]
    BY <1>4, <1>8, JoinsIsFlattenSeq
  <1>15. FlattenSeq(moreParts) = g[n + 1]
    BY <1>5, <1>9, JoinsIsFlattenSeq
  <1>16. putUrls(more) = putUrls(urls) \o last
    BY <1>7, <1>13, <1>14, <1>15, Zenon
  <1> QED
    BY <1>1, <1>16 DEF more, last

-----------------------------------------------------------------------------
(* The loop over the links.                                                *)

LEMMA LinkWrittenAgain ==
  ASSUME NEW raw \in Seq(Bytes), NEW offset \in Nat,
         hasText(raw, offset), hasText(raw, endOfText(raw, offset))
  PROVE  LET middle == endOfText(raw, offset)
             end == endOfText(raw, middle)
             link == [source |-> readText(raw, offset), url |-> readText(raw, middle)]
         IN  /\ end \in Nat /\ offset <= end /\ end <= Len(raw)
             /\ link \in Link
             /\ putUrl(link) = SubSeq(raw, offset + 1, end)
  <1> DEFINE middle == endOfText(raw, offset)
             end == endOfText(raw, middle)
             link == [source |-> readText(raw, offset), url |-> readText(raw, middle)]
  <1>1. /\ middle \in Nat /\ offset <= middle /\ middle <= Len(raw)
        /\ readText(raw, offset) \in Seq(Bytes)
        /\ putText(readText(raw, offset)) = SubSeq(raw, offset + 1, middle)
    BY TextWrittenAgain
  <1> HIDE DEF middle
  <1>2. /\ end \in Nat /\ middle <= end /\ end <= Len(raw)
        /\ readText(raw, middle) \in Seq(Bytes)
        /\ putText(readText(raw, middle)) = SubSeq(raw, middle + 1, end)
    <2>1. hasText(raw, middle)
      BY DEF middle
    <2> QED
      BY <1>1, <2>1, TextWrittenAgain
  <1>3. link \in Link /\ link.source = readText(raw, offset) /\ link.url = readText(raw, middle)
    BY <1>1, <1>2 DEF Link
  <1> HIDE DEF end, link
  <1>4. SubSeq(raw, offset + 1, middle) \o SubSeq(raw, middle + 1, end) = SubSeq(raw, offset + 1, end)
    <2>1. offset + 1 \in 1..(Len(raw) + 1) /\ middle \in (offset + 1 - 1)..Len(raw) /\ end \in middle..Len(raw)
      BY <1>1, <1>2
    <2> QED
      BY <2>1, ConcatAdjacentSubSeq
  <1>5. putUrl(link) = SubSeq(raw, offset + 1, end)
    BY <1>1, <1>2, <1>3, <1>4, Zenon DEF putUrl
  <1>6. offset <= end
    BY <1>1, <1>2
  <1> QED
    BY <1>2, <1>3, <1>5, <1>6 DEF middle, end, link

LEMMA LinkReadBack ==
  ASSUME NEW raw \in Seq(Bytes), NEW offset \in Nat, NEW link \in Link,
         Len(link.source) < Weight[Width], Len(link.url) < Weight[Width],
         Holds(raw, offset, putUrl(link))
  PROVE  LET middle == endOfText(raw, offset)
         IN  /\ hasText(raw, offset) /\ hasText(raw, middle)
             /\ link = [source |-> readText(raw, offset), url |-> readText(raw, middle)]
             /\ endOfText(raw, middle) = offset + Len(putUrl(link))
  <1> DEFINE middle == endOfText(raw, offset)
             source == putText(link.source)
             url == putText(link.url)
  <1>1. source \in Seq(Bytes) /\ url \in Seq(Bytes) /\ link.source \in Seq(Bytes) /\ link.url \in Seq(Bytes)
    BY LinkIsBytes
  <1>2. Holds(raw, offset, source \o url) /\ putUrl(link) = source \o url
    BY DEF putUrl
  <1> HIDE DEF source, url
  <1>3. Holds(raw, offset, source) /\ Holds(raw, offset + Len(source), url)
    BY <1>1, <1>2, HoldsBoth
  <1>4. Len(source) \in Nat /\ Len(url) \in Nat /\ Len(source \o url) = Len(source) + Len(url)
    BY <1>1, Joining
  <1>5. hasText(raw, offset) /\ middle = offset + Len(source) /\ readText(raw, offset) = link.source
    BY <1>1, <1>3, TextReadBack DEF source
  <1> HIDE DEF middle
  <1>6. middle \in Nat
    BY <1>4, <1>5
  <1>7. hasText(raw, middle) /\ endOfText(raw, middle) = middle + Len(url) /\ readText(raw, middle) = link.url
    BY <1>1, <1>3, <1>5, <1>6, TextReadBack DEF url
  <1>8. endOfText(raw, middle) = offset + Len(putUrl(link))
    BY <1>2, <1>4, <1>5, <1>7
  <1>9. link = [source |-> readText(raw, offset), url |-> readText(raw, middle)]
    BY <1>5, <1>7 DEF Link
  <1> QED
    BY <1>5, <1>7, <1>8, <1>9 DEF middle

LEMMA ReadingSteps ==
  ASSUME NEW raw \in Seq(Bytes), hasU32(raw, 0)
  PROVE  LET n == readU32(raw, 0)
             read == Reading(raw)
         IN  /\ n \in Nat
             /\ read[0] = [urls |-> <<>>, offset |-> Width]
             /\ \A i \in 1..n : read[i] = readUrl(raw, read[i - 1])
  <1> DEFINE n == readU32(raw, 0)
             read == Reading(raw)
             S == [urls : UrlLists, offset : Nat]
             start == [urls |-> <<>>, offset |-> Width]
             next == [x \in S \X (1..n) |-> readUrl(raw, x[1])]
  <1>1. n \in Nat
    BY NumberThereAgain
  <1>2. start \in S
    <2>1. <<>> \in UrlLists /\ Width \in Nat
      BY CodecFacts DEF UrlLists
    <2> QED
      BY <2>1
  <1>3. ASSUME NEW last \in S PROVE readUrl(raw, last) \in S
    <2> DEFINE middle == endOfText(raw, last.offset)
               end == endOfText(raw, middle)
               link == [source |-> readText(raw, last.offset), url |-> readText(raw, middle)]
    <2>1. last.urls \in UrlLists /\ last.offset \in Nat
      OBVIOUS
    <2>2. CASE hasText(raw, last.offset) /\ hasText(raw, middle)
      <3>1. end \in Nat /\ link \in Link
        BY <2>1, <2>2, LinkWrittenAgain
      <3>2. readUrl(raw, last) = [urls |-> Append(last.urls, link), offset |-> end]
        BY <2>2 DEF readUrl
      <3> HIDE DEF end, link
      <3>3. Append(last.urls, link) \in UrlLists
        BY <2>1, <3>1, LinkAppended
      <3> QED
        BY <3>1, <3>2, <3>3
    <2>3. CASE ~(hasText(raw, last.offset) /\ hasText(raw, middle))
      BY <2>3 DEF readUrl
    <2> QED
      BY <2>2, <2>3
  <1>4. next \in [S \X (1..n) -> S]
    <2> HIDE DEF S
    <2> QED
      BY <1>3
  <1>5. PICK f : Unrolls(f, n, S, start, next)
    <2> HIDE DEF next, n, S, start
    <2> QED
      BY <1>1, <1>2, <1>4, Recursion
  <1>6. f \in [0..n -> S] /\ f[0] = start /\ \A i \in 1..n : f[i] = next[<<f[i - 1], i>>]
    BY <1>5 DEF Unrolls
  <1>7. ASSUME NEW i \in 1..n PROVE f[i] = readUrl(raw, f[i - 1])
    <2>1. f[i - 1] \in S
      <3> HIDE DEF next, S, n
      <3> QED
        BY <1>1, <1>6
    <2>2. next[<<f[i - 1], i>>] = readUrl(raw, f[i - 1])
      <3> HIDE DEF S, n
      <3> QED
        BY <2>1
    <2> HIDE DEF next
    <2> QED
      BY <1>6, <2>2
  <1>8. f = [i \in 0..n |-> IF i = 0 THEN start ELSE readUrl(raw, f[i - 1])]
    <2> HIDE DEF next, S, n, start
    <2>1. \A i \in 0..n : f[i] = IF i = 0 THEN start ELSE readUrl(raw, f[i - 1])
      BY <1>1, <1>6, <1>7
    <2> QED
      BY <1>6, <2>1
  <1>9. read = [i \in 0..n |-> IF i = 0 THEN start ELSE readUrl(raw, read[i - 1])]
    BY <1>8 DEF Reading
  <1> HIDE DEF read, start, next, S, n
  <1>10. \A i \in 0..n : read[i] = IF i = 0 THEN start ELSE readUrl(raw, read[i - 1])
    BY <1>9
  <1>11. read[0] = start /\ \A i \in 1..n : read[i] = readUrl(raw, read[i - 1])
    BY <1>1, <1>10
  <1> QED
    BY <1>1, <1>11 DEF read, start, n

LEMMA LinksNotMadeUp ==
  ASSUME NEW raw \in Seq(Bytes), hasU32(raw, 0), readU32(raw, 0) <= Room
  PROVE  LET urls == parseUrlValue(raw)
         IN  /\ urls \in UrlLists /\ Len(urls) <= readU32(raw, 0)
             /\ \E end \in Width..Len(raw) : putUrls(urls) = SubSeq(raw, Width + 1, end)
  <1> DEFINE n == readU32(raw, 0)
             read == Reading(raw)
             Faithful(last, i) ==
               /\ last.urls \in UrlLists /\ Len(last.urls) <= i
               /\ last.offset \in Width..Len(raw)
               /\ putUrls(last.urls) = SubSeq(raw, Width + 1, last.offset)
             T == {i \in Nat : i <= n => Faithful(read[i], i)}
  <1>1. /\ n \in Nat /\ read[0] = [urls |-> <<>>, offset |-> Width]
        /\ \A i \in 1..n : read[i] = readUrl(raw, read[i - 1])
    BY ReadingSteps
  <1>2. Width \in Nat /\ Len(raw) \in Nat /\ Width <= Len(raw)
    BY CodecFacts DEF hasU32
  <1> HIDE DEF n, read
  <1>3. 0 \in T
    <2>1. read[0].urls = <<>> /\ read[0].offset = Width
      BY <1>1
    <2>2. <<>> \in UrlLists /\ Len(<<>>) = 0 /\ Width \in Width..Len(raw)
      BY <1>2 DEF UrlLists
    <2>3. SubSeq(raw, Width + 1, Width) = <<>>
      BY <1>2, SubSeqEmpty
    <2>4. Faithful(read[0], 0)
      <3>1. read[0].urls \in UrlLists /\ Len(read[0].urls) <= 0 /\ read[0].offset \in Width..Len(raw)
        BY <2>1, <2>2
      <3>2. putUrls(read[0].urls) = SubSeq(raw, Width + 1, read[0].offset)
        BY <2>1, <2>3, NoLinks, Zenon
      <3> QED
        BY <3>1, <3>2
    <2> HIDE DEF Faithful
    <2> QED
      BY <2>4
  <1>4. ASSUME NEW i \in Nat, i \in T, i + 1 <= n PROVE Faithful(read[i + 1], i + 1)
    <2> DEFINE last == read[i]
               middle == endOfText(raw, last.offset)
               end == endOfText(raw, middle)
               link == [source |-> readText(raw, last.offset), url |-> readText(raw, middle)]
    <2>1. /\ last.urls \in UrlLists /\ Len(last.urls) <= i /\ Len(last.urls) \in Nat
          /\ last.offset \in Width..Len(raw)
          /\ putUrls(last.urls) = SubSeq(raw, Width + 1, last.offset)
      <3>1. Faithful(read[i], i)
        <4> HIDE DEF Faithful
        <4> QED
          BY <1>1, <1>4
      <3> QED
        BY <3>1 DEF UrlLists
    <2>2. read[i + 1] = readUrl(raw, last)
      <3> DEFINE j == i + 1
      <3>1. j \in 1..n /\ j - 1 = i
        BY <1>1, <1>4
      <3> HIDE DEF j
      <3>2. read[j] = readUrl(raw, read[j - 1])
        BY <1>1, <3>1, Zenon
      <3>3. read[j] = readUrl(raw, read[i])
        BY <3>1, <3>2, Zenon
      <3> QED
        BY <3>3 DEF j
    <2> HIDE DEF last
    <2>3. CASE hasText(raw, last.offset) /\ hasText(raw, middle)
      <3>1. last.offset \in Nat
        BY <1>2, <2>1
      <3>2. /\ end \in Nat /\ last.offset <= end /\ end <= Len(raw) /\ link \in Link
            /\ putUrl(link) = SubSeq(raw, last.offset + 1, end)
        BY <2>3, <3>1, LinkWrittenAgain
      <3>3. readUrl(raw, last) = [urls |-> Append(last.urls, link), offset |-> end]
        BY <2>3 DEF readUrl
      <3> HIDE DEF link, end
      <3>4. /\ Append(last.urls, link) \in UrlLists
            /\ putUrls(Append(last.urls, link)) = putUrls(last.urls) \o putUrl(link)
        BY <2>1, <3>2, LinkAppended
      <3>5. SubSeq(raw, Width + 1, last.offset) \o SubSeq(raw, last.offset + 1, end) = SubSeq(raw, Width + 1, end)
        <4> DEFINE k == last.offset
                   m == Width + 1
        <4>1. m \in 1..(Len(raw) + 1) /\ k \in (m - 1)..Len(raw) /\ end \in k..Len(raw)
          BY <1>2, <2>1, <3>1, <3>2
        <4> HIDE DEF k, m
        <4>2. SubSeq(raw, m, k) \o SubSeq(raw, k + 1, end) = SubSeq(raw, m, end)
          BY <4>1, ConcatAdjacentSubSeq
        <4> QED
          BY <4>2 DEF k, m
      <3>6. Len(Append(last.urls, link)) <= i + 1
        <4>1. Len(Append(last.urls, link)) = Len(last.urls) + 1
          BY <2>1, <3>2, AppendProperties DEF UrlLists
        <4> QED
          BY <2>1, <4>1
      <3>7. putUrls(Append(last.urls, link)) = SubSeq(raw, Width + 1, end)
        BY <2>1, <3>2, <3>4, <3>5, Zenon
      <3>8. end \in Width..Len(raw)
        BY <1>2, <2>1, <3>2
      <3>9. read[i + 1].urls = Append(last.urls, link) /\ read[i + 1].offset = end
        BY <2>2, <3>3
      <3> QED
        BY <3>4, <3>6, <3>7, <3>8, <3>9
    <2>4. CASE ~(hasText(raw, last.offset) /\ hasText(raw, middle))
      <3>1. read[i + 1] = last
        BY <2>2, <2>4 DEF readUrl
      <3>2. Len(last.urls) <= i + 1
        BY <2>1
      <3> QED
        BY <2>1, <3>1, <3>2
    <2> QED
      BY <2>3, <2>4
  <1>5. \A i \in Nat : i \in T => i + 1 \in T
    <2> HIDE DEF Faithful
    <2> QED
      BY <1>4
  <1>6. n \in T
    <2> HIDE DEF T
    <2> QED
      BY <1>1, <1>3, <1>5, SetInduction
  <1>7. Faithful(read[n], n)
    <2> HIDE DEF Faithful
    <2> QED
      BY <1>1, <1>6
  <1>8. parseUrlValue(raw) = read[n].urls
    <2>1. ~(n > Room)
      BY <1>1, RoomAssumption DEF n
    <2> QED
      BY <2>1 DEF parseUrlValue, read, n
  <1>9. /\ parseUrlValue(raw) \in UrlLists /\ Len(parseUrlValue(raw)) <= n
        /\ \E end \in Width..Len(raw) : putUrls(parseUrlValue(raw)) = SubSeq(raw, Width + 1, end)
    BY <1>7, <1>8
  <1> QED
    BY <1>9 DEF n

(* Where each link of a list that is written begins and ends in its row.   *)
Standing(raw, urls, ends) ==
  /\ ends \in [0..Len(urls) -> Nat] /\ ends[0] = Width
  /\ \A j \in 1..Len(urls) : /\ Holds(raw, ends[j - 1], putUrl(urls[j]))
                             /\ ends[j] = ends[j - 1] + Len(putUrl(urls[j]))

LEMMA LinksStand ==
  ASSUME NEW urls \in UrlLists
  PROVE  LET raw == createUrlValue(urls)
         IN  /\ raw \in Seq(Bytes) /\ Holds(raw, 0, putU32(Len(urls)))
             /\ \E ends : Standing(raw, urls, ends)
  <1> DEFINE n == Len(urls)
             number == putU32(n)
             all == putUrls(urls)
             raw == createUrlValue(urls)
             parts == Parts(urls)
  <1>1. n \in Nat /\ Width \in Nat /\ \A i \in 1..n : urls[i] \in Link
    BY CodecFacts, ElementOfSeq DEF UrlLists
  <1>2. /\ number \in Seq(Bytes) /\ Len(number) = Width /\ all \in Seq(Bytes)
    BY <1>1, NumberIsBytes, LinksAreBytes
  <1>3. /\ parts \in Seq(Seq(Bytes)) /\ Len(parts) = n
        /\ \A i \in 1..n : parts[i] = putUrl(urls[i])
    BY PartsAreBytes
  <1>4. PICK f : Joins(f, parts)
    BY <1>3, JoinsExists
  <1>5. all = f[n]
    BY <1>3, <1>4, JoinsIsFlattenSeq DEF putUrls, Parts
  <1>6. raw = number \o all
    BY DEF createUrlValue
  <1> HIDE DEF number, all, raw, parts
  <1>7. raw \in Seq(Bytes)
    BY <1>2, <1>6
  <1>8. Holds(raw, 0, number) /\ Holds(raw, Width, all)
    <2>1. Holds(raw, 0, number \o all)
      BY <1>6, <1>7, SubSeqFull DEF Holds
    <2> QED
      BY <1>1, <1>2, <1>7, <2>1, HoldsBoth
  <1> HIDE DEF n
  <1>9. f[0] = <<>> /\ \A i \in 0..n : f[i] \in Seq(Bytes)
    BY <1>3, <1>4 DEF Joins
  <1> DEFINE ends == [i \in 0..n |-> Width + Len(f[i])]
  <1>10. ends \in [0..n -> Nat] /\ ends[0] = Width
    <2>1. \A i \in 0..n : Width + Len(f[i]) \in Nat
      BY <1>1, <1>9
    <2>2. Width + Len(f[0]) = Width /\ 0 \in 0..n
      BY <1>1, <1>9
    <2> QED
      BY <2>1, <2>2
  <1>11. ASSUME NEW j \in 1..n
         PROVE  /\ Holds(raw, ends[j - 1], putUrl(urls[j]))
                /\ ends[j] = ends[j - 1] + Len(putUrl(urls[j]))
    <2> DEFINE link == urls[j]
    <2>1. j - 1 \in 0..n /\ j \in 0..n /\ link \in Link
      BY <1>1
    <2>2. f[j - 1] \in Seq(Bytes) /\ f[j] \in Seq(Bytes) /\ putUrl(link) \in Seq(Bytes)
      BY <1>9, <2>1, LinkIsBytes
    <2>3. f[j] = f[j - 1] \o putUrl(link)
      <3>1. f[j] = f[j - 1] \o parts[j]
        BY <1>3, <1>4, Zenon DEF Joins
      <3>2. parts[j] = putUrl(link)
        BY <1>3
      <3> QED
        BY <3>1, <3>2, Zenon
    <2>4. PICK rest \in Seq(Bytes) : all = f[j] \o rest
      <3>1. \E rest \in Seq(Bytes) : f[Len(parts)] = f[j] \o rest
        BY <1>3, <1>4, <2>1, JoinsBegin
      <3> QED
        BY <1>3, <1>5, <3>1
    <2> DEFINE a == f[j - 1]
               b == putUrl(link)
               c == f[j]
    <2>5. a \in Seq(Bytes) /\ b \in Seq(Bytes) /\ c \in Seq(Bytes) /\ c = a \o b
          /\ Holds(raw, Width, c \o rest)
      BY <1>8, <2>2, <2>3, <2>4, Zenon
    <2>6. ends[j - 1] = Width + Len(a) /\ ends[j] = Width + Len(c)
      BY <2>1
    <2> HIDE DEF a, b, c, link, ends
    <2>7. Holds(raw, Width, c)
      BY <1>1, <1>7, <2>5, HoldsBoth
    <2>8. Holds(raw, Width, a \o b)
      BY <2>5, <2>7, Zenon
    <2>9. Holds(raw, Width + Len(a), b)
      BY <1>1, <1>7, <2>5, <2>8, HoldsBoth
    <2>10. Len(c) = Len(a) + Len(b) /\ Len(a) \in Nat /\ Len(b) \in Nat
      BY <2>5, Joining
    <2>11. ends[j] = ends[j - 1] + Len(b)
      BY <1>1, <2>6, <2>10
    <2>12. Holds(raw, ends[j - 1], b)
      BY <2>6, <2>9, Zenon
    <2> QED
      BY <2>11, <2>12 DEF b, link
  <1> HIDE DEF ends
  <1>12. Standing(raw, urls, ends)
    BY <1>10, <1>11 DEF Standing, n
  <1> QED
    BY <1>7, <1>8, <1>12 DEF raw, number, n

-----------------------------------------------------------------------------
(* A row that is cut short holds what stands before the cut.               *)

Cut(row, cut) == SubSeq(row, 1, cut)

LEMMA CutIsBytes ==
  ASSUME NEW row \in Seq(Bytes), NEW cut \in 0..Len(row)
  PROVE  /\ Cut(row, cut) \in Seq(Bytes) /\ Len(Cut(row, cut)) = cut /\ cut \in Nat
         /\ \A i \in 1..cut : Cut(row, cut)[i] = row[i]
  BY DEF Cut

LEMMA CutHolds ==
  ASSUME NEW row \in Seq(Bytes), NEW cut \in 0..Len(row), NEW offset \in Nat,
         NEW part \in Seq(Bytes), Holds(row, offset, part), offset + Len(part) <= cut
  PROVE  Holds(Cut(row, cut), offset, part)
  <1> DEFINE short == Cut(row, cut)
  <1>1. short \in Seq(Bytes) /\ Len(short) = cut /\ \A i \in 1..cut : short[i] = row[i]
    BY CutIsBytes
  <1>2. cut \in Nat /\ Len(part) \in Nat
    OBVIOUS
  <1>3. \A i \in 1..Len(part) : row[offset + i] = part[i]
    BY HoldsBytes
  <1> HIDE DEF short
  <1>4. ASSUME NEW i \in 1..Len(part) PROVE short[offset + i] = part[i]
    <2>1. offset + i \in 1..cut
      BY <1>2
    <2> QED
      BY <1>1, <1>3, <2>1
  <1>5. Holds(short, offset, part)
    BY <1>1, <1>4, HoldsBytes
  <1> QED
    BY <1>5 DEF short

(* A text is read where the cut is behind it.                              *)
LEMMA CutText ==
  ASSUME NEW row \in Seq(Bytes), NEW cut \in 0..Len(row), NEW offset \in Nat,
         NEW text \in Seq(Bytes), Len(text) < Weight[Width], Holds(row, offset, putText(text))
  PROVE  hasText(Cut(row, cut), offset) <=> offset + Len(putText(text)) <= cut
  <1> DEFINE short == Cut(row, cut)
             n == Len(text)
             number == putU32(n)
  <1>1. n \in Nat /\ Width \in Nat /\ number \in Seq(Bytes) /\ Len(number) = Width
        /\ short \in Seq(Bytes) /\ Len(short) = cut /\ cut \in Nat
    BY NumberIsBytes, CodecFacts, CutIsBytes
  <1>2. Len(putText(text)) = Width + n /\ putText(text) \in Seq(Bytes)
    BY TextIsBytes
  <1>3. Holds(row, offset, number)
    <2>1. Holds(row, offset, number \o text)
      BY DEF putText
    <2> HIDE DEF number
    <2> QED
      BY <1>1, <2>1, HoldsBoth
  <1>4. ASSUME offset + Len(putText(text)) <= cut PROVE hasText(short, offset)
    BY <1>1, <1>2, <1>4, CutHolds, TextReadBack
  <1>5. ASSUME hasText(short, offset) PROVE offset + Len(putText(text)) <= cut
    <2>1. offset + Width <= cut /\ offset + Width + readU32(short, offset) <= cut
      BY <1>1, <1>5 DEF hasText, hasU32
    <2>2. Holds(short, offset, number)
      <3> HIDE DEF number
      <3> QED
        BY <1>1, <1>3, <2>1, CutHolds
    <2>3. readU32(short, offset) = n
      <3> HIDE DEF short
      <3> QED
        BY <1>1, <2>2, NumberThere
    <2> QED
      BY <1>1, <1>2, <2>1, <2>3
  <1> QED
    BY <1>4, <1>5

(* What is read of an image's row that was cut: nothing where the cut is   *)
(* before the url, and what stands of the url otherwise.                   *)
LEMMA ImageOfCut ==
  ASSUME NEW image \in Image, image.writtenAt < Weight[Width], Len(image.source) < Weight[Width],
         NEW cut \in 0..Len(createImageValue(image))
  PROVE  LET header == Len(createImageValue(image)) - Len(image.url)
         IN  parseImageValue(Cut(createImageValue(image), cut)) =
               IF cut < header THEN Rejected
               ELSE [image EXCEPT !.url = SubSeq(image.url, 1, cut - header)]
  <1> DEFINE row == createImageValue(image)
             short == Cut(row, cut)
             source == putText(image.source)
             both == HeaderOf(image)
             url == image.url
             header == Len(row) - Len(url)
  <1>1. Width \in Nat /\ image.source \in Seq(Bytes) /\ url \in Seq(Bytes)
    BY CodecFacts DEF Image
  <1>2. /\ row \in Seq(Bytes) /\ both \in Seq(Bytes) /\ row = both \o url
        /\ Len(both) = Width + 1 + Len(source) /\ Len(row) = Len(both) + Len(url)
        /\ Len(source) \in Nat /\ Len(url) \in Nat
        /\ Holds(row, Width + 1, source)
    BY ImageStands
  <1>3. cut \in 0..Len(row)
    OBVIOUS
  <1> HIDE DEF row, both, source, url
  <1>4. short \in Seq(Bytes) /\ Len(short) = cut /\ cut \in Nat /\ \A i \in 1..cut : short[i] = row[i]
    BY <1>2, <1>3, CutIsBytes
  <1>5. header = Len(both) /\ header \in Nat
    BY <1>1, <1>2
  <1> HIDE DEF header, short
  <1>6. CASE cut < header
    <2>1. ~hasText(short, Width + 1)
      <3>1. Width + 1 \in Nat /\ ~(Width + 1 + Len(source) <= cut)
        BY <1>1, <1>2, <1>4, <1>5, <1>6
      <3>2. hasText(short, Width + 1) <=> Width + 1 + Len(source) <= cut
        <4> HIDE DEF short
        <4>1. hasText(Cut(row, cut), Width + 1) <=> Width + 1 + Len(putText(image.source)) <= cut
          BY <1>1, <1>2, <1>3, <3>1, CutText DEF source
        <4> QED
          BY <4>1 DEF short, source
      <3> QED
        BY <3>1, <3>2
    <2>2. parseImageValue(short) = Rejected
      BY <2>1 DEF parseImageValue
    <2> QED
      BY <1>6, <2>2 DEF header, short, row, url
  <1>7. CASE ~(cut < header)
    <2> DEFINE k == cut - header
               left == SubSeq(url, 1, k)
               less == [image EXCEPT !.url = left]
    <2>1. k \in 0..Len(url) /\ cut = Len(both) + k
      BY <1>2, <1>3, <1>4, <1>5, <1>7
    <2>2. left \in Seq(Bytes) /\ Len(left) = k /\ \A i \in 1..k : left[i] = url[i]
      <3> HIDE DEF k
      <3> QED
        BY <1>1, <1>2, <2>1, SMTT(60)
    <2> HIDE DEF k, left
    <2>3. less \in Image /\ less.writtenAt = image.writtenAt /\ less.source = image.source
          /\ less.type = image.type /\ less.url = left
      BY <2>2 DEF Image
    <2> HIDE DEF less
    <2>4. createImageValue(less) = both \o left
      BY <2>3 DEF createImageValue, both, HeaderOf
    <2>5. both \o left = short
      <3> DEFINE whole == both \o left
      <3>1. /\ whole \in Seq(Bytes) /\ Len(whole) = Len(both) + Len(left)
            /\ \A i \in 1..Len(both) : whole[i] = both[i]
            /\ \A i \in 1..Len(left) : whole[Len(both) + i] = left[i]
        <4>1. whole \in Seq(Bytes) /\ Len(whole) = Len(both) + Len(left)
              /\ \A i \in 1..Len(left) : whole[Len(both) + i] = left[i]
          BY <1>2, <2>2, JoiningBytes, Zenon
        <4>2. \A i \in 1..Len(both) : whole[i] = both[i]
          BY <1>2, <2>2
        <4> QED
          BY <4>1, <4>2
      <3>2. /\ \A i \in 1..Len(both) : row[i] = both[i]
            /\ \A i \in 1..Len(url) : row[Len(both) + i] = url[i]
        <4>1. \A i \in 1..Len(url) : (both \o url)[Len(both) + i] = url[i]
          BY <1>1, <1>2, JoiningBytes, Zenon
        <4>2. \A i \in 1..Len(both) : (both \o url)[i] = both[i]
          BY <1>1, <1>2
        <4> QED
          BY <1>2, <4>1, <4>2
      <3> HIDE DEF whole
      <3>3. Len(whole) = cut
        BY <2>1, <2>2, <3>1
      <3>4. ASSUME NEW i \in 1..cut PROVE short[i] = whole[i]
        <4>1. CASE i <= Len(both)
          <5>1. i \in 1..Len(both)
            BY <1>2, <4>1
          <5> QED
            BY <1>4, <3>1, <3>2, <5>1
        <4>2. CASE ~(i <= Len(both))
          <5> DEFINE j == i - Len(both)
          <5>1. j \in 1..k /\ j \in 1..Len(url) /\ j \in 1..Len(left) /\ i = Len(both) + j
            BY <1>2, <1>4, <2>1, <2>2, <4>2
          <5> HIDE DEF j
          <5>2. short[i] = row[i] /\ row[Len(both) + j] = url[j] /\ left[j] = url[j]
                /\ whole[Len(both) + j] = left[j]
            <6>1. short[i] = row[i]
              BY <1>4
            <6>2. row[Len(both) + j] = url[j]
              BY <3>2, <5>1, Zenon
            <6>3. left[j] = url[j]
              BY <2>2, <5>1, Zenon
            <6>4. whole[Len(both) + j] = left[j]
              BY <3>1, <5>1, Zenon
            <6> QED
              BY <6>1, <6>2, <6>3, <6>4
          <5> QED
            BY <5>1, <5>2, Zenon
        <4> QED
          BY <4>1, <4>2
      <3>5. whole = short
        BY <1>4, <3>1, <3>3, <3>4, SeqEqual
      <3> QED
        BY <3>5 DEF whole
    <2>6. parseImageValue(short) = less
      <3>1. parseImageValue(createImageValue(less)) = less
        BY <2>3, ImageReadBack
      <3> QED
        BY <2>4, <2>5, <3>1, Zenon
    <2> QED
      BY <1>7, <2>6 DEF header, short, row, url, less, left, k
  <1> QED
    BY <1>6, <1>7

(* And a link likewise.                                                    *)
LEMMA CutLink ==
  ASSUME NEW row \in Seq(Bytes), NEW cut \in 0..Len(row), NEW offset \in Nat, NEW link \in Link,
         Len(link.source) < Weight[Width], Len(link.url) < Weight[Width],
         Holds(row, offset, putUrl(link)),
         hasText(Cut(row, cut), offset),
         hasText(Cut(row, cut), endOfText(Cut(row, cut), offset))
  PROVE  offset + Len(putUrl(link)) <= cut
  <1> DEFINE short == Cut(row, cut)
             source == putText(link.source)
             url == putText(link.url)
  <1>1. source \in Seq(Bytes) /\ url \in Seq(Bytes) /\ link.source \in Seq(Bytes) /\ link.url \in Seq(Bytes)
    BY LinkIsBytes
  <1>2. Holds(row, offset, source \o url) /\ putUrl(link) = source \o url
    BY DEF putUrl
  <1>3. short \in Seq(Bytes) /\ cut \in Nat
    BY CutIsBytes
  <1> HIDE DEF source, url
  <1>4. Holds(row, offset, source) /\ Holds(row, offset + Len(source), url)
    BY <1>1, <1>2, HoldsBoth
  <1>5. Len(source) \in Nat /\ Len(url) \in Nat /\ Len(source \o url) = Len(source) + Len(url)
    BY <1>1, Joining
  <1>6. offset + Len(source) <= cut
    BY <1>1, <1>4, CutText DEF source
  <1>7. endOfText(short, offset) = offset + Len(source)
    <2>1. Holds(short, offset, source)
      BY <1>1, <1>4, <1>6, CutHolds
    <2> HIDE DEF short
    <2> QED
      BY <1>1, <1>3, <2>1, TextReadBack DEF source
  <1>8. (offset + Len(source)) + Len(url) <= cut
    <2>1. hasText(short, offset + Len(source))
      BY <1>7
    <2>2. offset + Len(source) \in Nat
      BY <1>5
    <2> QED
      BY <1>1, <1>4, <2>1, <2>2, CutText DEF url
  <1> QED
    BY <1>2, <1>5, <1>8

(* What is read of a list's row that was cut: the links before the cut.    *)
LEMMA LinksOfCut ==
  ASSUME NEW urls \in UrlLists, Len(urls) < Weight[Width], Len(urls) <= Room,
         \A i \in 1..Len(urls) : /\ Len(urls[i].source) < Weight[Width]
                                 /\ Len(urls[i].url) < Weight[Width],
         NEW cut \in 0..Len(createUrlValue(urls))
  PROVE  \E m \in 0..Len(urls) :
           /\ parseUrlValue(Cut(createUrlValue(urls), cut)) = SubSeq(urls, 1, m)
           /\ cut = Len(createUrlValue(urls)) => m = Len(urls)
  <1> DEFINE n == Len(urls)
             number == putU32(n)
             row == createUrlValue(urls)
             short == Cut(row, cut)
             read == Reading(short)
  <1>1. n \in Nat /\ Width \in Nat /\ \A i \in 1..n : urls[i] \in Link
    BY CodecFacts, ElementOfSeq DEF UrlLists
  <1>2. row \in Seq(Bytes) /\ Holds(row, 0, number) /\ number \in Seq(Bytes) /\ Len(number) = Width
    BY <1>1, LinksStand, NumberIsBytes
  <1>3. PICK ends : Standing(row, urls, ends)
    BY LinksStand
  <1> HIDE DEF row, number
  <1>4. short \in Seq(Bytes) /\ Len(short) = cut /\ cut \in Nat /\ Width <= Len(row)
        /\ cut \in 0..Len(row) /\ Len(row) \in Nat
    <2>1. cut \in 0..Len(row)
      BY DEF row
    <2>2. Width <= Len(row)
      <3>1. 0 + Len(number) <= Len(row)
        BY <1>2, HoldsBytes
      <3> QED
        BY <1>1, <1>2, <3>1
    <2> QED
      BY <1>2, <2>1, <2>2, CutIsBytes
  <1>5. CASE ~hasU32(short, 0)
    <2>1. parseUrlValue(short) = SubSeq(urls, 1, 0)
      BY <1>5, SubSeqEmpty DEF parseUrlValue
    <2>2. cut # Len(row) /\ 0 \in 0..n
      BY <1>1, <1>4, <1>5 DEF hasU32
    <2> QED
      BY <2>1, <2>2 DEF row
  <1>6. CASE hasU32(short, 0)
    <2>1. readU32(short, 0) = n
      <3>1. Holds(short, 0, number)
        <4>1. 0 + Len(number) <= cut
          BY <1>1, <1>2, <1>4, <1>6 DEF hasU32
        <4> QED
          BY <1>2, <1>4, <4>1, CutHolds
      <3> HIDE DEF short
      <3> QED
        BY <1>1, <1>4, <3>1, NumberThere DEF number
    <2> HIDE DEF short
    <2>2. /\ read[0] = [urls |-> <<>>, offset |-> Width]
          /\ \A i \in 1..n : read[i] = readUrl(short, read[i - 1])
      BY <1>4, <1>6, <2>1, ReadingSteps
    <2>3. parseUrlValue(short) = read[n].urls
      <3>1. ~(readU32(short, 0) > Room)
        BY <1>1, <2>1, RoomAssumption
      <3>2. parseUrlValue(short) = Reading(short)[readU32(short, 0)].urls
        BY <1>6, <3>1 DEF parseUrlValue
      <3> QED
        BY <2>1, <3>2, Zenon DEF read
    <2> HIDE DEF read, n
    <2> DEFINE Stopped(m, i) == m = i \/ (m < n /\ ends[m + 1] > cut)
               Faithful(last, i) ==
                 \E m \in 0..i : /\ last = [urls |-> SubSeq(urls, 1, m), offset |-> ends[m]]
                                 /\ Stopped(m, i)
               T == {i \in Nat : i <= n => Faithful(read[i], i)}
    <2>4. 0 \in T
      <3>1. read[0] = [urls |-> SubSeq(urls, 1, 0), offset |-> ends[0]]
        BY <1>3, <2>2, SubSeqEmpty DEF Standing
      <3>2. Faithful(read[0], 0)
        BY <3>1
      <3> HIDE DEF Faithful
      <3> QED
        BY <3>2
    <2>5. ASSUME NEW i \in Nat, i \in T, i + 1 <= n PROVE Faithful(read[i + 1], i + 1)
      <3>1. Faithful(read[i], i)
        <4> HIDE DEF Faithful
        <4> QED
          BY <1>1, <2>5
      <3>2. PICK m \in 0..i : /\ read[i] = [urls |-> SubSeq(urls, 1, m), offset |-> ends[m]]
                              /\ Stopped(m, i)
        BY <3>1
      <3>3. read[i + 1] = readUrl(short, read[i])
        <4> DEFINE j == i + 1
        <4>1. j \in 1..n /\ j - 1 = i
          BY <1>1, <2>5
        <4> HIDE DEF j
        <4>2. read[j] = readUrl(short, read[j - 1])
          BY <2>2, <4>1, Zenon
        <4>3. read[j] = readUrl(short, read[i])
          BY <4>1, <4>2, Zenon
        <4> QED
          BY <4>3 DEF j
      <3> DEFINE j == m + 1
                 offset == ends[m]
                 link == urls[j]
                 middle == endOfText(short, offset)
      <3>4. j \in 1..n /\ j - 1 = m /\ m \in 0..n /\ m \in Nat /\ j \in 0..n
        BY <1>1, <2>5
      <3>5. /\ link \in Link /\ offset \in Nat /\ ends[j] \in Nat
            /\ Holds(row, offset, putUrl(link)) /\ ends[j] = offset + Len(putUrl(link))
            /\ Len(link.source) < Weight[Width] /\ Len(link.url) < Weight[Width]
        <4>1. /\ Holds(row, ends[j - 1], putUrl(urls[j]))
              /\ ends[j] = ends[j - 1] + Len(putUrl(urls[j]))
              /\ ends \in [0..n -> Nat]
          <5> HIDE DEF j
          <5> QED
            BY <1>3, <3>4 DEF Standing, n
        <4>2. Len(urls[j].source) < Weight[Width] /\ Len(urls[j].url) < Weight[Width] /\ urls[j] \in Link
          <5> HIDE DEF j
          <5> QED
            BY <1>1, <3>4 DEF n
        <4> QED
          BY <3>4, <4>1, <4>2
      <3>6. read[i].urls = SubSeq(urls, 1, m) /\ read[i].offset = offset
        BY <3>2
      <3> HIDE DEF link, offset, j
      <3>7. CASE ends[j] <= cut
        <4>1. Holds(short, offset, putUrl(link))
          <5>1. putUrl(link) \in Seq(Bytes)
            BY <3>5, LinkIsBytes
          <5>2. offset + Len(putUrl(link)) <= cut
            BY <3>5, <3>7
          <5> QED
            BY <1>2, <1>4, <3>5, <5>1, <5>2, CutHolds DEF short
        <4>2. /\ hasText(short, offset) /\ hasText(short, middle)
              /\ link = [source |-> readText(short, offset), url |-> readText(short, middle)]
              /\ endOfText(short, middle) = ends[j]
          BY <1>4, <3>5, <4>1, LinkReadBack
        <4> HIDE DEF middle
        <4>3. readUrl(short, read[i]) = [urls |-> Append(SubSeq(urls, 1, m), link), offset |-> ends[j]]
          BY <3>6, <4>2 DEF readUrl, middle
        <4>4. Append(SubSeq(urls, 1, m), link) = SubSeq(urls, 1, j)
          <5>1. urls \in Seq(Link) /\ 1 \in 1..Len(urls) /\ j \in 1..Len(urls)
            BY <1>1, <3>4 DEF UrlLists, n
          <5>2. SubSeq(urls, 1, j) = SubSeq(urls, 1, j - 1) \o <<urls[j]>>
            BY <5>1, SubSeqRecursiveSecond
          <5>3. SubSeq(urls, 1, j) = SubSeq(urls, 1, m) \o <<link>>
            BY <3>4, <5>2, Zenon DEF link
          <5>4. SubSeq(urls, 1, m) \in Seq(Link)
            BY <3>4, <5>1
          <5>5. Append(SubSeq(urls, 1, m), link) = SubSeq(urls, 1, m) \o <<link>>
            BY <3>5, <5>4, AppendIsConcat
          <5> QED
            BY <5>3, <5>5, Zenon
        <4>5. m = i
          BY <1>4, <3>2, <3>5, <3>7 DEF j
        <4>6. j = i + 1 /\ j \in 0..(i + 1)
          BY <3>4, <4>5 DEF j
        <4>7. read[i + 1] = [urls |-> SubSeq(urls, 1, j), offset |-> ends[j]]
          BY <3>3, <4>3, <4>4, Zenon
        <4> QED
          BY <4>6, <4>7
      <3>8. CASE ~(ends[j] <= cut)
        <4>1. ~(hasText(short, offset) /\ hasText(short, middle))
          <5> SUFFICES ASSUME hasText(short, offset), hasText(short, middle) PROVE FALSE
            OBVIOUS
          <5>1. offset + Len(putUrl(link)) <= cut
            BY <1>2, <1>4, <3>5, CutLink DEF short
          <5> QED
            BY <3>5, <3>8, <5>1
        <4>2. read[i + 1] = read[i]
          BY <3>3, <3>6, <4>1 DEF readUrl
        <4>3. m < n /\ ends[m + 1] > cut /\ m \in 0..(i + 1)
          BY <1>1, <1>4, <3>4, <3>5, <3>8 DEF j
        <4> QED
          BY <3>2, <4>2, <4>3 DEF offset
      <3> QED
        BY <3>7, <3>8
    <2>6. \A i \in Nat : i \in T => i + 1 \in T
      <3> HIDE DEF Faithful
      <3> QED
        BY <2>5
    <2>7. n \in T
      <3> HIDE DEF T
      <3> QED
        BY <1>1, <2>4, <2>6, SetInduction
    <2>8. Faithful(read[n], n)
      <3> HIDE DEF Faithful
      <3> QED
        BY <1>1, <2>7
    <2>9. PICK m \in 0..n : /\ read[n] = [urls |-> SubSeq(urls, 1, m), offset |-> ends[m]]
                            /\ Stopped(m, n)
      BY <2>8
    <2>10. parseUrlValue(short) = SubSeq(urls, 1, m)
      <3> DEFINE first == SubSeq(urls, 1, m)
                 end == ends[m]
      <3>1. read[n] = [urls |-> first, offset |-> end]
        BY <2>9
      <3> HIDE DEF first, end
      <3>2. read[n].urls = first
        BY <3>1
      <3> QED
        BY <2>3, <3>2 DEF first
    <2>11. ASSUME cut = Len(row), m # n PROVE FALSE
      <3> DEFINE j == m + 1
      <3>1. m < n /\ ends[j] > cut /\ j \in 1..n /\ j - 1 = m /\ m \in 0..n /\ j \in 0..n
        BY <1>1, <2>9, <2>11
      <3> HIDE DEF j
      <3>2. /\ Holds(row, ends[j - 1], putUrl(urls[j]))
            /\ ends[j] = ends[j - 1] + Len(putUrl(urls[j]))
            /\ ends[j - 1] \in Nat /\ ends[j] \in Nat
        BY <1>3, <3>1 DEF Standing, n
      <3>3. putUrl(urls[j]) \in Seq(Bytes)
        BY <1>1, <3>1, LinkIsBytes
      <3>4. ends[j - 1] + Len(putUrl(urls[j])) <= Len(row)
        BY <1>2, <3>2, <3>3, HoldsBytes
      <3> QED
        BY <1>4, <2>11, <3>1, <3>2, <3>4
    <2> QED
      BY <2>10, <2>11 DEF n, row, short
  <1> QED
    BY <1>5, <1>6

LEMMA LinksReadBack ==
  ASSUME NEW urls \in UrlLists, Len(urls) < Weight[Width], Len(urls) <= Room,
         \A i \in 1..Len(urls) : /\ Len(urls[i].source) < Weight[Width]
                                 /\ Len(urls[i].url) < Weight[Width]
  PROVE  parseUrlValue(createUrlValue(urls)) = urls
  <1> DEFINE row == createUrlValue(urls)
             cut == Len(row)
  <1>1. row \in Seq(Bytes)
    BY LinksStand
  <1>2. cut \in 0..Len(row) /\ Cut(row, cut) = row
    BY <1>1, SubSeqFull DEF Cut
  <1>3. PICK m \in 0..Len(urls) : parseUrlValue(Cut(row, cut)) = SubSeq(urls, 1, m) /\ m = Len(urls)
    BY <1>2, LinksOfCut
  <1>4. SubSeq(urls, 1, Len(urls)) = urls
    BY SubSeqFull DEF UrlLists
  <1> HIDE DEF row, cut
  <1> QED
    BY <1>2, <1>3, <1>4 DEF row

(* Whatever bytes are found in a row, no more is read of it than they say; *)
(* where the count is past all memory, the code throws instead.            *)
THEOREM NothingIsEverMadeUp ==
  ASSUME NEW rows, \A raw \in rows : raw \in Seq(Bytes)
  PROVE  NothingIsMadeUp(rows)
  <1> SUFFICES ASSUME NEW raw \in rows
               PROVE  LET image == parseImageValue(raw)
                          urls == parseUrlValue(raw)
                      IN  /\ image = Rejected \/ createImageValue(image) = raw
                          /\ urls \in {<<>>, Thrown} \/
                               /\ Len(urls) <= readU32(raw, 0)
                               /\ LET written == createUrlValue(urls)
                                  IN  IsPrefix(SubSeq(written, Width + 1, Len(written)),
                                               SubSeq(raw, Width + 1, Len(raw)))
    BY DEF NothingIsMadeUp
  <1> DEFINE image == parseImageValue(raw)
             urls == parseUrlValue(raw)
             written == createUrlValue(urls)
             said == SubSeq(written, Width + 1, Len(written))
             found == SubSeq(raw, Width + 1, Len(raw))
  <1>1. raw \in Seq(Bytes) /\ Width \in Nat
    BY CodecFacts
  <1>2. image = Rejected \/ createImageValue(image) = raw
    <2>1. CASE Len(raw) <= Width \/ ~hasText(raw, Width + 1)
      BY <2>1 DEF parseImageValue
    <2>2. CASE ~(Len(raw) <= Width \/ ~hasText(raw, Width + 1))
      BY <1>1, <2>2, ImageNotMadeUp
    <2> QED
      BY <2>1, <2>2
  <1>3. ASSUME ~(urls \in {<<>>, Thrown})
        PROVE  Len(urls) <= readU32(raw, 0) /\ IsPrefix(said, found)
    <2>1. hasU32(raw, 0) /\ readU32(raw, 0) <= Room
      <3>1. hasU32(raw, 0) /\ ~(readU32(raw, 0) > Room)
        BY <1>3 DEF parseUrlValue
      <3>2. readU32(raw, 0) \in Nat
        BY <1>1, <3>1, NumberThereAgain
      <3> QED
        BY <3>1, <3>2, RoomAssumption
    <2>2. urls \in UrlLists /\ Len(urls) <= readU32(raw, 0)
      BY <1>1, <2>1, LinksNotMadeUp
    <2>3. PICK end \in Width..Len(raw) : putUrls(urls) = SubSeq(raw, Width + 1, end)
      BY <1>1, <2>1, LinksNotMadeUp
    <2> HIDE DEF urls
    <2> DEFINE number == putU32(Len(urls))
               all == putUrls(urls)
    <2>4. number \in Seq(Bytes) /\ Len(number) = Width /\ all \in Seq(Bytes)
      <3>1. Len(urls) \in Nat
        BY <2>2 DEF UrlLists
      <3> QED
        BY <2>2, <3>1, NumberIsBytes, LinksAreBytes
    <2>5. written = number \o all
      BY DEF createUrlValue
    <2> HIDE DEF number, all, written
    <2>6. said = all
      <3>1. written \in Seq(Bytes) /\ Len(written) = Width + Len(all) /\ Len(all) \in Nat
        BY <2>4, <2>5, Joining
      <3>2. Holds(written, 0, number \o all)
        BY <2>5, <3>1, SubSeqFull, SMTT(60) DEF Holds
      <3>3. Holds(written, Width, all)
        BY <1>1, <2>4, <3>1, <3>2, HoldsBoth
      <3> QED
        BY <3>1, <3>3 DEF Holds
    <2>7. Len(raw) \in Nat /\ Width <= end /\ end <= Len(raw) /\ end \in Nat
      BY <1>1, <2>3
    <2>8. all = SubSeq(raw, Width + 1, end)
      BY <2>3 DEF all
    <2>9. Len(all) = end - Width /\ \A i \in 1..Len(all) : all[i] = raw[Width + i]
      BY <1>1, <2>7, <2>8
    <2>10. /\ found \in Seq(Bytes) /\ Len(found) = Len(raw) - Width
           /\ \A i \in 1..Len(found) : found[i] = raw[Width + i]
      BY <1>1, <2>7
    <2> HIDE DEF said, found
    <2>11. Len(all) \in Nat /\ Len(all) <= Len(found)
      BY <1>1, <2>7, <2>9, <2>10
    <2>12. SubSeq(all, 1, Len(all)) = SubSeq(found, 1, Len(all))
      <3> DEFINE start == SubSeq(found, 1, Len(all))
      <3>1. start \in Seq(Bytes) /\ Len(start) = Len(all) /\ \A i \in 1..Len(all) : start[i] = found[i]
        BY <2>10, <2>11
      <3> HIDE DEF start
      <3>2. \A i \in 1..Len(all) : all[i] = start[i]
        BY <2>9, <2>10, <2>11, <3>1
      <3>3. all = start
        BY <2>4, <3>1, <3>2, SeqEqual
      <3> QED
        BY <2>4, <3>3, SubSeqFull DEF start
    <2>13. IsPrefix(all, found)
      BY <2>11, <2>12 DEF IsPrefix
    <2> QED
      BY <2>2, <2>6, <2>13 DEF urls
  <1> HIDE DEF image, urls, written, said, found
  <1>4. /\ image = Rejected \/ createImageValue(image) = raw
        /\ urls \in {<<>>, Thrown} \/ (Len(urls) <= readU32(raw, 0) /\ IsPrefix(said, found))
    BY <1>2, <1>3
  <1> QED
    BY <1>4 DEF image, urls, written, said, found

(* What fits in a row and in memory: a number below the weight of the byte *)
(* past its last, and texts and lists of no more than that.                *)
Storable(found, lists) ==
  /\ \A image \in found :
       /\ image \in Image
       /\ image.writtenAt < Weight[Width] /\ Len(image.source) < Weight[Width]
  /\ \A urls \in lists :
       /\ urls \in UrlLists /\ Len(urls) < Weight[Width]
       /\ \A i \in 1..Len(urls) : /\ Len(urls[i].source) < Weight[Width]
                                  /\ Len(urls[i].url) < Weight[Width]

(* What can be stored is read as it was written, if there is memory for it.*)
THEOREM RowsAlwaysReadBack ==
  ASSUME NEW found, NEW lists, Storable(found, lists)
  PROVE  RowsReadBack(found, lists)
  <1>1. ASSUME NEW image \in found PROVE parseImageValue(createImageValue(image)) = image
    BY ImageReadBack DEF Storable
  <1>2. ASSUME NEW urls \in lists, Len(urls) <= Room PROVE parseUrlValue(createUrlValue(urls)) = urls
    BY <1>2, LinksReadBack DEF Storable
  <1> QED
    BY <1>1, <1>2 DEF RowsReadBack

(* A row cut anywhere never throws: its first whole links are read.  The   *)
(* image of a cut row is rejected only where the cut is before its url.    *)
THEOREM CutRowsAlwaysReadShort ==
  ASSUME NEW found, NEW lists, Storable(found, lists)
  PROVE  CutRowsReadShort(found, lists)
  <1>1. ASSUME NEW image \in found, NEW cut \in 0..Len(createImageValue(image))
        PROVE  LET header == Len(createImageValue(image)) - Len(image.url)
               IN  parseImageValue(SubSeq(createImageValue(image), 1, cut)) =
                     IF cut < header THEN Rejected
                     ELSE [image EXCEPT !.url = SubSeq(image.url, 1, cut - header)]
    <2>1. image \in Image /\ image.writtenAt < Weight[Width] /\ Len(image.source) < Weight[Width]
      BY DEF Storable
    <2> QED
      BY <2>1, ImageOfCut DEF Cut
  <1>2. ASSUME NEW urls \in lists, Len(urls) <= Room, NEW cut \in 0..Len(createUrlValue(urls))
        PROVE  parseUrlValue(SubSeq(createUrlValue(urls), 1, cut)) \in Prefixes(urls)
    <2>1. PICK m \in 0..Len(urls) : parseUrlValue(Cut(createUrlValue(urls), cut)) = SubSeq(urls, 1, m)
      BY <1>2, LinksOfCut DEF Storable
    <2> QED
      BY <2>1 DEF Prefixes, Cut
  <1> QED
    BY <1>1, <1>2 DEF CutRowsReadShort

(* In every state: rows that findEntry finds are read as writeEntry wrote  *)
(* them, cut rows as what stands before the cut, keys are told apart, and  *)
(* damaged rows invent nothing (but may throw), for numbers of any base    *)
(* and width that hold what is written and for any memory.                 *)
THEOREM EntriesRead == Spec => []EntriesReadBack
  <1>1. Short \subseteq Seq(Bytes) /\ \A text \in Short : Len(text) <= 1
    <2> SUFFICES ASSUME NEW text \in Short PROVE text \in Seq(Bytes) /\ Len(text) <= 1
      OBVIOUS
    <2>1. PICK n \in 0..1 : text \in [1..n -> Bytes]
      BY DEF Short
    <2>2. n \in Nat
      OBVIOUS
    <2> QED
      BY <2>1, <2>2
  <1>2. 3 < Weight[Width] /\ Weight[Width] \in Nat
    BY RowsAssumption, WeightDef, CodecFacts
  <1>3. KeysTellApart([title : Short, artist : Short, album : Short])
    <2> DEFINE tracks == [title : Short, artist : Short, album : Short]
    <2>1. \A track \in tracks : /\ track.title \in Seq(Bytes)
                                /\ track.artist \in Seq(Bytes)
                                /\ track.album \in Seq(Bytes)
      BY <1>1
    <2> HIDE DEF tracks
    <2> QED
      BY <2>1, KeysAlwaysTellApart DEF tracks
  <1>4. NothingIsMadeUp(Rows)
    <2>1. ASSUME NEW raw \in Rows PROVE raw \in Seq(Bytes)
      <3>1. PICK n \in 0..MaxRow : raw \in [1..n -> {0, 1}]
        BY DEF Rows
      <3>2. n \in Nat
        BY <3>1
      <3>3. {0, 1} \subseteq Bytes
        BY CodecFacts
      <3>4. raw \in [1..n -> Bytes]
        BY <3>1, <3>3
      <3> QED
        BY <3>2, <3>4
    <2> QED
      BY <2>1, NothingIsEverMadeUp
  <1>5. Storable(Images, Lists)
    <2>1. ASSUME NEW image \in Images
          PROVE  /\ image \in Image
                 /\ image.writtenAt < Weight[Width] /\ Len(image.source) < Weight[Width]
      <3>1. /\ image.writtenAt \in 0..3 /\ image.type \in Bytes
            /\ image.source \in Short /\ image.url \in Short
        BY DEF Images
      <3>2. image \in Image
        BY <1>1 DEF Image, Images
      <3>3. image.source \in Seq(Bytes) /\ Len(image.source) <= 1 /\ Len(image.source) \in Nat
        BY <1>1, <3>1
      <3> QED
        BY <1>2, <3>1, <3>2, <3>3
    <2>2. ASSUME NEW urls \in Lists
          PROVE  /\ urls \in UrlLists /\ Len(urls) < Weight[Width]
                 /\ \A i \in 1..Len(urls) : /\ Len(urls[i].source) < Weight[Width]
                                            /\ Len(urls[i].url) < Weight[Width]
      <3> DEFINE S == [source : Short, url : Short]
      <3>1. PICK n \in 0..2 : urls \in [1..n -> S]
        BY DEF Lists
      <3>2. \A link \in S : link \in Link /\ link.source \in Short /\ link.url \in Short
        BY <1>1 DEF Link
      <3> HIDE DEF S
      <3>3. Len(urls) = n /\ urls \in Seq(S) /\ \A i \in 1..n : urls[i] \in S
        BY <3>1
      <3>4. urls \in UrlLists
        BY <3>1, <3>2 DEF UrlLists
      <3>5. ASSUME NEW i \in 1..Len(urls)
            PROVE  Len(urls[i].source) < Weight[Width] /\ Len(urls[i].url) < Weight[Width]
        <4>1. urls[i].source \in Short /\ urls[i].url \in Short
          BY <3>2, <3>3
        <4>2. /\ Len(urls[i].source) \in Nat /\ Len(urls[i].source) <= 1
              /\ Len(urls[i].url) \in Nat /\ Len(urls[i].url) <= 1
          BY <1>1, <4>1
        <4> QED
          BY <1>2, <4>2
      <3>6. Len(urls) < Weight[Width]
        BY <1>2, <3>1, <3>3
      <3> QED
        BY <3>4, <3>5, <3>6
    <2> QED
      BY <2>1, <2>2 DEF Storable
  <1>6. RowsReadBack(Images, Lists) /\ CutRowsReadShort(Images, Lists)
    BY <1>5, RowsAlwaysReadBack, CutRowsAlwaysReadShort
  <1>7. EntriesReadBack
    BY <1>3, <1>4, <1>6 DEF EntriesReadBack, CodecChecked
  <1> QED
    BY <1>7, PTL

-----------------------------------------------------------------------------
(* Matching                                                                *)
(*                                                                         *)
(* A pairing keeps some of the first i characters of s and as many of the  *)
(* first j of t; Cost is how many edits lead from one to the other.        *)

Pairings(i, j) ==
  {k \in (SUBSET (1..i)) \X (SUBSET (1..j)) : Cardinality(k[1]) = Cardinality(k[2])}

Cost(s, t, i, j, k) == i + j - 2 * Cardinality(k[1]) + Cardinality(Substituted(s, t, k))

LEMMA BelowBound ==
  ASSUME NEW n \in Nat, NEW a, a \subseteq 1..n
  PROVE  IsFiniteSet(a) /\ Cardinality(a) <= n
  <1> DEFINE all == 1..n
  <1>1. IsFiniteSet(all) /\ Cardinality(all) = IF 1 > n THEN 0 ELSE n - 1 + 1
    BY FS_Interval
  <1>2. Cardinality(all) = n
    BY <1>1
  <1>3. a \in SUBSET all
    OBVIOUS
  <1> HIDE DEF all
  <1> QED
    BY <1>1, <1>2, <1>3, FS_Subset

LEMMA PairingFacts ==
  ASSUME NEW i \in Nat, NEW j \in Nat, NEW a, NEW b, NEW s, NEW t, <<a, b>> \in Pairings(i, j)
  PROVE  /\ a \subseteq 1..i /\ b \subseteq 1..j /\ IsFiniteSet(a) /\ IsFiniteSet(b)
         /\ Cardinality(a) \in Nat /\ Cardinality(a) = Cardinality(b)
         /\ Cardinality(a) <= i /\ Cardinality(a) <= j
         /\ IsFiniteSet(Substituted(s, t, <<a, b>>))
         /\ Cardinality(Substituted(s, t, <<a, b>>)) \in Nat
  <1>1. a \subseteq 1..i /\ b \subseteq 1..j /\ Cardinality(a) = Cardinality(b)
    BY DEF Pairings
  <1>2. /\ IsFiniteSet(a) /\ Cardinality(a) <= i
        /\ IsFiniteSet(b) /\ Cardinality(b) <= j
    BY <1>1, BelowBound
  <1>3. Cardinality(a) \in Nat
    BY <1>2, FS_CardinalityType
  <1>4. Substituted(s, t, <<a, b>>) \subseteq a
    BY DEF Substituted
  <1>5. IsFiniteSet(Substituted(s, t, <<a, b>>))
    BY <1>2, <1>4, FS_Subset
  <1>6. Cardinality(Substituted(s, t, <<a, b>>)) \in Nat
    BY <1>5, FS_CardinalityType
  <1> QED
    BY <1>1, <1>2, <1>3, <1>5, <1>6

(* The rank of a character among those kept.                               *)
LEMMA RankOfKept ==
  ASSUME NEW i \in Nat \ {0}, NEW a, a \subseteq 1..(i - 1), IsFiniteSet(a)
  PROVE  /\ i \notin a /\ IsFiniteSet(a \cup {i})
         /\ Cardinality(a \cup {i}) = Cardinality(a) + 1 /\ Cardinality(a) \in Nat
         /\ Cardinality((a \cup {i}) \cap (1..i)) = Cardinality(a) + 1
         /\ \A x \in a : /\ (a \cup {i}) \cap (1..x) = a \cap (1..x)
                         /\ Cardinality(a \cap (1..x)) \in Nat
                         /\ Cardinality(a \cap (1..x)) <= Cardinality(a)
  <1>1. i \notin a
    OBVIOUS
  <1>2. /\ IsFiniteSet(a \cup {i}) /\ Cardinality(a \cup {i}) = Cardinality(a) + 1
        /\ Cardinality(a) \in Nat
    BY <1>1, FS_AddElement, FS_CardinalityType
  <1>3. (a \cup {i}) \cap (1..i) = a \cup {i}
    <2>1. i \in 1..i /\ \A x \in 1..(i - 1) : x \in 1..i
      OBVIOUS
    <2> DEFINE all == 1..i
    <2>2. a \cup {i} \subseteq all
      BY <2>1
    <2> HIDE DEF all
    <2>3. (a \cup {i}) \cap all = a \cup {i}
      BY <2>2
    <2> QED
      BY <2>3 DEF all
  <1>4. ASSUME NEW x \in a
        PROVE  /\ (a \cup {i}) \cap (1..x) = a \cap (1..x)
               /\ Cardinality(a \cap (1..x)) \in Nat
               /\ Cardinality(a \cap (1..x)) <= Cardinality(a)
    <2>1. x \in 1..(i - 1) /\ i \notin 1..x
      OBVIOUS
    <2>2. (a \cup {i}) \cap (1..x) = a \cap (1..x)
      BY <2>1
    <2> DEFINE low == a \cap (1..x)
    <2>3. low \in SUBSET a
      OBVIOUS
    <2> HIDE DEF low
    <2>4. IsFiniteSet(low) /\ Cardinality(low) <= Cardinality(a)
      BY <2>3, FS_Subset
    <2>5. Cardinality(low) \in Nat
      BY <2>4, FS_CardinalityType
    <2> QED
      BY <2>2, <2>4, <2>5 DEF low
  <1> QED
    BY <1>1, <1>2, <1>3, <1>4

LEMMA SubstitutedLast ==
  ASSUME NEW s, NEW t, NEW i \in Nat \ {0}, NEW j \in Nat \ {0}, NEW a, NEW b,
         <<a, b>> \in Pairings(i - 1, j - 1)
  PROVE  LET k == <<a \cup {i}, b \cup {j}>>
         IN  /\ k \in Pairings(i, j)
             /\ Cost(s, t, i, j, k) =
                  Cost(s, t, i - 1, j - 1, <<a, b>>) + (IF s[i] = t[j] THEN 0 ELSE 1)
  <1> DEFINE k == <<a \cup {i}, b \cup {j}>>
             before == Substituted(s, t, <<a, b>>)
             after == Substituted(s, t, k)
  <1>1. i - 1 \in Nat /\ j - 1 \in Nat
    OBVIOUS
  <1>2. /\ a \subseteq 1..(i - 1) /\ b \subseteq 1..(j - 1) /\ IsFiniteSet(a) /\ IsFiniteSet(b)
        /\ Cardinality(a) \in Nat /\ Cardinality(a) = Cardinality(b)
        /\ IsFiniteSet(before) /\ Cardinality(before) \in Nat
    BY <1>1, PairingFacts
  <1>3. /\ i \notin a /\ Cardinality(a \cup {i}) = Cardinality(a) + 1
        /\ Cardinality((a \cup {i}) \cap (1..i)) = Cardinality(a) + 1
        /\ \A x \in a : /\ (a \cup {i}) \cap (1..x) = a \cap (1..x)
                        /\ Cardinality(a \cap (1..x)) \in Nat
                        /\ Cardinality(a \cap (1..x)) <= Cardinality(a)
    BY <1>2, RankOfKept
  <1>4. /\ j \notin b /\ Cardinality(b \cup {j}) = Cardinality(b) + 1
        /\ Cardinality((b \cup {j}) \cap (1..j)) = Cardinality(b) + 1
        /\ \A y \in b : /\ (b \cup {j}) \cap (1..y) = b \cap (1..y)
                        /\ Cardinality(b \cap (1..y)) \in Nat
                        /\ Cardinality(b \cap (1..y)) <= Cardinality(b)
    BY <1>2, RankOfKept
  <1>5. k \in Pairings(i, j)
    <2>1. i \in 1..i /\ j \in 1..j /\ 1..(i - 1) \subseteq 1..i /\ 1..(j - 1) \subseteq 1..j
      OBVIOUS
    <2>2. a \cup {i} \in SUBSET (1..i) /\ b \cup {j} \in SUBSET (1..j)
      BY <1>2, <2>1
    <2>3. Cardinality(a \cup {i}) = Cardinality(b \cup {j})
      BY <1>2, <1>3, <1>4
    <2> DEFINE x == a \cup {i}
               y == b \cup {j}
    <2> HIDE DEF x, y
    <2>4. <<x, y>> \in Pairings(i, j)
      <3>1. x \in SUBSET (1..i) /\ y \in SUBSET (1..j) /\ Cardinality(x) = Cardinality(y)
        BY <2>2, <2>3 DEF x, y
      <3> QED
        BY <3>1 DEF Pairings
    <2> QED
      BY <2>4 DEF x, y
  <1> DEFINE Meets(x, y) == Cardinality((a \cup {i}) \cap (1..x)) = Cardinality((b \cup {j}) \cap (1..y))
             Met(x, y) == Cardinality(a \cap (1..x)) = Cardinality(b \cap (1..y))
  <1>6. /\ \A x \in a, y \in b : Meets(x, y) <=> Met(x, y)
        /\ \A x \in a : ~Meets(x, j)
        /\ \A y \in b : ~Meets(i, y)
        /\ Meets(i, j)
    <2>1. \A x \in a, y \in b : Meets(x, y) <=> Met(x, y)
      BY <1>3, <1>4
    <2>2. ASSUME NEW x \in a PROVE ~Meets(x, j)
      BY <1>2, <1>3, <1>4
    <2>3. ASSUME NEW y \in b PROVE ~Meets(i, y)
      BY <1>2, <1>3, <1>4
    <2>4. Meets(i, j)
      BY <1>2, <1>3, <1>4
    <2> HIDE DEF Meets, Met
    <2> QED
      BY <2>1, <2>2, <2>3, <2>4
  <1>7. before = {x \in a : \E y \in b : s[x] # t[y] /\ Met(x, y)}
    BY DEF Substituted
  <1>8. after = {x \in a \cup {i} : \E y \in b \cup {j} : s[x] # t[y] /\ Meets(x, y)}
    BY DEF Substituted
  <1> HIDE DEF before, after, Meets, Met
  <1>9. CASE s[i] = t[j]
    <2>1. after = before
      BY <1>6, <1>7, <1>8, <1>9
    <2> QED
      BY <1>2, <1>3, <1>5, <1>9, <2>1 DEF Cost, before, after
  <1>10. CASE s[i] # t[j]
    <2>1. after = before \cup {i}
      BY <1>6, <1>7, <1>8, <1>10
    <2>2. i \notin before
      BY <1>3, <1>7
    <2>3. Cardinality(after) = Cardinality(before) + 1
      BY <1>2, <2>1, <2>2, FS_AddElement
    <2> QED
      BY <1>2, <1>3, <1>5, <1>10, <2>3 DEF Cost, before, after
  <1> QED
    BY <1>9, <1>10

Fewest(s, t, i, j, d) ==
  /\ d \in Nat
  /\ \E k \in Pairings(i, j) : d = Cost(s, t, i, j, k)
  /\ \A k \in Pairings(i, j) : d <= Cost(s, t, i, j, k)

LEMMA CostIsNat ==
  ASSUME NEW i \in Nat, NEW j \in Nat, NEW s, NEW t, NEW k \in Pairings(i, j)
  PROVE  Cost(s, t, i, j, k) \in Nat /\ k = <<k[1], k[2]>>
  <1>1. k = <<k[1], k[2]>>
    BY DEF Pairings
  <1> DEFINE a == k[1]
             b == k[2]
  <1>2. <<a, b>> \in Pairings(i, j)
    BY <1>1
  <1> HIDE DEF a, b
  <1>3. /\ Cardinality(a) \in Nat /\ Cardinality(a) <= i /\ Cardinality(a) <= j
        /\ Cardinality(Substituted(s, t, <<a, b>>)) \in Nat
    BY <1>2, PairingFacts
  <1>4. Cost(s, t, i, j, <<a, b>>) = i + j - 2 * Cardinality(a) + Cardinality(Substituted(s, t, <<a, b>>))
    BY DEF Cost
  <1>5. Cost(s, t, i, j, <<a, b>>) \in Nat
    BY <1>3, <1>4
  <1> QED
    BY <1>1, <1>5 DEF a, b

LEMMA FewestOfNone ==
  ASSUME NEW s, NEW t, NEW i \in Nat, NEW j \in Nat, i = 0 \/ j = 0
  PROVE  Fewest(s, t, i, j, i + j)
  <1>1. Cardinality({}) = 0
    BY FS_EmptySet
  <1>2. Substituted(s, t, <<{}, {}>>) = {}
    BY DEF Substituted
  <1>3. <<{}, {}>> \in Pairings(i, j) /\ Cost(s, t, i, j, <<{}, {}>>) = i + j
    <2> DEFINE none == {}
               k == <<none, none>>
    <2>1. k[1] = none
      OBVIOUS
    <2>2. k \in Pairings(i, j)
      BY DEF Pairings
    <2>3. Cost(s, t, i, j, k) = i + j - 2 * Cardinality(k[1]) + Cardinality(Substituted(s, t, k))
      BY DEF Cost
    <2>4. Cardinality(k[1]) = 0 /\ Cardinality(Substituted(s, t, k)) = 0
      BY <1>1, <1>2
    <2> HIDE DEF k
    <2>5. Cost(s, t, i, j, k) = i + j
      BY <2>3, <2>4
    <2> QED
      BY <2>2, <2>5 DEF k
  <1>4. ASSUME NEW k \in Pairings(i, j) PROVE k = <<{}, {}>>
    <2> DEFINE a == k[1]
               b == k[2]
    <2>1. k = <<a, b>> /\ <<a, b>> \in Pairings(i, j)
      BY CostIsNat
    <2> HIDE DEF a, b
    <2>2. /\ Cardinality(a) \in Nat /\ Cardinality(a) <= i /\ Cardinality(a) <= j
          /\ Cardinality(a) = Cardinality(b) /\ IsFiniteSet(a) /\ IsFiniteSet(b)
      BY <2>1, PairingFacts
    <2>3. Cardinality(a) = 0 /\ Cardinality(b) = 0
      BY <2>2
    <2>4. a = {} /\ b = {}
      BY <2>2, <2>3, FS_EmptySet
    <2> QED
      BY <2>1, <2>4
  <1>5. i + j \in Nat
    OBVIOUS
  <1>6. \A k \in Pairings(i, j) : i + j <= Cost(s, t, i, j, k)
    BY <1>3, <1>4, <1>5
  <1> QED
    BY <1>3, <1>5, <1>6 DEF Fewest

LEMMA SubstitutedLastOf ==
  ASSUME NEW s, NEW t, NEW i \in Nat \ {0}, NEW j \in Nat \ {0}, NEW a, NEW b, NEW less, NEW more,
         less = <<a, b>>, more = <<a \cup {i}, b \cup {j}>>, less \in Pairings(i - 1, j - 1)
  PROVE  /\ more \in Pairings(i, j)
         /\ Cost(s, t, i, j, more) =
              Cost(s, t, i - 1, j - 1, less) + (IF s[i] = t[j] THEN 0 ELSE 1)
  <1> DEFINE x == IF s[i] = t[j] THEN 0 ELSE 1
             k == <<a \cup {i}, b \cup {j}>>
  <1>1. <<a, b>> \in Pairings(i - 1, j - 1)
    OBVIOUS
  <1>2. k \in Pairings(i, j) /\ Cost(s, t, i, j, k) = Cost(s, t, i - 1, j - 1, <<a, b>>) + x
    BY <1>1, SubstitutedLast, SMTT(60)
  <1>3. k = more
    OBVIOUS
  <1> HIDE DEF k, x
  <1>4. more \in Pairings(i, j) /\ Cost(s, t, i, j, more) = Cost(s, t, i - 1, j - 1, less) + x
    BY <1>2, <1>3, Zenon
  <1> QED
    BY <1>4 DEF x

LEMMA WithoutLast ==
  ASSUME NEW s, NEW t, NEW i \in Nat, NEW j \in Nat, NEW k
  PROVE  /\ i # 0 /\ k \in Pairings(i - 1, j) =>
              k \in Pairings(i, j) /\ Cost(s, t, i, j, k) = Cost(s, t, i - 1, j, k) + 1
         /\ j # 0 /\ k \in Pairings(i, j - 1) =>
              k \in Pairings(i, j) /\ Cost(s, t, i, j, k) = Cost(s, t, i, j - 1, k) + 1
         /\ i # 0 /\ k \in Pairings(i, j) /\ i \notin k[1] => k \in Pairings(i - 1, j)
         /\ j # 0 /\ k \in Pairings(i, j) /\ j \notin k[2] => k \in Pairings(i, j - 1)
  <1>1. ASSUME i # 0, k \in Pairings(i - 1, j)
        PROVE  k \in Pairings(i, j) /\ Cost(s, t, i, j, k) = Cost(s, t, i - 1, j, k) + 1
    <2>1. 1..(i - 1) \subseteq 1..i /\ i - 1 \in Nat
      BY <1>1
    <2>2. k \in Pairings(i, j)
      BY <1>1, <2>1 DEF Pairings
    <2> DEFINE c == Cardinality(k[1])
               d == Cardinality(Substituted(s, t, k))
    <2>3. c \in Nat /\ d \in Nat
      <3> DEFINE a == k[1]
                 b == k[2]
      <3>1. k = <<a, b>> /\ <<a, b>> \in Pairings(i, j)
        BY <2>2, CostIsNat
      <3> HIDE DEF a, b
      <3>2. Cardinality(a) \in Nat /\ Cardinality(Substituted(s, t, <<a, b>>)) \in Nat
        BY <3>1, PairingFacts
      <3> QED
        BY <3>1, <3>2 DEF a
    <2>4. Cost(s, t, i, j, k) = i + j - 2 * c + d /\ Cost(s, t, i - 1, j, k) = (i - 1) + j - 2 * c + d
      BY DEF Cost
    <2> HIDE DEF c, d
    <2> QED
      BY <2>1, <2>2, <2>3, <2>4
  <1>2. ASSUME j # 0, k \in Pairings(i, j - 1)
        PROVE  k \in Pairings(i, j) /\ Cost(s, t, i, j, k) = Cost(s, t, i, j - 1, k) + 1
    <2>1. 1..(j - 1) \subseteq 1..j /\ j - 1 \in Nat
      BY <1>2
    <2>2. k \in Pairings(i, j)
      BY <1>2, <2>1 DEF Pairings
    <2> DEFINE c == Cardinality(k[1])
               d == Cardinality(Substituted(s, t, k))
    <2>3. c \in Nat /\ d \in Nat
      <3> DEFINE a == k[1]
                 b == k[2]
      <3>1. k = <<a, b>> /\ <<a, b>> \in Pairings(i, j)
        BY <2>2, CostIsNat
      <3> HIDE DEF a, b
      <3>2. Cardinality(a) \in Nat /\ Cardinality(Substituted(s, t, <<a, b>>)) \in Nat
        BY <3>1, PairingFacts
      <3> QED
        BY <3>1, <3>2 DEF a
    <2>4. Cost(s, t, i, j, k) = i + j - 2 * c + d /\ Cost(s, t, i, j - 1, k) = i + (j - 1) - 2 * c + d
      BY DEF Cost
    <2> HIDE DEF c, d
    <2> QED
      BY <2>1, <2>2, <2>3, <2>4
  <1>3. ASSUME i # 0, k \in Pairings(i, j), i \notin k[1] PROVE k \in Pairings(i - 1, j)
    <2>1. \A x \in 1..i : x # i => x \in 1..(i - 1)
      OBVIOUS
    <2> QED
      BY <1>3, <2>1 DEF Pairings
  <1>4. ASSUME j # 0, k \in Pairings(i, j), j \notin k[2] PROVE k \in Pairings(i, j - 1)
    <2>1. \A x \in 1..j : x # j => x \in 1..(j - 1)
      OBVIOUS
    <2> QED
      BY <1>4, <2>1 DEF Pairings
  <1> QED
    BY <1>1, <1>2, <1>3, <1>4

LEMMA WithLast ==
  ASSUME NEW s, NEW t, NEW i \in Nat \ {0}, NEW j \in Nat \ {0},
         NEW k \in Pairings(i, j), i \in k[1], j \in k[2]
  PROVE  \E less \in Pairings(i - 1, j - 1) :
           Cost(s, t, i, j, k) = Cost(s, t, i - 1, j - 1, less) + (IF s[i] = t[j] THEN 0 ELSE 1)
  <1> DEFINE a == k[1] \ {i}
             b == k[2] \ {j}
  <1>1. k = <<k[1], k[2]>> /\ k[1] = a \cup {i} /\ k[2] = b \cup {j}
    BY CostIsNat
  <1>2. IsFiniteSet(k[1]) /\ IsFiniteSet(k[2]) /\ k[1] \subseteq 1..i /\ k[2] \subseteq 1..j
    <2> DEFINE c == k[1]
               d == k[2]
    <2>1. <<c, d>> \in Pairings(i, j)
      BY <1>1
    <2> HIDE DEF c, d
    <2>2. IsFiniteSet(c) /\ IsFiniteSet(d) /\ c \subseteq 1..i /\ d \subseteq 1..j
      BY <2>1, PairingFacts
    <2> QED
      BY <2>2 DEF c, d
  <1>3. Cardinality(a) = Cardinality(b)
    <2>1. Cardinality(a) = Cardinality(k[1]) - 1 /\ Cardinality(b) = Cardinality(k[2]) - 1
      BY <1>2, FS_RemoveElement
    <2>2. Cardinality(k[1]) = Cardinality(k[2])
      BY DEF Pairings
    <2> QED
      BY <2>1, <2>2
  <1>4. a \in SUBSET (1..(i - 1)) /\ b \in SUBSET (1..(j - 1))
    <2>1. /\ \A x \in 1..i : x # i => x \in 1..(i - 1)
          /\ \A x \in 1..j : x # j => x \in 1..(j - 1)
      OBVIOUS
    <2> QED
      BY <1>2, <2>1
  <1>5. <<a, b>> \in Pairings(i - 1, j - 1)
    <2> HIDE DEF a, b
    <2> QED
      BY <1>3, <1>4 DEF Pairings
  <1>6. k = <<a \cup {i}, b \cup {j}>>
    BY <1>1
  <1> HIDE DEF a, b
  <1>7. Cost(s, t, i, j, k) = Cost(s, t, i - 1, j - 1, <<a, b>>) + (IF s[i] = t[j] THEN 0 ELSE 1)
    <2> DEFINE less == <<a, b>>
    <2>1. less = <<a, b>> /\ less \in Pairings(i - 1, j - 1)
      BY <1>5
    <2> HIDE DEF less
    <2>2. Cost(s, t, i, j, k) = Cost(s, t, i - 1, j - 1, less) + (IF s[i] = t[j] THEN 0 ELSE 1)
      BY <1>6, <2>1, SubstitutedLastOf, SMTT(60)
    <2> QED
      BY <2>2 DEF less
  <1> QED
    BY <1>5, <1>7

(* A cell is the fewest edits if its neighbours are.                       *)
LEMMA CellIsFewest ==
  ASSUME NEW s, NEW t, NEW i \in Nat \ {0}, NEW j \in Nat \ {0}, NEW d1, NEW d2, NEW d3,
         Fewest(s, t, i - 1, j, d1), Fewest(s, t, i, j - 1, d2), Fewest(s, t, i - 1, j - 1, d3)
  PROVE  Fewest(s, t, i, j, Min({d1 + 1, d2 + 1, d3 + (IF s[i] = t[j] THEN 0 ELSE 1)}))
  <1> DEFINE x == IF s[i] = t[j] THEN 0 ELSE 1
             choices == {d1 + 1, d2 + 1, d3 + x}
             d == Min(choices)
  <1>1. d1 \in Nat /\ d2 \in Nat /\ d3 \in Nat /\ x \in Nat
    BY DEF Fewest
  <1>2. choices \subseteq Nat /\ choices # {}
    BY <1>1
  <1>3. d \in choices /\ \A e \in choices : d <= e
    <2> HIDE DEF choices
    <2> QED
      BY <1>2, MinIsLeast
  <1>4. d \in Nat /\ d <= d1 + 1 /\ d <= d2 + 1 /\ d <= d3 + x /\ d \in {d1 + 1, d2 + 1, d3 + x}
    BY <1>2, <1>3
  <1> HIDE DEF choices, d
  <1>5. i - 1 \in Nat /\ j - 1 \in Nat /\ i \in Nat /\ j \in Nat /\ i # 0 /\ j # 0
    OBVIOUS
  <1>6. \E k \in Pairings(i, j) : d = Cost(s, t, i, j, k)
    <2>1. CASE d = d1 + 1
      <3>1. PICK k \in Pairings(i - 1, j) : d1 = Cost(s, t, i - 1, j, k)
        BY DEF Fewest
      <3>2. k \in Pairings(i, j) /\ Cost(s, t, i, j, k) = Cost(s, t, i - 1, j, k) + 1
        BY <1>5, WithoutLast
      <3>3. d = Cost(s, t, i, j, k)
        BY <2>1, <3>1, <3>2
      <3> QED
        BY <3>2, <3>3
    <2>2. CASE d = d2 + 1
      <3>1. PICK k \in Pairings(i, j - 1) : d2 = Cost(s, t, i, j - 1, k)
        BY DEF Fewest
      <3>2. k \in Pairings(i, j) /\ Cost(s, t, i, j, k) = Cost(s, t, i, j - 1, k) + 1
        BY <1>5, WithoutLast
      <3>3. d = Cost(s, t, i, j, k)
        BY <2>2, <3>1, <3>2
      <3> QED
        BY <3>2, <3>3
    <2>3. CASE d = d3 + x
      <3>1. PICK k \in Pairings(i - 1, j - 1) : d3 = Cost(s, t, i - 1, j - 1, k)
        BY DEF Fewest
      <3> DEFINE a == k[1]
                 b == k[2]
                 more == <<a \cup {i}, b \cup {j}>>
      <3>2. k = <<a, b>> /\ <<a, b>> \in Pairings(i - 1, j - 1)
        BY <1>5, CostIsNat
      <3> HIDE DEF a, b
      <3>3. more \in Pairings(i, j) /\ Cost(s, t, i, j, more) = Cost(s, t, i - 1, j - 1, <<a, b>>) + x
        BY <3>2, SubstitutedLast, SMTT(60)
      <3> HIDE DEF more, x
      <3>4. d = Cost(s, t, i, j, more)
        BY <2>3, <3>1, <3>2, <3>3, Zenon
      <3> QED
        BY <3>3, <3>4
    <2> QED
      BY <1>4, <2>1, <2>2, <2>3
  <1>7. ASSUME NEW k \in Pairings(i, j) PROVE d <= Cost(s, t, i, j, k)
    <2> DEFINE c == Cost(s, t, i, j, k)
    <2>1. c \in Nat
      BY <1>5, CostIsNat
    <2>2. CASE i \notin k[1]
      <3>1. k \in Pairings(i - 1, j) /\ c = Cost(s, t, i - 1, j, k) + 1
        BY <1>5, <2>2, WithoutLast
      <3>2. d1 <= Cost(s, t, i - 1, j, k) /\ Cost(s, t, i - 1, j, k) \in Nat
        BY <1>5, <3>1, CostIsNat DEF Fewest
      <3> QED
        BY <1>1, <1>4, <3>1, <3>2
    <2>3. CASE j \notin k[2]
      <3>1. k \in Pairings(i, j - 1) /\ c = Cost(s, t, i, j - 1, k) + 1
        <4>1. k \in Pairings(i, j - 1)
          BY <1>5, <2>3, WithoutLast
        <4> QED
          BY <1>5, <4>1, WithoutLast
      <3>2. d2 <= Cost(s, t, i, j - 1, k) /\ Cost(s, t, i, j - 1, k) \in Nat
        BY <1>5, <3>1, CostIsNat DEF Fewest
      <3> QED
        BY <1>1, <1>4, <3>1, <3>2
    <2>4. CASE i \in k[1] /\ j \in k[2]
      <3>1. PICK less \in Pairings(i - 1, j - 1) : c = Cost(s, t, i - 1, j - 1, less) + x
        BY <2>4, WithLast
      <3>2. d3 <= Cost(s, t, i - 1, j - 1, less) /\ Cost(s, t, i - 1, j - 1, less) \in Nat
        BY <1>5, CostIsNat DEF Fewest
      <3> HIDE DEF x, c
      <3>3. d <= c
        BY <1>1, <1>4, <3>1, <3>2
      <3> QED
        BY <3>3 DEF c
    <2> QED
      BY <2>2, <2>3, <2>4
  <1>8. Fewest(s, t, i, j, d)
    BY <1>4, <1>6, <1>7 DEF Fewest
  <1> QED
    BY <1>8 DEF d, choices

-----------------------------------------------------------------------------
(* There is a table, and each of its cells is the fewest edits.            *)

Cells(s, t) == (0..Len(s)) \X (0..Len(t))
IsTable(s, t, dp) == dp = [p \in Cells(s, t) |-> Cell(s, t, dp, p[1], p[2])]

LEMMA SameNeighbours ==
  ASSUME NEW s, NEW t, NEW f, NEW g, NEW i \in Nat, NEW j \in Nat,
         i # 0 /\ j # 0 => /\ f[<<i - 1, j>>] = g[<<i - 1, j>>]
                           /\ f[<<i, j - 1>>] = g[<<i, j - 1>>]
                           /\ f[<<i - 1, j - 1>>] = g[<<i - 1, j - 1>>]
  PROVE  Cell(s, t, f, i, j) = Cell(s, t, g, i, j)
  BY DEF Cell

LEMMA TableExists ==
  ASSUME NEW S, NEW s \in Seq(S), NEW t \in Seq(S)
  PROVE  \E dp : IsTable(s, t, dp)
  <1> DEFINE m == Len(s)
             n == Len(t)
             Good(f, k) == \A i \in 0..m, j \in 0..n : i + j <= k => f[<<i, j>>] = Cell(s, t, f, i, j)
             D == Cells(s, t)
             T == {k \in Nat : \E f : f = [p \in D |-> f[p]] /\ Good(f, k)}
  <1>1. m \in Nat /\ n \in Nat
    OBVIOUS
  <1>2. \A i \in 0..m, j \in 0..n : <<i, j>> \in D
    BY DEF Cells
  <1> HIDE DEF m, n, D
  <1>3. 0 \in T
    <2> DEFINE f == [p \in D |-> 0]
    <2>1. ASSUME NEW i \in 0..m, NEW j \in 0..n, i + j <= 0 PROVE f[<<i, j>>] = Cell(s, t, f, i, j)
      <3>1. i = 0 /\ j = 0
        BY <1>1, <2>1
      <3>2. f[<<i, j>>] = 0
        BY <1>2
      <3> HIDE DEF f
      <3> QED
        BY <3>1, <3>2 DEF Cell
    <2>2. f = [p \in D |-> f[p]]
      OBVIOUS
    <2> HIDE DEF f
    <2>3. Good(f, 0)
      BY <2>1
    <2> HIDE DEF Good
    <2> QED
      BY <2>2, <2>3
  <1>4. ASSUME NEW k \in Nat, k \in T PROVE k + 1 \in T
    <2>1. PICK f : f = [p \in D |-> f[p]] /\ Good(f, k)
      BY <1>4
    <2> DEFINE g == [p \in D |-> IF p[1] + p[2] = k + 1 THEN Cell(s, t, f, p[1], p[2]) ELSE f[p]]
    <2>2. ASSUME NEW i \in 0..m, NEW j \in 0..n
          PROVE  g[<<i, j>>] = IF i + j = k + 1 THEN Cell(s, t, f, i, j) ELSE f[<<i, j>>]
      BY <1>2
    <2>3. g = [p \in D |-> g[p]]
      OBVIOUS
    <2> HIDE DEF g
    <2>4. ASSUME NEW i \in 0..m, NEW j \in 0..n, i + j <= k + 1 PROVE g[<<i, j>>] = Cell(s, t, g, i, j)
      <3>1. i # 0 /\ j # 0 => /\ g[<<i - 1, j>>] = f[<<i - 1, j>>]
                              /\ g[<<i, j - 1>>] = f[<<i, j - 1>>]
                              /\ g[<<i - 1, j - 1>>] = f[<<i - 1, j - 1>>]
        <4> SUFFICES ASSUME i # 0, j # 0
                     PROVE  /\ g[<<i - 1, j>>] = f[<<i - 1, j>>]
                            /\ g[<<i, j - 1>>] = f[<<i, j - 1>>]
                            /\ g[<<i - 1, j - 1>>] = f[<<i - 1, j - 1>>]
          OBVIOUS
        <4>1. /\ i - 1 \in 0..m /\ j - 1 \in 0..n
              /\ i - 1 + j # k + 1 /\ i + (j - 1) # k + 1 /\ i - 1 + (j - 1) # k + 1
          BY <1>1, <2>4
        <4> QED
          BY <2>2, <4>1
      <3>2. Cell(s, t, g, i, j) = Cell(s, t, f, i, j)
        BY <3>1, SameNeighbours
      <3>3. CASE i + j = k + 1
        BY <2>2, <3>2, <3>3
      <3>4. CASE i + j # k + 1
        <4>1. i + j <= k
          BY <1>1, <2>4, <3>4
        <4>2. f[<<i, j>>] = Cell(s, t, f, i, j)
          BY <2>1, <4>1
        <4> QED
          BY <2>2, <3>2, <3>4, <4>2
      <3> QED
        BY <3>3, <3>4
    <2>5. Good(g, k + 1)
      BY <2>4
    <2> HIDE DEF Good
    <2> QED
      BY <2>3, <2>5
  <1>5. m + n \in T
    <2>1. \A k \in Nat : k \in T => k + 1 \in T
      <3> HIDE DEF Good
      <3> QED
        BY <1>4
    <2>2. m + n \in Nat
      BY <1>1
    <2> HIDE DEF T
    <2> QED
      BY <1>3, <2>1, <2>2, SetInduction
  <1>6. PICK f : f = [p \in D |-> f[p]] /\ Good(f, m + n)
    BY <1>5
  <1>7. \A i \in 0..m, j \in 0..n : f[<<i, j>>] = Cell(s, t, f, i, j)
    <2> SUFFICES ASSUME NEW i \in 0..m, NEW j \in 0..n PROVE f[<<i, j>>] = Cell(s, t, f, i, j)
      OBVIOUS
    <2>1. i + j <= m + n
      BY <1>1
    <2> QED
      BY <1>6, <2>1
  <1>8. \A p \in D : f[p] = Cell(s, t, f, p[1], p[2])
    <2> SUFFICES ASSUME NEW p \in D PROVE f[p] = Cell(s, t, f, p[1], p[2])
      OBVIOUS
    <2>1. p = <<p[1], p[2]>> /\ p[1] \in 0..m /\ p[2] \in 0..n
      BY DEF D, Cells, m, n
    <2>2. f[<<p[1], p[2]>>] = Cell(s, t, f, p[1], p[2])
      BY <1>7, <2>1
    <2> QED
      BY <2>1, <2>2, Zenon
  <1>9. f = [p \in D |-> Cell(s, t, f, p[1], p[2])]
    BY <1>6, <1>8
  <1> QED
    BY <1>9 DEF IsTable, D

LEMMA TableIsFewest ==
  ASSUME NEW s, NEW t, NEW dp, IsTable(s, t, dp), Len(s) \in Nat, Len(t) \in Nat
  PROVE  \A i \in 0..Len(s), j \in 0..Len(t) : Fewest(s, t, i, j, dp[<<i, j>>])
  <1> DEFINE m == Len(s)
             n == Len(t)
  <1>1. \A i \in 0..m, j \in 0..n : dp[<<i, j>>] = Cell(s, t, dp, i, j)
    <2> SUFFICES ASSUME NEW i \in 0..m, NEW j \in 0..n PROVE dp[<<i, j>>] = Cell(s, t, dp, i, j)
      OBVIOUS
    <2> DEFINE p == <<i, j>>
    <2>1. p \in Cells(s, t) /\ p[1] = i /\ p[2] = j
      BY DEF Cells
    <2> HIDE DEF p
    <2>2. dp[p] = Cell(s, t, dp, p[1], p[2])
      BY <2>1 DEF IsTable
    <2>3. dp[p] = Cell(s, t, dp, i, j)
      BY <2>1, <2>2, Zenon
    <2> QED
      BY <2>3 DEF p
  <1>2. m \in Nat /\ n \in Nat
    OBVIOUS
  <1> HIDE DEF m, n
  <1> DEFINE Right(k) == \A i \in 0..m, j \in 0..n : i + j <= k => Fewest(s, t, i, j, dp[<<i, j>>])
             T == {k \in Nat : Right(k)}
  <1>3. ASSUME NEW i \in 0..m, NEW j \in 0..n, i = 0 \/ j = 0 PROVE Fewest(s, t, i, j, dp[<<i, j>>])
    <2>1. i \in Nat /\ j \in Nat /\ dp[<<i, j>>] = i + j
      <3>1. i \in Nat /\ j \in Nat
        BY <1>2
      <3>2. dp[<<i, j>>] = Cell(s, t, dp, i, j)
        BY <1>1
      <3>3. Cell(s, t, dp, i, j) = IF i = 0 THEN j ELSE i
        BY <1>3 DEF Cell
      <3>4. (IF i = 0 THEN j ELSE i) = i + j
        BY <1>3, <3>1
      <3> QED
        BY <3>1, <3>2, <3>3, <3>4
    <2>2. Fewest(s, t, i, j, i + j)
      BY <1>3, <2>1, FewestOfNone
    <2> QED
      BY <2>1, <2>2
  <1>4. 0 \in T
    <2>1. ASSUME NEW i \in 0..m, NEW j \in 0..n, i + j <= 0 PROVE i = 0 \/ j = 0
      BY <1>2, <2>1
    <2>2. Right(0)
      BY <1>3, <2>1
    <2> HIDE DEF Right
    <2> QED
      BY <2>2
  <1>5. ASSUME NEW k \in Nat, k \in T, NEW i \in 0..m, NEW j \in 0..n, i + j <= k + 1
        PROVE  Fewest(s, t, i, j, dp[<<i, j>>])
    <2>1. CASE i = 0 \/ j = 0
      BY <1>3, <2>1
    <2>2. CASE i # 0 /\ j # 0
      <3>1. /\ i - 1 \in 0..m /\ j - 1 \in 0..n /\ i \in Nat \ {0} /\ j \in Nat \ {0}
            /\ i - 1 + j <= k /\ i + (j - 1) <= k /\ i - 1 + (j - 1) <= k
        BY <1>2, <1>5, <2>2
      <3> DEFINE d1 == dp[<<i - 1, j>>]
                 d2 == dp[<<i, j - 1>>]
                 d3 == dp[<<i - 1, j - 1>>]
      <3>2. Right(k)
        <4> HIDE DEF Right
        <4> QED
          BY <1>5
      <3>3. Fewest(s, t, i - 1, j, d1) /\ Fewest(s, t, i, j - 1, d2) /\ Fewest(s, t, i - 1, j - 1, d3)
        BY <3>1, <3>2
      <3>4. dp[<<i, j>>] = Min({d1 + 1, d2 + 1, d3 + (IF s[i] = t[j] THEN 0 ELSE 1)})
        BY <1>1, <2>2 DEF Cell
      <3> HIDE DEF d1, d2, d3
      <3>5. Fewest(s, t, i, j, Min({d1 + 1, d2 + 1, d3 + (IF s[i] = t[j] THEN 0 ELSE 1)}))
        BY <3>1, <3>3, CellIsFewest
      <3> QED
        BY <3>4, <3>5, Zenon
    <2> QED
      BY <2>1, <2>2
  <1>6. ASSUME NEW k \in Nat, k \in T PROVE k + 1 \in T
    <2>1. Right(k + 1)
      <3> HIDE DEF T
      <3> QED
        BY <1>5, <1>6
    <2> HIDE DEF Right
    <2> QED
      BY <2>1
  <1>7. m + n \in T
    <2>1. \A k \in Nat : k \in T => k + 1 \in T
      BY <1>6
    <2>2. m + n \in Nat
      BY <1>2
    <2> HIDE DEF T
    <2> QED
      BY <1>4, <2>1, <2>2, SetInduction
  <1>8. Right(m + n)
    BY <1>7
  <1>9. ASSUME NEW i \in 0..m, NEW j \in 0..n PROVE Fewest(s, t, i, j, dp[<<i, j>>])
    <2>1. i + j <= m + n
      BY <1>2
    <2> QED
      BY <1>8, <2>1
  <1> QED
    BY <1>9 DEF m, n

LEMMA DistanceIsFewest ==
  ASSUME NEW S, NEW s \in Seq(S), NEW t \in Seq(S)
  PROVE  Fewest(s, t, Len(s), Len(t), levenshteinDistance(s, t))
  <1> DEFINE dp == CHOOSE dp : dp = [p \in (0..Len(s)) \X (0..Len(t)) |-> Cell(s, t, dp, p[1], p[2])]
  <1>1. Len(s) \in Nat /\ Len(t) \in Nat
    OBVIOUS
  <1>2. IsTable(s, t, dp)
    BY TableExists, SMTT(60) DEF IsTable, Cells
  <1>3. levenshteinDistance(s, t) = dp[<<Len(s), Len(t)>>]
    BY DEF levenshteinDistance
  <1> HIDE DEF dp
  <1>4. Fewest(s, t, Len(s), Len(t), dp[<<Len(s), Len(t)>>])
    BY <1>1, <1>2, TableIsFewest
  <1> QED
    BY <1>3, <1>4, Zenon

(* What the table ends with is the fewest edits from one text to the other,*)
(* whatever their lengths.                                                 *)
THEOREM EditsAlwaysLeast ==
  ASSUME NEW S, NEW texts, texts \subseteq Seq(S)
  PROVE  EditsAreLeast(texts)
  <1> SUFFICES ASSUME NEW s \in texts, NEW t \in texts PROVE levenshteinDistance(s, t) = Min(Edits(s, t))
    BY DEF EditsAreLeast
  <1> DEFINE m == Len(s)
             n == Len(t)
             d == levenshteinDistance(s, t)
             edits == Edits(s, t)
  <1>1. m \in Nat /\ n \in Nat
    OBVIOUS
  <1>2. Fewest(s, t, m, n, d)
    BY DistanceIsFewest
  <1>3. edits = {Cost(s, t, m, n, k) : k \in Pairings(m, n)}
    BY DEF Edits, Kept, Pairings, Cost
  <1> HIDE DEF m, n, d, edits
  <1>4. edits \subseteq Nat
    BY <1>1, <1>3, CostIsNat
  <1>5. d \in edits /\ \A e \in edits : d <= e
    BY <1>2, <1>3 DEF Fewest
  <1>6. Min(edits) = d
    BY <1>4, <1>5, MinIs
  <1> QED
    BY <1>6 DEF d, edits


-----------------------------------------------------------------------------
(* A text and the same text with something appended: the fewest edits      *)
(* insert what was appended.                                               *)

LEMMA PrefixFacts ==
  ASSUME NEW S, NEW x \in Seq(S), NEW y \in Seq(S)
  PROVE  /\ x \o y \in Seq(S) /\ Len(x) \in Nat /\ Len(y) \in Nat
         /\ Len(x \o y) = Len(x) + Len(y)
         /\ \A i \in 1..Len(x) : (x \o y)[i] = x[i]
  <1>1. x \o y \in Seq(S) /\ Len(x) \in Nat /\ Len(y) \in Nat
    OBVIOUS
  <1>2. Len(x \o y) = Len(x) + Len(y)
    OBVIOUS
  <1>3. \A i \in 1..Len(x) : (x \o y)[i] = x[i]
    OBVIOUS
  <1> QED
    BY <1>1, <1>2, <1>3

LEMMA RankInAll ==
  ASSUME NEW m \in Nat, NEW i \in 1..m
  PROVE  Cardinality((1..m) \cap (1..i)) = i
  <1>1. (1..m) \cap (1..i) = 1..i
    OBVIOUS
  <1>2. Cardinality(1..i) = i
    <2>1. Cardinality(1..i) = IF 1 > i THEN 0 ELSE i - 1 + 1
      BY FS_Interval
    <2> QED
      BY <2>1
  <1> QED
    BY <1>1, <1>2

LEMMA PrefixDistance ==
  ASSUME NEW S, NEW x \in Seq(S), NEW y \in Seq(S)
  PROVE  levenshteinDistance(x, x \o y) = Len(y)
  <1> DEFINE t == x \o y
             m == Len(x)
             n == Len(t)
             d == levenshteinDistance(x, t)
             all == 1..m
             k == <<all, all>>
  <1>1. t \in Seq(S) /\ m \in Nat /\ Len(y) \in Nat /\ n = m + Len(y)
    BY PrefixFacts
  <1>2. \A i \in all : t[i] = x[i]
    BY PrefixFacts
  <1> HIDE DEF t
  <1>3. Fewest(x, t, m, n, d)
    BY <1>1, DistanceIsFewest
  <1>4. Cardinality(all) = m
    <2>1. m \in Nat
      BY <1>1
    <2> HIDE DEF m, n, d, k
    <2>2. Cardinality(1..m) = IF 1 > m THEN 0 ELSE m - 1 + 1
      BY <2>1, FS_Interval
    <2> QED
      BY <2>1, <2>2
  <1>5. k \in Pairings(m, n)
    <2>1. all \subseteq 1..m /\ all \subseteq 1..n
      BY <1>1
    <2> HIDE DEF all
    <2> QED
      BY <2>1 DEF Pairings
  <1>6. Substituted(x, t, k) = {}
    <2> SUFFICES ASSUME NEW i \in all, NEW j \in all, x[i] # t[j],
                        Cardinality(all \cap (1..i)) = Cardinality(all \cap (1..j))
                 PROVE  FALSE
      BY DEF Substituted
    <2>1. i = j
      BY <1>1, RankInAll
    <2> QED
      BY <1>2, <2>1
  <1>7. Cost(x, t, m, n, k) = Len(y)
    <2>1. k[1] = all
      OBVIOUS
    <2>2. Cost(x, t, m, n, k) = m + n - 2 * Cardinality(k[1]) + Cardinality(Substituted(x, t, k))
      BY DEF Cost
    <2>3. Cardinality(Substituted(x, t, k)) = 0
      BY <1>6, FS_EmptySet
    <2> HIDE DEF k, all, m, n
    <2> QED
      BY <1>1, <1>4, <2>1, <2>2, <2>3
  <1> HIDE DEF k, all, m, n, d
  <1>8. d \in Nat /\ d <= Len(y)
    BY <1>3, <1>5, <1>7 DEF Fewest
  <1>9. Len(y) <= d
    <2>1. PICK c \in Pairings(m, n) : d = Cost(x, t, m, n, c)
      BY <1>3 DEF Fewest
    <2>2. n \in Nat
      BY <1>1
    <2> DEFINE a == c[1]
               b == c[2]
    <2>3. c = <<a, b>> /\ <<a, b>> \in Pairings(m, n)
      BY <1>1, <2>2, CostIsNat
    <2> HIDE DEF a, b
    <2>4. /\ Cardinality(a) \in Nat /\ Cardinality(a) <= m
          /\ Cardinality(Substituted(x, t, <<a, b>>)) \in Nat
      BY <1>1, <2>2, <2>3, PairingFacts
    <2>5. d = m + n - 2 * Cardinality(a) + Cardinality(Substituted(x, t, <<a, b>>))
      BY <2>1, <2>3 DEF Cost
    <2> QED
      BY <1>1, <2>4, <2>5, SMTT(60)
  <1>10. d = Len(y)
    BY <1>1, <1>8, <1>9
  <1> QED
    BY <1>10 DEF d, t

LEMMA LongerIs ==
  ASSUME NEW s, NEW t, Len(s) \in Nat, Len(t) \in Nat, Len(s) <= Len(t)
  PROVE  Longer(s, t) = Len(t)
  <1> DEFINE m == Len(s)
             n == Len(t)
             greatest == CHOOSE x \in {m, n} : \A y \in {m, n} : x >= y
  <1>1. m \in Nat /\ n \in Nat /\ m <= n
    OBVIOUS
  <1>2. Longer(s, t) = greatest
    BY DEF Longer, Max
  <1> HIDE DEF m, n
  <1>3. greatest \in {m, n} /\ \A y \in {m, n} : greatest >= y
    <2>1. \E x \in {m, n} : \A y \in {m, n} : x >= y
      BY <1>1
    <2> QED
      BY <2>1
  <1> HIDE DEF greatest
  <1>4. greatest = n
    BY <1>1, <1>3
  <1> QED
    BY <1>2, <1>4 DEF n

(* What is appended to an artist makes another artist of it only past two  *)
(* thirds of the name (for a generosity of 60); a title stays the same     *)
(* title from the floor on.  That is fuzzyMatch, for texts of any length.  *)
THEOREM DecorationsAlwaysMatch ==
  ASSUME NEW S, NEW texts, texts \subseteq Seq(S), NEW decorations, decorations \subseteq Seq(S)
  PROVE  DecorationsMatch(texts, decorations)
  <1> SUFFICES ASSUME NEW x \in texts \ {<<>>}, NEW y \in decorations
               PROVE  LET short == MatchGenerosity * Len(y) <= (100 - MatchGenerosity) * Len(x)
                      IN  /\ fuzzyMatch(x, x \o y, FALSE) <=> short
                          /\ fuzzyMatch(x, x \o y, TRUE) <=> short \/ Len(x) >= SubstringFloor
    BY DEF DecorationsMatch
  <1> DEFINE t == x \o y
             m == Len(x)
             l == Len(y)
             short == MatchGenerosity * l <= (100 - MatchGenerosity) * m
  <1>1. x \in Seq(S) /\ y \in Seq(S)
    OBVIOUS
  <1>2. t \in Seq(S) /\ m \in Nat /\ l \in Nat /\ Len(t) = m + l
    BY <1>1, PrefixFacts
  <1>3. m # 0
    BY <1>1, EmptySeq
  <1>4. levenshteinDistance(x, t) = l
    BY <1>1, PrefixDistance
  <1>5. \A i \in 1..m : t[i] = x[i]
    BY <1>1, PrefixFacts
  <1> HIDE DEF t
  <1>6. x # <<>> /\ t # <<>>
    <2>1. Len(t) # 0
      BY <1>2, <1>3
    <2> QED
      BY <2>1
  <1>7. Longer(x, t) = m + l
    BY <1>2, LongerIs
  <1>8. Similar(x, t) <=> short
    <2>1. Similar(x, t) <=> 100 * (Longer(x, t) - levenshteinDistance(x, t)) >= MatchGenerosity * Longer(x, t)
      BY <1>6 DEF Similar
    <2>2. Similar(x, t) <=> 100 * ((m + l) - l) >= MatchGenerosity * (m + l)
      BY <1>4, <1>7, <2>1
    <2>3. MatchGenerosity \in Nat
      BY ThresholdsAssumption
    <2>4. /\ MatchGenerosity * (m + l) = MatchGenerosity * m + MatchGenerosity * l
          /\ (100 - MatchGenerosity) * m = 100 * m - MatchGenerosity * m
          /\ MatchGenerosity * m \in Nat /\ MatchGenerosity * l \in Nat
      BY <1>2, <2>3
    <2>5. (m + l) - l = m
      BY <1>2
    <2> DEFINE gm == MatchGenerosity * m
               gl == MatchGenerosity * l
               rest == (100 - MatchGenerosity) * m
               both == MatchGenerosity * (m + l)
    <2>6. Similar(x, t) <=> 100 * m >= both
      BY <2>2, <2>5
    <2>7. both = gm + gl /\ rest = 100 * m - gm /\ gm \in Nat /\ gl \in Nat
      BY <2>4
    <2> HIDE DEF gm, gl, rest, both
    <2>8. 100 * m >= both <=> gl <= rest
      BY <1>2, <2>7
    <2> QED
      BY <2>6, <2>8 DEF gl, rest
  <1>9. substringMatch(x, t) <=> m >= SubstringFloor
    <2>1. Occurs(x, t)
      <3>1. SubSeq(t, 1, m) = x
        BY <1>1, <1>2, <1>5
      <3>2. 0 \in 0..Len(t) /\ Len(x) + 0 <= Len(t) /\ 0 + 1 = 1 /\ 0 + Len(x) = m
        BY <1>2
      <3> QED
        BY <3>1, <3>2 DEF Occurs
    <2>2. m >= SubstringFloor => Len(t) >= SubstringFloor
      BY <1>2, ThresholdsAssumption
    <2> QED
      BY <2>1, <2>2 DEF substringMatch
  <1> HIDE DEF short
  <1>10. /\ fuzzyMatch(x, t, FALSE) <=> short
         /\ fuzzyMatch(x, t, TRUE) <=> short \/ m >= SubstringFloor
    BY <1>8, <1>9 DEF fuzzyMatch
  <1> QED
    BY <1>10 DEF t, short

(* In every state: the verdicts of fuzzyMatch are about the fewest edits,  *)
(* and forgive decoration up to the limit only, for texts of any letters   *)
(* and length.                                                             *)
THEOREM Verdicts == Spec => []VerdictsAreRight
  <1>1. Texts \subseteq Seq(Letters)
    <2> SUFFICES ASSUME NEW n \in 0..MaxText, NEW text \in [1..n -> Letters] PROVE text \in Seq(Letters)
      BY DEF Texts
    <2>1. n \in Nat
      OBVIOUS
    <2> QED
      BY <2>1
  <1>2. EditsChecked /\ DecorationsChecked
    BY <1>1, EditsAlwaysLeast, DecorationsAlwaysMatch DEF EditsChecked, DecorationsChecked
  <1>3. VerdictsAreRight
    BY <1>2 DEF VerdictsAreRight
  <1> QED
    BY <1>3, PTL
=============================================================================
