------------------------------ MODULE Matching ------------------------------
(***************************************************************************)
(* src/metadata/matching.cpp: whether what a source calls a track is what  *)
(* the player calls it.  Texts are sequences of characters, in lower case  *)
(* already; percentages are compared without the division (the one ratio   *)
(* on the limit, three fifths, is exact in the code's arithmetic too).     *)
(***************************************************************************)
EXTENDS Naturals, Sequences, FiniteSetsExt

CONSTANTS
  MatchGenerosity,   \* kMatchGenerosity, in percent
  SubstringFloor     \* kSubstringFloor

ASSUME ThresholdsAssumption == MatchGenerosity \in 0..100 /\ SubstringFloor \in Nat

Longer(s, t) == Max({Len(s), Len(t)})

(* Faulty: the first row of the table stays zero.                          *)
BadCell(s, t, dp, i, j) ==
  IF i = 0 THEN 0 ELSE IF j = 0 THEN i
  ELSE Min({dp[<<i - 1, j>>] + 1, dp[<<i, j - 1>>] + 1,
            dp[<<i - 1, j - 1>>] + (IF s[i] = t[j] THEN 0 ELSE 1)})

(* A cell of the table: a deletion, an insertion or a substitution away    *)
(* from its neighbours.                                                    *)
Cell(s, t, dp, i, j) ==
  IF i = 0 THEN j ELSE IF j = 0 THEN i
  ELSE Min({dp[<<i - 1, j>>] + 1, dp[<<i, j - 1>>] + 1,
            dp[<<i - 1, j - 1>>] + (IF s[i] = t[j] THEN 0 ELSE 1)})

levenshteinDistance(s, t) ==
  LET dp[p \in (0..Len(s)) \X (0..Len(t))] == Cell(s, t, dp, p[1], p[2])
  IN  dp[<<Len(s), Len(t)>>]

(* similarityRatio(s, t) >= kMatchGenerosity                               *)
Similar(s, t) ==
  \/ s = <<>> /\ t = <<>>
  \/ /\ s # <<>> /\ t # <<>>
     /\ 100 * (Longer(s, t) - levenshteinDistance(s, t)) >= MatchGenerosity * Longer(s, t)

Occurs(s, t) == \E i \in 0..Len(t) : Len(s) + i <= Len(t) /\ SubSeq(t, i + 1, i + Len(s)) = s

substringMatch(s, t) ==
  /\ Len(s) >= SubstringFloor /\ Len(t) >= SubstringFloor
  /\ Occurs(s, t) \/ Occurs(t, s)

fuzzyMatch(a, b, allowSubstring) == Similar(a, b) \/ (allowSubstring /\ substringMatch(a, b))

-----------------------------------------------------------------------------
(* What an edit distance is, without the table: keep some characters of    *)
(* each text, in order and as many of one as of the other; the rest is     *)
(* deleted or inserted, and a kept pair that differs is substituted.       *)
Kept(s, t) ==
  {k \in (SUBSET (1..Len(s))) \X (SUBSET (1..Len(t))) : Cardinality(k[1]) = Cardinality(k[2])}

Substituted(s, t, k) ==
  {i \in k[1] : \E j \in k[2] : /\ s[i] # t[j]
                                /\ Cardinality(k[1] \cap (1..i)) = Cardinality(k[2] \cap (1..j))}

Edits(s, t) ==
  {Len(s) + Len(t) - 2 * Cardinality(k[1]) + Cardinality(Substituted(s, t, k)) : k \in Kept(s, t)}

(* The table computes the fewest edits, so the verdict is about those.     *)
EditsAreLeast(texts) ==
  \A s, t \in texts : levenshteinDistance(s, t) = Min(Edits(s, t))

(* A text and the same text with something appended: an artist is taken    *)
(* for another one if what follows the name is at most two thirds of it,   *)
(* a title also if it reaches the floor.                                   *)
DecorationsMatch(texts, decorations) ==
  \A x \in texts \ {<<>>}, y \in decorations :
    LET short == MatchGenerosity * Len(y) <= (100 - MatchGenerosity) * Len(x)
    IN  /\ fuzzyMatch(x, x \o y, FALSE) <=> short
        /\ fuzzyMatch(x, x \o y, TRUE) <=> short \/ Len(x) >= SubstringFloor
=============================================================================
