------------------------- MODULE NodeAssuranceScorer -------------------------
(***************************************************************************)
(* The NodeAssuranceScorer score plugin                                    *)
(* (plugins/nodeassurancescorer/nodeassurancescorer.go): a node's score  *)
(* is the integer in its "assurance" annotation, negated in mode Least,   *)
(* and NormalizeScore rescales the scores of the feasible nodes to        *)
(* [MinNodeScore, MaxNodeScore].                                          *)
(*                                                                         *)
(* The arithmetic is Go's int64, modelled at width IntWidth: every result *)
(* wraps modulo 2^IntWidth and division truncates toward zero.  TLC's     *)
(* integers are 32 bits, so IntWidth is a scaled-down int64; the overflow *)
(* of (score - lowest) * 100 happens at the same range relative to the   *)
(* width.                                                                 *)
(*                                                                         *)
(* An annotation is a record: present (the node has an "assurance"        *)
(* annotation), numeric (its text is a decimal integer) and value.        *)
(***************************************************************************)
EXTENDS Integers, FiniteSetsExt

CONSTANT IntWidth

ASSUME IntWidth \in Nat /\ IntWidth >= 8

MinNodeScore == 0
MaxNodeScore == 100

MaxInt == 2^(IntWidth - 1) - 1
MinInt == -(2^(IntWidth - 1))

(* int64 wrap-around of a mathematical integer.                           *)
Wrap(x) == ((x - MinInt) % 2^IntWidth) + MinInt

(* Go's integer division, truncating toward zero.                         *)
Quot(a, b) == LET q == (IF a < 0 THEN -a ELSE a) \div (IF b < 0 THEN -b ELSE b)
              IN  IF (a < 0) = (b < 0) THEN q ELSE -q

(* NewAssuranceScorer rejects every mode but these two (default Least).  *)
Modes == {"Least", "Most"}

(* getAssurance: strconv.Atoi of the annotation (of "" when absent), an   *)
(* error for text that is not an integer or is out of int range; a       *)
(* negative value counts as 0.                                            *)
GetAssurance(a) ==
  IF ~a.present \/ ~a.numeric \/ a.value \notin MinInt .. MaxInt
  THEN [value |-> 0, ok |-> FALSE]
  ELSE [value |-> IF a.value >= 0 THEN a.value ELSE 0, ok |-> TRUE]

(* score: the negated assurance in mode Least, the assurance in Most.     *)
Score(a, mode) ==
  LET v == GetAssurance(a).value
  IN  CASE mode = "Least" -> Wrap(-1 * v)
        [] mode = "Most"  -> v
        [] OTHER          -> 0

(* NormalizeScore over the feasible nodes F with raw scores sc.           *)
NormalizeScore(F, sc) ==
  LET highest == Max({sc[n] : n \in F})
      lowest == Min({sc[n] : n \in F})
      oldRange == Wrap(highest - lowest)
      newRange == MaxNodeScore - MinNodeScore
  IN  [n \in F |->
         IF oldRange = 0 THEN MinNodeScore
         ELSE Wrap(Quot(Wrap(Wrap(sc[n] - lowest) * newRange), oldRange)
                   + MinNodeScore)]
=============================================================================
