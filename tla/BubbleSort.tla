------------------------------ MODULE BubbleSort ------------------------------
(***************************************************************************)
(* bubble_sort() (include/base/algorithm.h), one comparison per step.      *)
(*                                                                         *)
(* The bound of the inner loop is size() - 1 in size_t, and neighbours are *)
(* compared with `<=`: equal ones are exchanged in every pass, so only the *)
(* outer loop ends the sort of a vector with equal elements.  The overload *)
(* for std::array has the same text with N for v.size().                   *)
(***************************************************************************)
EXTENDS Integers, Sequences, FiniteSets

CONSTANTS
  Elements,   \* the values that are sorted
  MaxLen,     \* bound: length of a vector
  SizeBits    \* the width of size_t

ASSUME BubbleSortAssumption ==
  /\ Elements \subseteq Int
  /\ MaxLen \in Nat /\ SizeBits \in Nat /\ MaxLen < 2^SizeBits

VARIABLES
  v,        \* the vector
  given,    \* history: the vector as it was passed
  i, j,     \* the loop variables
  swapped,  \* an exchange took place in this pass
  result,   \* the number of exchanges
  at        \* "idle", at the head of the "outer" or of the "inner" loop

sortVars == <<v, given, i, j, swapped, result, at>>

SortInit ==
  /\ v = <<>> /\ given = <<>>
  /\ i = 1 /\ j = 0 /\ swapped = FALSE /\ result = 0
  /\ at = "idle"

\* v.size() - 1
Last_Short == (Len(v) - 2) % 2^SizeBits
Last == (Len(v) - 1) % 2^SizeBits

SortCall(w) ==
  /\ at = "idle"
  /\ v' = w /\ given' = w
  /\ i' = 1 /\ result' = 0
  /\ at' = "outer"
  /\ UNCHANGED <<j, swapped>>

\* The head of the outer loop.
Pass ==
  /\ at = "outer"
  /\ \/ i < Len(v) /\ swapped' = FALSE /\ j' = 0 /\ at' = "inner"
     \/ i >= Len(v) /\ at' = "idle" /\ UNCHANGED <<swapped, j>>
  /\ UNCHANGED <<v, given, i, result>>

\* One round of the inner loop; v[j] is the element j + 1 of the sequence.
Compare ==
  /\ at = "inner" /\ j < Last
  /\ \/ /\ v[j + 2] <= v[j + 1]
        /\ v' = [v EXCEPT ![j + 1] = v[j + 2], ![j + 2] = v[j + 1]]
        /\ swapped' = TRUE
        /\ result' = result + 1
     \/ v[j + 2] > v[j + 1] /\ UNCHANGED <<v, swapped, result>>
  /\ j' = j + 1
  /\ UNCHANGED <<given, i, at>>

PassEnd ==
  /\ at = "inner" /\ j >= Last
  /\ \/ ~swapped /\ at' = "idle" /\ UNCHANGED i
     \/ swapped /\ i' = i + 1 /\ at' = "outer"
  /\ UNCHANGED <<v, given, j, swapped, result>>

SortStep == Pass \/ Compare \/ PassEnd

SortNext ==
  \/ \E n \in 0..MaxLen : \E w \in [1..n -> Elements] : SortCall(w)
  \/ SortStep

SortSpec == SortInit /\ [][SortNext]_sortVars

------------------------------------------------------------------------------
(* Properties. *)

SortTypeOK ==
  /\ v \in Seq(Elements) /\ given \in Seq(Elements)
  /\ i \in Nat /\ j \in Nat /\ result \in Nat
  /\ swapped \in BOOLEAN
  /\ at \in {"idle", "outer", "inner"}

Occurrences(s, e) == Cardinality({k \in DOMAIN s : s[k] = e})

Inversions(s) ==
  Cardinality({p \in (DOMAIN s) \X (DOMAIN s) : p[1] < p[2] /\ s[p[1]] > s[p[2]]})

Distinct(s) == \A k, l \in DOMAIN s : s[k] = s[l] => k = l

\* When bubble_sort() returns, the vector is in ascending order and has the
\* elements it was given, whatever its length and whatever elements are equal; and
\* the result, the number of exchanges, is the number of inversions if no two are,
\* and never less ("Simple ascending sort", algorithm.h:14).
SortReturns ==
  at = "idle" =>
    /\ \A k \in 1..(Len(v) - 1) : v[k] <= v[k + 1]
    /\ Len(v) = Len(given)
    /\ \A e \in Elements : Occurrences(v, e) = Occurrences(given, e)
    /\ result >= Inversions(given)
    /\ Distinct(given) => result = Inversions(given)

==============================================================================
