------------------------------- MODULE Strings --------------------------------
(***************************************************************************)
(* The string functions of include/base/string.h.  A string is a sequence  *)
(* of characters, indexed from 0 in the code and from 1 here.              *)
(***************************************************************************)
EXTENDS Integers, Sequences, FiniteSets
Seqs == INSTANCE SequencesExt

CONSTANTS
  Letters,     \* characters that separate nothing
  Sep,         \* the separator
  MaxLength    \* bound: characters of a string

ASSUME StringsAssumption == Sep \notin Letters /\ MaxLength \in Nat

VARIABLES
  str,        \* the argument of split()
  pos,        \* where the search goes on
  tokens,     \* the vector that split() builds
  splitting,  \* split() has not returned
  element,    \* the iterator of join(), from 1; 0: join() has not been called
  joined      \* the string that join() builds

stringVars == <<str, pos, tokens, splitting, element, joined>>

\* std::string::npos, the largest size_t: no position of a string.
npos == -1

\* str.find(sep, from)
find(from) ==
  LET hits == {k \in from..(Len(str) - 1) : str[k + 1] = Sep}
  IN  IF hits = {} THEN npos ELSE CHOOSE k \in hits : \A l \in hits : k <= l

\* str.substr(from, to - from), and str.substr(from) up to Len(str)
substr(from, to) == SubSeq(str, from + 1, to)

StringsInit ==
  /\ str = <<>> /\ pos = 0 /\ tokens = <<>> /\ splitting = FALSE
  /\ element = 0 /\ joined = <<>>

\* join() is at v.end(), and returns.
JoinReturns == element > Len(tokens)

SplitCall(s) ==
  /\ ~splitting /\ (element = 0 \/ JoinReturns)
  /\ str' = s /\ pos' = 0 /\ tokens' = <<>> /\ splitting' = TRUE
  /\ element' = 0 /\ joined' = <<>>

\* The loop: a separator was found.
Found_Always(stop) == TRUE
Found(stop) == stop # pos

SplitFind ==
  /\ splitting /\ find(pos) # npos
  /\ tokens' = IF Found(find(pos)) THEN Append(tokens, substr(pos, find(pos)))
               ELSE tokens
  /\ pos' = find(pos) + 1
  /\ UNCHANGED <<str, splitting, element, joined>>

\* Behind the loop: stop is npos, so `stop != pos` skips nothing.
SplitRest ==
  /\ splitting /\ find(pos) = npos
  /\ tokens' = IF npos # pos THEN Append(tokens, substr(pos, Len(str))) ELSE tokens
  /\ splitting' = FALSE
  /\ UNCHANGED <<str, pos, element, joined>>

\* The program joins what it has split.
JoinTokens ==
  /\ ~splitting /\ element = 0
  /\ element' = 1 /\ joined' = <<>>
  /\ UNCHANGED <<str, pos, tokens, splitting>>

\* R += *i
Extended_Assigned(w) == w
Extended(w) == joined \o w

\* The separator is appended when i is the last element, not between two.
AtSeparator(i) == i = Len(tokens)

JoinElement ==
  /\ element \in DOMAIN tokens
  /\ joined' = Extended(tokens[element]) \o IF AtSeparator(element) THEN <<Sep>> ELSE <<>>
  /\ element' = element + 1
  /\ UNCHANGED <<str, pos, tokens, splitting>>

StringsNext ==
  \/ \E n \in 0..MaxLength : \E s \in [1..n -> Letters \cup {Sep}] : SplitCall(s)
  \/ SplitFind
  \/ SplitRest
  \/ JoinTokens
  \/ JoinElement

StringsSpec == StringsInit /\ [][StringsNext]_stringVars

is_quoted(s, front, back) == s # <<>> /\ Head(s) = front /\ Seqs!Last(s) = back

\* str.substr(1, str.length() - 2): the length is a size_t, which a single quote
\* makes larger than any string.
unquote(s, front, back) ==
  IF is_quoted(s, front, back)
  THEN SubSeq(s, 2, IF Len(s) = 1 THEN 1 ELSE Len(s) - 1)
  ELSE s

------------------------------------------------------------------------------
(* Properties. *)

StringsTypeOK ==
  /\ str \in Seq(Letters \cup {Sep})
  /\ pos \in 0..Len(str)
  /\ tokens \in Seq(Seq(Letters))
  /\ splitting \in BOOLEAN
  /\ element \in 0..(Len(tokens) + 1)
  /\ joined \in Seq(Letters \cup {Sep})

\* Where the words of a string begin.
Starts(s) == {k \in DOMAIN s : s[k] # Sep /\ (k > 1 => s[k - 1] = Sep)}

\* When split() returns, its tokens are the words of the string in their order, each
\* one whole, and nothing else but empty tokens behind them.
SplitFindsTokens ==
  ~splitting =>
    /\ Len(tokens) >= Cardinality(Starts(str))
    /\ \A k \in DOMAIN tokens : k > Cardinality(Starts(str)) => tokens[k] = <<>>
    /\ \A b \in Starts(str) :
         LET word == tokens[Cardinality({k \in Starts(str) : k <= b})]
             e == b + Len(word)
         IN  /\ word # <<>> /\ e <= Len(str) + 1
             /\ SubSeq(str, b, e - 1) = word
             /\ Sep \notin Seqs!ToSet(word)
             /\ e <= Len(str) => str[e] = Sep

\* "Split std::string at separator, skip empty tokens" (string.h:31).
SplitSkipsEmpty == ~splitting => \A k \in DOMAIN tokens : tokens[k] # <<>>

\* The characters of s up to position p that separate nothing.
Kept(s, p) == {k \in DOMAIN s : k <= p /\ s[k] # Sep}

\* Whatever was split, join() gives its characters back in their order, between
\* whatever separators: the two lose and double none (string.h:18-46); and unquote()
\* takes off a pair of quotes and nothing else, also from a string that is one quote.
NoCharacterLost ==
  JoinReturns =>
    /\ Cardinality(Kept(joined, Len(joined))) = Cardinality(Kept(str, Len(str)))
    /\ \A k \in Kept(joined, Len(joined)), l \in Kept(str, Len(str)) :
         Cardinality(Kept(joined, k)) = Cardinality(Kept(str, l)) => joined[k] = str[l]
    /\ \A front, back \in Letters \cup {Sep} :
         LET inner == unquote(str, front, back)
         IN  \/ inner = str /\ ~is_quoted(str, front, back)
             \/ str = <<front>> \o inner \o <<back>>
             \/ inner = <<>> /\ str = <<front>> /\ front = back

\* "Join std::strings at ' '" (string.h:15): a separator is between two strings.
JoinSeparates ==
  JoinReturns =>
    joined = Seqs!FlattenSeq([k \in DOMAIN tokens |->
               IF k < Len(tokens) THEN Append(tokens[k], Sep) ELSE tokens[k]])

==============================================================================
