------------------------------ MODULE StateCodec ------------------------------
(***************************************************************************)
(* One map of the selectors in the URL of the results page: every selected *)
(* (or every other) name is written as a short subsequence of it that no   *)
(* other name has, and read back as the shortest name that has it.  A name *)
(* is a sequence of characters, none of which is a separator of the URL.   *)
(***************************************************************************)
EXTENDS Naturals, FiniteSets, SequencesExt

CONSTANTS
    Char,      \* characters of the names
    MaxLength, \* bound on the length of a name
    MaxNames,  \* bound on the number of names
    Rounds     \* attempts to shorten a name (1000 in the code)

ASSUME BoundsAssumption ==
    MaxLength \in Nat \ {0} /\ MaxNames \in Nat \ {0} /\ Rounds \in Nat

VARIABLES
    stage,   \* "selected", "shared", "opened"
    names,   \* the keys of the map, all different
    chosen,  \* the names selected when the URL was made
    url,     \* the encoded map: [sign, codes]
    restored \* the names selected on the page that opened it

vars == <<stage, names, chosen, url, restored>>

Name == UNION {[1..n -> Char] : n \in 1..MaxLength}
Empty == <<>>

\* One pass over str; j[i] characters of subseq are found in its first i.
isSubsequence(str, subseq) ==
    LET j[i \in 0..Len(str)] ==
            IF i = 0 THEN 0
            ELSE IF j[i - 1] < Len(subseq) /\ str[i] = subseq[j[i - 1] + 1]
                 THEN j[i - 1] + 1
                 ELSE j[i - 1]
    IN  j[Len(str)] = Len(subseq)

Having(code) == {s \in names : isSubsequence(s, code)}

\* Mutant: a character is cut if some name is left that matches.
CutFreely(target) ==
    LET j[i \in 0..Rounds] ==
            IF i = 0 THEN target
            ELSE IF Len(j[i - 1]) > 1 THEN Tail(j[i - 1]) ELSE j[i - 1]
    IN  j[Rounds]

\* Greedy: a character at a pseudo-random place is cut if that lets no other
\* name match, until every place has failed.  Nothing is left to cut from an
\* empty code.
findUniqueSubsequence(target) ==
    LET Shorter(s, i) == RemoveAt(s, (((i + 123) * 67601) % Len(s)) + 1)
        attempt[i \in 0..Rounds] ==
            IF i = 0 THEN [code |-> target, failures |-> 0]
            ELSE LET last == attempt[i - 1]
                 IN  IF last.code = Empty \/ last.failures = Len(last.code) THEN last
                     ELSE LET cut == Shorter(last.code, i - 1)
                          IN  IF Cardinality(Having(cut)) = Cardinality(Having(target))
                              THEN [code |-> cut, failures |-> 0]
                              ELSE [last EXCEPT !.failures = @ + 1]
    IN  attempt[Rounds].code

\* The names that reduce() may end with.
Shortest(code) == {s \in Having(code) : \A t \in Having(code) : Len(s) <= Len(t)}

\* Mutant: the other half is listed.
LargerHalf(selected) ==
    IF Cardinality(selected) * 2 <= Cardinality(names)
    THEN [sign |-> "+", codes |-> {findUniqueSubsequence(s) : s \in names \ selected}]
    ELSE [sign |-> "-", codes |-> {findUniqueSubsequence(s) : s \in names \ selected}]

\* The smaller half of the names is listed.
encode(selected) ==
    IF Cardinality(selected) * 2 <= Cardinality(names)
    THEN [sign |-> "+", codes |-> {findUniqueSubsequence(s) : s \in selected}]
    ELSE [sign |-> "-", codes |-> {findUniqueSubsequence(s) : s \in names \ selected}]

\* Empty codes cannot be told from no code and are skipped.
decode(u) ==
    LET filtered == {CHOOSE s \in Shortest(c) : TRUE : c \in u.codes \ {Empty}}
    IN  IF u.sign = "+" THEN filtered ELSE names \ filtered

Init ==
    /\ stage = "selected"
    /\ names \in {N \in SUBSET Name : IsFiniteSet(N) /\ Cardinality(N) \in 1..MaxNames}
    /\ chosen \in SUBSET names
    /\ url = [sign |-> "+", codes |-> {}]
    /\ restored = {}

\* updateHistory puts the encoded selection into the URL.
Share ==
    /\ stage = "selected"
    /\ stage' = "shared"
    /\ url' = encode(chosen)
    /\ UNCHANGED <<names, chosen, restored>>

\* A page that opens the URL decodes it.
Open ==
    /\ stage = "shared"
    /\ stage' = "opened"
    /\ restored' = decode(url)
    /\ UNCHANGED <<names, chosen, url>>

Next == Share \/ Open
Spec == Init /\ [][Next]_vars

-----------------------------------------------------------------------------
(* Properties                                                              *)

\* A name whose every character can be cut: all other names contain it.
Contained(s) == \A t \in names : isSubsequence(t, s)

\* However much was cut from it: a code that is not empty is read back as its
\* own name and no other; it is empty only if every name contains its name.
CodesAreRead ==
    \A s \in names :
        LET code == findUniqueSubsequence(s)
        IN  IF code = Empty THEN Contained(s) ELSE Shortest(code) = {s}

\* The page opened from the URL has the selection the URL was made from, but
\* for one name at most: one that every other name contains is skipped if it is
\* listed.
SelectionSurvives ==
    stage = "opened" =>
        \A s \in names :
            \/ (s \in restored) = (s \in chosen)
            \/ Contained(s) /\ (s \in chosen) = (url.sign = "+")
=============================================================================
