------------------------------ MODULE Keywords ------------------------------
(***************************************************************************)
(* Trie.FindKeywords, Trie.Filter and Replacer.Replace of core/stringx on  *)
(* short texts over a small alphabet, one character at a time.             *)
(***************************************************************************)
EXTENDS Naturals, Sequences, FiniteSets, TLC

CONSTANTS
    Words,          \* the sets of words a trie is made of
    Mappings,       \* the mappings of a replacer
    Alphabet,
    MaxText,        \* length of the texts
    MaxGrown        \* bound on the length of a text while it is replaced

VARIABLE kw

\* The trie (node.go): a node is the prefix it stands for, and the root is <<>>.
\* node.add, for each word: the nodes are the prefixes, and a word ends where it ends.
Nodes(words) == {<<>>} \cup UNION {{SubSeq(w, 1, i) : i \in 1..Len(w)} : w \in words}

\* Mutant of FailFrom: only the first link is followed.
FailFromOnce(nodes, fail, cur, c) ==
    IF cur # <<>> /\ Append(fail[cur], c) \in nodes THEN Append(fail[cur], c) ELSE <<>>

\* node.build looks for the child c of the link of cur, of the link of that, and so on.
FailFrom(nodes, fail, cur, c) ==
    LET from[n \in nodes] == IF n = <<>> THEN <<>>
                             ELSE IF Append(fail[n], c) \in nodes THEN Append(fail[n], c)
                             ELSE from[fail[n]]
    IN  from[cur]

\* node.build: the links, those of shorter prefixes first.
Build(words) ==
    LET nodes == Nodes(words)
        fail[n \in nodes] ==
            IF Len(n) <= 1 THEN <<>>
            ELSE FailFrom(nodes, fail, SubSeq(n, 1, Len(n) - 1), n[Len(n)])
    IN  [words |-> words, nodes |-> nodes, fail |-> fail]

Child(trie, n, c) == Append(n, c) \in trie.nodes
End(trie, n) == n # <<>> /\ n \in trie.words

\* One character of node.find: the next node, which is the root where no link has the child.
FindNext(trie, cur, c) ==
    LET next[n \in trie.nodes] == IF Child(trie, n, c) THEN Append(n, c)
                                  ELSE IF n = <<>> THEN <<>>
                                  ELSE next[trie.fail[n]]
    IN  next[cur]

\* The scopes that end after i characters: the node and the links from it that are ends.
Ends(trie, node, i) ==
    LET ends[n \in trie.nodes] ==
            IF n = <<>> THEN {}
            ELSE (IF End(trie, n) THEN {[start |-> i - Len(n), stop |-> i]} ELSE {})
                 \cup ends[trie.fail[n]]
    IN  ends[node]
-----------------------------------------------------------------------------

\* text is the text read so far by find, or to replace; cur the node; scopes what find has found.
\* For Replace: chars, start, i and the builder out.
Init ==
    kw = [pc |-> "new", trie |-> Build({}), map |-> <<>>, text |-> <<>>, cur |-> <<>>, scopes |-> {},
          chars |-> <<>>, start |-> 0, i |-> 0, out |-> <<>>]

NewTrie(words) == kw' = [kw EXCEPT !.pc = "find", !.trie = Build(words)]

\* find reads a character.
Find(c) ==
    /\ kw.pc = "find" /\ Len(kw.text) < MaxText
    /\ LET n == FindNext(kw.trie, kw.cur, c)
           i == Len(kw.text) + 1
       IN  kw' = [kw EXCEPT !.text = Append(@, c), !.cur = n, !.scopes = @ \cup Ends(kw.trie, n, i)]

\* NewReplacer, and Replace of a text.
NewReplacer(map, text) ==
    kw' = [kw EXCEPT !.pc = "outer", !.trie = Build(DOMAIN map), !.map = map, !.text = text,
                     !.chars = text]

\* s[n:]
From(s, n) == SubSeq(s, n + 1, Len(s))
Size == Len(kw.chars)

\* The head of the outer loop.
Outer ==
    /\ kw.pc = "outer"
    /\ kw' = IF kw.start < Size
             THEN [kw EXCEPT !.pc = "inner", !.cur = <<>>, !.i = kw.start,
                             !.out = @ \o SubSeq(kw.chars, 1, kw.start)]
             ELSE [kw EXCEPT !.pc = "done", !.out = kw.chars]

\* The end of the inner loop, without a match.
InnerEnds ==
    /\ kw.pc = "inner" /\ kw.i = Size
    /\ kw' = [kw EXCEPT !.pc = "done", !.out = @ \o From(kw.chars, kw.start)]

\* What the end of a word does: the substitute, and the rest of the text, which is then read again
\* from start unless nothing is left.
Matched(k, n) ==
    IF ~End(k.trie, n) THEN [k EXCEPT !.cur = n, !.i = @ + 1]
    ELSE LET out == k.out \o k.map[n] \o From(k.chars, k.i + 1)
         IN  IF k.start >= k.i + 1 - Len(n) /\ k.i + 1 >= Size
             THEN [k EXCEPT !.pc = "done", !.out = out]
             ELSE [k EXCEPT !.pc = "outer", !.chars = out, !.out = <<>>]

\* Mutant of Inner: start stays where it is, and the text is read again.
InnerStuck ==
    /\ kw.pc = "inner" /\ kw.i < Size
    /\ kw' = [kw EXCEPT !.pc = "outer", !.out = <<>>]

\* One character of the inner loop: a child, or the root has none, or one link is followed.
Inner ==
    /\ kw.pc = "inner" /\ kw.i < Size /\ Len(kw.chars) <= MaxGrown
    /\ LET c == kw.chars[kw.i + 1]
           f == kw.trie.fail[kw.cur]
           jump == Len(kw.cur) - Len(f)
       IN  kw' =
            CASE Child(kw.trie, kw.cur, c) -> Matched(kw, Append(kw.cur, c))
              [] ~Child(kw.trie, kw.cur, c) /\ kw.cur = <<>> ->
                    [kw EXCEPT !.out = Append(@, c), !.start = kw.i + 1, !.i = @ + 1]
              [] ~Child(kw.trie, kw.cur, c) /\ kw.cur # <<>> /\ ~Child(kw.trie, f, c) ->
                    [kw EXCEPT !.out = @ \o SubSeq(kw.chars, kw.i - Len(kw.cur) + 1, kw.i + 1),
                               !.cur = <<>>, !.start = kw.i + 1, !.i = @ + 1]
              [] OTHER ->
                    Matched([kw EXCEPT !.out = @ \o SubSeq(kw.chars, kw.start + 1, kw.start + jump),
                                       !.start = @ + jump],
                            Append(f, c))

Texts == UNION {[1..n -> Alphabet] : n \in 1..MaxText}

Step == Outer \/ Inner \/ InnerEnds

Next ==
    \/ /\ kw.pc = "new"
       /\ \/ \E words \in Words : NewTrie(words)
          \/ \E map \in Mappings, text \in Texts : NewReplacer(map, text)
    \/ \E c \in Alphabet : Find(c)
    \/ Outer \/ Inner \/ InnerEnds

Spec == Init /\ [][Next]_kw

FairSpec == Spec /\ WF_kw(Step)

TypeOK ==
    /\ kw.cur \in kw.trie.nodes /\ kw.start <= Len(kw.chars) /\ kw.i <= Len(kw.chars)
    /\ kw.pc \in {"new", "find", "outer", "inner", "done"}
-----------------------------------------------------------------------------
\* What find is for: the places of all words in a text.
Places(words, text) ==
    {p \in [start : 0..Len(text), stop : 0..Len(text)] :
        p.start < p.stop /\ SubSeq(text, p.start + 1, p.stop) \in words}

\* find finds every word at every place, also words inside and across other words: what Filter
\* masks and FindKeywords returns.
FindsAllWords == kw.pc = "find" => kw.scopes = Places(kw.trie.words, kw.text)

\* A substitute has none of the characters of the words.
Plain(map) ==
    \A w, v \in DOMAIN map : \A i \in DOMAIN w, j \in DOMAIN map[v] : w[i] # map[v][j]

\* Replace returns, when no substitute can be part of a word: after a match the text is read again
\* from the same place.
OnlyWordsInSubstitutesLoop ==
    kw.pc \in {"outer", "inner"} /\ Plain(kw.map) ~> kw.pc = "done"

\* A text without words comes out as it is, whatever nodes and links it led through.
UnmatchedTextIsKept ==
    kw.pc = "done" /\ Places(kw.trie.words, kw.text) = {} => kw.out = kw.text

\* Find and Replace match what is there: all words of the trie, and nothing in a text without words.
MatchesAreExact == FindsAllWords /\ UnmatchedTextIsKept
=============================================================================
