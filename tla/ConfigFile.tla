----------------------------- MODULE ConfigFile -----------------------------
(***************************************************************************)
(* MprpcConfig: what LoadConfigFile makes of the text of a file, and what  *)
(* Load returns.  A text is a sequence of characters, a configuration a    *)
(* function from keys to values, both of them texts.  A text has no NUL    *)
(* byte, which would end the std::string made of fgets' buffer.            *)
(***************************************************************************)
EXTENDS Integers, SequencesExt

CONSTANT LineMax   \* the most characters fgets reads at once (511 in the code)

ASSUME LineAssumption == LineMax \in Nat \ {0}

\* The first place of a character, or 0.
Find(s, c) == SelectInSeq(s, LAMBDA x : x = c)

\* Trim: without the spaces around it, but spaces alone stay.
Trim(s) ==
  LET kept == { i \in DOMAIN s : s[i] # " " } IN
  IF kept = {} THEN s ELSE SubSeq(s, Min(kept), Max(kept))

-----------------------------------------------------------------------------
\* A piece that fgets ends here.
Complete(piece) == Last(piece) = "\n" \/ Len(piece) = LineMax

\* The pieces of a text that goes on with c.
Read(ps, c) ==
  IF ps = <<>> \/ Complete(Last(ps)) THEN Append(ps, <<c>>)
  ELSE [ps EXCEPT ![Len(ps)] = Append(@, c)]

\* The texts fgets reads one after another.  At the end of the file the loop
\* may read once more, and finds nothing.
Pieces(text) == FoldLeft(LAMBDA ps, c : Read(ps, c), <<>>, text)

\* Neither blank, nor a comment, nor without a '='.
IsPair(piece) ==
  LET line == Trim(piece) IN
  line # <<>> /\ line[1] # "#" /\ Find(line, "=") # 0

Key(piece) ==
  LET line == Trim(piece) IN Trim(SubSeq(line, 1, Find(line, "=") - 1))

\* Up to the newline, or to the end of a piece that has none.
Value(piece) ==
  LET line == Trim(piece)
      end  == Find(line, "\n")
  IN Trim(SubSeq(line, Find(line, "=") + 1, IF end = 0 THEN Len(line) ELSE end - 1))

NoConfig == [k \in {} |-> <<>>]

\* Mutant: operator[], which overwrites.
Assigned(map, k, v) == [x \in DOMAIN map \union {k} |-> IF x = k THEN v ELSE map[x]]

\* insert leaves an existing key alone.
Inserted(map, k, v) ==
  [x \in DOMAIN map \union {k} |-> IF x \in DOMAIN map THEN map[x] ELSE v]

\* One turn of the loop.
Takes(map, piece) ==
  IF IsPair(piece) THEN Inserted(map, Key(piece), Value(piece)) ELSE map

LoadConfigFile(text) == FoldLeft(LAMBDA map, piece : Takes(map, piece), NoConfig, Pieces(text))

\* Load: the empty string for a key that is not there.
Load(map, k) == IF k \in DOMAIN map THEN map[k] ELSE <<>>

-----------------------------------------------------------------------------
(***************************************************************************)
(* What a configuration file means, line by line, to its author.           *)
(***************************************************************************)
LineStarts(text) == {1} \union { i + 1 : i \in { j \in DOMAIN text : text[j] = "\n" } }

LineAt(text, i) ==
  LET ends == { j \in i .. Len(text) : text[j] = "\n" } IN
  SubSeq(text, i, IF ends = {} THEN Len(text) ELSE Min(ends) - 1)

\* Without the spaces around it.
Bare(s) ==
  LET kept == { i \in DOMAIN s : s[i] # " " } IN
  IF kept = {} THEN <<>> ELSE SubSeq(s, Min(kept), Max(kept))

IsSetting(line) ==
  LET bare == Bare(line) IN "=" \in ToSet(bare) /\ bare[1] # "#"

\* The settings in a text, each with the place of its line.
Settings(text) == { i \in LineStarts(text) : IsSetting(LineAt(text, i)) }

KeyOf(line)   == Bare(SubSeq(line, 1, Find(line, "=") - 1))
ValueOf(line) == Bare(SubSeq(line, Find(line, "=") + 1, Len(line)))

\* The configuration is the text's settings, the first one of each key; a value
\* that is blank may be stored with its spaces.
Means(text, map) ==
  LET key(i) == KeyOf(LineAt(text, i)) IN
  /\ DOMAIN map = { key(i) : i \in Settings(text) }
  /\ \A k \in DOMAIN map :
       Bare(map[k]) =
         ValueOf(LineAt(text, Min({ i \in Settings(text) : key(i) = k })))

HasLongLine(text) == \E i \in LineStarts(text) : Len(LineAt(text, i)) > LineMax
=============================================================================
