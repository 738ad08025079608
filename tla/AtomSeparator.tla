--------------------------- MODULE AtomSeparator ---------------------------
(***************************************************************************)
(* The text of a conjunctive query, and of a union of them, taken apart    *)
(* into atoms (AtomSeparator.cpp): the tokenizer with its three states,    *)
(* and the atoms that are made of its tokens.                              *)
(***************************************************************************)
EXTENDS Names

\* The tokens read, the one being read, the state of the parentheses.
Start == [state |-> "INITIAL", tok |-> <<>>, toks |-> <<>>, bad |-> FALSE]

Keep(a, c) == [a EXCEPT !.tok = Append(@, c)]
Unexpected(a) == [a EXCEPT !.bad = TRUE]

Separate(a, c) ==
  IF a.bad THEN a ELSE
  CASE c = "(" -> IF a.state = "INITIAL" THEN [Keep(a, c) EXCEPT !.state = "PARENOPEN"]
                  ELSE Unexpected(a)
    [] c = ")" -> IF a.state = "PARENOPEN" THEN [Keep(a, c) EXCEPT !.state = "PARENCLOSE"]
                  ELSE Unexpected(a)
    [] c = "," -> CASE a.state = "PARENOPEN" -> Keep(a, c)
                    [] a.state = "PARENCLOSE" -> [Start EXCEPT !.toks = Append(a.toks, a.tok)]
                    [] OTHER -> Unexpected(a)
    [] c = " " -> Keep(a, c)
    [] OTHER -> IF a.state = "PARENCLOSE" THEN Unexpected(a) ELSE Keep(a, c)

\* A text that ends at a comma throws; an atom that is not closed at the end is dropped.
TextEnds(a) ==
  LET trailingComma == a.state = "INITIAL" /\ a.tok = <<>> /\ a.toks # <<>>
  IN  [ok |-> ~a.bad /\ ~trailingComma,
       toks |-> IF a.state = "PARENCLOSE" THEN Append(a.toks, a.tok) ELSE a.toks]

Tokenize(text) == TextEnds(FoldLeft(Separate, Start, text))

Place(tok, c) == SelectInSeq(tok, LAMBDA x : x = c)
Trim(s) == FlattenSeq([k \in DOMAIN s |-> IF s[k] = " " THEN <<>> ELSE <<s[k]>>])
Between(s, i, j) == Trim(SubSeq(s, i + 1, j - 1))

\* The sign of the predicate is removed and not kept.  The first comma divides the
\* arguments, so that there are at most two.
AtomOf(tok) ==
  LET open == Place(tok, "(")
      comma == Place(tok, ",")
      close == Place(tok, ")")
  IN  [pred |-> Unsigned(Between(tok, 0, open)),
       args |-> IF comma # 0
                THEN <<Between(tok, open, comma), Between(tok, comma, close)>>
                ELSE <<Between(tok, open, close)>>]

AtomsOf(t) == [ok |-> t.ok, atoms |-> {AtomOf(tok) : tok \in ToSet(t.toks)}]

AtomSeparatorParse(text) == AtomsOf(Tokenize(text))

isUnion(text) == " v " \in ToSet(text)

\* Each part of a union is separated on its own.
Cut(parts, c) ==
  IF c = " v " THEN Append(parts, <<>>) ELSE [parts EXCEPT ![Len(parts)] = Append(@, c)]

AtomsOfParts(parts) ==
  [ok |-> \A i \in DOMAIN parts : parts[i].ok, atoms |-> [i \in DOMAIN parts |-> parts[i].atoms]]

Separated(parts) == [i \in DOMAIN parts |-> AtomSeparatorParse(parts[i])]

UnionAtomSeparatorParse(text) == AtomsOfParts(Separated(FoldLeft(Cut, <<<<>>>>, text)))

=============================================================================
