---------------------------- MODULE DFConverter -----------------------------
(* The converter for default rules: the grammar of DFProcessor.h with its     *)
(* semantic actions on static lists, DFConverter::convert, and the output     *)
(* builder that prints answer sets.  A file is a sequence of tokens.  What    *)
(* the actions of an abandoned alternative pushed stays in the lists, also    *)
(* from one file to the next: `statics' is never initialized again.           *)
EXTENDS DefaultLogic

CONSTANTS Files,        \* files: sequences of items, each with its tokens and what they say
          Words,        \* pieces of names, and terms, that are written in them
          KBs,          \* knowledge bases of the ontology
          MaxFiles,     \* bound on the conversions
          MaxDefaults   \* bound on the defaults of a program that is solved

VARIABLES statics,      \* the static members of DFProcessor
          input, at,    \* the file and the place of the parser in it
          head,         \* the parser is still in the first star of program_
          phase,        \* idle, parse, converted
          converter,    \* cqmode, dftrans, ontology, individuals
          out,          \* the program or text that convert wrote
          shown,        \* what the output builder printed
          kb, read      \* what the ontology says; the files that were read

vars == <<statics, input, at, head, phase, converter, out, shown, kb, read>>

\* The characters of a file.
Tokens(file) == FlattenSeq([i \in DOMAIN file |-> file[i].tokens])

Predicates == [neg : BOOLEAN, name : Seq(Words), ns : Words, terms : Seq(Words)]

\* A literal has its predicate and an argument its atom, closed or not.
IsToken(tok) ==
    /\ tok.t = "lit" => tok.p \in Predicates /\ tok.ok \in BOOLEAN
    /\ tok.t = "arg" => tok.name \in Seq(Words) /\ tok.terms \in Seq(Words) /\ tok.ok \in BOOLEAN

ASSUME FilesAreTokens ==
    \A file \in Files :
        /\ file \in Seq(ToSet(file))
        /\ \A item \in ToSet(file) : item.tokens \in Seq(ToSet(item.tokens))
        /\ Tokens(file) \in Seq(ToSet(Tokens(file)))
        /\ \A tok \in ToSet(Tokens(file)) : IsToken(tok)

Nothing == [kind |-> "nothing"]

\* The settings that the host may make before it converts.
Converters == [cqmode : BOOLEAN, dftrans : 0..3, ontology : BOOLEAN, individuals : {<<>>}]

Init ==
    /\ statics = [lst_term |-> <<>>, lst_predicate |-> <<>>, lst_justification |-> <<>>,
                  prerequisite |-> <<>>, justifications |-> <<>>, conclusion |-> <<>>,
                  argument |-> <<>>, defaults |-> <<>>, others |-> <<>>, namespaces |-> <<>>]
    /\ input = <<>> /\ at = 1 /\ head = TRUE /\ phase = "idle"
    /\ converter \in Converters
    /\ out = Nothing /\ shown = {} /\ kb \in KBs /\ read = <<>>

(***************************************************************************)
(* Semantic actions                                                        *)
(***************************************************************************)
push_lst_term(s, terms) == [s EXCEPT !.lst_term = @ \o terms]

\* The literal takes all the terms that were pushed, its own or not.
push_lst_literal(s, p) ==
    [s EXCEPT !.lst_predicate = Append(@, [p EXCEPT !.terms = s.lst_term]), !.lst_term = <<>>]

\* Mutant: the conjunction is not taken out of the list.
PushJustificationKept(s) ==
    [s EXCEPT !.lst_justification = Append(@, s.lst_predicate)]

push_lst_justification(s) ==
    [s EXCEPT !.lst_justification = Append(@, s.lst_predicate), !.lst_predicate = <<>>]

set_prerequisite(s) == [s EXCEPT !.prerequisite = s.lst_predicate, !.lst_predicate = <<>>]

set_conclusion(s) == [s EXCEPT !.conclusion = s.lst_predicate, !.lst_predicate = <<>>]

set_justifications(s) ==
    [s EXCEPT !.justifications = s.lst_justification, !.lst_justification = <<>>]

set_argument(s, name) ==
    [s EXCEPT !.argument = <<Atom(name, s.lst_term)>>, !.lst_term = <<>>]

\* Mutant: numbers are given before they are counted.
PushDefaultFromZero(s) ==
    [s EXCEPT !.argument = <<>>,
              !.defaults = Append(@, Default(s.prerequisite, s.justifications, s.conclusion,
                                             s.argument, Len(@)))]

\* The argument is used up; the three parts stay.
push_default(s) ==
    [s EXCEPT !.argument = <<>>,
              !.defaults = Append(@, Default(s.prerequisite, s.justifications, s.conclusion,
                                             s.argument, Len(@) + 1))]

push_others(s, tokens) == [s EXCEPT !.others = @ \o tokens]

(***************************************************************************)
(* The grammar.  A rule maps a place r = [at, s] to the place behind what it *)
(* matched; at = 0 says that it did not match.  Places are restored, the     *)
(* statics are not.                                                          *)
(***************************************************************************)
Matches(r, t) == r.at \in DOMAIN input /\ input[r.at].t = t

Fails(r) == [r EXCEPT !.at = 0]

Tok(r, t) == IF Matches(r, t) THEN [r EXCEPT !.at = @ + 1] ELSE Fails(r)

\* First a; when it fails, the other alternative from where a began.
BackTo(r, a) == [r EXCEPT !.s = a.s]

\* A literal that breaks off behind some terms has pushed them.
lit_(r) ==
    IF ~Matches(r, "lit") THEN Fails(r)
    ELSE LET l == input[r.at]
             s == push_lst_term(r.s, l.p.terms)
         IN IF l.ok THEN [at |-> r.at + 1, s |-> push_lst_literal(s, l.p)]
            ELSE [at |-> 0, s |-> s]

\* Behind the first literal, the places of the file in their order: where the parser
\* is, it goes on with one more literal or has its last one.
MoreLiterals(r) ==
    LET upto[k \in 0 .. Len(input)] ==
            IF r.at \notin 1 .. k THEN r
            ELSE LET q == upto[k - 1]
                     n == lit_(Tok(q, "&"))
                 IN IF q.at # k THEN q ELSE IF n.at = 0 THEN BackTo(q, n) ELSE n
    IN upto[Len(input)]

conjunction_(r) == MoreLiterals(lit_(r))

On(r, action(_)) == IF r.at = 0 THEN r ELSE [r EXCEPT !.s = action(@)]

justification_(r) == On(conjunction_(r), push_lst_justification)

MoreJustifications(r) ==
    LET upto[k \in 0 .. Len(input)] ==
            IF r.at \notin 1 .. k THEN r
            ELSE LET q == upto[k - 1]
                     n == justification_(Tok(q, ","))
                 IN IF q.at # k THEN q ELSE IF n.at = 0 THEN BackTo(q, n) ELSE n
    IN upto[Len(input)]

justifications_(r) == On(MoreJustifications(justification_(r)), set_justifications)

prerequisite_(r) == On(conjunction_(r), set_prerequisite)

\* The conclusion, the bracket, and the argument if there is one.
argument_(r) ==
    IF ~Matches(r, "arg") THEN r
    ELSE LET a == input[r.at]
             s == push_lst_term(r.s, a.terms)
         IN IF a.ok THEN [at |-> r.at + 1, s |-> set_argument(s, a.name)] ELSE [r EXCEPT !.s = s]

conclusion_(r) == argument_(Tok(On(conjunction_(r), set_conclusion), "]"))

\* A default that has a prerequisite and justifications, or leaves them out.
Alternative(r, has_prerequisite, has_justifications) ==
    LET opened == Tok(r, "[")
        first == IF has_prerequisite THEN prerequisite_(opened) ELSE opened
        middle == Tok(first, ";")
        second == IF has_justifications THEN justifications_(middle) ELSE middle
        closed == Tok(second, "]/[")
    IN conclusion_(closed)

\* Both parts, no prerequisite, no justification, neither.
default_(r) ==
    LET tries[k \in 0 .. 4] ==
            IF k = 0 THEN Fails(r)
            ELSE LET q == tries[k - 1]
                 IN IF q.at # 0 THEN q ELSE Alternative(BackTo(r, q), k \in {1, 3}, k \in {1, 2})
    IN tries[4]

\* Any text up to the next full stop.
Dots(from) == {i \in from .. Len(input) : input[i].t = "."}

\* What a comment takes: its line or, as line ends are skipped, all that follows.
BehindComment == {at + 1, Len(input) + 1}

Here == [at |-> at, s |-> statics]

(***************************************************************************)
(* convert                                                                 *)
(***************************************************************************)
\* Without --dftrans the file is copied.
Copy(file) ==
    /\ phase = "idle" /\ Len(read) < MaxFiles /\ converter.dftrans = 0
    /\ out' = [kind |-> "text", tokens |-> Tokens(file)]
    /\ phase' = "converted" /\ read' = Append(read, file)
    /\ UNCHANGED <<statics, input, at, head, converter, shown, kb>>

Start(file) ==
    /\ phase = "idle" /\ Len(read) < MaxFiles /\ converter.dftrans # 0
    /\ input' = Tokens(file) /\ at' = 1 /\ head' = TRUE
    /\ phase' = "parse" /\ read' = Append(read, file)
    /\ UNCHANGED <<statics, converter, out, shown, kb>>

Parsing == phase = "parse" /\ at \in DOMAIN input

PushNamespace ==
    /\ Parsing /\ head /\ input[at].t = "ns"
    /\ statics' = [push_others(statics, <<input[at]>>) EXCEPT !.namespaces = Append(@, input[at])]
    /\ at' = at + 1
    /\ UNCHANGED <<input, head, phase, converter, out, shown, kb, read>>

LeadingComment ==
    /\ Parsing /\ head /\ input[at].t = "%"
    /\ at' \in BehindComment
    /\ UNCHANGED <<statics, input, head, phase, converter, out, shown, kb, read>>

InSecondStar == Parsing /\ (head => input[at].t \notin {"ns", "%"})

ReadDefault ==
    /\ InSecondStar
    /\ LET r == default_(Here)
       IN r.at # 0 /\ at' = r.at /\ statics' = push_default(r.s)
    /\ head' = FALSE
    /\ UNCHANGED <<input, phase, converter, out, shown, kb, read>>

\* What is not a default is passed on up to the next full stop.
ReadOthers ==
    /\ InSecondStar /\ Dots(at) # {}
    /\ LET r == default_(Here)
           dot == CHOOSE i \in Dots(at) : \A j \in Dots(at) : i <= j
       IN r.at = 0 /\ at' = dot + 1 /\ statics' = push_others(r.s, SubSeq(input, at, dot))
    /\ head' = FALSE
    /\ UNCHANGED <<input, phase, converter, out, shown, kb, read>>

ReadComment ==
    /\ InSecondStar /\ Dots(at) = {} /\ input[at].t = "%"
    /\ at' \in BehindComment
    /\ head' = FALSE
    /\ UNCHANGED <<statics, input, phase, converter, out, shown, kb, read>>

\* An exception leaves the lists as they are.
SyntaxError ==
    /\ InSecondStar /\ Dots(at) = {} /\ input[at].t # "%"
    /\ LET r == default_(Here) IN r.at = 0 /\ statics' = r.s
    /\ out' = [kind |-> "error"] /\ phase' = "idle"
    /\ UNCHANGED <<input, at, head, converter, shown, kb, read>>

Parsed == phase = "parse" /\ at > Len(input)

\* No default at all: what was read is written.
WriteInput ==
    /\ Parsed /\ statics.defaults = <<>>
    /\ out' = [kind |-> "text", tokens |-> input] /\ phase' = "converted"
    /\ UNCHANGED <<statics, input, at, head, converter, shown, kb, read>>

CannotRewrite ==
    \/ ~converter.ontology
    \/ ~converter.cqmode /\ \E d \in ToSet(statics.defaults) : NeedsCQ(d)

RewriteFails ==
    /\ Parsed /\ statics.defaults # <<>> /\ CannotRewrite
    /\ out' = [kind |-> "error"] /\ phase' = "idle"
    /\ UNCHANGED <<statics, input, at, head, converter, shown, kb, read>>

\* The individuals of every call are appended.
readIndividuals == converter.individuals \o SetToSeq(Individuals)

Rewrite ==
    /\ Parsed /\ statics.defaults # <<>> /\ ~CannotRewrite
    /\ converter' = [converter EXCEPT !.individuals = readIndividuals]
    /\ out' = [kind |-> "program", others |-> statics.others,
               rules |-> getDLRules(statics.defaults, converter.cqmode, converter.dftrans),
               dom |-> {Atom(<<"dom">>, <<i>>) : i \in ToSet(readIndividuals)}]
    /\ phase' = "converted"
    /\ UNCHANGED <<statics, input, at, head, shown, kb, read>>

(***************************************************************************)
(* The solver, and the output builder                                      *)
(***************************************************************************)
\* Variables of a rule that nothing in its body binds.
Unbound(r) == VarsOfRule(r) \ VarsOfAtoms(r.pos)

FactsOf(others) == UNION {IF tok.t = "text" THEN tok.facts ELSE {} : tok \in ToSet(others)}

\* The solver refuses what is no rule, empty queries and unsafe variables.
Accepts(program) ==
    /\ \A tok \in ToSet(program.others) : tok.t \in {"text", ".", "ns"}
    /\ \A r \in program.rules : Unbound(r) = {} /\ \A d \in r.dl : {} \notin d.ucq

AsRules(atoms) == {DLRule(a, {}, {}, {}) : a \in atoms}

Solve(program) ==
    AnswerSets(kb, program.rules \cup AsRules(program.dom \cup FactsOf(program.others)))

\* in_neg_ becomes a negated atom, in_ a positive one, the rest is dropped.
buildResult(atoms) ==
    LET guessed == {a \in atoms : IsPrefix(<<"in_">>, a.name)}
        negated == {a \in guessed : IsPrefix(<<"in_", "neg_">>, a.name)}
        without(n, a) == SubSeq(a.name, n + 1, Len(a.name))
    IN {[neg |-> TRUE, name |-> without(2, a), terms |-> a.terms] : a \in negated}
       \cup {[neg |-> FALSE, name |-> without(1, a), terms |-> a.terms] : a \in guessed \ negated}

BuildResult ==
    /\ phase = "converted"
    /\ IF out.kind = "program" /\ Accepts(out) /\ Len(statics.defaults) <= MaxDefaults
       THEN shown' = {buildResult(atoms) : atoms \in Solve(out)}
       ELSE shown' = {}
    /\ phase' = "shown"
    /\ UNCHANGED <<statics, input, at, head, converter, out, kb, read>>

\* The host goes on with the next file.
NextFile ==
    /\ phase = "shown" /\ phase' = "idle" /\ shown' = {} /\ out' = Nothing
    /\ UNCHANGED <<statics, input, at, head, converter, kb, read>>

Rests == phase = "idle" /\ Len(read) = MaxFiles /\ UNCHANGED vars

Next ==
    \/ \E file \in Files : Copy(file) \/ Start(file)
    \/ PushNamespace \/ LeadingComment
    \/ ReadDefault \/ ReadOthers \/ ReadComment \/ SyntaxError
    \/ WriteInput \/ RewriteFails \/ Rewrite \/ BuildResult
    \/ NextFile \/ Rests

Spec == Init /\ [][Next]_vars

(***************************************************************************)
(* Properties                                                              *)
(***************************************************************************)
Conjunctions == Seq(Predicates)
Justifications == Seq(Conjunctions \ {<<>>})

IsDefault(d) ==
    /\ DOMAIN d = {"prerequisite", "justifications", "conclusion", "argument", "id"}
    /\ d.prerequisite \in Conjunctions /\ d.justifications \in Justifications
    /\ d.conclusion \in Conjunctions /\ d.id \in Nat \ {0}
    /\ d.argument \in Seq([name : Seq(Words), terms : Seq(Words)]) /\ Len(d.argument) <= 1

\* The lists hold predicates, no justification is empty, the place is in the file or
\* just behind it, and a program is there when the phase says so.
TypeOK ==
    /\ statics.lst_predicate \in Conjunctions /\ statics.lst_justification \in Justifications
    /\ \A i \in DOMAIN statics.defaults : IsDefault(statics.defaults[i])
    /\ at \in 1 .. Len(input) + 1
    /\ phase \in {"idle", "parse", "converted", "shown"}
    /\ phase = "converted" => out.kind \in {"program", "text"}
    /\ converter.dftrans = 0 => input = <<>>

ItemsRead == FlattenSeq(read)

Inherits(earlier, w) ==
    LET part(p) == IF w[p] = <<>> /\ earlier # <<>> THEN Last(earlier)[p] ELSE w[p]
    IN [prerequisite |-> part("prerequisite"), justifications |-> part("justifications"),
        conclusion |-> w.conclusion, argument |-> w.argument]

Expected(items) ==
    FoldLeft(LAMBDA acc, it : IF it.kind # "default" THEN acc
                              ELSE Append(acc, Inherits(acc, it.written)), <<>>, items)

Parts(d) == [prerequisite |-> d.prerequisite, justifications |-> d.justifications,
             conclusion |-> d.conclusion, argument |-> d.argument]

\* How a default is written: its conjunctions, with signs between them.
Sign(t) == [t |-> t]

Between(sep, pieces) ==
    FlattenSeq([i \in DOMAIN pieces |->
                  IF i = 1 THEN pieces[i] ELSE <<Sign(sep)>> \o pieces[i]])

LiteralToken(l) == [t |-> "lit", p |-> l, ok |-> TRUE]
ArgumentToken(a) == [t |-> "arg", name |-> a.name, terms |-> a.terms, ok |-> TRUE]

TextOfConjunction(c) == Between("&", [i \in DOMAIN c |-> <<LiteralToken(c[i])>>])

TextOf(w) ==
    <<Sign("[")>> \o TextOfConjunction(w.prerequisite)
    \o <<Sign(";")>>
    \o Between(",", [i \in DOMAIN w.justifications |-> TextOfConjunction(w.justifications[i])])
    \o <<Sign("]/[")>> \o TextOfConjunction(w.conclusion) \o <<Sign("]")>>
    \o [i \in DOMAIN w.argument |-> ArgumentToken(w.argument[i])]

\* What can be written: there is a conclusion, and no conjunction between commas is empty.
IsWritten(w) ==
    /\ w.prerequisite \in Conjunctions /\ w.justifications \in Justifications
    /\ w.conclusion \in Conjunctions \ {<<>>}
    /\ w.argument \in Seq([name : Seq(Words), terms : Seq(Words)]) /\ Len(w.argument) <= 1

\* A full rule is some text with a full stop behind it.
IsText(tokens) ==
    /\ tokens # <<>> /\ Last(tokens).t = "."
    /\ \A i \in 1 .. Len(tokens) - 1 : tokens[i].t = "text"

ASSUME FilesAreWritten ==
    \A file \in Files : \A item \in ToSet(file) :
        /\ item.kind = "default" => IsWritten(item.written) /\ item.tokens = TextOf(item.written)
        /\ item.kind = "text" => IsText(item.tokens)

\* Of files made of defaults and full rules the parser has exactly the defaults that are
\* written, in order and from all files, with one deviation: a prerequisite or a
\* justification that is left out is that of the default before, because the statics
\* keep it (DFProcessor.cpp, push_default).
OmittedPartsAreInherited ==
    converter.dftrans # 0
        /\ (\A i \in DOMAIN ItemsRead : ItemsRead[i].kind \in {"default", "text"}) =>
    LET has == [i \in DOMAIN statics.defaults |-> Parts(statics.defaults[i])]
    IN /\ IsPrefix(has, Expected(ItemsRead))
       /\ phase # "parse" => has = Expected(ItemsRead)

\* Every rule with a body is safe: dom or the argument binds all variables of its head
\* and of what is negated, dl-atoms included.  Only facts of defaults without
\* prerequisite and justification may have variables.
RulesAreSafe ==
    out.kind = "program" =>
        \A r \in out.rules : r.pos \cup r.neg \cup r.dl # {} => Unbound(r) = {}

\* The literals that behalf_name cannot tell apart: the name drops the namespace, and a
\* sign reads like a name that begins with neg_.
SpelledAlike(l, m) ==
    \/ l.neg = m.neg /\ l.name = m.name
    \/ l.neg /\ ~m.neg /\ m.name = <<"neg_">> \o l.name
    \/ m.neg /\ ~l.neg /\ l.name = <<"neg_">> \o m.name

\* The conjunctions of a default that get a name: the conclusion at place 0 and the
\* justifications, with their prefixes in the rules.
NamedPlaces(d) == 0 .. Len(d.justifications)

ConjunctionAt(d, k) == IF k = 0 THEN d.conclusion ELSE d.justifications[k]

NameAt(d, k) == behalf_name(ConjunctionAt(d, k), IF k = 0 THEN "in_" ELSE "cons_", d.id, k)

\* A name that the rules guess stands for one conjunction, also among defaults that were
\* read from different files: two places share it only if both are conclusions or both
\* justifications and hold one literal each that is spelled alike.  The collision of -f
\* and neg_f is in the code (Predicate.cpp:113-122), and no conjunction of several
\* literals meets any other, whatever the numbers.
AuxiliaryNamesApart ==
    out.kind = "program" =>
        \A i, j \in DOMAIN statics.defaults :
            LET d == statics.defaults[i]
                e == statics.defaults[j]
            IN \A k \in NamedPlaces(d), l \in NamedPlaces(e) :
                   NameAt(d, k) = NameAt(e, l) =>
                       \/ i = j /\ k = l
                       \/ /\ (k = 0) <=> (l = 0)
                          /\ Len(ConjunctionAt(d, k)) = 1 /\ Len(ConjunctionAt(e, l)) = 1
                          /\ SpelledAlike(ConjunctionAt(d, k)[1], ConjunctionAt(e, l)[1])

\* Where the rewriting does what the defaults mean: facts are positive, conclusions
\* have no namespace, justifications are single literals, Pi splits no conjunctive
\* conclusion, and no name that gets a prefix begins with neg_.
Rewritable(d) ==
    /\ isFact(d) => \A p \in ToSet(d.conclusion) : ~p.neg
    /\ \A k \in NamedPlaces(d) : \A p \in ToSet(ConjunctionAt(d, k)) : ~IsPrefix(<<"neg_">>, p.name)
    /\ \A p \in ToSet(d.conclusion) : p.ns = NoNS
    /\ \A j \in ToSet(d.justifications) : Len(j) = 1
    /\ converter.dftrans = 1 /\ ~converter.cqmode => Len(d.conclusion) = 1

Solved ==
    /\ phase = "shown" /\ out.kind = "program"
    /\ Accepts(out) /\ Len(statics.defaults) <= MaxDefaults

\* Of the three rewritings each has the extensions of the default theory for answer sets:
\* what the output builder prints of an answer set, added to the ontology, entails one
\* extension, and each extension is printed.
AnswerSetsAreExtensions ==
    Solved /\ (\A d \in ToSet(statics.defaults) : Rewritable(d)) =>
        {Theory(kb, literals) : literals \in shown}
            = Extensions(kb, ToSet(statics.defaults), FactsOf(statics.others))

=============================================================================
