-------------------------------- MODULE Conf --------------------------------
(***************************************************************************)
(* The configuration of redleaf: read_syn_tree() of src/conf.c and the     *)
(* functions it calls, which turn a file into a tree of sections, and what *)
(* the other files look up in that tree.                                   *)
(*                                                                         *)
(* A text is a sequence of characters; "General" and "Modula", which are   *)
(* compared as prefixes, are the names that begin with "G" and with "M".   *)
(* Where the code reads beyond its buffer or runs through NULL the model   *)
(* ends with pc = "fault".  Two writes out of bounds are passed over, as   *)
(* what they hit is not in the model: the end mark that every section puts *)
(* behind itself, one element beyond the array after the last (conf.c:371),*)
(* and the NUL after a brace that ends a text without blanks (conf.c:363). *)
(***************************************************************************)
EXTENDS Integers, Sequences, SequencesExt, FiniteSetsExt

CONSTANT Files   \* what may stand in the file, see Formed

VARIABLES
    pc,        \* where the start of the server is
    file,      \* the file, and the sections it was written from
    buf,       \* its text without comments and blanks
    f,         \* fbuf, where the next section is read from
    ss,        \* sections still to be read
    sections,  \* cnf_section
    tree       \* local_tree

confVars == <<file, buf, f, ss, sections, tree>>

\* The characters that make the form of a file.
LBrack == "("
RBrack == ")"
LBrace == "{"
RBrace == "}"
Equals == "="
Semi   == ";"

\* The places of a character in a text from a place on; how many there are.
Places(s, ch, from) == {i \in from .. Len(s) : s[i] = ch}
CountOf(s, ch) == Cardinality(Places(s, ch, 1))

ConfInit ==
    /\ pc = "strip"
    /\ file \in Files
    /\ buf = <<>>
    /\ f = 1
    /\ ss = 0
    /\ sections = <<>>
    /\ tree = <<>>

-----------------------------------------------------------------------------
(***************************************************************************)
(* The text without its comments and blanks.                               *)
(***************************************************************************)
Blank == {" ", "\n"}

InComment(s, i) == \E j \in Places(s, "#", 1) : j <= i /\ "\n" \notin {s[k] : k \in j .. i}

Stripped(s) ==
    LET kept(x) == ~x[1] /\ x[2] \notin Blank
        marked  == SelectSeq([i \in DOMAIN s |-> <<InComment(s, i), s[i]>>], kept)
    IN  [i \in DOMAIN marked |-> marked[i][2]]

\* The skipping of a comment ends at a newline only, not at the end.
Unended(s) == s # <<>> /\ InComment(s, Len(s))

\* Mutant: the braces are counted before the comments are taken out.
StripLate ==
    /\ pc = "strip"
    /\ buf' = Stripped(file.text)
    /\ ss' = CountOf(file.text, LBrace)
    /\ pc' = IF Unended(file.text) THEN "fault"
             ELSE IF ss' = 0 \/ ss' # CountOf(file.text, RBrace) THEN "walk"
             ELSE "sections"
    /\ UNCHANGED <<file, f, sections, tree>>

Strip ==
    /\ pc = "strip"
    /\ buf' = Stripped(file.text)
    /\ ss' = CountOf(buf', LBrace)
    /\ pc' = IF Unended(file.text) THEN "fault"
             ELSE IF ss' = 0 \/ ss' # CountOf(buf', RBrace) THEN "walk"
             ELSE "sections"
    /\ UNCHANGED <<file, f, sections, tree>>

-----------------------------------------------------------------------------
(***************************************************************************)
(* One section: read_section() and __readwseek_section().                  *)
(***************************************************************************)
\* The section ends at the first brace; the character after it is a NUL as
\* long as the section is read.
End == Min(Places(buf, RBrace, f))
Seen(ch, from) == Places(buf, ch, from) \ {End + 1}

\* The name is cut at the first "{", which may be one of a later section.
HeadTooShort == Min({Min(Seen(LBrace, f)), End + 1}) - f < 3

\* __is_section_head_valid() looks at the whole section, not at its head.
HeadValid ==
    /\ Cardinality({i \in Seen(LBrack, f) : i <= End}) = 1
    /\ Cardinality({i \in Seen(RBrack, f) : i <= End}) = 1

Open  == Min(Seen(LBrack, f))
Close == Min(Seen(RBrack, Open + 1))
Body  == Close + 2

\* __scan_section_lines()
Lines ==
    LET stop == Min(Places(buf, RBrace, Body) \cup {Len(buf) + 1}
                      \cup (IF End >= Body - 1 THEN {End + 1} ELSE {}))
    IN  Cardinality({i \in Places(buf, Semi, Body) : i < stop})

\* A body without a ";" has no data: it is not counted when the next section
\* is looked for, and its first character is raised by two.
Raised(ch) == CASE ch = LBrace -> RBrace [] ch = Semi -> Equals [] OTHER -> "?"

Found ==
    [name |-> SubSeq(buf, f, Open - 1),
     arg  |-> SubSeq(buf, Open + 1, Min({Close - 1, End})),
     data |-> IF Lines = 0 THEN <<>>
              ELSE SubSeq(buf, Body, Min(Places(buf, RBrace, Body)) - 1)]

AdvanceNoArg(s) == f + Len(s.name) + 4 + Len(s.data)  \* mutant
Advance(s) == f + Len(s.name) + 4 + Len(s.arg) + Len(s.data)

ReadSection ==
    /\ pc = "sections"
    /\ ss > 0
    /\ IF Places(buf, RBrace, f) = {} \/ Seen(LBrace, f) = {}
       THEN pc' = "fault" /\ UNCHANGED <<buf, f, ss, sections>>
       ELSE IF HeadTooShort \/ ~HeadValid
       THEN pc' = "walk" /\ UNCHANGED <<buf, f, ss, sections>>
       ELSE IF Seen(RBrack, Open + 1) = {} \/ (Lines > 0 /\ Places(buf, RBrace, Body) = {})
       THEN pc' = "fault" /\ UNCHANGED <<buf, f, ss, sections>>
       ELSE /\ sections' = Append(sections, Found)
            /\ f' = Advance(Found)
            /\ ss' = ss - 1
            /\ buf' = IF Lines = 0 /\ Body # End + 1 /\ Body \in DOMAIN buf
                      THEN [buf EXCEPT ![Body] = Raised(@)] ELSE buf
            /\ pc' = pc
    /\ UNCHANGED <<file, tree>>

SectionsRead ==
    /\ pc = "sections"
    /\ ss = 0
    /\ pc' = "vars"
    /\ UNCHANGED confVars

-----------------------------------------------------------------------------
(***************************************************************************)
(* The variables of one section.                                           *)
(***************************************************************************)
Null    == [is |-> "null", vars |-> <<>>]
Garbage == [is |-> "garbage", vars |-> <<>>]  \* vv was never assigned

\* The first n expressions of the data, and where the next one begins; 0 once
\* the search for a "=" or a ";" has left the text.
Exprs(data, lines) ==
    LET e[n \in 0 .. lines] ==
            IF n = 0 THEN [uui |-> 1, vars |-> <<>>]
            ELSE LET eq   == Places(data, Equals, e[n - 1].uui)
                     semi == Places(data, Semi, Min(eq) + 1)
                 IN  IF e[n - 1].uui = 0 \/ eq = {} \/ semi = {}
                     THEN [uui |-> 0, vars |-> <<>>]
                     ELSE [uui  |-> Min(semi) + 1,
                           vars |-> Append(e[n - 1].vars,
                                      [var   |-> SubSeq(data, e[n - 1].uui, Min(eq) - 1),
                                       value |-> SubSeq(data, Min(eq) + 1, Min(semi) - 1)])]
    IN  e[lines]

\* As many "=" as ";" is all that is asked of the expressions.
Vars(data) ==
    IF data = <<>> THEN Garbage
    ELSE IF CountOf(data, Equals) # CountOf(data, Semi) THEN Null
    ELSE [is |-> "set", vars |-> Exprs(data, CountOf(data, Semi)).vars]

Broken(data) ==
    /\ data # <<>>
    /\ CountOf(data, Equals) = CountOf(data, Semi)
    /\ Exprs(data, CountOf(data, Semi)).uui = 0

BuildSection ==
    /\ pc = "vars"
    /\ Len(tree) < Len(sections)
    /\ LET s == sections[Len(tree) + 1] IN
       IF Broken(s.data)
       THEN pc' = "fault" /\ UNCHANGED tree
       ELSE /\ tree' = Append(tree,
                         [name     |-> s.name,
                          argument |-> IF s.arg = <<>> THEN <<"ERR">> ELSE s.arg,
                          vv       |-> Vars(s.data)])
            /\ pc' = pc
    /\ UNCHANGED <<file, buf, f, ss, sections>>

TreeBuilt ==
    /\ pc = "vars"
    /\ Len(tree) = Len(sections)
    /\ pc' = "walk"
    /\ UNCHANGED confVars

load_configuration ==
    Strip \/ ReadSection \/ SectionsRead \/ BuildSection \/ TreeBuilt

-----------------------------------------------------------------------------
(***************************************************************************)
(* What the server looks up.                                               *)
(***************************************************************************)
Begins(name, ch) == name # <<>> /\ name[1] = ch

ValuesOf(vars, name) == {i \in DOMAIN vars : vars[i].var = name}

Generals == {i \in DOMAIN tree : Begins(tree[i].name, "G")}
General  == tree[Min(Generals)].vv

\* get_general_value() tests neither that there is such a section nor that it
\* has variables.
GeneralReadable == Generals # {} /\ General.is = "set"

HasValue(name) == ValuesOf(General.vars, name) # {}

-----------------------------------------------------------------------------
(***************************************************************************)
(* What a file says: the form of example.conf.                             *)
(***************************************************************************)
Expr(v) == v.var \o <<Equals>> \o v.value \o <<Semi>>

BodyOf(vs) == FlattenSeq([i \in DOMAIN vs |-> Expr(vs[i])])

Written(s) ==
    s.name \o <<LBrack>> \o s.arg \o <<RBrack>> \o <<LBrace>> \o BodyOf(s.vars) \o <<RBrace>>

TextOf(doc) == FlattenSeq([i \in DOMAIN doc |-> Written(doc[i])])

\* The sections of such a file: the signs of the form stand nowhere else.
Signs    == {"#", LBrack, RBrack, LBrace, RBrace, Equals, Semi}
Word     == {w \in Seq(STRING) : \A i \in DOMAIN w : w[i] \notin Blank \cup Signs}
Variable == [var : Word, value : Word]
Section  == [name : Word \ {<<>>}, arg : Word, vars : Seq(Variable)]

\* A good file is its sections with comments and blanks between the characters,
\* the last comment ended.
Formed(x) ==
    /\ x.doc \in Seq(Section)
    /\ Stripped(x.text) = TextOf(x.doc)
    /\ ~Unended(x.text)

ASSUME GoodFiles == \A x \in Files : x.good => Formed(x)

Meaning(s) ==
    [name     |-> s.name,
     argument |-> IF s.arg = <<>> THEN <<"ERR">> ELSE s.arg,
     vv       |-> IF s.vars = <<>> THEN Garbage ELSE [is |-> "set", vars |-> s.vars]]

\* A file of that form, whatever comments and blanks stand in it, is read back
\* as it was written: every section under its name and argument with all its
\* variables, in order, though nothing but the lengths of what was found says
\* where the next section begins (conf.c:284).
ReadsBack ==
    pc \notin {"strip", "sections", "vars"} /\ file.good =>
        tree = [i \in DOMAIN file.doc |-> Meaning(file.doc[i])]
=============================================================================
