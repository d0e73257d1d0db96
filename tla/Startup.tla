------------------------------- MODULE Startup -------------------------------
(***************************************************************************)
(* The start of redleaf: main() of src/main.c, which reads the             *)
(* configuration (Conf), loads the modulas of src/modula.c and runs        *)
(* main_process() of src/serv.c up to the fork loop; then what the first   *)
(* request looks up.  Prefork goes on from "serve".                        *)
(*                                                                         *)
(* What the dynamic loader, a modula and the kernel answer is left open,   *)
(* one call at a time.                                                     *)
(***************************************************************************)
EXTENDS Conf

VARIABLES
    at,          \* i of conf_walk_modulas(): the section
    mod,         \* the modula_t that is filled in
    handles,     \* the sections whose library is open
    inited,      \* the sections whose modula_init() was called
    modulas,     \* the container of modulas, by section
    _is_modulas, \* and their count
    rooted,      \* whether root started the server
    known,       \* whether run_user and run_group exist
    ids,         \* the effective user and group
    lsock        \* the listening socket

loadVars == <<at, mod, handles, inited, modulas, _is_modulas>>
procVars == <<ids, lsock>>
envVars  == <<rooted, known>>
vars == <<pc, confVars, loadVars, procVars, envVars>>

\* The functions that are looked up in a modula, in this order: three it must
\* have, five by what modula_check_capatibilies() claims.
Symbol == <<"init", "shootout", "check_capatibilies",
            "open", "close", "read", "write", "seek">>
Needed == {"init", "shootout", "check_capatibilies"}
Ops    == {"open", "close", "read", "write", "seek"}

NoMod == [pathed |-> FALSE, mimed |-> FALSE, claims |-> {}, has |-> {}, next |-> 1]

TypeOK ==
    /\ pc \in {"strip", "sections", "vars", "walk", "load", "socket", "listen",
               "group", "user", "serve", "answered", "exit", "fault"}
    /\ at \in Nat
    /\ mod \in [pathed : BOOLEAN, mimed : BOOLEAN, claims : SUBSET Ops,
                has : SUBSET (Needed \cup Ops), next : 1 .. 9]
    /\ handles \cup inited \cup DOMAIN modulas \subseteq DOMAIN tree
    /\ _is_modulas \in Nat
    /\ rooted \in BOOLEAN
    /\ known \in BOOLEAN
    /\ ids \in [{"user", "group"} -> {"started", "run"}]
    /\ lsock \in {"none", "bound", "listening", "shut"}

Init ==
    /\ ConfInit
    /\ at = 1
    /\ mod = NoMod
    /\ handles = {}
    /\ inited = {}
    /\ modulas = <<>>
    /\ _is_modulas = 0
    /\ rooted \in BOOLEAN
    /\ known \in BOOLEAN
    /\ ids = [w \in {"user", "group"} |-> "started"]
    /\ lsock = "none"

Configure == load_configuration /\ UNCHANGED <<loadVars, procVars, envVars>>

-----------------------------------------------------------------------------
(***************************************************************************)
(* conf_walk_modulas() and modula_load_hook().                             *)
(***************************************************************************)
walkUnchanged == UNCHANGED <<confVars, procVars, envVars>>

\* Without sections "total_sections-1" is the greatest unsigned number.
WalkNothing ==
    /\ pc = "walk"
    /\ tree = <<>>
    /\ pc' = "fault"
    /\ UNCHANGED loadVars
    /\ walkUnchanged

IsModula == at \in DOMAIN tree /\ Begins(tree[at].name, "M")

\* The loader goes on with the next section.
NextSection ==
    /\ pc' = "walk"
    /\ at' = at + 1
    /\ mod' = NoMod

Pass ==
    /\ pc = "walk"
    /\ at \in DOMAIN tree
    /\ ~IsModula
    /\ NextSection
    /\ UNCHANGED <<handles, inited, modulas, _is_modulas>>
    /\ walkUnchanged

Refuse ==
    /\ pc = "walk"
    /\ IsModula
    /\ \/ tree[at].vv.is # "set" /\ NextSection
       \/ tree[at].vv.is = "garbage" /\ pc' = "fault" /\ UNCHANGED <<at, mod>>
    /\ UNCHANGED <<handles, inited, modulas, _is_modulas>>
    /\ walkUnchanged

\* Without a path dlopen() gives the server itself, which has none of the
\* functions.
OpenLibrary ==
    /\ pc = "walk"
    /\ IsModula
    /\ tree[at].vv.is = "set"
    /\ LET given(name) == ValuesOf(tree[at].vv.vars, name) # {} IN
       \/ /\ pc' = "load"
          /\ mod' = [NoMod EXCEPT !.pathed = given(<<"p">>), !.mimed = given(<<"r">>)]
          /\ handles' = handles \cup {at}
          /\ UNCHANGED at
       \/ /\ given(<<"p">>)
          /\ NextSection
          /\ UNCHANGED handles
    /\ UNCHANGED <<inited, modulas, _is_modulas>>
    /\ walkUnchanged

\* What is looked up next, and what the modula has claimed with it.
Sought == Symbol[mod.next]
Claims == mod.claims \cup ({Sought} \cap Ops)

FindSymbol ==
    /\ pc = "load"
    /\ mod.next <= 8
    /\ mod.pathed
    /\ mod' = [mod EXCEPT !.claims = Claims, !.has = @ \cup {Sought}, !.next = @ + 1]
    /\ inited' = IF Sought = "init" THEN inited \cup {at} ELSE inited
    /\ UNCHANGED <<pc, at, handles, modulas, _is_modulas>>
    /\ walkUnchanged

\* Mutant: the capabilities are asked for once too often.
SkipSymbolMore ==
    /\ pc = "load"
    /\ mod.next > 3
    /\ mod' = [mod EXCEPT !.next = @ + 1]
    /\ UNCHANGED <<pc, at, handles, inited, modulas, _is_modulas>>
    /\ walkUnchanged

\* The capability is ABSENT.
SkipSymbol ==
    /\ pc = "load"
    /\ mod.next \in 4 .. 8
    /\ mod' = [mod EXCEPT !.next = @ + 1]
    /\ UNCHANGED <<pc, at, handles, inited, modulas, _is_modulas>>
    /\ walkUnchanged

\* Mutant: the function stays NULL and the modula goes on.
MissSymbolGoOn ==
    /\ pc = "load"
    /\ mod.next <= 8
    /\ mod' = [mod EXCEPT !.claims = Claims, !.next = @ + 1]
    /\ UNCHANGED <<pc, at, handles, inited, modulas, _is_modulas>>
    /\ walkUnchanged

\* _err_close: whatever was found before, the library is closed.
MissSymbol ==
    /\ pc = "load"
    /\ mod.next <= 8
    /\ handles' = handles \ {at}
    /\ NextSection
    /\ UNCHANGED <<inited, modulas, _is_modulas>>
    /\ walkUnchanged

\* Two modulas are compared by their mime types, one of them may be NULL.
Register ==
    /\ pc = "load"
    /\ mod.next = 9
    /\ IF DOMAIN modulas # {} /\ ~(mod.mimed /\ \A i \in DOMAIN modulas : modulas[i].mimed)
       THEN pc' = "fault" /\ UNCHANGED <<at, mod, modulas, _is_modulas>>
       ELSE /\ NextSection
            /\ modulas' = [i \in DOMAIN modulas \cup {at} |-> IF i = at THEN mod ELSE modulas[i]]
            /\ _is_modulas' = _is_modulas + 1
    /\ UNCHANGED <<handles, inited>>
    /\ walkUnchanged

Walked ==
    /\ pc = "walk"
    /\ tree # <<>>
    /\ at \notin DOMAIN tree
    /\ pc' = "socket"
    /\ UNCHANGED loadVars
    /\ walkUnchanged

init_modulas_subsystem ==
    \/ WalkNothing \/ Pass \/ Refuse \/ OpenLibrary
    \/ FindSymbol \/ SkipSymbol \/ MissSymbol \/ Register \/ Walked

-----------------------------------------------------------------------------
(***************************************************************************)
(* main_process() up to the fork loop.                                     *)
(***************************************************************************)
mainUnchanged == UNCHANGED <<confVars, loadVars, envVars>>

\* port and hostname are looked up first.
Socket ==
    /\ pc = "socket"
    /\ \/ ~GeneralReadable /\ pc' = "fault" /\ UNCHANGED lsock
       \/ GeneralReadable /\ pc' = "listen" /\ lsock' = "bound"
       \/ GeneralReadable /\ pc' = "exit" /\ UNCHANGED lsock
    /\ UNCHANGED ids
    /\ mainUnchanged

\* shutdown() does nothing to a socket that does not listen.
Listen ==
    /\ pc = "listen"
    /\ \/ pc' = "group" /\ lsock' = "listening"
       \/ pc' = "exit" /\ UNCHANGED lsock
    /\ UNCHANGED ids
    /\ mainUnchanged

GiveUp ==
    /\ pc' = "exit"
    /\ lsock' = "shut"
    /\ UNCHANGED ids

Named == HasValue(<<"u">>) /\ HasValue(<<"g">>)

\* setegid() and seteuid(): root may take any id, others their own.
IsRoot  == rooted /\ ids["user"] = "started"
Take(w, then) ==
    /\ known
    /\ ids' = [ids EXCEPT ![w] = "run"]
    /\ pc' = then
    /\ UNCHANGED lsock
Refused == ~(IsRoot /\ known) /\ GiveUp

\* Mutant: a missing name is taken for the ids the server has.
SetGroupAnyway ==
    /\ pc = "group"
    /\ \/ Named /\ (Take("group", "user") \/ Refused)
       \/ ~Named /\ pc' = "user" /\ UNCHANGED procVars
    /\ mainUnchanged

SetGroup ==
    /\ pc = "group"
    /\ \/ Named /\ (Take("group", "user") \/ Refused)
       \/ ~Named /\ GiveUp
    /\ mainUnchanged

SetUser ==
    /\ pc = "user"
    /\ Take("user", "serve") \/ Refused
    /\ mainUnchanged

main_process == Socket \/ Listen \/ SetGroup \/ SetUser

-----------------------------------------------------------------------------
(***************************************************************************)
(* The first request: get_general_value("root_dir"), then mime_type() and  *)
(* modula_lookup().                                                        *)
(***************************************************************************)
Mimes == {i \in DOMAIN tree : tree[i].name = <<"T">> /\ tree[i].argument = <<"t">>}

\* get_section_variables() goes one section too far when there is none.
MimesReadable == Mimes # {} /\ tree[Min(Mimes)].vv.is # "garbage"

LookupSafe == \A i \in DOMAIN modulas : modulas[i].mimed

Answer ==
    /\ pc = "serve"
    /\ pc' = IF HasValue(<<"d">>) /\ MimesReadable /\ LookupSafe
             THEN "answered" ELSE "fault"
    /\ UNCHANGED procVars
    /\ mainUnchanged

Next == Configure \/ init_modulas_subsystem \/ main_process \/ Answer

Spec == Init /\ [][Next]_vars

\* The start is one sequential program: it goes on while it can.
FairSpec == Spec /\ WF_vars(Next)

-----------------------------------------------------------------------------
(***************************************************************************)
(* Properties.                                                             *)
(***************************************************************************)

\* Whichever of the calls of modula_load_hook() fails: a registered modula has
\* every function that is called without a test and each one it claims, its
\* library is open, and no other library is (modula.c:104, 136-176).
RegistryExact ==
    /\ pc # "fault" =>
          handles = DOMAIN modulas \cup (IF pc = "load" THEN {at} ELSE {})
    /\ _is_modulas = Cardinality(DOMAIN modulas)
    /\ \A i \in DOMAIN modulas :
          /\ i \in inited
          /\ modulas[i].has = Needed \cup modulas[i].claims

\* A child is only ever started on a listening socket and with the user and
\* group of the configuration, whoever started the server (serv.c:143-172).
ServesAsRunUser ==
    pc \in {"serve", "answered"} =>
        /\ lsock = "listening"
        /\ ids = [w \in {"user", "group"} |-> "run"]

\* A file that has what the code looks up without a test.
Complete(doc) ==
    LET has(s, v) == \E i \in DOMAIN s.vars : s.vars[i].var = v
        general(i) == Begins(doc[i].name, "G")
                        /\ \A j \in 1 .. i - 1 : ~Begins(doc[j].name, "G")
    IN  /\ \A i \in DOMAIN doc : doc[i].vars # <<>>
        /\ \E i \in DOMAIN doc :
              general(i) /\ \A v \in {<<"u">>, <<"g">>, <<"d">>} : has(doc[i], v)
        /\ \E i \in DOMAIN doc : doc[i].name = <<"T">> /\ doc[i].arg = <<"t">>
        /\ \A i \in DOMAIN doc : Begins(doc[i].name, "M") => has(doc[i], <<"r">>)

\* With a complete file, and started by root, the server answers its first
\* request unless it cannot have its socket: no modula that fails, no comment
\* and no order of the sections stops it or makes it run through a NULL.
Starts ==
    file.good /\ Complete(file.doc) /\ rooted /\ known
        ~> (pc = "answered" \/ (pc = "exit" /\ lsock \in {"none", "bound"}))
=============================================================================
