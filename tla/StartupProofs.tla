---------------------------- MODULE StartupProofs ----------------------------
(***************************************************************************)
(* Proofs about Startup, for any file, whatever the parser makes of it and *)
(* whatever the loader, the modulas and the kernel answer; and about Conf: *)
(* every good file is read back as it was written.                         *)
(***************************************************************************)
EXTENDS Startup, FiniteSetTheorems, SequenceTheorems, WellFoundedInduction, TLAPS

Reading == {"strip", "sections", "vars"}

\* Nothing is loaded before the whole file is read.
Early == pc \in Reading => handles = {} /\ inited = {} /\ DOMAIN modulas = {}

\* What was found in the library so far.
Loading ==
    pc = "load" =>
        /\ at \in DOMAIN tree
        /\ mod.next > 1 => at \in inited
        /\ mod.next < 4 => mod.claims = {}
        /\ mod.next = 1 => mod.has = {}
        /\ mod.next = 2 => mod.has = {"init"}
        /\ mod.next = 3 => mod.has = {"init", "shootout"}
        /\ mod.next >= 4 => mod.has = Needed \cup mod.claims

\* The registered sections lie behind, so that none is registered twice.
Behind == \A i \in DOMAIN modulas : i \in Nat /\ i < at

Counted == IsFiniteSet(DOMAIN modulas)

\* The ids are changed one after the other, with the socket open.
Dropping ==
    /\ pc \in {"group", "user"} => lsock = "listening"
    /\ pc = "user" => ids["group"] = "run"

Inv ==
    /\ TypeOK
    /\ Early
    /\ Loading
    /\ Behind
    /\ Counted
    /\ RegistryExact
    /\ Dropping
    /\ ServesAsRunUser

-----------------------------------------------------------------------------
\* A modula_t that nothing was found for yet has its type.
LEMMA NoModType ==
    /\ NoMod \in [pathed : BOOLEAN, mimed : BOOLEAN, claims : SUBSET Ops,
                 has : SUBSET (Needed \cup Ops), next : 1 .. 9]
    /\ NoMod.next = 1 /\ NoMod.claims = {} /\ NoMod.has = {}
  BY DEF NoMod

\* The order in which the functions of a modula are looked up.
LEMMA SymbolIs ==
    /\ Symbol[1] = "init" /\ Symbol[2] = "shootout"
    /\ Symbol[3] = "check_capatibilies"
    /\ \A n \in 4 .. 8 : Symbol[n] \in Ops
<1>1. \A n \in 4 .. 8 : n = 4 \/ n = 5 \/ n = 6 \/ n = 7 \/ n = 8
  OBVIOUS
<1>2. QED
  BY <1>1 DEF Symbol, Ops

\* A step of the parser leaves what the loader has alone, and there is none.
LEMMA ConfigureKeeps ==
    ASSUME Inv, Configure
    PROVE  Inv'
<1>1. /\ pc \in Reading
      /\ pc' \in Reading \cup {"walk", "fault"}
  BY DEF Configure, load_configuration, Strip, ReadSection, SectionsRead,
         BuildSection, TreeBuilt, Reading
<1>2. UNCHANGED <<at, mod, handles, inited, modulas, _is_modulas, ids, lsock, rooted, known>>
  BY DEF Configure, loadVars, procVars, envVars
<1>3. handles = {} /\ inited = {} /\ DOMAIN modulas = {}
  BY <1>1 DEF Inv, Early
<1>4. TypeOK'
  BY <1>1, <1>2, <1>3 DEF Inv, TypeOK, Reading
<1>5. Early' /\ Loading' /\ Behind' /\ Counted' /\ Dropping' /\ ServesAsRunUser'
  BY <1>1, <1>2, <1>3 DEF Inv, Early, Loading, Behind, Counted, Dropping,
     ServesAsRunUser, Reading
<1>6. RegistryExact'
  BY <1>1, <1>2, <1>3 DEF Inv, RegistryExact, Reading
<1>7. QED
  BY <1>4, <1>5, <1>6 DEF Inv

\* Going past a section registers nothing.
LEMMA WalkKeeps ==
    ASSUME Inv, WalkNothing \/ Pass \/ Refuse \/ Walked
    PROVE  Inv'
<1>1. /\ pc = "walk" /\ pc' \in {"walk", "fault", "socket"}
      /\ at' \in {at, at + 1}
      /\ mod' \in {mod, NoMod}
      /\ UNCHANGED <<handles, inited, modulas, _is_modulas, tree, ids, lsock, rooted, known>>
  BY DEF WalkNothing, Pass, Refuse, Walked, NextSection, walkUnchanged, confVars,
         loadVars, procVars, envVars
<1>2. TypeOK'
  BY <1>1, NoModType DEF Inv, TypeOK
<1>3. Behind'
  BY <1>1 DEF Inv, TypeOK, Behind
<1>4. Early' /\ Loading' /\ Counted' /\ Dropping' /\ ServesAsRunUser'
  BY <1>1 DEF Inv, Early, Loading, Counted, Dropping, ServesAsRunUser, Reading
<1>5. RegistryExact'
  BY <1>1 DEF Inv, RegistryExact
<1>6. QED
  BY <1>2, <1>3, <1>4, <1>5 DEF Inv

\* Opening a library: it is the only open one that is not registered.
LEMMA OpenKeeps ==
    ASSUME Inv, OpenLibrary
    PROVE  Inv'
<1>1. /\ pc = "walk" /\ at \in DOMAIN tree
      /\ UNCHANGED <<inited, modulas, _is_modulas, tree, ids, lsock, rooted, known>>
  BY DEF OpenLibrary, IsModula, walkUnchanged, confVars, procVars, envVars
<1>2. CASE /\ pc' = "load" /\ handles' = handles \cup {at} /\ UNCHANGED at
           /\ \E p, m \in BOOLEAN : mod' = [NoMod EXCEPT !.pathed = p, !.mimed = m]
  <2>1. PICK p, m \in BOOLEAN : mod' = [NoMod EXCEPT !.pathed = p, !.mimed = m]
    BY <1>2
  <2>2. /\ mod' \in [pathed : BOOLEAN, mimed : BOOLEAN, claims : SUBSET Ops,
                     has : SUBSET (Needed \cup Ops), next : 1 .. 9]
        /\ mod'.next = 1 /\ mod'.claims = {} /\ mod'.has = {}
    BY <2>1, NoModType
  <2>3. TypeOK'
    BY <1>1, <1>2, <2>2 DEF Inv, TypeOK
  <2>4. Early' /\ Loading' /\ Behind' /\ Counted' /\ Dropping' /\ ServesAsRunUser'
    BY <1>1, <1>2, <2>2 DEF Inv, Early, Loading, Behind, Counted, Dropping,
       ServesAsRunUser, Reading
  <2>5. RegistryExact'
    BY <1>1, <1>2 DEF Inv, RegistryExact
  <2>6. QED
    BY <2>3, <2>4, <2>5 DEF Inv
<1>3. CASE NextSection /\ UNCHANGED handles
  <2>1. TypeOK'
    BY <1>1, <1>3, NoModType DEF Inv, TypeOK, NextSection
  <2>2. Behind'
    BY <1>1, <1>3 DEF Inv, TypeOK, Behind, NextSection
  <2>3. Early' /\ Loading' /\ Counted' /\ Dropping' /\ ServesAsRunUser' /\ RegistryExact'
    BY <1>1, <1>3 DEF Inv, Early, Loading, Counted, Dropping, ServesAsRunUser,
       Reading, RegistryExact, NextSection
  <2>4. QED
    BY <2>1, <2>2, <2>3 DEF Inv
<1>4. QED
  BY <1>2, <1>3, Zenon DEF OpenLibrary

\* A function that is found is had and, where it is one, claimed.
LEMMA FindKeeps ==
    ASSUME Inv, FindSymbol
    PROVE  Inv'
<1>1. /\ pc = "load" /\ mod.next <= 8
      /\ mod' = [mod EXCEPT !.claims = Claims, !.has = mod.has \cup {Sought},
                            !.next = mod.next + 1]
      /\ inited' = IF Sought = "init" THEN inited \cup {at} ELSE inited
      /\ UNCHANGED <<pc, at, handles, modulas, _is_modulas, tree, ids, lsock, rooted, known>>
  BY DEF FindSymbol, walkUnchanged, confVars, procVars, envVars
<1>2. at \in DOMAIN tree /\ mod.next \in 1 .. 8
  BY <1>1 DEF Inv, TypeOK, Loading
<1>3. mod.next = 1 \/ mod.next = 2 \/ mod.next = 3 \/ mod.next \in 4 .. 8
  BY <1>2
<1>4. Sought \in Needed \cup Ops /\ Claims \in SUBSET Ops
  BY <1>3, SymbolIs DEF Sought, Claims, Needed, Inv, TypeOK
<1>5. /\ mod' \in [pathed : BOOLEAN, mimed : BOOLEAN, claims : SUBSET Ops,
                   has : SUBSET (Needed \cup Ops), next : 1 .. 9]
      /\ mod'.next = mod.next + 1 /\ mod'.claims = Claims
      /\ mod'.has = mod.has \cup {Sought}
  <2>1. PICK n \in 1 .. 9 : n = mod.next + 1
    BY <1>2
  <2>2. PICK h \in SUBSET (Needed \cup Ops) : h = mod.has \cup {Sought}
    BY <1>4 DEF Inv, TypeOK
  <2>3. PICK q \in SUBSET Ops : q = Claims
    BY <1>4
  <2>4. mod' = [mod EXCEPT !.claims = q, !.has = h, !.next = n]
    BY <1>1, <2>1, <2>2, <2>3
  <2>5. /\ mod' \in [pathed : BOOLEAN, mimed : BOOLEAN, claims : SUBSET Ops,
                     has : SUBSET (Needed \cup Ops), next : 1 .. 9]
        /\ mod'.next = n /\ mod'.claims = q /\ mod'.has = h
    BY <2>4 DEF Inv, TypeOK
  <2>6. QED
    BY <2>1, <2>2, <2>3, <2>5
<1>6. TypeOK'
  BY <1>1, <1>2, <1>5 DEF Inv, TypeOK
<1>7. Loading'
  <2>1. CASE mod.next = 1
    BY <2>1, <1>1, <1>2, <1>5, SymbolIs DEF Inv, Loading, Sought, Claims, Ops
  <2>2. CASE mod.next = 2
    BY <2>2, <1>1, <1>2, <1>5, SymbolIs DEF Inv, Loading, Sought, Claims, Ops
  <2>3. CASE mod.next = 3
    BY <2>3, <1>1, <1>2, <1>5, SymbolIs DEF Inv, Loading, Sought, Claims, Ops, Needed
  <2>4. CASE mod.next \in 4 .. 8
    <3>1. mod'.next >= 5 /\ mod.next >= 4 /\ mod.next > 1
      BY <2>4, <1>5
    <3>2. mod.has = Needed \cup mod.claims /\ at \in inited
      BY <3>1, <1>1 DEF Inv, Loading
    <3>3. mod'.has = Needed \cup mod'.claims
      BY <3>2, <2>4, <1>5, SymbolIs DEF Claims, Sought
    <3>4. QED
      BY <3>1, <3>2, <3>3, <1>1, <1>2, <1>5 DEF Loading
  <2>5. QED
    BY <1>3, <2>1, <2>2, <2>3, <2>4
<1>8. Early' /\ Behind' /\ Counted' /\ Dropping' /\ ServesAsRunUser'
  BY <1>1 DEF Inv, Early, Behind, Counted, Dropping, ServesAsRunUser, Reading
<1>9. RegistryExact'
  BY <1>1 DEF Inv, RegistryExact
<1>10. QED
  BY <1>6, <1>7, <1>8, <1>9 DEF Inv

\* An absent capability is neither had nor claimed.
LEMMA SkipKeeps ==
    ASSUME Inv, SkipSymbol
    PROVE  Inv'
<1>1. /\ pc = "load" /\ mod.next \in 4 .. 8
      /\ mod' = [mod EXCEPT !.next = mod.next + 1]
      /\ UNCHANGED <<pc, at, handles, inited, modulas, _is_modulas, tree, ids, lsock, rooted, known>>
  BY DEF SkipSymbol, walkUnchanged, confVars, procVars, envVars
<1>2. /\ mod' \in [pathed : BOOLEAN, mimed : BOOLEAN, claims : SUBSET Ops,
                   has : SUBSET (Needed \cup Ops), next : 1 .. 9]
      /\ mod'.next = mod.next + 1 /\ mod'.claims = mod.claims /\ mod'.has = mod.has
  BY <1>1 DEF Inv, TypeOK
<1>3. TypeOK' /\ Loading'
  BY <1>1, <1>2 DEF Inv, TypeOK, Loading
<1>4. Early' /\ Behind' /\ Counted' /\ Dropping' /\ ServesAsRunUser' /\ RegistryExact'
  BY <1>1 DEF Inv, Early, Behind, Counted, Dropping, ServesAsRunUser, Reading, RegistryExact
<1>5. QED
  BY <1>3, <1>4 DEF Inv

\* A failed lookup closes the library that was being looked through.
LEMMA MissKeeps ==
    ASSUME Inv, MissSymbol
    PROVE  Inv'
<1>1. /\ pc = "load" /\ pc' = "walk" /\ at' = at + 1 /\ mod' = NoMod
      /\ handles' = handles \ {at}
      /\ UNCHANGED <<inited, modulas, _is_modulas, tree, ids, lsock, rooted, known>>
  BY DEF MissSymbol, NextSection, walkUnchanged, confVars, procVars, envVars
<1>2. TypeOK'
  BY <1>1, NoModType DEF Inv, TypeOK
<1>3. Behind' /\ at \notin DOMAIN modulas
  BY <1>1 DEF Inv, TypeOK, Behind
<1>4. Early' /\ Loading' /\ Counted' /\ Dropping' /\ ServesAsRunUser'
  BY <1>1 DEF Inv, Early, Loading, Counted, Dropping, ServesAsRunUser, Reading
<1>5. RegistryExact'
  BY <1>1, <1>3 DEF Inv, RegistryExact
<1>6. QED
  BY <1>2, <1>3, <1>4, <1>5 DEF Inv

\* What is registered has all it needs.
LEMMA RegisterKeeps ==
    ASSUME Inv, Register
    PROVE  Inv'
<1>1. /\ pc = "load" /\ mod.next = 9
      /\ UNCHANGED <<handles, inited, tree, ids, lsock, rooted, known>>
  BY DEF Register, walkUnchanged, confVars, procVars, envVars
<1>2. CASE pc' = "fault" /\ UNCHANGED <<at, mod, modulas, _is_modulas>>
  <2>1. TypeOK' /\ Early' /\ Loading' /\ Behind' /\ Counted' /\ Dropping' /\ ServesAsRunUser'
    BY <1>1, <1>2 DEF Inv, TypeOK, Early, Loading, Behind, Counted, Dropping,
       ServesAsRunUser, Reading
  <2>2. RegistryExact'
    BY <1>1, <1>2 DEF Inv, RegistryExact
  <2>3. QED
    BY <2>1, <2>2 DEF Inv
<1>3. CASE /\ NextSection
           /\ modulas' = [i \in DOMAIN modulas \cup {at} |-> IF i = at THEN mod ELSE modulas[i]]
           /\ _is_modulas' = _is_modulas + 1
  <2>1. /\ pc' = "walk" /\ at' = at + 1 /\ mod' = NoMod
        /\ at \in Nat /\ at \in DOMAIN tree /\ at \in inited
        /\ mod.has = Needed \cup mod.claims
    BY <1>1, <1>3 DEF Inv, TypeOK, Loading, NextSection
  <2>2. at \notin DOMAIN modulas
    BY <2>1 DEF Inv, Behind
  <2>3. /\ DOMAIN modulas' = DOMAIN modulas \cup {at}
        /\ \A i \in DOMAIN modulas : modulas'[i] = modulas[i]
        /\ modulas'[at] = mod
    BY <1>3, <2>2
  <2>4. TypeOK'
    BY <1>1, <1>3, <2>1, <2>3, NoModType DEF Inv, TypeOK
  <2>5. Behind'
    BY <2>1, <2>3 DEF Inv, Behind
  <2>6. /\ Counted'
        /\ Cardinality(DOMAIN modulas') = Cardinality(DOMAIN modulas) + 1
    BY <2>2, <2>3, FS_AddElement DEF Inv, Counted
  <2>7. RegistryExact'
    <3>1. (handles = DOMAIN modulas \cup (IF pc = "load" THEN {at} ELSE {}))'
      BY <1>1, <2>1, <2>3 DEF Inv, RegistryExact
    <3>2. (_is_modulas = Cardinality(DOMAIN modulas))'
      BY <1>3, <2>6 DEF Inv, RegistryExact
    <3>3. (\A i \in DOMAIN modulas :
             i \in inited /\ modulas[i].has = Needed \cup modulas[i].claims)'
      BY <1>1, <2>1, <2>3 DEF Inv, RegistryExact
    <3>4. QED
      BY <3>1, <3>2, <3>3 DEF RegistryExact
  <2>8. Early' /\ Loading' /\ Dropping' /\ ServesAsRunUser'
    BY <1>1, <2>1 DEF Inv, Early, Loading, Dropping, ServesAsRunUser, Reading
  <2>9. QED
    BY <2>4, <2>5, <2>6, <2>7, <2>8 DEF Inv
<1>4. QED
  BY <1>2, <1>3 DEF Register

\* main_process() drops the ids one after the other.
LEMMA MainKeeps ==
    ASSUME Inv, main_process \/ Answer
    PROVE  Inv'
<1>1. UNCHANGED <<at, mod, handles, inited, modulas, _is_modulas, tree, rooted, known>>
  BY DEF main_process, Socket, Listen, SetGroup, SetUser, Answer, mainUnchanged,
         confVars, loadVars, envVars
<1>2. /\ pc \in {"socket", "listen", "group", "user", "serve"}
      /\ pc' \in {"listen", "group", "user", "serve", "answered", "exit", "fault"}
  BY DEF main_process, Socket, Listen, SetGroup, SetUser, Answer, Take, Refused, GiveUp
<1>3. TypeOK' /\ Dropping' /\ ServesAsRunUser'
  <2>1. CASE Socket \/ Listen
    BY <1>1, <2>1 DEF Inv, TypeOK, Dropping, ServesAsRunUser, Socket, Listen
  <2>2. CASE SetGroup
    BY <1>1, <2>2 DEF Inv, TypeOK, Dropping, ServesAsRunUser, SetGroup, Take,
       Refused, GiveUp
  <2>3. CASE SetUser
    <3>1. /\ pc = "user" /\ lsock = "listening" /\ ids["group"] = "run"
          /\ ids \in [{"user", "group"} -> {"started", "run"}]
      BY <2>3 DEF Inv, TypeOK, Dropping, SetUser
    <3>2. CASE Take("user", "serve")
      <4>1. ids' = [w \in {"user", "group"} |-> "run"]
        BY <3>1, <3>2 DEF Take
      <4>2. QED
        BY <4>1, <3>1, <3>2, <1>1 DEF Inv, TypeOK, Dropping, ServesAsRunUser, Take
    <3>3. CASE Refused
      BY <3>1, <3>3, <1>1 DEF Inv, TypeOK, Dropping, ServesAsRunUser, Refused, GiveUp
    <3>4. QED
      BY <2>3, <3>2, <3>3 DEF SetUser
  <2>4. CASE Answer
    BY <1>1, <2>4 DEF Inv, TypeOK, Dropping, ServesAsRunUser, Answer, procVars
  <2>5. QED
    BY <2>1, <2>2, <2>3, <2>4 DEF main_process
<1>4. Early' /\ Loading' /\ Behind' /\ Counted'
  BY <1>1, <1>2 DEF Inv, Early, Loading, Behind, Counted, Reading
<1>5. RegistryExact'
  BY <1>1, <1>2 DEF Inv, RegistryExact
<1>6. QED
  BY <1>3, <1>4, <1>5 DEF Inv

\* The invariant holds at the start.
LEMMA InitInv == Init => Inv
<1> SUFFICES ASSUME Init PROVE Inv
  OBVIOUS
<1>1. /\ DOMAIN modulas = {} /\ IsFiniteSet({}) /\ Cardinality({}) = 0
  BY FS_EmptySet DEF Init
<1>2. TypeOK
  BY <1>1, NoModType DEF Init, ConfInit, TypeOK
<1>3. QED
  BY <1>1, <1>2 DEF Init, ConfInit, Inv, Early, Loading, Behind, Counted, RegistryExact,
     Dropping, ServesAsRunUser

\* The invariant is inductive.
LEMMA InvAlways == Spec => []Inv
<1>1. ASSUME Inv, Next PROVE Inv'
  BY <1>1, ConfigureKeeps, WalkKeeps, OpenKeeps, FindKeeps, SkipKeeps, MissKeeps,
     RegisterKeeps, MainKeeps DEF Next, init_modulas_subsystem
<1>2. ASSUME Inv, UNCHANGED vars PROVE Inv'
  BY <1>2 DEF vars, confVars, loadVars, procVars, envVars, Inv, TypeOK, Early, Loading,
     Behind, Counted, RegistryExact, Dropping, ServesAsRunUser
<1>3. QED
  BY InitInv, <1>1, <1>2, PTL DEF Spec

-----------------------------------------------------------------------------
\* The types of the loader's state and of the process.
THEOREM TypeCorrect == Spec => []TypeOK
<1>1. Inv => TypeOK
  BY DEF Inv
<1>2. QED
  BY InvAlways, <1>1, PTL

\* Whichever call of modula_load_hook() fails, the registry, the libraries and
\* the count agree (modula.c:65-176).
THEOREM RegistryExactAlways == Spec => []RegistryExact
<1>1. Inv => RegistryExact
  BY DEF Inv
<1>2. QED
  BY InvAlways, <1>1, PTL

\* No child runs with the ids the server was started with (serv.c:143-172).
THEOREM ServesAsRunUserAlways == Spec => []ServesAsRunUser
<1>1. Inv => ServesAsRunUser
  BY DEF Inv
<1>2. QED
  BY InvAlways, <1>1, PTL

-----------------------------------------------------------------------------
(***************************************************************************)
(* Texts that are put together.  The recursion of FlattenSeq is over the   *)
(* pieces, so induction over the naturals is enough; a theorem of the      *)
(* library takes an operator, which no prover here can instantiate, and so *)
(* it is stated for a set.                                                 *)
(***************************************************************************)
Less == {p \in Nat \X Nat : p[1] < p[2]}

\* Induction, for a set of numbers.
LEMMA SetInduction ==
    ASSUME NEW S, 0 \in S, \A n \in Nat : n \in S => n + 1 \in S
    PROVE  Nat \subseteq S
<1> SUFFICES ASSUME ~(Nat \subseteq S) PROVE FALSE
  OBVIOUS
<1> DEFINE T == Nat \ S
<1>1. T \subseteq Nat /\ T # {}
  OBVIOUS
<1>2. IsWellFoundedOn(Less, Nat)
  BY NatLessThanWellFounded DEF OpToRel, Less
<1>3. PICK m \in T : \A y \in T : <<y, m>> \notin Less
  <2> HIDE DEF T
  <2> QED BY <1>1, <1>2, WFMin
<1>4. m \in Nat /\ m # 0 /\ m - 1 \in Nat /\ (m - 1) + 1 = m
  OBVIOUS
<1>5. m - 1 \in T
  BY <1>4
<1>6. <<m - 1, m>> \in Less
  BY <1>4 DEF Less
<1>7. QED
  BY <1>3, <1>5, <1>6

\* v is u with w behind it.
Joins(u, w, v) ==
    /\ Len(u) \in Nat /\ Len(w) \in Nat
    /\ Len(v) = Len(u) + Len(w)
    /\ \A j \in 1 .. Len(u) : v[j] = u[j]
    /\ \A k \in 1 .. Len(w) : v[Len(u) + k] = w[k]

\* What \o does, place by place.
LEMMA Joined ==
    ASSUME NEW S, NEW u, NEW w, u \in Seq(S), w \in Seq(S), NEW v, v = u \o w
    PROVE  v \in Seq(S) /\ Joins(u, w, v)
<1>1. /\ Len(u) \in Nat /\ Len(w) \in Nat /\ v \in Seq(S)
      /\ Len(v) = Len(u) + Len(w)
      /\ \A i \in 1 .. Len(u) + Len(w) : v[i] = IF i <= Len(u) THEN u[i] ELSE w[i - Len(u)]
  BY ConcatProperties
<1>2. QED
  BY <1>1 DEF Joins

\* The texts of the first pieces.
Grows(S, ws, t) ==
    /\ \A i \in 0 .. Len(ws) : t[i] \in Seq(S)
    /\ t[0] = <<>>
    /\ \A i \in 1 .. Len(ws) : t[i] = t[i - 1] \o ws[i]

\* The recursive function in FlattenSeq.
Flattens(ws, n, g) == g = [i \in 1 .. n |-> IF i = 1 THEN ws[i] ELSE g[i - 1] \o ws[i]]

\* The recursive function in FlattenSeq exists.
LEMMA FlattensExists ==
    ASSUME NEW S, NEW ws \in Seq(Seq(S))
    PROVE  \E g \in [1 .. Len(ws) -> Seq(S)] : Flattens(ws, Len(ws), g)
<1> DEFINE N == {n \in Nat : n <= Len(ws) => \E g \in [1 .. n -> Seq(S)] : Flattens(ws, n, g)}
<1>1. 0 \in N
  <2>1. [i \in 1 .. 0 |-> <<>>] \in [1 .. 0 -> Seq(S)]
    OBVIOUS
  <2>2. Flattens(ws, 0, [i \in 1 .. 0 |-> <<>>])
    BY DEF Flattens
  <2>3. QED
    BY <2>1, <2>2
<1>2. ASSUME NEW n \in Nat, n \in N PROVE n + 1 \in N
  <2> SUFFICES ASSUME n + 1 <= Len(ws)
               PROVE  \E g \in [1 .. n + 1 -> Seq(S)] : Flattens(ws, n + 1, g)
    OBVIOUS
  <2>1. PICK g \in [1 .. n -> Seq(S)] : Flattens(ws, n, g)
    BY <1>2
  <2>2. PICK last \in Seq(S) : last = IF n = 0 THEN ws[n + 1] ELSE g[n] \o ws[n + 1]
    <3>1. ws[n + 1] \in Seq(S)
      BY ElementOfSeq
    <3>2. n # 0 => g[n] \in Seq(S)
      OBVIOUS
    <3>3. n # 0 => g[n] \o ws[n + 1] \in Seq(S)
      BY <3>1, <3>2, ConcatProperties
    <3>4. QED
      BY <3>1, <3>3
  <2> DEFINE h == [i \in 1 .. n + 1 |-> IF i <= n THEN g[i] ELSE last]
  <2>3. h \in [1 .. n + 1 -> Seq(S)]
    OBVIOUS
  <2>4. ASSUME NEW i \in 1 .. n + 1
        PROVE  h[i] = IF i = 1 THEN ws[i] ELSE h[i - 1] \o ws[i]
    <3>1. CASE i <= n
      <4>1. g[i] = IF i = 1 THEN ws[i] ELSE g[i - 1] \o ws[i]
        <5>1. i \in 1 .. n
          BY <3>1
        <5>2. g = [j \in 1 .. n |-> IF j = 1 THEN ws[j] ELSE g[j - 1] \o ws[j]]
          BY <2>1 DEF Flattens
        <5>3. QED
          BY <5>1, <5>2
      <4>2. h[i] = g[i] /\ (i # 1 => h[i - 1] = g[i - 1])
        BY <3>1
      <4>3. QED
        BY <4>1, <4>2
    <3>2. CASE i = n + 1
      <4>1. h[i] = last /\ (i # 1 => h[i - 1] = g[n])
        BY <3>2
      <4> HIDE DEF h
      <4>2. QED
        BY <2>2, <3>2, <4>1
    <3>3. QED
      BY <3>1, <3>2
  <2>5. h = [i \in 1 .. n + 1 |-> h[i]]
    OBVIOUS
  <2>6. Flattens(ws, n + 1, h)
    <3> HIDE DEF h
    <3> QED BY <2>4, <2>5 DEF Flattens
  <2>7. QED
    <3> HIDE DEF h
    <3> QED BY <2>3, <2>6
<1>3. Nat \subseteq N
  <2> HIDE DEF N
  <2> QED BY <1>1, <1>2, SetInduction
<1>4. QED
  BY <1>3

\* FlattenSeq adds one piece after the other.
LEMMA FlattenGrows ==
    ASSUME NEW S, NEW ws \in Seq(Seq(S))
    PROVE  \E t : Grows(S, ws, t) /\ FlattenSeq(ws) = t[Len(ws)]
<1> DEFINE g == CHOOSE g : Flattens(ws, Len(ws), g)
<1>1. Flattens(ws, Len(ws), g)
  BY FlattensExists
<1>2. Len(ws) # 0 => FlattenSeq(ws) = g[Len(ws)]
  BY DEF FlattenSeq, Flattens
<1>3. Len(ws) = 0 => FlattenSeq(ws) = <<>>
  BY DEF FlattenSeq
<1> HIDE DEF g
<1>4. \A i \in 1 .. Len(ws) : g[i] = IF i = 1 THEN ws[i] ELSE g[i - 1] \o ws[i]
  BY <1>1 DEF Flattens
<1>5. \A i \in 1 .. Len(ws) : g[i] \in Seq(S)
  <2> DEFINE N == {n \in Nat : n \in 1 .. Len(ws) => g[n] \in Seq(S)}
  <2>1. 0 \in N
    OBVIOUS
  <2>2. ASSUME NEW n \in Nat, n \in N PROVE n + 1 \in N
    <3> SUFFICES ASSUME n + 1 \in 1 .. Len(ws) PROVE g[n + 1] \in Seq(S)
      OBVIOUS
    <3>1. ws[n + 1] \in Seq(S)
      BY ElementOfSeq
    <3>2. n + 1 # 1 => g[n] \in Seq(S) /\ (n + 1) - 1 = n
      BY <2>2
    <3>3. g[n + 1] = IF n + 1 = 1 THEN ws[n + 1] ELSE g[(n + 1) - 1] \o ws[n + 1]
      BY <1>4
    <3>4. QED
      BY <3>1, <3>2, <3>3, ConcatProperties
  <2>3. Nat \subseteq N
    <3> HIDE DEF N
    <3> QED BY <2>1, <2>2, SetInduction
  <2>4. QED
    BY <2>3
<1> DEFINE t == [i \in 0 .. Len(ws) |-> IF i = 0 THEN <<>> ELSE g[i]]
<1>6. \A i \in 0 .. Len(ws) : t[i] \in Seq(S)
  BY <1>5, EmptySeq
<1>7. ASSUME NEW i \in 1 .. Len(ws) PROVE t[i] = t[i - 1] \o ws[i]
  <2>1. CASE i = 1
    <3>1. t[i] = ws[i] /\ t[i - 1] = <<>> /\ ws[i] \in Seq(S)
      BY <1>4, <2>1
    <3>2. QED
      BY <3>1, ConcatEmptySeq
  <2>2. CASE i # 1
    <3>1. t[i] = g[i] /\ t[i - 1] = g[i - 1]
      BY <2>2
    <3>2. QED
      BY <1>4, <2>2, <3>1
  <2>3. QED
    BY <2>1, <2>2
<1>8. t[0] = <<>> /\ FlattenSeq(ws) = t[Len(ws)]
  BY <1>2, <1>3
<1>9. QED
  <2> HIDE DEF t
  <2>1. Grows(S, ws, t)
    BY <1>6, <1>7, <1>8 DEF Grows
  <2>2. QED
    BY <1>8, <2>1

\* The pieces ws stand in text one after the other; cuts says where.
Cut(text, ws, cuts) ==
    /\ cuts \in [0 .. Len(ws) -> Nat]
    /\ cuts[0] = 0
    /\ cuts[Len(ws)] = Len(text)
    /\ \A i \in 1 .. Len(ws) :
          /\ cuts[i] = cuts[i - 1] + Len(ws[i])
          /\ cuts[i] <= Len(text)
          /\ \A k \in 1 .. Len(ws[i]) : text[cuts[i - 1] + k] = ws[i][k]

\* The first pieces stay where they are when more are added.
LEMMA GrowsPrefix ==
    ASSUME NEW S, NEW ws \in Seq(Seq(S)), NEW t, Grows(S, ws, t),
           NEW m \in 0 .. Len(ws)
    PROVE  \A n \in m .. Len(ws) :
              /\ Len(t[m]) <= Len(t[n])
              /\ \A j \in 1 .. Len(t[m]) : t[n][j] = t[m][j]
<1> DEFINE Pre(n) == /\ Len(t[m]) <= Len(t[n])
                     /\ \A j \in 1 .. Len(t[m]) : t[n][j] = t[m][j]
           N == {n \in Nat : n \in m .. Len(ws) => Pre(n)}
<1>1. 0 \in N
  OBVIOUS
<1>2. ASSUME NEW n \in Nat, n \in N PROVE n + 1 \in N
  <2> SUFFICES ASSUME n + 1 \in m .. Len(ws) PROVE Pre(n + 1)
    OBVIOUS
  <2>1. CASE n + 1 = m
    BY <2>1
  <2>2. CASE n + 1 # m
    <3>1. n \in m .. Len(ws) /\ n + 1 \in 1 .. Len(ws) /\ (n + 1) - 1 = n
      BY <2>2
    <3>2. Pre(n)
      BY <1>2, <3>1
    <3>3. t[n + 1] = t[n] \o ws[n + 1]
      BY <3>1 DEF Grows
    <3>4. t[n] \in Seq(S) /\ ws[n + 1] \in Seq(S) /\ t[m] \in Seq(S)
      <4>1. ws[n + 1] \in Seq(S)
        BY <3>1, ElementOfSeq
      <4>2. n \in 0 .. Len(ws)
        BY <3>1
      <4>3. QED
        BY <4>1, <4>2 DEF Grows
    <3>5. /\ Len(t[n + 1]) = Len(t[n]) + Len(ws[n + 1])
          /\ \A j \in 1 .. Len(t[n]) : t[n + 1][j] = t[n][j]
      <4>1. Joins(t[n], ws[n + 1], t[n + 1])
        BY <3>3, <3>4, Joined
      <4>2. QED
        BY <4>1 DEF Joins
    <3>6. /\ Len(t[m]) \in Nat /\ Len(t[n]) \in Nat /\ Len(ws[n + 1]) \in Nat
      BY <3>4
    <3>7. /\ Len(t[m]) <= Len(t[n])
          /\ \A j \in 1 .. Len(t[m]) : t[n][j] = t[m][j]
      BY <3>2
    <3>8. ASSUME NEW j \in 1 .. Len(t[m]) PROVE t[n + 1][j] = t[m][j]
      <4>1. j \in 1 .. Len(t[n])
        BY <3>6, <3>7
      <4>2. QED
        BY <3>5, <3>7, <4>1
    <3>9. Len(t[m]) <= Len(t[n + 1])
      <4>1. \A x, y, z \in Nat : x <= y => x <= y + z
        OBVIOUS
      <4>2. QED
        BY <3>5, <3>6, <3>7, <4>1
    <3>10. QED
      BY <3>8, <3>9
  <2>3. QED
    BY <2>1, <2>2
<1>3. Nat \subseteq N
  <2> HIDE DEF N
  <2> QED BY <1>1, <1>2, SetInduction
<1>4. QED
  BY <1>3

\* What FlattenSeq makes of pieces can be cut into them.
LEMMA FlattenCut ==
    ASSUME NEW S, NEW ws \in Seq(Seq(S))
    PROVE  FlattenSeq(ws) \in Seq(S) /\ \E cuts : Cut(FlattenSeq(ws), ws, cuts)
<1>1. PICK t : Grows(S, ws, t) /\ FlattenSeq(ws) = t[Len(ws)]
  BY FlattenGrows
<1> DEFINE cuts == [i \in 0 .. Len(ws) |-> Len(t[i])]
           text == t[Len(ws)]
<1>2. Len(ws) \in Nat /\ \A i \in 0 .. Len(ws) : t[i] \in Seq(S) /\ Len(t[i]) \in Nat
  BY <1>1 DEF Grows
<1>3. cuts \in [0 .. Len(ws) -> Nat] /\ cuts[0] = 0 /\ cuts[Len(ws)] = Len(text)
  BY <1>1, <1>2 DEF Grows
<1>4. ASSUME NEW i \in 1 .. Len(ws)
      PROVE  /\ cuts[i] = cuts[i - 1] + Len(ws[i])
             /\ cuts[i] <= Len(text)
             /\ \A k \in 1 .. Len(ws[i]) : text[cuts[i - 1] + k] = ws[i][k]
  <2>1. i - 1 \in 0 .. Len(ws) /\ i \in 0 .. Len(ws) /\ Len(ws) \in i .. Len(ws)
    OBVIOUS
  <2>2. t[i - 1] \in Seq(S) /\ ws[i] \in Seq(S) /\ t[i] \in Seq(S)
    BY <1>1, <2>1, ElementOfSeq DEF Grows
  <2>3. t[i] = t[i - 1] \o ws[i]
    BY <1>1 DEF Grows
  <2>9. Len(t[i - 1]) \in Nat /\ Len(ws[i]) \in Nat /\ Len(t[i]) \in Nat
    BY <2>2
  <2>4. /\ Len(t[i]) = Len(t[i - 1]) + Len(ws[i])
        /\ \A k \in 1 .. Len(ws[i]) : t[i][Len(t[i - 1]) + k] = ws[i][k]
    <3>1. Joins(t[i - 1], ws[i], t[i])
      BY <2>2, <2>3, Joined
    <3>2. QED
      BY <3>1 DEF Joins
  <2>5. /\ Len(t[i]) <= Len(text)
        /\ \A j \in 1 .. Len(t[i]) : text[j] = t[i][j]
    <3>1. \A n \in i .. Len(ws) :
             /\ Len(t[i]) <= Len(t[n])
             /\ \A j \in 1 .. Len(t[i]) : t[n][j] = t[i][j]
      BY <1>1, <2>1, GrowsPrefix
    <3>2. QED
      BY <2>1, <3>1
  <2>6. cuts[i] = Len(t[i]) /\ cuts[i - 1] = Len(t[i - 1])
    BY <2>1
  <2> HIDE DEF cuts, text
  <2>7. ASSUME NEW k \in 1 .. Len(ws[i]) PROVE text[cuts[i - 1] + k] = ws[i][k]
    <3>1. Len(t[i - 1]) + k \in 1 .. Len(t[i])
      <4>1. \A x, y \in Nat : k \in 1 .. y => x + k \in 1 .. x + y
        OBVIOUS
      <4>2. QED
        BY <2>9, <2>4, <4>1
    <3>2. QED
      BY <2>4, <2>5, <2>6, <3>1
  <2>8. QED
    BY <2>4, <2>5, <2>6, <2>7
<1> HIDE DEF cuts
<1>5. Cut(text, ws, cuts)
  BY <1>3, <1>4 DEF Cut
<1>6. QED
  BY <1>1, <1>2, <1>5

-----------------------------------------------------------------------------
(***************************************************************************)
(* How often a character stands in a text.                                 *)
(***************************************************************************)
LEMMA PlacesFinite ==
    ASSUME NEW S, NEW s \in Seq(S), NEW ch, NEW from \in Nat
    PROVE  IsFiniteSet(Places(s, ch, from)) /\ Places(s, ch, from) \subseteq from .. Len(s)
<1>1. Len(s) \in Nat /\ IsFiniteSet(from .. Len(s)) /\ Places(s, ch, from) \in SUBSET (from .. Len(s))
  BY FS_Interval DEF Places
<1>2. QED
  BY <1>1, FS_Subset

\* A character is counted zero times when it stands nowhere.
LEMMA CountNone ==
    ASSUME NEW S, NEW s \in Seq(S), NEW ch
    PROVE  /\ CountOf(s, ch) \in Nat
           /\ CountOf(s, ch) = 0 <=> \A i \in 1 .. Len(s) : s[i] # ch
<1>1. IsFiniteSet(Places(s, ch, 1))
  BY PlacesFinite
<1>2. /\ CountOf(s, ch) \in Nat
      /\ CountOf(s, ch) = 0 <=> Places(s, ch, 1) = {}
  BY <1>1, FS_CardinalityType, FS_EmptySet DEF CountOf
<1>3. QED
  BY <1>2 DEF Places

\* The count in a single character,
LEMMA CountOne ==
    ASSUME NEW c, NEW ch
    PROVE  CountOf(<<c>>, ch) = IF c = ch THEN 1 ELSE 0
<1>1. Places(<<c>>, ch, 1) = IF c = ch THEN {1} ELSE {}
  BY DEF Places
<1>2. QED
  BY <1>1, FS_EmptySet, FS_Singleton DEF CountOf

\* and in two texts one after the other.
LEMMA CountJoined ==
    ASSUME NEW S, NEW u \in Seq(S), NEW w \in Seq(S), NEW ch
    PROVE  CountOf(u \o w, ch) = CountOf(u, ch) + CountOf(w, ch)
<1> DEFINE v == u \o w
<1>0. v = u \o w
  OBVIOUS
<1> HIDE DEF v
<1>1. v \in Seq(S) /\ Joins(u, w, v)
  BY <1>0, Joined
<1> DEFINE P == Places(w, ch, 1)
           Q == {Len(u) + k : k \in P}
           g == [k \in P |-> Len(u) + k]
<1>2. /\ Len(u) \in Nat /\ Len(w) \in Nat /\ Len(v) = Len(u) + Len(w)
      /\ \A j \in 1 .. Len(u) : v[j] = u[j]
      /\ \A k \in 1 .. Len(w) : v[Len(u) + k] = w[k]
  BY <1>1 DEF Joins
<1>3. P \subseteq 1 .. Len(w) /\ IsFiniteSet(P) /\ IsFiniteSet(Places(u, ch, 1))
  BY PlacesFinite
<1>4. Places(v, ch, 1) = Places(u, ch, 1) \cup Q /\ Places(u, ch, 1) \cap Q = {}
  <2>1. ASSUME NEW j \in Places(v, ch, 1) PROVE j \in Places(u, ch, 1) \cup Q
    <3>1. j \in 1 .. Len(u) + Len(w) /\ v[j] = ch
      BY <1>2 DEF Places
    <3>2. CASE j <= Len(u)
      BY <1>2, <3>1, <3>2 DEF Places
    <3>3. CASE j > Len(u)
      <4>1. j - Len(u) \in 1 .. Len(w) /\ j = Len(u) + (j - Len(u))
        BY <1>2, <3>1, <3>3
      <4>2. w[j - Len(u)] = ch
        BY <1>2, <3>1, <4>1
      <4>3. QED
        BY <4>1, <4>2 DEF Places
    <3>4. QED
      BY <1>2, <3>1, <3>2, <3>3
  <2>2. Places(u, ch, 1) \subseteq Places(v, ch, 1)
    BY <1>2 DEF Places
  <2>3. ASSUME NEW k \in P PROVE Len(u) + k \in Places(v, ch, 1) /\ Len(u) + k \notin Places(u, ch, 1)
    <3>1. k \in 1 .. Len(w) /\ w[k] = ch
      BY DEF Places
    <3>2. QED
      BY <1>2, <3>1 DEF Places
  <2>4. QED
    BY <2>1, <2>2, <2>3
<1>5. g \in Bijection(P, Q)
  <2>1. \A k \in P : k \in Nat
    BY <1>3
  <2> HIDE DEF P
  <2>2. g \in [P -> Q] /\ \A y \in Q : \E k \in P : g[k] = y
    OBVIOUS
  <2>3. \A a, b \in P : g[a] = g[b] => a = b
    BY <1>2, <2>1
  <2> HIDE DEF Q
  <2>4. g \in Injection(P, Q) /\ g \in Surjection(P, Q)
    BY <2>2, <2>3 DEF Injection, Surjection, IsInjective
  <2>5. QED
    BY <2>4 DEF Bijection
<1>6. IsFiniteSet(Q) /\ Cardinality(Q) = Cardinality(P)
  <2>1. ExistsBijection(P, Q)
    <3> HIDE DEF P, Q, g
    <3> QED BY <1>5 DEF ExistsBijection
  <2> HIDE DEF P, Q, g
  <2>2. QED
    BY <1>3, <2>1, FS_Bijection
<1> HIDE DEF P, Q, g
<1>7. Cardinality(Places(u, ch, 1) \cup Q) =
        Cardinality(Places(u, ch, 1)) + Cardinality(Q) - Cardinality(Places(u, ch, 1) \cap Q)
  BY <1>3, <1>6, FS_Union
<1>8. /\ Cardinality(Places(u, ch, 1) \cap Q) = 0
      /\ Cardinality(P) \in Nat /\ Cardinality(Places(u, ch, 1)) \in Nat
  BY <1>3, <1>4, FS_EmptySet, FS_CardinalityType
<1>9. Cardinality(Places(v, ch, 1)) = Cardinality(Places(u, ch, 1)) + Cardinality(P)
  <2>1. Cardinality(Places(v, ch, 1)) = Cardinality(Places(u, ch, 1) \cup Q)
    BY <1>4, Zenon
  <2>2. \A x, y \in Nat : \A z, q : z = x + q - 0 /\ q = y => z = x + y
    OBVIOUS
  <2> QED
    BY <1>6, <1>7, <1>8, <2>1, <2>2
<1>10. QED
  BY <1>0, <1>9 DEF CountOf, P

\* If every piece has the character c times, c being 0 or 1, so many are in all.
LEMMA CountFlat ==
    ASSUME NEW S, NEW ws \in Seq(Seq(S)), NEW ch, NEW c \in {0, 1},
           \A i \in 1 .. Len(ws) : CountOf(ws[i], ch) = c
    PROVE  CountOf(FlattenSeq(ws), ch) = IF c = 1 THEN Len(ws) ELSE 0
<1>1. PICK t : Grows(S, ws, t) /\ FlattenSeq(ws) = t[Len(ws)]
  BY FlattenGrows
<1> DEFINE N == {n \in Nat : n \in 0 .. Len(ws) => CountOf(t[n], ch) = IF c = 1 THEN n ELSE 0}
<1>2. 0 \in N
  <2>1. t[0] = <<>> /\ <<>> \in Seq(S)
    BY <1>1, EmptySeq DEF Grows
  <2>2. CountOf(<<>>, ch) = 0
    <3>1. Places(<<>>, ch, 1) = {}
      BY DEF Places
    <3>2. QED
      BY <3>1, FS_EmptySet DEF CountOf
  <2>3. QED
    BY <2>1, <2>2
<1>3. ASSUME NEW n \in Nat, n \in N PROVE n + 1 \in N
  <2> SUFFICES ASSUME n + 1 \in 0 .. Len(ws)
               PROVE  CountOf(t[n + 1], ch) = IF c = 1 THEN n + 1 ELSE 0
    OBVIOUS
  <2>1. n + 1 \in 1 .. Len(ws) /\ (n + 1) - 1 = n /\ n \in 0 .. Len(ws)
    OBVIOUS
  <2>2. t[n] \in Seq(S) /\ ws[n + 1] \in Seq(S) /\ t[n + 1] = t[n] \o ws[n + 1]
    BY <1>1, <2>1, ElementOfSeq DEF Grows
  <2>3. CountOf(t[n + 1], ch) = CountOf(t[n], ch) + CountOf(ws[n + 1], ch)
    <3>1. CountOf(t[n] \o ws[n + 1], ch) = CountOf(t[n], ch) + CountOf(ws[n + 1], ch)
      <4>1. \A u, w \in Seq(S) : CountOf(u \o w, ch) = CountOf(u, ch) + CountOf(w, ch)
        BY CountJoined
      <4>2. QED
        BY <2>2, <4>1
    <3>2. QED
      BY <2>2, <3>1, Zenon
  <2>4. CountOf(ws[n + 1], ch) = c /\ CountOf(t[n], ch) = IF c = 1 THEN n ELSE 0
    BY <1>3, <2>1
  <2>5. QED
    BY <2>3, <2>4
<1>4. Nat \subseteq N
  <2> HIDE DEF N
  <2> QED BY <1>2, <1>3, SetInduction
<1>5. Len(ws) \in Nat /\ Len(ws) \in 0 .. Len(ws)
  OBVIOUS
<1>6. QED
  BY <1>1, <1>4, <1>5

-----------------------------------------------------------------------------
(***************************************************************************)
(* The form of a file, character by character.  The signs are added to     *)
(* STRING because the provers do not know that they are in it.             *)
(***************************************************************************)
Char == STRING \cup Signs

\* The characters of the form are different from each other.
LEMMA TheSigns ==
    /\ LBrack \in Signs /\ RBrack \in Signs /\ LBrace \in Signs
    /\ RBrace \in Signs /\ Equals \in Signs /\ Semi \in Signs
    /\ LBrack # RBrack /\ LBrack # LBrace /\ LBrack # RBrace /\ LBrack # Equals /\ LBrack # Semi
    /\ RBrack # LBrace /\ RBrack # RBrace /\ RBrack # Equals /\ RBrack # Semi
    /\ LBrace # RBrace /\ LBrace # Equals /\ LBrace # Semi
    /\ RBrace # Equals /\ RBrace # Semi
    /\ Equals # Semi
  BY Zenon DEF Signs, LBrack, RBrack, LBrace, RBrace, Equals, Semi

\* v is u with the character c behind it.
Ends(u, c, v) ==
    /\ Len(u) \in Nat /\ Len(v) = Len(u) + 1
    /\ \A j \in 1 .. Len(u) : v[j] = u[j]
    /\ v[Len(u) + 1] = c
    /\ \A ch : CountOf(v, ch) = CountOf(u, ch) + (IF c = ch THEN 1 ELSE 0)

\* One character more.
LEMMA Appended ==
    ASSUME NEW S, NEW u, NEW c \in S, u \in Seq(S), NEW v, v = u \o <<c>>
    PROVE  v \in Seq(S) /\ Ends(u, c, v)
<1>1. ASSUME NEW ch PROVE CountOf(v, ch) = CountOf(u, ch) + (IF c = ch THEN 1 ELSE 0)
  <2>1. <<c>> \in Seq(S)
    OBVIOUS
  <2>2. CountOf(u \o <<c>>, ch) = CountOf(u, ch) + CountOf(<<c>>, ch)
    BY <2>1, CountJoined
  <2>3. CountOf(v, ch) = CountOf(u \o <<c>>, ch)
    OBVIOUS
  <2>4. QED
    BY <2>2, <2>3, CountOne
<1>2. /\ v \in Seq(S) /\ Len(u) \in Nat /\ Len(v) = Len(u) + 1
      /\ \A j \in 1 .. Len(u) : v[j] = u[j]
      /\ v[Len(u) + 1] = c
  OBVIOUS
<1>3. QED
  BY <1>1, <1>2 DEF Ends

\* e is x, the sign c, y and the sign d: an expression, the head of a section,
\* and the section with its head for x.
Marked(e, x, c, y, d) ==
    /\ Len(x) \in Nat /\ Len(y) \in Nat
    /\ Len(e) = Len(x) + Len(y) + 2
    /\ \A j \in 1 .. Len(x) : e[j] = x[j]
    /\ e[Len(x) + 1] = c
    /\ \A k \in 1 .. Len(y) : e[Len(x) + 1 + k] = y[k]
    /\ e[Len(x) + Len(y) + 2] = d
    /\ \A ch : CountOf(e, ch) = CountOf(x, ch) + (IF c = ch THEN 1 ELSE 0)
                                 + CountOf(y, ch) + (IF d = ch THEN 1 ELSE 0)

\* Two texts with a sign behind each.
LEMMA MarkedIs ==
    ASSUME NEW S, NEW x \in Seq(S), NEW y \in Seq(S), NEW c \in S, NEW d \in S,
           NEW e, e = x \o <<c>> \o y \o <<d>>
    PROVE  e \in Seq(S) /\ Marked(e, x, c, y, d)
<1>1. PICK p, q : p = x \o <<c>> /\ q = p \o y
  OBVIOUS
<1>2. e = q \o <<d>>
  BY <1>1
<1>3. /\ p \in Seq(S) /\ Len(x) \in Nat /\ Len(p) = Len(x) + 1
      /\ \A j \in 1 .. Len(x) : p[j] = x[j]
      /\ p[Len(x) + 1] = c
  <2>1. p \in Seq(S) /\ Ends(x, c, p)
    BY <1>1, Appended
  <2>2. QED
    BY <2>1 DEF Ends
<1>4. /\ q \in Seq(S) /\ Len(y) \in Nat /\ Len(q) = Len(x) + 1 + Len(y)
      /\ \A j \in 1 .. Len(x) + 1 : q[j] = p[j]
      /\ \A k \in 1 .. Len(y) : q[Len(x) + 1 + k] = y[k]
  <2>1. q \in Seq(S) /\ Joins(p, y, q)
    BY <1>1, <1>3, Joined
  <2>2. QED
    BY <1>3, <2>1 DEF Joins
<1>5. /\ e \in Seq(S) /\ Len(e) = Len(x) + 1 + Len(y) + 1
      /\ \A j \in 1 .. Len(x) + 1 + Len(y) : e[j] = q[j]
      /\ e[Len(x) + 1 + Len(y) + 1] = d
  <2>1. e \in Seq(S) /\ Ends(q, d, e)
    BY <1>2, <1>4, Appended
  <2>2. QED
    BY <1>4, <2>1 DEF Ends
<1>6. Len(x) + 1 + Len(y) + 1 = Len(x) + Len(y) + 2
  BY <1>3, <1>4
<1>7. ASSUME NEW j \in 1 .. Len(x) PROVE e[j] = x[j]
  <2>1. j \in 1 .. Len(x) + 1 /\ j \in 1 .. Len(x) + 1 + Len(y)
    BY <1>3, <1>4
  <2>2. QED
    BY <1>3, <1>4, <1>5, <2>1
<1>8. e[Len(x) + 1] = c
  <2>1. Len(x) + 1 \in 1 .. Len(x) + 1 /\ Len(x) + 1 \in 1 .. Len(x) + 1 + Len(y)
    BY <1>3, <1>4
  <2>2. QED
    BY <1>3, <1>4, <1>5, <2>1
<1>9. ASSUME NEW k \in 1 .. Len(y) PROVE e[Len(x) + 1 + k] = y[k]
  <2>1. Len(x) + 1 + k \in 1 .. Len(x) + 1 + Len(y)
    BY <1>3, <1>4
  <2>2. QED
    BY <1>4, <1>5, <2>1
<1>10. ASSUME NEW ch
       PROVE  CountOf(e, ch) = CountOf(x, ch) + (IF c = ch THEN 1 ELSE 0)
                                 + CountOf(y, ch) + (IF d = ch THEN 1 ELSE 0)
  <2>1. CountOf(p, ch) = CountOf(x, ch) + (IF c = ch THEN 1 ELSE 0)
    <3>1. Ends(x, c, p)
      BY <1>1, Appended
    <3>2. QED
      BY <3>1 DEF Ends
  <2>2. CountOf(q, ch) = CountOf(p, ch) + CountOf(y, ch)
    <3>1. p \in Seq(S)
      BY <1>3
    <3>2. CountOf(p \o y, ch) = CountOf(p, ch) + CountOf(y, ch)
      BY <3>1, CountJoined
    <3>3. QED
      BY <1>1, <3>2
  <2>3. CountOf(e, ch) = CountOf(q, ch) + (IF d = ch THEN 1 ELSE 0)
    <3>1. Ends(q, d, e)
      BY <1>2, <1>4, Appended
    <3>2. QED
      BY <3>1 DEF Ends
  <2>4. QED
    BY <2>1, <2>2, <2>3
<1>11. Marked(e, x, c, y, d)
  BY <1>3, <1>4, <1>5, <1>6, <1>7, <1>8, <1>9, <1>10 DEF Marked
<1>12. QED
  BY <1>5, <1>11

\* How often the characters of the form stand in text.
Times(text, ch, n) == CountOf(text, ch) = n

Holds(text, bracket, brace, sign) ==
    /\ Times(text, LBrack, bracket) /\ Times(text, RBrack, bracket)
    /\ Times(text, LBrace, brace) /\ Times(text, RBrace, brace)
    /\ Times(text, Equals, sign) /\ Times(text, Semi, sign)

\* No sign stands in a word.
LEMMA WordText ==
    ASSUME NEW w \in Word
    PROVE  w \in Seq(Char) /\ Holds(w, 0, 0, 0)
<1>1. w \in Seq(STRING) /\ \A i \in 1 .. Len(w) : w[i] \notin Signs
  BY DEF Word
<1>2. w \in Seq(Char)
  BY <1>1, SeqMonotonic DEF Char
<1>3. \A ch \in Signs : Times(w, ch, 0)
  BY <1>1, <1>2, CountNone DEF Times
<1>4. QED
  BY <1>2, <1>3, TheSigns DEF Holds

\* The same, at a place.
LEMMA WordPlain ==
    ASSUME NEW w \in Word, NEW j \in 1 .. Len(w)
    PROVE  w[j] \notin Signs
  BY DEF Word

\* The counts of a marked text: what comes from its first text,
LEMMA TimesLeft ==
    ASSUME NEW e, NEW x, NEW c, NEW y, NEW d, Marked(e, x, c, y, d), NEW ch, ch # c, ch # d,
           NEW n \in Nat, Times(x, ch, n), Times(y, ch, 0)
    PROVE  Times(e, ch, n)
<1>1. CountOf(e, ch) = CountOf(x, ch) + (IF c = ch THEN 1 ELSE 0)
                         + CountOf(y, ch) + (IF d = ch THEN 1 ELSE 0)
  BY DEF Marked
<1>2. QED
  BY <1>1 DEF Times

\* from its second,
LEMMA TimesRight ==
    ASSUME NEW e, NEW x, NEW c, NEW y, NEW d, Marked(e, x, c, y, d), NEW ch, ch # c, ch # d,
           NEW n \in Nat, Times(x, ch, 0), Times(y, ch, n)
    PROVE  Times(e, ch, n)
<1>1. CountOf(e, ch) = CountOf(x, ch) + (IF c = ch THEN 1 ELSE 0)
                         + CountOf(y, ch) + (IF d = ch THEN 1 ELSE 0)
  BY DEF Marked
<1>2. QED
  BY <1>1 DEF Times

\* and from its own signs.
LEMMA TimesSign ==
    ASSUME NEW e, NEW x, NEW c, NEW y, NEW d, Marked(e, x, c, y, d), c # d,
           NEW ch, ch = c \/ ch = d, Times(x, ch, 0), Times(y, ch, 0)
    PROVE  Times(e, ch, 1)
<1>1. CountOf(e, ch) = CountOf(x, ch) + (IF c = ch THEN 1 ELSE 0)
                         + CountOf(y, ch) + (IF d = ch THEN 1 ELSE 0)
  BY DEF Marked
<1>2. QED
  BY <1>1 DEF Times

\* An expression holds one "=" and one ";".
LEMMA ExprIs ==
    ASSUME NEW v \in Variable
    PROVE  /\ Expr(v) \in Seq(Char)
           /\ Marked(Expr(v), v.var, Equals, v.value, Semi)
           /\ Holds(Expr(v), 0, 0, 1)
<1>1. PICK x, y : x = v.var /\ y = v.value
  OBVIOUS
<1>2. x \in Word /\ y \in Word
  BY <1>1 DEF Variable
<1>3. x \in Seq(Char) /\ y \in Seq(Char) /\ Holds(x, 0, 0, 0) /\ Holds(y, 0, 0, 0)
  BY <1>2, WordText
<1>4. PICK e : e = x \o <<Equals>> \o y \o <<Semi>>
  OBVIOUS
<1>5. Equals \in Char /\ Semi \in Char
  BY TheSigns DEF Char
<1>6. e \in Seq(Char) /\ Marked(e, x, Equals, y, Semi)
  BY <1>3, <1>4, <1>5, MarkedIs
<1>7. Holds(e, 0, 0, 1)
  <2>1. 0 \in Nat
    OBVIOUS
  <2>2. Times(e, LBrack, 0) /\ Times(e, RBrack, 0)
    BY <1>3, <1>6, <2>1, TimesLeft, TheSigns DEF Holds
  <2>3. Times(e, LBrace, 0) /\ Times(e, RBrace, 0)
    BY <1>3, <1>6, <2>1, TimesLeft, TheSigns DEF Holds
  <2>4. Times(e, Equals, 1) /\ Times(e, Semi, 1)
    BY <1>3, <1>6, TimesSign, TheSigns DEF Holds
  <2>5. QED
    BY <2>1, <2>2, <2>3, <2>4 DEF Holds
<1>8. e = Expr(v)
  BY <1>1, <1>4 DEF Expr
<1>9. QED
  BY <1>1, <1>6, <1>7, <1>8

\* Pieces that each hold every character of the form at most once.
LEMMA HoldsFlat ==
    ASSUME NEW ws \in Seq(Seq(Char)), NEW a \in {0, 1}, NEW b \in {0, 1}, NEW c \in {0, 1},
           \A i \in 1 .. Len(ws) : Holds(ws[i], a, b, c),
           NEW n, n = Len(ws)
    PROVE  Holds(FlattenSeq(ws), IF a = 1 THEN n ELSE 0, IF b = 1 THEN n ELSE 0,
                 IF c = 1 THEN n ELSE 0)
<1> DEFINE Flat(ch, k) == Times(FlattenSeq(ws), ch, IF k = 1 THEN n ELSE 0)
<1>1. Flat(LBrack, a)
  <2>1. \A i \in 1 .. Len(ws) : CountOf(ws[i], LBrack) = a
    BY DEF Holds, Times
  <2>2. QED
    BY <2>1, CountFlat DEF Times
<1>2. Flat(RBrack, a)
  <2>1. \A i \in 1 .. Len(ws) : CountOf(ws[i], RBrack) = a
    BY DEF Holds, Times
  <2>2. QED
    BY <2>1, CountFlat DEF Times
<1>3. Flat(LBrace, b)
  <2>1. \A i \in 1 .. Len(ws) : CountOf(ws[i], LBrace) = b
    BY DEF Holds, Times
  <2>2. QED
    BY <2>1, CountFlat DEF Times
<1>4. Flat(RBrace, b)
  <2>1. \A i \in 1 .. Len(ws) : CountOf(ws[i], RBrace) = b
    BY DEF Holds, Times
  <2>2. QED
    BY <2>1, CountFlat DEF Times
<1>5. Flat(Equals, c)
  <2>1. \A i \in 1 .. Len(ws) : CountOf(ws[i], Equals) = c
    BY DEF Holds, Times
  <2>2. QED
    BY <2>1, CountFlat DEF Times
<1>6. Flat(Semi, c)
  <2>1. \A i \in 1 .. Len(ws) : CountOf(ws[i], Semi) = c
    BY DEF Holds, Times
  <2>2. QED
    BY <2>1, CountFlat DEF Times
<1>7. QED
  BY <1>1, <1>2, <1>3, <1>4, <1>5, <1>6 DEF Holds

\* The expressions of a section, one after the other.
ExprsOf(vs) == [i \in DOMAIN vs |-> Expr(vs[i])]

\* A body holds them as often as it has variables, and no bracket or brace.
LEMMA BodyIs ==
    ASSUME NEW vs \in Seq(Variable)
    PROVE  /\ BodyOf(vs) \in Seq(Char)
           /\ Holds(BodyOf(vs), 0, 0, Len(vs))
           /\ Len(ExprsOf(vs)) = Len(vs)
           /\ \E cuts : Cut(BodyOf(vs), ExprsOf(vs), cuts)
<1>1. PICK n \in Nat : n = Len(vs) /\ DOMAIN vs = 1 .. n /\ \A i \in 1 .. n : vs[i] \in Variable
  BY ElementOfSeq, LenProperties
<1>2. ExprsOf(vs) = [i \in 1 .. n |-> Expr(vs[i])] /\ BodyOf(vs) = FlattenSeq(ExprsOf(vs))
  BY <1>1 DEF ExprsOf, BodyOf
<1>3. \A i \in 1 .. n : Expr(vs[i]) \in Seq(Char) /\ Holds(Expr(vs[i]), 0, 0, 1)
  BY <1>1, ExprIs
<1>4. /\ ExprsOf(vs) \in Seq(Seq(Char)) /\ Len(ExprsOf(vs)) = n
      /\ \A i \in 1 .. n : ExprsOf(vs)[i] = Expr(vs[i])
  BY <1>2, <1>3
<1>5. \A i \in 1 .. Len(ExprsOf(vs)) : Holds(ExprsOf(vs)[i], 0, 0, 1)
  BY <1>3, <1>4
<1>6. Holds(FlattenSeq(ExprsOf(vs)), 0, 0, n)
  <2>1. Holds(FlattenSeq(ExprsOf(vs)), IF 0 = 1 THEN n ELSE 0, IF 0 = 1 THEN n ELSE 0,
              IF 1 = 1 THEN n ELSE 0)
    BY <1>4, <1>5, HoldsFlat
  <2>2. QED
    BY <2>1
<1>7. QED
  BY <1>1, <1>2, <1>4, <1>6, FlattenCut

\* The head of a section; the section is the head with its body in braces.
HeadOf(s) == s.name \o <<LBrack>> \o s.arg \o <<RBrack>>

\* A section holds each bracket and each brace once.
LEMMA WrittenIs ==
    ASSUME NEW s \in Section
    PROVE  /\ Written(s) \in Seq(Char)
           /\ Marked(HeadOf(s), s.name, LBrack, s.arg, RBrack)
           /\ Marked(Written(s), HeadOf(s), LBrace, BodyOf(s.vars), RBrace)
           /\ Holds(Written(s), 1, 1, Len(s.vars))
<1>1. PICK x, y, z : x = s.name /\ y = s.arg /\ z = BodyOf(s.vars)
  OBVIOUS
<1>2. x \in Word /\ y \in Word /\ s.vars \in Seq(Variable)
  BY <1>1 DEF Section
<1>3. x \in Seq(Char) /\ y \in Seq(Char) /\ Holds(x, 0, 0, 0) /\ Holds(y, 0, 0, 0)
  BY <1>2, WordText
<1>4. PICK n \in Nat : n = Len(s.vars)
  BY <1>2
<1>5. z \in Seq(Char) /\ Holds(z, 0, 0, n)
  BY <1>1, <1>2, <1>4, BodyIs
<1>6. PICK h, w : h = x \o <<LBrack>> \o y \o <<RBrack>> /\ w = h \o <<LBrace>> \o z \o <<RBrace>>
  OBVIOUS
<1>7. LBrack \in Char /\ RBrack \in Char /\ LBrace \in Char /\ RBrace \in Char
  BY TheSigns DEF Char
<1>8. h \in Seq(Char) /\ Marked(h, x, LBrack, y, RBrack)
  BY <1>3, <1>6, <1>7, MarkedIs
<1>9. w \in Seq(Char) /\ Marked(w, h, LBrace, z, RBrace)
  BY <1>5, <1>6, <1>7, <1>8, MarkedIs
<1>10. Holds(h, 1, 0, 0)
  <2>1. 0 \in Nat
    OBVIOUS
  <2>2. Times(h, LBrack, 1) /\ Times(h, RBrack, 1)
    BY <1>3, <1>8, TimesSign, TheSigns DEF Holds
  <2>3. Times(h, LBrace, 0) /\ Times(h, RBrace, 0)
    BY <1>3, <1>8, <2>1, TimesLeft, TheSigns DEF Holds
  <2>4. Times(h, Equals, 0) /\ Times(h, Semi, 0)
    BY <1>3, <1>8, <2>1, TimesLeft, TheSigns DEF Holds
  <2>5. QED
    BY <2>2, <2>3, <2>4 DEF Holds
<1>11. Holds(w, 1, 1, n)
  <2>1. 1 \in Nat
    OBVIOUS
  <2>2. Times(w, LBrack, 1) /\ Times(w, RBrack, 1)
    BY <1>5, <1>9, <1>10, <2>1, TimesLeft, TheSigns DEF Holds
  <2>3. Times(w, LBrace, 1) /\ Times(w, RBrace, 1)
    BY <1>5, <1>9, <1>10, TimesSign, TheSigns DEF Holds
  <2>4. Times(w, Equals, n) /\ Times(w, Semi, n)
    BY <1>5, <1>9, <1>10, TimesRight, TheSigns DEF Holds
  <2>5. QED
    BY <2>2, <2>3, <2>4 DEF Holds
<1>12. h = HeadOf(s) /\ w = Written(s)
  <2>1. h = HeadOf(s)
    BY <1>1, <1>6 DEF HeadOf
  <2>2. QED
    BY <1>1, <1>6, <2>1 DEF HeadOf, Written
<1>13. QED
  BY <1>1, <1>4, <1>8, <1>9, <1>11, <1>12

\* The sections of a file, one after the other.
WrittenOf(doc) == [i \in DOMAIN doc |-> Written(doc[i])]

\* A file holds as many braces as it has sections, and can be cut into them.
LEMMA TextIs ==
    ASSUME NEW doc \in Seq(Section)
    PROVE  /\ TextOf(doc) \in Seq(Char)
           /\ CountOf(TextOf(doc), LBrace) = Len(doc)
           /\ CountOf(TextOf(doc), RBrace) = Len(doc)
           /\ Len(WrittenOf(doc)) = Len(doc)
           /\ \A i \in 1 .. Len(doc) : WrittenOf(doc)[i] = Written(doc[i])
           /\ \E cuts : Cut(TextOf(doc), WrittenOf(doc), cuts)
<1>1. PICK n \in Nat : n = Len(doc) /\ DOMAIN doc = 1 .. n /\ \A i \in 1 .. n : doc[i] \in Section
  BY ElementOfSeq, LenProperties
<1>2. WrittenOf(doc) = [i \in 1 .. n |-> Written(doc[i])] /\ TextOf(doc) = FlattenSeq(WrittenOf(doc))
  BY <1>1 DEF WrittenOf, TextOf
<1>3. \A i \in 1 .. n : Written(doc[i]) \in Seq(Char) /\ Holds(Written(doc[i]), 1, 1, Len(doc[i].vars))
  BY <1>1, WrittenIs
<1>4. /\ WrittenOf(doc) \in Seq(Seq(Char)) /\ Len(WrittenOf(doc)) = n
      /\ \A i \in 1 .. n : WrittenOf(doc)[i] = Written(doc[i])
  BY <1>2, <1>3
<1>5. CountOf(FlattenSeq(WrittenOf(doc)), LBrace) = IF 1 = 1 THEN Len(WrittenOf(doc)) ELSE 0
  <2>1. \A i \in 1 .. Len(WrittenOf(doc)) : CountOf(WrittenOf(doc)[i], LBrace) = 1
    BY <1>3, <1>4 DEF Holds, Times
  <2>2. QED
    BY <1>4, <2>1, CountFlat
<1>6. CountOf(FlattenSeq(WrittenOf(doc)), RBrace) = IF 1 = 1 THEN Len(WrittenOf(doc)) ELSE 0
  <2>1. \A i \in 1 .. Len(WrittenOf(doc)) : CountOf(WrittenOf(doc)[i], RBrace) = 1
    BY <1>3, <1>4 DEF Holds, Times
  <2>2. QED
    BY <1>4, <2>1, CountFlat
<1>7. FlattenSeq(WrittenOf(doc)) \in Seq(Char) /\ \E cuts : Cut(FlattenSeq(WrittenOf(doc)), WrittenOf(doc), cuts)
  BY <1>4, FlattenCut
<1>8. QED
  BY <1>1, <1>2, <1>4, <1>5, <1>6, <1>7

-----------------------------------------------------------------------------
(***************************************************************************)
(* Reading one section.                                                    *)
(***************************************************************************)
LEMMA MinIs ==
    ASSUME NEW s, s \subseteq Int, NEW m \in s, \A y \in s : m <= y
    PROVE  Min(s) = m
<1>1. \A x \in s : (\A y \in s : x <= y) => x = m
  OBVIOUS
<1>2. QED
  BY <1>1 DEF Min

\* A text that stands at p in t is what SubSeq cuts out there.
LEMMA SubSeqIs ==
    ASSUME NEW S, NEW w \in Seq(S), NEW t, NEW p \in Int, NEW q \in Int, q = p + Len(w) - 1,
           \A j \in 1 .. Len(w) : t[p + j - 1] = w[j]
    PROVE  SubSeq(t, p, q) = w
<1>1. Len(w) \in Nat /\ \A j \in 1 .. Len(w) : w[j] \in S
  BY LenProperties, ElementOfSeq
<1>2. \A i \in p .. q : t[i] \in S
  <2> SUFFICES ASSUME NEW i \in p .. q PROVE t[i] \in S
    OBVIOUS
  <2>1. i - p + 1 \in 1 .. Len(w) /\ p + (i - p + 1) - 1 = i
    BY <1>1
  <2>2. QED
    BY <1>1, <2>1
<1>3. /\ SubSeq(t, p, q) \in Seq(S)
      /\ Len(SubSeq(t, p, q)) = IF p <= q THEN q - p + 1 ELSE 0
      /\ \A i \in 1 .. q - p + 1 : SubSeq(t, p, q)[i] = t[p + i - 1]
  BY <1>2, SubSeqProperties
<1>4. Len(SubSeq(t, p, q)) = Len(w)
  BY <1>1, <1>3
<1>5. \A i \in 1 .. Len(SubSeq(t, p, q)) : SubSeq(t, p, q)[i] = w[i]
  BY <1>1, <1>3, <1>4
<1>6. QED
  BY <1>3, <1>4, <1>5, SeqEqual

\* The section s stands in the buffer behind the place o.
Stands(s, o) ==
    /\ o \in Nat
    /\ o + Len(Written(s)) <= Len(buf)
    /\ \A k \in 1 .. Len(Written(s)) : buf[o + k] = Written(s)[k]

\* Its characters, op and cl being the places of its brackets and en its end.
Layout(s, op, cl, en) ==
    /\ op = f + Len(s.name)
    /\ cl = op + Len(s.arg) + 1
    /\ en = cl + Len(BodyOf(s.vars)) + 2
    /\ f \in Nat /\ op \in Nat /\ cl \in Nat /\ en \in Nat
    /\ 1 <= f /\ f < op /\ op < cl /\ cl + 2 <= en /\ en <= Len(buf)
    /\ \A j \in 1 .. Len(s.name) : buf[f + j - 1] = s.name[j]
    /\ buf[op] = LBrack
    /\ \A j \in 1 .. Len(s.arg) : buf[op + 1 + j - 1] = s.arg[j]
    /\ buf[cl] = RBrack
    /\ buf[cl + 1] = LBrace
    /\ \A j \in 1 .. Len(BodyOf(s.vars)) : buf[cl + 2 + j - 1] = BodyOf(s.vars)[j]
    /\ buf[en] = RBrace

\* Where the parts of a section stand.
LEMMA StandsLayout ==
    ASSUME f \in Nat, 1 <= f, NEW s \in Section, Stands(s, f - 1)
    PROVE  \E op, cl, en : Layout(s, op, cl, en) /\ en = f - 1 + Len(Written(s))
<1>1. PICK x, y, z, h, w : /\ x = s.name /\ y = s.arg /\ z = BodyOf(s.vars)
                           /\ h = HeadOf(s) /\ w = Written(s)
  OBVIOUS
<1>2. Marked(h, x, LBrack, y, RBrack) /\ Marked(w, h, LBrace, z, RBrace)
  BY <1>1, WrittenIs
<1>3. /\ Len(x) \in Nat /\ Len(y) \in Nat /\ Len(h) = Len(x) + Len(y) + 2
      /\ \A j \in 1 .. Len(x) : h[j] = x[j]
      /\ h[Len(x) + 1] = LBrack
      /\ \A k \in 1 .. Len(y) : h[Len(x) + 1 + k] = y[k]
      /\ h[Len(x) + Len(y) + 2] = RBrack
  BY <1>2 DEF Marked
<1>4. /\ Len(z) \in Nat /\ Len(w) = Len(h) + Len(z) + 2
      /\ \A j \in 1 .. Len(h) : w[j] = h[j]
      /\ w[Len(h) + 1] = LBrace
      /\ \A k \in 1 .. Len(z) : w[Len(h) + 1 + k] = z[k]
      /\ w[Len(h) + Len(z) + 2] = RBrace
  BY <1>2 DEF Marked
<1>5. /\ f - 1 + Len(w) <= Len(buf)
      /\ \A k \in 1 .. Len(w) : buf[f - 1 + k] = w[k]
  BY <1>1 DEF Stands
<1>6. x # <<>> /\ x \in Seq(STRING)
  BY <1>1 DEF Section, Word
<1>7. Len(x) > 0
  BY <1>6, EmptySeq
<1> DEFINE op == f + Len(x)
           cl == op + Len(y) + 1
           en == cl + Len(z) + 2
<1>8. /\ Len(x) \in Nat /\ Len(y) \in Nat /\ Len(z) \in Nat
      /\ Len(h) = Len(x) + Len(y) + 2 /\ Len(w) = Len(x) + Len(y) + Len(z) + 4
  BY <1>3, <1>4
<1>9. f - 1 + Len(w) <= Len(buf)
  BY <1>5
<1>10. /\ op \in Nat /\ cl \in Nat /\ en \in Nat
      /\ 1 <= f /\ f < op /\ op < cl /\ cl + 2 <= en /\ en = f - 1 + Len(w) /\ en <= Len(buf)
  <2>1. op \in Nat /\ cl \in Nat /\ en \in Nat /\ f < op /\ op < cl /\ cl + 2 <= en
    BY <1>7, <1>8
  <2>2. en = f - 1 + Len(w)
    BY <1>8
  <2>3. QED
    BY <2>1, <2>2, <1>9
<1>11. ASSUME NEW j \in 1 .. Len(x) PROVE buf[f + j - 1] = x[j]
  <2>1. j \in 1 .. Len(h) /\ j \in 1 .. Len(w) /\ f - 1 + j = f + j - 1
    BY <1>8
  <2>2. QED
    BY <1>3, <1>4, <1>5, <2>1
<1>12. buf[op] = LBrack
  <2>1. Len(x) + 1 \in 1 .. Len(h) /\ Len(x) + 1 \in 1 .. Len(w) /\ f - 1 + (Len(x) + 1) = op
    BY <1>8
  <2>2. QED
    BY <1>3, <1>4, <1>5, <2>1
<1>13. ASSUME NEW j \in 1 .. Len(y) PROVE buf[op + 1 + j - 1] = y[j]
  <2>1. /\ Len(x) + 1 + j \in 1 .. Len(h) /\ Len(x) + 1 + j \in 1 .. Len(w)
        /\ f - 1 + (Len(x) + 1 + j) = op + 1 + j - 1
    BY <1>8
  <2>2. PICK k : k = Len(x) + 1 + j
    OBVIOUS
  <2>3. h[k] = y[j]
    BY <1>3, <2>2
  <2>4. w[k] = h[k]
    BY <1>4, <2>1, <2>2
  <2>5. buf[f - 1 + k] = w[k]
    BY <1>5, <2>1, <2>2
  <2>6. QED
    BY <2>1, <2>2, <2>3, <2>4, <2>5
<1>14. buf[cl] = RBrack
  <2>1. /\ Len(x) + Len(y) + 2 \in 1 .. Len(h) /\ Len(x) + Len(y) + 2 \in 1 .. Len(w)
        /\ f - 1 + (Len(x) + Len(y) + 2) = cl
    BY <1>8
  <2>2. QED
    BY <1>3, <1>4, <1>5, <2>1
<1>15. buf[cl + 1] = LBrace
  <2>1. Len(h) + 1 \in 1 .. Len(w) /\ f - 1 + (Len(h) + 1) = cl + 1
    BY <1>8
  <2>2. QED
    BY <1>4, <1>5, <2>1
<1>16. ASSUME NEW j \in 1 .. Len(z) PROVE buf[cl + 2 + j - 1] = z[j]
  <2>1. Len(h) + 1 + j \in 1 .. Len(w) /\ f - 1 + (Len(h) + 1 + j) = cl + 2 + j - 1
    BY <1>8
  <2>2. QED
    BY <1>4, <1>5, <2>1
<1>17. buf[en] = RBrace
  <2>1. Len(h) + Len(z) + 2 \in 1 .. Len(w) /\ f - 1 + (Len(h) + Len(z) + 2) = en
    BY <1>8
  <2>2. QED
    BY <1>4, <1>5, <2>1, SMTT(20)
<1>18. op = f + Len(x) /\ cl = op + Len(y) + 1 /\ en = cl + Len(z) + 2
  OBVIOUS
<1> HIDE DEF op, cl, en
<1>19. Layout(s, op, cl, en)
  BY <1>1, <1>10, <1>11, <1>12, <1>13, <1>14, <1>15, <1>16, <1>17, <1>18 DEF Layout
<1>20. QED
  BY <1>1, <1>10, <1>19

\* What read_section() is to find of the section s.
Parsed(s) == [name |-> s.name, arg |-> s.arg, data |-> BodyOf(s.vars)]

\* A body without variables is empty, any other has a line.
LEMMA BodyPlain ==
    ASSUME NEW vs \in Seq(Variable)
    PROVE  /\ Len(BodyOf(vs)) \in Nat
           /\ \A j \in 1 .. Len(BodyOf(vs)) : BodyOf(vs)[j] \notin {LBrack, RBrack, LBrace, RBrace}
           /\ vs = <<>> <=> BodyOf(vs) = <<>>
           /\ vs # <<>> => \E j \in 1 .. Len(BodyOf(vs)) : BodyOf(vs)[j] = Semi
<1>1. PICK t : t = BodyOf(vs)
  OBVIOUS
<1>2. PICK n \in Nat : n = Len(vs)
  OBVIOUS
<1>3. t \in Seq(Char) /\ Holds(t, 0, 0, n) /\ Len(ExprsOf(vs)) = n
  BY <1>1, <1>2, BodyIs
<1>4. CountOf(t, LBrack) = 0 /\ CountOf(t, RBrack) = 0 /\ CountOf(t, LBrace) = 0
      /\ CountOf(t, RBrace) = 0 /\ CountOf(t, Semi) = n
  BY <1>3 DEF Holds, Times
<1>5. Len(t) \in Nat /\ \A ch : CountOf(t, ch) = 0 <=> \A j \in 1 .. Len(t) : t[j] # ch
  BY <1>3, CountNone
<1>6. vs = <<>> => t = <<>>
  <2> SUFFICES ASSUME vs = <<>> PROVE t = <<>>
    OBVIOUS
  <2>1. n = 0
    BY <1>2
  <2>2. PICK cuts : Cut(t, ExprsOf(vs), cuts)
    BY <1>1, BodyIs
  <2>3. Len(t) = 0
    BY <1>3, <2>1, <2>2 DEF Cut
  <2>4. QED
    BY <1>3, <2>3, EmptySeq
<1>7. vs # <<>> => \E j \in 1 .. Len(t) : t[j] = Semi
  <2>1. vs # <<>> => n # 0
    BY <1>2, EmptySeq
  <2>2. QED
    BY <1>4, <1>5, <2>1
<1>8. vs # <<>> => t # <<>>
  BY <1>7, <1>5
<1>9. QED
  BY <1>1, <1>4, <1>5, <1>6, <1>7, <1>8

\* What read_section() looks for is where the form says.
LEMMA LayoutFound ==
    ASSUME NEW s \in Section, NEW op, NEW cl, NEW en, Layout(s, op, cl, en), Len(buf) \in Nat
    PROVE  /\ Places(buf, RBrace, f) # {} /\ Seen(LBrace, f) # {}
           /\ ~HeadTooShort /\ HeadValid
           /\ Open = op /\ Close = cl /\ Body = cl + 2 /\ End = en
           /\ Seen(RBrack, Open + 1) # {}
           /\ Places(buf, RBrace, Body) # {}
           /\ Min(Places(buf, RBrace, Body)) = en
           /\ Lines = 0 <=> s.vars = <<>>
<1>1. PICK x, y, z : x = s.name /\ y = s.arg /\ z = BodyOf(s.vars)
  OBVIOUS
<1>2. /\ op = f + Len(x) /\ cl = op + Len(y) + 1 /\ en = cl + Len(z) + 2
      /\ f \in Nat /\ op \in Nat /\ cl \in Nat /\ en \in Nat
      /\ 1 <= f /\ f < op /\ op < cl /\ cl + 2 <= en /\ en <= Len(buf)
      /\ buf[op] = LBrack /\ buf[cl] = RBrack /\ buf[cl + 1] = LBrace /\ buf[en] = RBrace
  BY <1>1 DEF Layout
<1>3. /\ f \in Nat /\ op \in Nat /\ cl \in Nat /\ en \in Nat
       /\ 1 <= f /\ f < op /\ op < cl /\ cl + 2 <= en /\ en <= Len(buf)
  BY <1>2
<1>4. /\ buf[op] = LBrack /\ buf[cl] = RBrack /\ buf[cl + 1] = LBrace /\ buf[en] = RBrace
  BY <1>2
<1>5. x \in Word /\ y \in Word /\ s.vars \in Seq(Variable)
  BY <1>1 DEF Section
<1>6. Len(x) \in Nat /\ Len(y) \in Nat /\ Len(z) \in Nat
  BY <1>1, <1>5, WordText, BodyPlain
<1>7. ASSUME NEW j \in f .. op - 1
      PROVE  buf[j] \notin {LBrack, RBrack, LBrace, RBrace}
  <2>1. j - f + 1 \in 1 .. Len(x) /\ f + (j - f + 1) - 1 = j
    BY <1>2, <1>6
  <2>2. buf[j] = x[j - f + 1]
    BY <1>1, <2>1 DEF Layout
  <2>3. x[j - f + 1] \notin Signs
    BY <1>5, <2>1, WordPlain
  <2>4. QED
    BY <2>2, <2>3, TheSigns
<1>8. ASSUME NEW j \in op + 1 .. cl - 1
      PROVE  buf[j] \notin {LBrack, RBrack, LBrace, RBrace}
  <2>1. j - op \in 1 .. Len(y) /\ op + 1 + (j - op) - 1 = j
    BY <1>2, <1>6
  <2>2. buf[j] = y[j - op]
    BY <1>1, <2>1 DEF Layout
  <2>3. y[j - op] \notin Signs
    BY <1>5, <2>1, WordPlain
  <2>4. QED
    BY <2>2, <2>3, TheSigns
<1>9. ASSUME NEW j \in cl + 2 .. en - 1
      PROVE  buf[j] \notin {LBrack, RBrack, LBrace, RBrace}
  <2>1. j - cl - 1 \in 1 .. Len(z) /\ cl + 2 + (j - cl - 1) - 1 = j
    BY <1>2, <1>6
  <2>2. buf[j] = z[j - cl - 1]
    BY <1>1, <2>1 DEF Layout
  <2>3. QED
    BY <1>1, <1>5, <2>1, <2>2, BodyPlain
<1>10. ASSUME NEW j \in f .. en
      PROVE  /\ buf[j] = LBrack <=> j = op
             /\ buf[j] = RBrack <=> j = cl
             /\ buf[j] = LBrace <=> j = cl + 1
             /\ buf[j] = RBrace <=> j = en
  <2>1. \/ j \in f .. op - 1 \/ j = op \/ j \in op + 1 .. cl - 1 \/ j = cl \/ j = cl + 1
        \/ j \in cl + 2 .. en - 1 \/ j = en
    <3>1. j \in Int /\ f <= j /\ j <= en
      BY <1>3, <1>10
    <3>2. \/ j <= op - 1 \/ j = op \/ (op + 1 <= j /\ j <= cl - 1) \/ j = cl \/ j = cl + 1
          \/ (cl + 2 <= j /\ j <= en - 1) \/ j = en
      BY <1>3, <3>1
    <3>3. QED
      BY <1>3, <3>1, <3>2
  <2>2. op # cl /\ op # cl + 1 /\ op # en /\ cl # cl + 1 /\ cl # en /\ cl + 1 # en
    BY <1>3
  <2>3. CASE j \in f .. op - 1
    BY <1>3, <1>7, <2>3
  <2>4. CASE j \in op + 1 .. cl - 1
    BY <1>3, <1>8, <2>4
  <2>5. CASE j \in cl + 2 .. en - 1
    BY <1>3, <1>9, <2>5
  <2>6. CASE j = op \/ j = cl \/ j = cl + 1 \/ j = en
    BY <1>4, <2>2, <2>6, TheSigns
  <2>7. QED
    BY <2>1, <2>3, <2>4, <2>5, <2>6
<1>11. ASSUME NEW ch, NEW from \in Nat
      PROVE  /\ Places(buf, ch, from) \subseteq Int /\ Seen(ch, from) \subseteq Int
             /\ \A j \in Places(buf, ch, from) : from <= j /\ buf[j] = ch
             /\ \A j \in Seen(ch, from) : from <= j /\ buf[j] = ch
  BY DEF Places, Seen
<1>12. ASSUME NEW j \in Int, f <= j
       PROVE  /\ buf[j] = LBrack => op <= j
              /\ buf[j] = RBrack => cl <= j
              /\ buf[j] = LBrace => cl + 1 <= j
              /\ buf[j] = RBrace => en <= j
  <2>1. CASE j <= en
    <3>1. j \in f .. en
      BY <1>3, <1>12, <2>1
    <3>2. QED
      BY <1>3, <1>10, <3>1
  <2>2. CASE ~(j <= en)
    BY <1>3, <1>12, <2>2
  <2>3. QED
    BY <2>1, <2>2
<1>13. ASSUME NEW from \in Nat, f <= from, NEW j
       PROVE  /\ j \in Places(buf, RBrace, from) => j \in Int /\ en <= j
              /\ j \in Seen(LBrack, from) => op <= j
              /\ j \in Seen(RBrack, from) => cl <= j
              /\ j \in Seen(LBrace, from) => cl + 1 <= j
  <2>1. ASSUME NEW ch, j \in Places(buf, ch, from) \/ j \in Seen(ch, from)
        PROVE  j \in Int /\ f <= j /\ buf[j] = ch
    <3>1. j \in Int /\ from <= j /\ buf[j] = ch
      BY <1>11, <2>1
    <3>2. QED
      BY <1>3, <1>13, <3>1
  <2>2. CASE j \in Int /\ f <= j
    BY <1>12, <2>1, <2>2
  <2>3. CASE ~(j \in Int /\ f <= j)
    BY <2>1, <2>3
  <2>4. QED
    BY <2>2, <2>3
<1>14. /\ f \in Nat /\ f <= f
       /\ op + 1 \in Nat /\ f <= op + 1
       /\ cl + 2 \in Nat /\ f <= cl + 2 /\ cl + 2 <= en
  BY <1>3
<1>15. End = en /\ Places(buf, RBrace, f) # {}
  <2>1. en \in Places(buf, RBrace, f)
    BY <1>3, <1>4 DEF Places
  <2>2. \A j \in Places(buf, RBrace, f) : en <= j
    BY <1>13, <1>14
  <2>3. Places(buf, RBrace, f) \subseteq Int
    BY <1>11, <1>14
  <2>4. Min(Places(buf, RBrace, f)) = en
    BY <2>1, <2>2, <2>3, MinIs
  <2>5. QED
    BY <2>1, <2>4 DEF End
<1>16. /\ op \in Seen(LBrack, f) /\ \A j \in Seen(LBrack, f) : op <= j
       /\ cl \in Seen(RBrack, f) /\ \A j \in Seen(RBrack, f) : cl <= j
       /\ cl \in Seen(RBrack, op + 1) /\ \A j \in Seen(RBrack, op + 1) : cl <= j
       /\ cl + 1 \in Seen(LBrace, f) /\ \A j \in Seen(LBrace, f) : cl + 1 <= j
  <2>1. ASSUME NEW ch, NEW from \in Nat, NEW j \in Nat, from <= j, j <= en, buf[j] = ch
        PROVE  j \in Seen(ch, from)
    <3>1. j # End + 1
      BY <1>3, <1>15, <2>1
    <3>2. j \in Places(buf, ch, from)
      <4>1. j \in from .. Len(buf)
        BY <1>3, <2>1
      <4>2. QED
        BY <2>1, <4>1 DEF Places
    <3>3. QED
      BY <3>1, <3>2 DEF Seen
  <2>2. /\ op \in Nat /\ f <= op /\ op <= en
        /\ cl \in Nat /\ f <= cl /\ op + 1 <= cl /\ cl <= en
        /\ cl + 1 \in Nat /\ f <= cl + 1 /\ cl + 1 <= en
    BY <1>3
  <2>3. op \in Seen(LBrack, f)
    BY <1>4, <1>14, <2>1, <2>2
  <2>4. cl \in Seen(RBrack, f)
    BY <1>4, <1>14, <2>1, <2>2
  <2>5. cl \in Seen(RBrack, op + 1)
    BY <1>4, <1>14, <2>1, <2>2
  <2>6. cl + 1 \in Seen(LBrace, f)
    BY <1>4, <1>14, <2>1, <2>2
  <2>7. /\ \A j \in Seen(LBrack, f) : op <= j
        /\ \A j \in Seen(RBrack, f) : cl <= j
        /\ \A j \in Seen(LBrace, f) : cl + 1 <= j
    BY <1>13, <1>14
  <2>8. \A j \in Seen(RBrack, op + 1) : cl <= j
    BY <1>13, <1>14
  <2>9. QED
    BY <2>3, <2>4, <2>5, <2>6, <2>7, <2>8
<1>17. Open = op
  <2>1. Seen(LBrack, f) \subseteq Int
    BY <1>11, <1>14
  <2>2. QED
    BY <1>16, <2>1, MinIs DEF Open
<1>18. Close = cl
  <2>1. Seen(RBrack, op + 1) \subseteq Int
    BY <1>11, <1>14
  <2>2. Min(Seen(RBrack, op + 1)) = cl
    BY <1>16, <2>1, MinIs
  <2>3. QED
    BY <1>17, <2>2 DEF Close
<1>19. Body = cl + 2
  BY <1>18 DEF Body
<1>20. ~HeadTooShort
  <2>1. Min(Seen(LBrace, f)) = cl + 1
    <3>1. Seen(LBrace, f) \subseteq Int
      BY <1>11, <1>14
    <3>2. QED
      BY <1>16, <3>1, MinIs
  <2>2. Min({cl + 1, en + 1}) = cl + 1
    <3>1. {cl + 1, en + 1} \subseteq Int /\ \A j \in {cl + 1, en + 1} : cl + 1 <= j
      BY <1>3
    <3>2. QED
      BY <3>1, MinIs
  <2>3. cl + 1 - f >= 3
    BY <1>2, <1>6
  <2>4. QED
    BY <1>2, <1>15, <2>1, <2>2, <2>3 DEF HeadTooShort
<1>21. HeadValid
  <2>1. {i \in Seen(LBrack, f) : i <= End} = {op}
    <3>1. ASSUME NEW i \in Seen(LBrack, f), i <= en PROVE i = op
      <4>1. i \in Int /\ f <= i /\ buf[i] = LBrack
        BY <1>11, <1>14, <3>1
      <4>2. i \in f .. en
        BY <1>3, <3>1, <4>1
      <4>3. QED
        BY <1>10, <4>1, <4>2
    <3>2. op \in Seen(LBrack, f) /\ op <= en
      BY <1>3, <1>16
    <3>3. \A i : i \in {k \in Seen(LBrack, f) : k <= en} <=> i = op
      BY <3>1, <3>2, Zenon
    <3>4. QED
      BY <3>3, <1>15, Zenon
  <2>2. {i \in Seen(RBrack, f) : i <= End} = {cl}
    <3>1. ASSUME NEW i \in Seen(RBrack, f), i <= en PROVE i = cl
      <4>1. i \in Int /\ f <= i /\ buf[i] = RBrack
        BY <1>11, <1>14, <3>1
      <4>2. i \in f .. en
        BY <1>3, <3>1, <4>1
      <4>3. QED
        BY <1>10, <4>1, <4>2
    <3>2. cl \in Seen(RBrack, f) /\ cl <= en
      BY <1>3, <1>16
    <3>3. \A i : i \in {k \in Seen(RBrack, f) : k <= en} <=> i = cl
      BY <3>1, <3>2, Zenon
    <3>4. QED
      BY <3>3, <1>15, Zenon
  <2>3. Cardinality({op}) = 1 /\ Cardinality({cl}) = 1
    BY FS_Singleton
  <2>4. QED
    BY <2>1, <2>2, <2>3, Zenon DEF HeadValid
<1>22. en \in Places(buf, RBrace, Body) /\ Min(Places(buf, RBrace, Body)) = en
  <2>1. Body \in Nat /\ en \in Places(buf, RBrace, Body)
    <3>1. en \in cl + 2 .. Len(buf)
      BY <1>3
    <3>2. QED
      BY <1>19, <1>4, <1>14, <3>1 DEF Places
  <2>2. \A j \in Places(buf, RBrace, Body) : en <= j
    BY <1>19, <1>13, <1>14
  <2>3. QED
    BY <1>11, <2>1, <2>2, MinIs
<1>23. Lines = 0 <=> s.vars = <<>>
  <2> DEFINE Stops == Places(buf, RBrace, Body) \cup {Len(buf) + 1}
                        \cup (IF End >= Body - 1 THEN {End + 1} ELSE {})
             Ends_ == {i \in Places(buf, Semi, Body) : i < en}
  <2>1. Min(Stops) = en
    <3>1. Body \in Nat /\ en \in Stops
      BY <1>19, <1>22, <1>14
    <3>2. Stops \subseteq Int /\ \A j \in Stops : en <= j
      <4>1. \A j \in Places(buf, RBrace, Body) : j \in Int /\ en <= j
        BY <1>19, <1>13, <1>14
      <4>2. Len(buf) + 1 \in Int /\ en <= Len(buf) + 1 /\ End + 1 \in Int /\ en <= End + 1
        BY <1>3, <1>15
      <4>3. QED
        BY <4>1, <4>2
    <3> HIDE DEF Stops
    <3>3. QED
      BY <3>1, <3>2, MinIs
  <2>2. Lines = Cardinality(Ends_)
    BY <2>1 DEF Lines
  <2>3. IsFiniteSet(Ends_)
    <3>1. Body \in Nat
      BY <1>19, <1>14
    <3>2. \A i \in Ends_ : i \in Int /\ Body <= i /\ i < en
      BY <1>11, <3>1
    <3>3. Ends_ \in SUBSET (0 .. en)
      <4> HIDE DEF Ends_
      <4> QED BY <1>3, <3>1, <3>2
    <3>4. IsFiniteSet(0 .. en)
      BY <1>3, FS_Interval
    <3>5. QED
      BY <3>3, <3>4, FS_Subset
  <2>4. Lines = 0 <=> Ends_ = {}
    <3> HIDE DEF Ends_
    <3> QED BY <2>2, <2>3, FS_EmptySet
  <2>5. CASE s.vars = <<>>
    <3>1. Len(z) = 0
      <4>1. z = <<>>
        BY <1>1, <1>5, <2>5, BodyPlain
      <4>2. QED
        BY <4>1
    <3>2. en = Body
      BY <1>2, <1>19, <3>1
    <3>3. Ends_ = {}
      <4>1. \A i \in Places(buf, Semi, Body) : i \in Int /\ en <= i
        <5>1. Body \in Nat
          BY <1>19, <1>14
        <5>2. QED
          BY <1>11, <3>2, <5>1
      <4>2. QED
        BY <1>3, <4>1
    <3>4. QED
      BY <2>4, <2>5, <3>3
  <2>6. CASE s.vars # <<>>
    <3>1. PICK j \in 1 .. Len(z) : z[j] = Semi
      BY <1>1, <1>5, <2>6, BodyPlain
    <3>2. buf[cl + 2 + j - 1] = Semi
      BY <1>1, <3>1 DEF Layout
    <3>3. cl + 2 + j - 1 \in cl + 2 .. en - 1 /\ cl + 2 + j - 1 \in Body .. Len(buf)
      <4>1. PICK b : b = Len(z)
        OBVIOUS
      <4>2. b \in Nat /\ en = cl + b + 2 /\ j \in 1 .. b
        BY <1>2, <1>6, <4>1
      <4>3. cl + 2 + j - 1 \in Int /\ cl + 2 <= cl + 2 + j - 1 /\ cl + 2 + j - 1 <= en - 1
        BY <1>3, <4>2
      <4>4. QED
        BY <1>19, <1>3, <4>3
    <3>4. cl + 2 + j - 1 < en
      BY <1>3, <3>3
    <3>5. cl + 2 + j - 1 \in Places(buf, Semi, Body)
      BY <3>2, <3>3 DEF Places
    <3>6. QED
      BY <2>4, <2>6, <3>4, <3>5
  <2>7. QED
    BY <2>5, <2>6
<1>24. QED
  BY <1>15, <1>16, <1>17, <1>18, <1>19, <1>20, <1>21, <1>22, <1>23


\* So the section is read as it was written, and the next one begins behind it.
LEMMA SectionRead ==
    ASSUME NEW s \in Section, NEW op, NEW cl, NEW en, Layout(s, op, cl, en), Len(buf) \in Nat
    PROVE  Found = Parsed(s) /\ Advance(Found) = en + 1
<1>1. PICK x, y, z : x = s.name /\ y = s.arg /\ z = BodyOf(s.vars)
  OBVIOUS
<1>2. /\ op = f + Len(x) /\ cl = op + Len(y) + 1 /\ en = cl + Len(z) + 2
      /\ f \in Nat /\ op \in Nat /\ cl \in Nat /\ en \in Nat
  BY <1>1 DEF Layout
<1>3. /\ \A j \in 1 .. Len(x) : buf[f + j - 1] = x[j]
      /\ \A j \in 1 .. Len(y) : buf[op + 1 + j - 1] = y[j]
      /\ \A j \in 1 .. Len(z) : buf[cl + 2 + j - 1] = z[j]
  BY <1>1 DEF Layout
<1>4. x \in Word /\ y \in Word /\ s.vars \in Seq(Variable)
  BY <1>1 DEF Section
<1>5. x \in Seq(Char) /\ y \in Seq(Char) /\ z \in Seq(Char)
  BY <1>1, <1>4, WordText, BodyIs
<1>6. Len(x) \in Nat /\ Len(y) \in Nat /\ Len(z) \in Nat
  BY <1>5, LenProperties
<1>7. /\ Open = op /\ Close = cl /\ Body = cl + 2 /\ End = en
      /\ Min(Places(buf, RBrace, Body)) = en
      /\ Lines = 0 <=> s.vars = <<>>
  BY LayoutFound
<1>8. SubSeq(buf, f, op - 1) = x
  <2>1. f \in Int /\ op - 1 \in Int /\ op - 1 = f + Len(x) - 1
    BY <1>2, <1>6
  <2>2. QED
    BY <1>3, <1>5, <2>1, SubSeqIs
<1>9. SubSeq(buf, op + 1, cl - 1) = y
  <2>1. op + 1 \in Int /\ cl - 1 \in Int /\ cl - 1 = op + 1 + Len(y) - 1
    BY <1>2, <1>6
  <2>2. QED
    BY <1>3, <1>5, <2>1, SubSeqIs
<1>10. SubSeq(buf, cl + 2, en - 1) = z
  <2>1. cl + 2 \in Int /\ en - 1 \in Int /\ en - 1 = cl + 2 + Len(z) - 1
    BY <1>2, <1>6
  <2>2. QED
    BY <1>3, <1>5, <2>1, SubSeqIs
<1>11. Min({cl - 1, en}) = cl - 1
  <2>1. {cl - 1, en} \subseteq Int /\ cl - 1 \in {cl - 1, en} /\ \A j \in {cl - 1, en} : cl - 1 <= j
    BY <1>2, <1>6
  <2>2. QED
    BY <2>1, MinIs
<1>12. s.vars = <<>> => z = <<>>
  BY <1>1, <1>4, BodyPlain
<1>13. Found = [name |-> x, arg |-> y, data |-> z]
  BY <1>7, <1>8, <1>9, <1>10, <1>11, <1>12 DEF Found
<1>14. Found = Parsed(s)
  BY <1>1, <1>13 DEF Parsed
<1>15. Advance(Found) = f + Len(x) + 4 + Len(y) + Len(z)
  BY <1>13 DEF Advance
<1>16. QED
  BY <1>2, <1>6, <1>14, <1>15

-----------------------------------------------------------------------------
(***************************************************************************)
(* Reading the expressions of a section.                                   *)
(***************************************************************************)
LEMMA AppendNext ==
    ASSUME NEW n \in Nat, NEW g
    PROVE  Append([i \in 1 .. n |-> g[i]], g[n + 1]) = [i \in 1 .. n + 1 |-> g[i]]
<1> DEFINE S == {g[i] : i \in 1 .. n + 1}
           u == [i \in 1 .. n |-> g[i]]
           w == [i \in 1 .. n + 1 |-> g[i]]
<1>1. u \in Seq(S) /\ Len(u) = n /\ g[n + 1] \in S /\ \A i \in 1 .. n : u[i] = g[i]
  OBVIOUS
<1>2. w \in Seq(S) /\ Len(w) = n + 1 /\ \A i \in 1 .. n + 1 : w[i] = g[i]
  OBVIOUS
<1> HIDE DEF S, u, w
<1>3. /\ Append(u, g[n + 1]) \in Seq(S) /\ Len(Append(u, g[n + 1])) = n + 1
      /\ \A i \in 1 .. n : Append(u, g[n + 1])[i] = u[i]
      /\ Append(u, g[n + 1])[n + 1] = g[n + 1]
  BY <1>1, AppendProperties
<1>4. \A i \in 1 .. n + 1 : Append(u, g[n + 1])[i] = w[i]
  BY <1>1, <1>2, <1>3
<1>5. Append(u, g[n + 1]) = w
  BY <1>2, <1>3, <1>4, SeqEqual
<1>6. QED
  BY <1>5 DEF u, w

\* The expression v stands in data behind the place c.
Entry(data, c, v) ==
    /\ c \in Nat /\ Len(data) \in Nat
    /\ c + Len(v.var) + Len(v.value) + 2 <= Len(data)
    /\ \A j \in 1 .. Len(v.var) : data[c + 1 + j - 1] = v.var[j]
    /\ data[c + Len(v.var) + 1] = Equals
    /\ \A j \in 1 .. Len(v.value) : data[c + Len(v.var) + 2 + j - 1] = v.value[j]
    /\ data[c + Len(v.var) + Len(v.value) + 2] = Semi

\* One turn of the loop over the expressions.
After(data, r) ==
    LET eq   == Places(data, Equals, r.uui)
        semi == Places(data, Semi, Min(eq) + 1)
    IN  IF r.uui = 0 \/ eq = {} \/ semi = {}
        THEN [uui |-> 0, vars |-> <<>>]
        ELSE [uui  |-> Min(semi) + 1,
              vars |-> Append(r.vars,
                         [var   |-> SubSeq(data, r.uui, Min(eq) - 1),
                          value |-> SubSeq(data, Min(eq) + 1, Min(semi) - 1)])]

\* A turn reads the expression that stands next.
LEMMA EntryRead ==
    ASSUME NEW v \in Variable, NEW data, NEW c \in Nat, Entry(data, c, v), NEW u
    PROVE  After(data, [uui |-> c + 1, vars |-> u]) =
              [uui |-> c + Len(v.var) + Len(v.value) + 3, vars |-> Append(u, v)]
<1>1. PICK x, y : x = v.var /\ y = v.value
  OBVIOUS
<1>2. x \in Word /\ y \in Word /\ v = [var |-> x, value |-> y]
  BY <1>1 DEF Variable
<1>3. x \in Seq(Char) /\ y \in Seq(Char) /\ Len(x) \in Nat /\ Len(y) \in Nat
  BY <1>2, WordText, LenProperties
<1> DEFINE p == c + Len(x) + 1
           q == c + Len(x) + Len(y) + 2
<1>4. /\ p \in Nat /\ q \in Nat /\ c + 1 <= p /\ p + 1 <= q
      /\ p = c + 1 + Len(x) /\ q = p + 1 + Len(y) /\ c + 1 \in Nat /\ p + 1 \in Nat
  BY <1>3
<1>5. /\ q <= Len(data) /\ Len(data) \in Nat
      /\ \A j \in 1 .. Len(x) : data[c + 1 + j - 1] = x[j]
      /\ data[p] = Equals
      /\ \A j \in 1 .. Len(y) : data[c + Len(x) + 2 + j - 1] = y[j]
      /\ data[q] = Semi
  BY <1>1 DEF Entry
<1> HIDE DEF p, q
<1>6. \A j \in 1 .. Len(y) : data[p + 1 + j - 1] = y[j]
  <2> SUFFICES ASSUME NEW j \in 1 .. Len(y) PROVE data[p + 1 + j - 1] = y[j]
    OBVIOUS
  <2>1. p + 1 + j - 1 = c + Len(x) + 2 + j - 1
    BY <1>3, <1>4
  <2>2. QED
    BY <1>5, <2>1
<1>7. ASSUME NEW ch, NEW from \in Nat
      PROVE  /\ Places(data, ch, from) \subseteq Int
             /\ \A j \in Places(data, ch, from) : from <= j /\ data[j] = ch
  BY DEF Places
<1>8. Min(Places(data, Equals, c + 1)) = p /\ Places(data, Equals, c + 1) # {}
  <2>1. p \in Places(data, Equals, c + 1)
    <3>1. p \in c + 1 .. Len(data)
      BY <1>4, <1>5
    <3>2. QED
      BY <1>5, <3>1 DEF Places
  <2>2. ASSUME NEW j \in Places(data, Equals, c + 1) PROVE p <= j
    <3> SUFFICES ASSUME j < p PROVE FALSE
      BY <1>4, <1>7
    <3>1. c + 1 <= j /\ data[j] = Equals /\ j \in Int
      BY <1>4, <1>7, <2>2
    <3>2. j - c \in 1 .. Len(x) /\ c + 1 + (j - c) - 1 = j
      BY <1>3, <1>4, <3>1
    <3>3. x[j - c] = Equals
      BY <1>5, <3>1, <3>2
    <3>4. QED
      BY <1>2, <3>2, <3>3, WordPlain, TheSigns
  <2>3. Places(data, Equals, c + 1) \subseteq Int
    BY <1>4, <1>7
  <2>4. QED
    BY <2>1, <2>2, <2>3, MinIs
<1>9. Min(Places(data, Semi, p + 1)) = q /\ Places(data, Semi, p + 1) # {}
  <2>1. q \in Places(data, Semi, p + 1)
    <3>1. q \in p + 1 .. Len(data)
      BY <1>4, <1>5
    <3>2. QED
      BY <1>5, <3>1 DEF Places
  <2>2. ASSUME NEW j \in Places(data, Semi, p + 1) PROVE q <= j
    <3> SUFFICES ASSUME j < q PROVE FALSE
      BY <1>4, <1>7
    <3>1. p + 1 <= j /\ data[j] = Semi /\ j \in Int
      BY <1>4, <1>7, <2>2
    <3>2. j - p \in 1 .. Len(y) /\ p + 1 + (j - p) - 1 = j
      BY <1>3, <1>4, <3>1
    <3>3. y[j - p] = Semi
      BY <1>6, <3>1, <3>2
    <3>4. QED
      BY <1>2, <3>2, <3>3, WordPlain, TheSigns
  <2>3. Places(data, Semi, p + 1) \subseteq Int
    BY <1>4, <1>7
  <2>4. QED
    BY <2>1, <2>2, <2>3, MinIs
<1>10. SubSeq(data, c + 1, p - 1) = x
  <2>1. c + 1 \in Int /\ p - 1 \in Int /\ p - 1 = c + 1 + Len(x) - 1
    BY <1>3, <1>4
  <2>2. QED
    BY <1>3, <1>5, <2>1, SubSeqIs
<1>11. SubSeq(data, p + 1, q - 1) = y
  <2>1. p + 1 \in Int /\ q - 1 \in Int /\ q - 1 = p + 1 + Len(y) - 1
    BY <1>3, <1>4
  <2>2. QED
    BY <1>3, <1>6, <2>1, SubSeqIs
<1>12. c + 1 # 0
  OBVIOUS
<1>13. After(data, [uui |-> c + 1, vars |-> u]) =
          [uui |-> q + 1, vars |-> Append(u, [var |-> x, value |-> y])]
  BY <1>8, <1>9, <1>10, <1>11, <1>12 DEF After
<1>14. q + 1 = c + Len(x) + Len(y) + 3
  BY <1>3 DEF q
<1>15. QED
  BY <1>1, <1>2, <1>13, <1>14

\* Where the expressions of a body stand.
Entries(data, vs, cuts) ==
    /\ \A k \in 0 .. Len(vs) : cuts[k] \in Nat
    /\ cuts[0] = 0
    /\ \A k \in 1 .. Len(vs) : /\ Entry(data, cuts[k - 1], vs[k])
                               /\ cuts[k] = cuts[k - 1] + Len(vs[k].var) + Len(vs[k].value) + 2

\* The expressions of a body stand one after the other.
LEMMA BodyEntries ==
    ASSUME NEW vs \in Seq(Variable)
    PROVE  \E cuts : Entries(BodyOf(vs), vs, cuts)
<1>1. PICK t, es : t = BodyOf(vs) /\ es = ExprsOf(vs)
  OBVIOUS
<1>2. PICK n \in Nat : n = Len(vs) /\ DOMAIN vs = 1 .. n
  OBVIOUS
<1>3. t \in Seq(Char) /\ Len(es) = n
  BY <1>1, <1>2, BodyIs
<1>4. PICK cuts : Cut(t, es, cuts)
  BY <1>1, BodyIs
<1>5. Len(t) \in Nat
  BY <1>3, LenProperties
<1>6. (\A k \in 0 .. n : cuts[k] \in Nat) /\ cuts[0] = 0
  BY <1>3, <1>4 DEF Cut
<1>7. ASSUME NEW k \in 1 .. n
      PROVE  /\ Entry(t, cuts[k - 1], vs[k])
             /\ cuts[k] = cuts[k - 1] + Len(vs[k].var) + Len(vs[k].value) + 2
  <2>1. PICK v, e, c, d : v = vs[k] /\ e = es[k] /\ c = cuts[k - 1] /\ d = cuts[k]
    OBVIOUS
  <2>2. v \in Variable
    BY <1>2, <2>1, ElementOfSeq
  <2>3. e = Expr(v)
    BY <1>1, <1>2, <2>1 DEF ExprsOf
  <2>4. Marked(e, v.var, Equals, v.value, Semi)
    BY <2>2, <2>3, ExprIs
  <2>5. /\ d = c + Len(e) /\ d <= Len(t)
        /\ \A j \in 1 .. Len(e) : t[c + j] = e[j]
    BY <1>3, <1>4, <2>1 DEF Cut
  <2>6. c \in Nat /\ d \in Nat
    <3>1. k - 1 \in 0 .. n /\ k \in 0 .. n
      OBVIOUS
    <3>2. QED
      BY <1>6, <2>1, <3>1
  <2>7. PICK x, y : x = v.var /\ y = v.value
    OBVIOUS
  <2>8. Len(x) \in Nat /\ Len(y) \in Nat /\ Len(e) = Len(x) + Len(y) + 2
    BY <2>4, <2>7 DEF Marked
  <2>9. /\ \A j \in 1 .. Len(x) : e[j] = x[j]
        /\ e[Len(x) + 1] = Equals
        /\ \A j \in 1 .. Len(y) : e[Len(x) + 1 + j] = y[j]
        /\ e[Len(x) + Len(y) + 2] = Semi
    BY <2>4, <2>7 DEF Marked
  <2>10. ASSUME NEW j \in 1 .. Len(x) PROVE t[c + 1 + j - 1] = x[j]
    <3>1. c + 1 + j - 1 = c + j /\ j \in 1 .. Len(e)
      BY <2>6, <2>8
    <3>2. QED
      BY <2>5, <2>9, <3>1
  <2>11. t[c + Len(x) + 1] = Equals
    <3>1. c + Len(x) + 1 = c + (Len(x) + 1) /\ Len(x) + 1 \in 1 .. Len(e)
      BY <2>6, <2>8
    <3>2. QED
      BY <2>5, <2>9, <3>1
  <2>12. ASSUME NEW j \in 1 .. Len(y) PROVE t[c + Len(x) + 2 + j - 1] = y[j]
    <3>1. c + Len(x) + 2 + j - 1 = c + (Len(x) + 1 + j) /\ Len(x) + 1 + j \in 1 .. Len(e)
      BY <2>6, <2>8
    <3>2. QED
      BY <2>5, <2>9, <3>1
  <2>13. t[c + Len(x) + Len(y) + 2] = Semi
    <3>1. c + Len(x) + Len(y) + 2 = c + (Len(x) + Len(y) + 2) /\ Len(x) + Len(y) + 2 \in 1 .. Len(e)
      BY <2>6, <2>8
    <3>2. QED
      BY <2>5, <2>9, <3>1
  <2>14. c + Len(x) + Len(y) + 2 <= Len(t) /\ d = c + Len(x) + Len(y) + 2
    BY <2>5, <2>6, <2>8
  <2>15. Entry(t, c, v)
    BY <1>5, <2>6, <2>7, <2>10, <2>11, <2>12, <2>13, <2>14 DEF Entry
  <2>16. QED
    BY <2>1, <2>7, <2>14, <2>15
<1>8. Entries(t, vs, cuts)
  BY <1>2, <1>6, <1>7 DEF Entries
<1>9. QED
  BY <1>1, <1>8

\* The recursive function in Exprs.
Reads(data, n, e) ==
    e = [k \in 0 .. n |-> IF k = 0 THEN [uui |-> 1, vars |-> <<>>] ELSE After(data, e[k - 1])]

\* The loop reads all of them, in order, and leaves the text never.
LEMMA ExprsRead ==
    ASSUME NEW vs \in Seq(Variable)
    PROVE  Exprs(BodyOf(vs), Len(vs)).uui # 0 /\ Exprs(BodyOf(vs), Len(vs)).vars = vs
<1>1. PICK t, cuts : t = BodyOf(vs) /\ Entries(t, vs, cuts)
  BY BodyEntries
<1>2. PICK n \in Nat : n = Len(vs) /\ DOMAIN vs = 1 .. n
  OBVIOUS
<1> DEFINE R(k) == [uui |-> cuts[k] + 1, vars |-> [i \in 1 .. k |-> vs[i]]]
<1>3. ASSUME NEW k \in 1 .. n PROVE After(t, R(k - 1)) = R(k)
  <2>1. PICK v, c, d : v = vs[k] /\ c = cuts[k - 1] /\ d = cuts[k]
    OBVIOUS
  <2>2. v \in Variable
    BY <1>2, <2>1, ElementOfSeq
  <2>3. Entry(t, c, v) /\ d = c + Len(v.var) + Len(v.value) + 2
    BY <1>1, <1>2, <2>1 DEF Entries
  <2>4. c \in Nat /\ Len(v.var) \in Nat /\ Len(v.value) \in Nat
    <3>1. c \in Nat
      BY <2>3 DEF Entry
    <3>2. v.var \in Word /\ v.value \in Word
      BY <2>2 DEF Variable
    <3>3. QED
      BY <3>1, <3>2, WordText, LenProperties
  <2>5. \A u : After(t, [uui |-> c + 1, vars |-> u]) =
                  [uui |-> c + Len(v.var) + Len(v.value) + 3, vars |-> Append(u, v)]
    BY <2>2, <2>3, <2>4, EntryRead
  <2>6. Append([i \in 1 .. k - 1 |-> vs[i]], v) = [i \in 1 .. k |-> vs[i]]
    <3>1. k - 1 \in Nat /\ (k - 1) + 1 = k
      OBVIOUS
    <3>2. Append([i \in 1 .. k - 1 |-> vs[i]], vs[(k - 1) + 1]) = [i \in 1 .. (k - 1) + 1 |-> vs[i]]
      BY <3>1, AppendNext
    <3>3. QED
      BY <2>1, <3>1, <3>2
  <2>7. c + Len(v.var) + Len(v.value) + 3 = d + 1
    BY <2>3, <2>4
  <2>8. After(t, [uui |-> c + 1, vars |-> [i \in 1 .. k - 1 |-> vs[i]]]) =
           [uui |-> d + 1, vars |-> [i \in 1 .. k |-> vs[i]]]
    BY <2>5, <2>6, <2>7
  <2>9. QED
    BY <2>1, <2>8
<1>4. R(0) = [uui |-> 1, vars |-> <<>>]
  BY <1>1 DEF Entries
<1>5. R(n).uui # 0 /\ R(n).vars = vs
  <2>1. n \in 0 .. Len(vs)
    BY <1>2
  <2>2. cuts[n] \in Nat
    BY <1>1, <2>1 DEF Entries
  <2>3. vs = [i \in 1 .. n |-> vs[i]]
    BY <1>2
  <2>4. QED
    BY <2>2, <2>3
<1> HIDE DEF R
<1> DEFINE w == [k \in 0 .. n |-> R(k)]
<1>6. Reads(t, n, w)
  <2>1. ASSUME NEW k \in 0 .. n
        PROVE  w[k] = IF k = 0 THEN [uui |-> 1, vars |-> <<>>] ELSE After(t, w[k - 1])
    <3>1. CASE k = 0
      BY <1>4, <3>1
    <3>2. CASE k # 0
      <4>1. k \in 1 .. n /\ k - 1 \in 0 .. n
        BY <3>2
      <4>2. w[k] = R(k) /\ w[k - 1] = R(k - 1)
        BY <4>1
      <4>3. QED
        BY <1>3, <3>2, <4>1, <4>2
    <3>3. QED
      BY <3>1, <3>2
  <2>2. w = [k \in 0 .. n |-> w[k]]
    OBVIOUS
  <2> HIDE DEF w
  <2>3. QED
    BY <2>1, <2>2 DEF Reads
<1> DEFINE e == CHOOSE e : Reads(t, n, e)
<1>7. Reads(t, n, e)
  BY <1>6
<1>8. Exprs(t, n) = e[n]
  BY DEF Exprs, Reads, After
<1> HIDE DEF e, w
<1>9. \A k \in 0 .. n : e[k] = IF k = 0 THEN [uui |-> 1, vars |-> <<>>] ELSE After(t, e[k - 1])
  BY <1>7 DEF Reads
<1> DEFINE N == {k \in Nat : k \in 0 .. n => e[k] = R(k)}
<1>10. 0 \in N
  BY <1>4, <1>9
<1>11. ASSUME NEW k \in Nat, k \in N PROVE k + 1 \in N
  <2> SUFFICES ASSUME k + 1 \in 0 .. n PROVE e[k + 1] = R(k + 1)
    OBVIOUS
  <2>1. k + 1 \in 1 .. n /\ k \in 0 .. n /\ k + 1 # 0 /\ (k + 1) - 1 = k
    OBVIOUS
  <2>2. e[k + 1] = After(t, e[k])
    BY <1>9, <2>1
  <2>3. e[k] = R(k)
    BY <1>11, <2>1
  <2>4. After(t, R(k)) = R(k + 1)
    BY <1>3, <2>1
  <2>5. QED
    BY <2>2, <2>3, <2>4
<1>12. Nat \subseteq N
  <2> HIDE DEF N
  <2> QED BY <1>10, <1>11, SetInduction
<1>13. e[n] = R(n)
  BY <1>12
<1>14. QED
  BY <1>1, <1>2, <1>5, <1>8, <1>13

\* What a section of the configuration says is what its body says.
LEMMA BodyRead ==
    ASSUME NEW s \in Section
    PROVE  /\ ~Broken(BodyOf(s.vars))
           /\ Vars(BodyOf(s.vars)) = Meaning(s).vv
<1>1. PICK vs, t : vs = s.vars /\ t = BodyOf(vs)
  OBVIOUS
<1>2. vs \in Seq(Variable)
  BY <1>1 DEF Section
<1>3. CountOf(t, Equals) = Len(vs) /\ CountOf(t, Semi) = Len(vs)
  BY <1>1, <1>2, BodyIs DEF Holds, Times
<1>4. vs = <<>> <=> t = <<>>
  BY <1>1, <1>2, BodyPlain
<1>5. Exprs(t, Len(vs)).uui # 0 /\ Exprs(t, Len(vs)).vars = vs
  BY <1>1, <1>2, ExprsRead
<1>6. ~Broken(t)
  BY <1>3, <1>5 DEF Broken
<1>7. Vars(t) = IF vs = <<>> THEN Garbage ELSE [is |-> "set", vars |-> vs]
  BY <1>3, <1>4, <1>5 DEF Vars
<1>8. Meaning(s).vv = IF vs = <<>> THEN Garbage ELSE [is |-> "set", vars |-> vs]
  BY <1>1 DEF Meaning
<1>9. QED
  BY <1>1, <1>6, <1>7, <1>8

-----------------------------------------------------------------------------
(***************************************************************************)
(* The run over a good file.                                               *)
(***************************************************************************)
SectionsAre(n) == sections = [i \in 1 .. n |-> Parsed(file.doc[i])]
TreeIs(n)      == tree = [i \in 1 .. n |-> Meaning(file.doc[i])]

\* The buffer is a text of this length.
Buffered(n) == n \in Nat /\ buf = [j \in 1 .. n |-> buf[j]]

\* The first n sections lie behind, and nothing else was changed in the text.
Unread(n) ==
    \E cuts :
        /\ Cut(TextOf(file.doc), WrittenOf(file.doc), cuts)
        /\ f = cuts[n] + 1
        /\ Buffered(Len(TextOf(file.doc)))
        /\ \A j \in f .. Len(TextOf(file.doc)) : buf[j] = TextOf(file.doc)[j]

Stripping == pc = "strip" => f = 1 /\ sections = <<>> /\ tree = <<>>

Dividing ==
    pc = "sections" =>
        /\ tree = <<>>
        /\ \E n \in 0 .. Len(file.doc) :
              ss = Len(file.doc) - n /\ SectionsAre(n) /\ Unread(n)

Explaining ==
    pc = "vars" =>
        /\ SectionsAre(Len(file.doc))
        /\ \E n \in 0 .. Len(file.doc) : TreeIs(n)

Explained == pc \notin {"strip", "sections", "vars"} => TreeIs(Len(file.doc))

\* The inductive invariant.
ReadInv ==
    /\ file \in Files
    /\ file.good => Stripping /\ Dividing /\ Explaining /\ Explained

\* The length of a function over an initial segment.
LEMMA LenIs ==
    ASSUME NEW n \in Nat, NEW g, g = [j \in 1 .. n |-> g[j]]
    PROVE  Len(g) = n /\ DOMAIN g = 1 .. n
<1> DEFINE S == {g[j] : j \in 1 .. n}
<1>1. [j \in 1 .. n |-> g[j]] \in Seq(S) /\ Len([j \in 1 .. n |-> g[j]]) = n
  OBVIOUS
<1>2. QED
  BY <1>1

\* What GoodFiles says of the file at hand.
LEMMA GoodIs ==
    ASSUME file \in Files, file.good
    PROVE  /\ file.doc \in Seq(Section)
           /\ Len(file.doc) \in Nat /\ DOMAIN file.doc = 1 .. Len(file.doc)
           /\ \A i \in 1 .. Len(file.doc) : file.doc[i] \in Section
           /\ Stripped(file.text) = TextOf(file.doc)
           /\ ~Unended(file.text)
<1>1. Formed(file)
  BY GoodFiles
<1>2. file.doc \in Seq(Section) /\ Stripped(file.text) = TextOf(file.doc) /\ ~Unended(file.text)
  BY <1>1 DEF Formed
<1>3. QED
  BY <1>2, ElementOfSeq, LenProperties

\* Before anything is read the text is whole.
LEMMA StripReads ==
    ASSUME file \in Files, file.good, Stripping, Strip
    PROVE  Stripping' /\ Dividing' /\ Explaining' /\ Explained'
<1>1. PICK doc, t : doc = file.doc /\ t = TextOf(doc)
  OBVIOUS
<1>2. /\ doc \in Seq(Section) /\ Len(doc) \in Nat
      /\ Stripped(file.text) = t /\ ~Unended(file.text)
  BY <1>1, GoodIs
<1>3. f = 1 /\ sections = <<>> /\ tree = <<>>
  BY DEF Strip, Stripping
<1>4. /\ buf' = t /\ f' = 1 /\ sections' = <<>> /\ tree' = <<>> /\ file' = file
      /\ ss' = CountOf(t, LBrace)
      /\ pc' = IF ss' = 0 \/ ss' # CountOf(t, RBrace) THEN "walk" ELSE "sections"
  BY <1>2, <1>3 DEF Strip
<1>5. t \in Seq(Char) /\ CountOf(t, LBrace) = Len(doc) /\ CountOf(t, RBrace) = Len(doc)
  BY <1>1, <1>2, TextIs
<1>6. ss' = Len(doc) /\ pc' = IF Len(doc) = 0 THEN "walk" ELSE "sections"
  BY <1>4, <1>5
<1>7. SectionsAre(0)' /\ TreeIs(0)'
  BY <1>4 DEF SectionsAre, TreeIs
<1>8. Unread(0)'
  <2>1. PICK cuts : Cut(t, WrittenOf(doc), cuts)
    BY <1>1, <1>2, TextIs
  <2>2. f' = cuts[0] + 1
    BY <1>4, <2>1 DEF Cut
  <2>3. Buffered(Len(t))'
    <3>1. Len(t) \in Nat /\ t = [j \in 1 .. Len(t) |-> t[j]]
      BY <1>5
    <3>2. QED
      BY <1>4, <3>1 DEF Buffered
  <2>4. QED
    BY <1>1, <1>4, <2>1, <2>2, <2>3 DEF Unread
<1>9. Stripping' /\ Explaining'
  BY <1>6 DEF Stripping, Explaining
<1>10. Dividing'
  <2>1. 0 \in 0 .. Len(doc) /\ ss' = Len(doc) - 0
    BY <1>2, <1>6
  <2>2. QED
    BY <1>1, <1>4, <1>7, <1>8, <2>1 DEF Dividing
<1>11. Explained'
  <2> SUFFICES ASSUME pc' \notin {"strip", "sections", "vars"} PROVE TreeIs(Len(file.doc))'
    BY DEF Explained
  <2>1. Len(doc) = 0
    BY <1>6
  <2>2. QED
    BY <1>1, <1>4, <1>7, <2>1
<1>12. QED
  BY <1>9, <1>10, <1>11

\* Where the next section stands.
LEMMA UnreadStands ==
    ASSUME file \in Files, file.good, NEW n \in Nat, n < Len(file.doc), Unread(n),
           NEW s, s = file.doc[n + 1]
    PROVE  /\ f \in Nat /\ 1 <= f /\ s \in Section
           /\ Len(buf) = Len(TextOf(file.doc)) /\ Len(buf) \in Nat
           /\ Stands(s, f - 1)
<1>1. PICK doc, t, ws : doc = file.doc /\ t = TextOf(doc) /\ ws = WrittenOf(doc)
  OBVIOUS
<1>2. /\ doc \in Seq(Section) /\ Len(doc) \in Nat /\ \A i \in 1 .. Len(doc) : doc[i] \in Section
  BY <1>1, GoodIs
<1>3. PICK cuts : /\ Cut(t, ws, cuts) /\ f = cuts[n] + 1
                  /\ Buffered(Len(t))
                  /\ \A j \in f .. Len(t) : buf[j] = t[j]
  BY <1>1 DEF Unread
<1>4. n + 1 \in 1 .. Len(doc)
  BY <1>1, <1>2
<1>5. s \in Section /\ Len(ws) = Len(doc) /\ ws[n + 1] = Written(s)
  BY <1>1, <1>2, <1>4, TextIs
<1>6. PICK w : w = Written(s)
  OBVIOUS
<1>7. w \in Seq(Char)
  BY <1>5, <1>6, WrittenIs
<1>8. Len(buf) = Len(t) /\ Len(t) \in Nat
  BY <1>3, LenIs DEF Buffered
<1>9. cuts[n] \in Nat
  <2>1. n \in 0 .. Len(ws)
    BY <1>4, <1>5
  <2>2. QED
    BY <1>3, <2>1 DEF Cut
<1>10. /\ cuts[n + 1] = cuts[n] + Len(w) /\ cuts[n + 1] <= Len(t)
       /\ \A k \in 1 .. Len(w) : t[cuts[n] + k] = w[k]
  <2>1. n + 1 \in 1 .. Len(ws) /\ (n + 1) - 1 = n
    BY <1>4, <1>5
  <2>2. QED
    BY <1>3, <1>5, <1>6, <2>1 DEF Cut
<1>11. PICK c : c = cuts[n]
  OBVIOUS
<1>12. c \in Nat /\ f = c + 1 /\ Len(w) \in Nat /\ c + Len(w) <= Len(t)
  BY <1>3, <1>7, <1>9, <1>10, <1>11, LenProperties
<1>13. ASSUME NEW k \in 1 .. Len(w) PROVE buf[f - 1 + k] = w[k]
  <2>1. PICK a, b : a = Len(w) /\ b = Len(t)
    OBVIOUS
  <2>2. a \in Nat /\ b \in Nat /\ c \in Nat /\ f = c + 1 /\ c + a <= b
        /\ k \in Nat /\ 1 <= k /\ k <= a
    BY <1>8, <1>12, <2>1
  <2>3. f - 1 + k = c + k /\ c + k \in f .. b
    <3>1. f - 1 + k = c + k
      BY <2>2
    <3>2. c + k \in Nat /\ c + 1 <= c + k /\ c + k <= b
      BY <2>2
    <3>3. QED
      BY <2>2, <3>1, <3>2
  <2>4. buf[c + k] = t[c + k]
    BY <1>3, <2>1, <2>3
  <2>5. t[c + k] = w[k]
    BY <1>10, <1>11
  <2>6. QED
    BY <2>3, <2>4, <2>5
<1>14. f - 1 \in Nat /\ f - 1 + Len(w) <= Len(buf)
  <2>1. f - 1 = c
    BY <1>12
  <2>2. QED
    BY <1>8, <1>12, <2>1
<1>15. Stands(s, f - 1)
  BY <1>6, <1>13, <1>14 DEF Stands
<1>16. QED
  BY <1>1, <1>5, <1>8, <1>12, <1>15

\* A good file is read section by section; the character that is raised is the
\* closing brace of the section just read.
LEMMA SectionReads ==
    ASSUME file \in Files, file.good, Dividing, ReadSection
    PROVE  Stripping' /\ Dividing' /\ Explaining' /\ Explained'
<1>1. PICK doc, t, ws : doc = file.doc /\ t = TextOf(doc) /\ ws = WrittenOf(doc)
  OBVIOUS
<1>2. pc = "sections" /\ ss > 0 /\ file' = file /\ tree' = tree
  BY DEF ReadSection
<1>3. PICK n \in 0 .. Len(doc) : ss = Len(doc) - n /\ SectionsAre(n) /\ Unread(n)
  BY <1>1, <1>2 DEF Dividing
<1>4. doc \in Seq(Section) /\ Len(doc) \in Nat
  BY <1>1, GoodIs
<1>5. n \in Nat /\ n < Len(doc) /\ n + 1 \in Nat /\ n + 1 \in 0 .. Len(doc)
      /\ n + 1 \in 1 .. Len(doc) /\ ss - 1 = Len(doc) - (n + 1)
  BY <1>2, <1>3, <1>4
<1>6. PICK s : s = doc[n + 1]
  OBVIOUS
<1>7. /\ f \in Nat /\ 1 <= f /\ s \in Section
      /\ Len(buf) = Len(t) /\ Len(buf) \in Nat /\ Stands(s, f - 1)
  BY <1>1, <1>3, <1>5, <1>6, UnreadStands
<1>8. PICK op, cl, en : Layout(s, op, cl, en) /\ en = f - 1 + Len(Written(s))
  BY <1>7, StandsLayout
<1>9. Found = Parsed(s) /\ Advance(Found) = en + 1
  BY <1>7, <1>8, SectionRead
<1>10. /\ sections' = Append(sections, Parsed(s))
       /\ f' = en + 1 /\ ss' = ss - 1 /\ pc' = "sections"
       /\ buf' = buf \/ buf' = [buf EXCEPT ![Body] = Raised(buf[Body])]
  <2>1. /\ Places(buf, RBrace, f) # {} /\ Seen(LBrace, f) # {}
        /\ ~HeadTooShort /\ HeadValid
        /\ Seen(RBrack, Open + 1) # {}
        /\ Places(buf, RBrace, Body) # {}
    BY <1>7, <1>8, LayoutFound
  <2>2. /\ sections' = Append(sections, Found) /\ f' = Advance(Found) /\ ss' = ss - 1 /\ pc' = pc
        /\ buf' = IF Lines = 0 /\ Body # End + 1 /\ Body \in DOMAIN buf
                  THEN [buf EXCEPT ![Body] = Raised(buf[Body])] ELSE buf
    BY <2>1, Zenon DEF ReadSection
  <2>3. QED
    BY <1>2, <1>9, <2>2, Zenon
<1>11. Body = cl + 2 /\ cl \in Nat /\ en \in Nat /\ cl + 2 <= en /\ f <= en
  <2>1. Body = cl + 2
    BY <1>7, <1>8, LayoutFound
  <2>2. Layout(s, op, cl, en)
    BY <1>8
  <2>3. op \in Nat /\ cl \in Nat /\ en \in Nat /\ f < op /\ op < cl /\ cl + 2 <= en
    BY <2>2, Zenon DEF Layout
  <2>4. QED
    BY <1>7, <2>1, <2>3
<1>12. SectionsAre(n + 1)'
  <2> DEFINE g == [i \in 1 .. n + 1 |-> Parsed(doc[i])]
  <2>1. sections = [i \in 1 .. n |-> g[i]] /\ Parsed(s) = g[n + 1]
    BY <1>1, <1>3, <1>5, <1>6 DEF SectionsAre
  <2>2. g = [i \in 1 .. n + 1 |-> g[i]]
    OBVIOUS
  <2> HIDE DEF g
  <2>3. sections' = [i \in 1 .. n + 1 |-> g[i]]
    BY <1>5, <1>10, <2>1, AppendNext
  <2>4. sections' = [i \in 1 .. n + 1 |-> Parsed(doc[i])]
    BY <2>2, <2>3 DEF g
  <2>5. QED
    BY <1>1, <1>2, <2>4 DEF SectionsAre
<1>13. PICK cuts : /\ Cut(t, ws, cuts) /\ f = cuts[n] + 1
                   /\ Buffered(Len(t))
                   /\ \A j \in f .. Len(t) : buf[j] = t[j]
  BY <1>1, <1>3 DEF Unread
<1>14. f' = cuts[n + 1] + 1
  <2>1. Len(ws) = Len(doc) /\ ws[n + 1] = Written(s)
    BY <1>1, <1>4, <1>5, <1>6, TextIs
  <2>2. n + 1 \in 1 .. Len(ws) /\ (n + 1) - 1 = n /\ n \in 0 .. Len(ws)
    BY <1>5, <2>1
  <2>3. cuts[n + 1] = cuts[n] + Len(Written(s)) /\ cuts[n] \in Nat
    <3>1. Cut(t, ws, cuts)
      BY <1>13
    <3>2. cuts \in [0 .. Len(ws) -> Nat] /\ cuts[n + 1] = cuts[(n + 1) - 1] + Len(ws[n + 1])
      BY <3>1, <2>2 DEF Cut
    <3>3. QED
      BY <2>1, <2>2, <3>2
  <2>4. Len(Written(s)) \in Nat
    BY <1>7, WrittenIs, LenProperties
  <2>5. en = cuts[n + 1]
    <3>1. f = cuts[n] + 1 /\ en = f - 1 + Len(Written(s))
      BY <1>8, <1>13
    <3>2. PICK a, b, l : a = cuts[n] /\ b = cuts[n + 1] /\ l = Len(Written(s))
      OBVIOUS
    <3>3. a \in Nat /\ l \in Nat /\ b = a + l /\ f = a + 1 /\ en = f - 1 + l
      BY <2>3, <2>4, <3>1, <3>2
    <3>4. f - 1 = a
      BY <3>3
    <3>5. QED
      BY <3>2, <3>3, <3>4
  <2>6. QED
    BY <1>10, <2>5
<1>15. Buffered(Len(t))' /\ \A j \in f' .. Len(t) : buf'[j] = buf[j]
  <2>1. PICK m \in Nat : m = Len(t)
    BY <1>7
  <2>2. buf = [j \in 1 .. m |-> buf[j]]
    BY <1>13, <2>1 DEF Buffered
  <2>3. CASE buf' = buf
    BY <2>1, <2>2, <2>3 DEF Buffered
  <2>4. CASE buf' = [buf EXCEPT ![Body] = Raised(buf[Body])]
    <3>1. PICK k, x : k = Body /\ x = Raised(buf[Body])
      OBVIOUS
    <3>2. buf' = [buf EXCEPT ![k] = x]
      BY <2>4, <3>1
    <3>3. DOMAIN buf = 1 .. m
      BY <2>2, LenIs
    <3>4. buf' = [j \in 1 .. m |-> IF j = k THEN x ELSE buf[j]]
      BY <3>2, <3>3
    <3>5. buf' = [j \in 1 .. m |-> buf'[j]]
      BY <3>4
    <3>6. ASSUME NEW j \in f' .. Len(t) PROVE buf'[j] = buf[j]
      <4>1. j # k /\ j \in 1 .. m
        BY <1>10, <1>11, <2>1, <3>1
      <4>2. QED
        BY <3>4, <4>1
    <3>7. Len(t)' = Len(t)
      BY <2>1
    <3>8. QED
      BY <2>1, <3>5, <3>6 DEF Buffered
  <2>5. QED
    BY <1>10, <2>3, <2>4
<1>16. \A j \in f' .. Len(t) : buf'[j] = t[j]
  <2>1. f <= f' /\ f \in Nat /\ f' \in Nat
    BY <1>7, <1>10, <1>11
  <2>2. \A j \in f' .. Len(t) : j \in f .. Len(t)
    BY <1>7, <2>1
  <2>3. QED
    BY <1>13, <1>15, <2>2
<1>17. Unread(n + 1)'
  BY <1>1, <1>2, <1>13, <1>14, <1>15, <1>16 DEF Unread
<1>18. Dividing'
  <2>1. tree' = <<>> /\ ss' = Len(doc) - (n + 1)
    BY <1>2, <1>5, <1>10 DEF Dividing
  <2>2. QED
    BY <1>1, <1>2, <1>5, <1>12, <1>17, <2>1 DEF Dividing
<1>19. Stripping' /\ Explaining' /\ Explained'
  BY <1>10 DEF Stripping, Explaining, Explained
<1>20. QED
  BY <1>18, <1>19

\* The last section is read when none is left to be read.
LEMMA DivisionEnds ==
    ASSUME file \in Files, file.good, Dividing, SectionsRead
    PROVE  Stripping' /\ Dividing' /\ Explaining' /\ Explained'
<1>1. /\ pc = "sections" /\ ss = 0 /\ pc' = "vars"
      /\ file' = file /\ sections' = sections /\ tree' = tree
  BY DEF SectionsRead, confVars
<1>2. PICK n \in 0 .. Len(file.doc) : ss = Len(file.doc) - n /\ SectionsAre(n)
  BY <1>1 DEF Dividing
<1>3. Len(file.doc) \in Nat
  BY GoodIs
<1>4. n = Len(file.doc)
  BY <1>1, <1>2, <1>3
<1>5. SectionsAre(Len(file.doc))'
  BY <1>1, <1>2, <1>4 DEF SectionsAre
<1>6. TreeIs(0)' /\ 0 \in 0 .. Len(file.doc)
  BY <1>1, <1>3 DEF Dividing, TreeIs
<1>7. Explaining'
  BY <1>1, <1>5, <1>6 DEF Explaining
<1>8. QED
  BY <1>1, <1>7 DEF Stripping, Dividing, Explained

\* A section enters the tree with the meaning it was written with.
LEMMA SectionBuilt ==
    ASSUME file \in Files, file.good, Explaining, BuildSection
    PROVE  Stripping' /\ Dividing' /\ Explaining' /\ Explained'
<1>1. PICK doc : doc = file.doc
  OBVIOUS
<1>2. pc = "vars" /\ Len(tree) < Len(sections) /\ file' = file /\ sections' = sections
  BY DEF BuildSection
<1>3. PICK n \in 0 .. Len(doc) : TreeIs(n)
  BY <1>1, <1>2 DEF Explaining
<1>4. SectionsAre(Len(doc))
  BY <1>1, <1>2 DEF Explaining
<1>5. /\ Len(doc) \in Nat /\ \A i \in 1 .. Len(doc) : doc[i] \in Section
  BY <1>1, GoodIs
<1>6. tree = [i \in 1 .. n |-> Meaning(doc[i])] /\ sections = [i \in 1 .. Len(doc) |-> Parsed(doc[i])]
  BY <1>1, <1>3, <1>4 DEF TreeIs, SectionsAre
<1>7. Len(tree) = n /\ Len(sections) = Len(doc)
  BY <1>5, <1>6
<1>8. n + 1 \in 1 .. Len(doc) /\ n \in Nat /\ n + 1 \in 0 .. Len(doc)
  BY <1>2, <1>5, <1>7
<1>9. PICK s : s = doc[n + 1]
  OBVIOUS
<1>10. s \in Section /\ sections[Len(tree) + 1] = Parsed(s)
  BY <1>5, <1>6, <1>7, <1>8, <1>9
<1>11. /\ Parsed(s).name = s.name /\ Parsed(s).arg = s.arg /\ Parsed(s).data = BodyOf(s.vars)
  BY DEF Parsed
<1>12. ~Broken(Parsed(s).data) /\ Vars(Parsed(s).data) = Meaning(s).vv
  BY <1>10, <1>11, BodyRead
<1>13. Meaning(s) = [name     |-> Parsed(s).name,
                     argument |-> IF Parsed(s).arg = <<>> THEN <<"ERR">> ELSE Parsed(s).arg,
                     vv       |-> Vars(Parsed(s).data)]
  BY <1>11, <1>12 DEF Meaning
<1>14. tree' = Append(tree, Meaning(s)) /\ pc' = "vars"
  BY <1>2, <1>10, <1>12, <1>13 DEF BuildSection
<1>15. TreeIs(n + 1)'
  <2> DEFINE g == [i \in 1 .. n + 1 |-> Meaning(doc[i])]
  <2>1. tree = [i \in 1 .. n |-> g[i]] /\ Meaning(s) = g[n + 1]
    BY <1>6, <1>8, <1>9
  <2>2. g = [i \in 1 .. n + 1 |-> g[i]]
    OBVIOUS
  <2> HIDE DEF g
  <2>3. tree' = [i \in 1 .. n + 1 |-> g[i]]
    BY <1>8, <1>14, <2>1, AppendNext
  <2>4. tree' = [i \in 1 .. n + 1 |-> Meaning(doc[i])]
    BY <2>2, <2>3 DEF g
  <2>5. QED
    BY <1>1, <1>2, <2>4 DEF TreeIs
<1>16. SectionsAre(Len(file.doc))'
  BY <1>1, <1>2, <1>4 DEF SectionsAre
<1>17. Explaining'
  BY <1>1, <1>2, <1>8, <1>15, <1>16 DEF Explaining
<1>18. QED
  BY <1>14, <1>17 DEF Stripping, Dividing, Explained

\* The tree is finished when every section is in it.
LEMMA ExplanationEnds ==
    ASSUME file \in Files, file.good, Explaining, TreeBuilt
    PROVE  Stripping' /\ Dividing' /\ Explaining' /\ Explained'
<1>1. /\ pc = "vars" /\ Len(tree) = Len(sections) /\ pc' = "walk"
      /\ file' = file /\ tree' = tree
  BY DEF TreeBuilt, confVars
<1>2. PICK n \in 0 .. Len(file.doc) : TreeIs(n)
  BY <1>1 DEF Explaining
<1>3. SectionsAre(Len(file.doc)) /\ Len(file.doc) \in Nat
  BY <1>1, GoodIs DEF Explaining
<1>4. Len(tree) = n /\ Len(sections) = Len(file.doc)
  BY <1>2, <1>3 DEF TreeIs, SectionsAre
<1>5. TreeIs(Len(file.doc))'
  BY <1>1, <1>2, <1>4 DEF TreeIs
<1>6. QED
  BY <1>1, <1>5 DEF Stripping, Dividing, Explaining, Explained

\* Once the file is read it is not read again, and the tree is not changed.
LEMMA StaysRead ==
    ASSUME file.good => Explained,
           \/ init_modulas_subsystem \/ main_process \/ Answer
           \/ UNCHANGED vars
    PROVE  /\ file' = file
           /\ \/ pc \notin Reading /\ pc' \notin Reading /\ tree' = tree
              \/ UNCHANGED vars
<1>1. CASE init_modulas_subsystem
  BY <1>1 DEF init_modulas_subsystem, WalkNothing, Pass, Refuse, OpenLibrary, FindSymbol,
              SkipSymbol, MissSymbol, Register, Walked, NextSection, walkUnchanged, confVars,
              Reading
<1>2. CASE main_process \/ Answer
  BY <1>2 DEF main_process, Socket, Listen, SetGroup, SetUser, Take, Refused, GiveUp, Answer,
              mainUnchanged, confVars, Reading
<1>3. CASE UNCHANGED vars
  BY <1>3 DEF vars, confVars
<1>4. QED
  BY <1>1, <1>2, <1>3

\* The invariant of the run over a good file is inductive.
LEMMA ReadInvAlways == Spec => []ReadInv
<1>1. Init => ReadInv
  <2> SUFFICES ASSUME Init PROVE ReadInv
    OBVIOUS
  <2>1. file \in Files /\ pc = "strip" /\ f = 1 /\ sections = <<>> /\ tree = <<>>
    BY DEF Init, ConfInit
  <2>2. QED
    BY <2>1 DEF ReadInv, Stripping, Dividing, Explaining, Explained
<1>2. ReadInv /\ [Next]_vars => ReadInv'
  <2> SUFFICES ASSUME ReadInv, [Next]_vars PROVE ReadInv'
    OBVIOUS
  <2>1. file \in Files /\ (file.good => Stripping /\ Dividing /\ Explaining /\ Explained)
    BY DEF ReadInv
  <2>2. CASE load_configuration
    <3>1. file' = file
      BY <2>2 DEF load_configuration, Strip, ReadSection, SectionsRead, BuildSection, TreeBuilt,
                  confVars
    <3>2. file.good => Stripping' /\ Dividing' /\ Explaining' /\ Explained'
      BY <2>1, <2>2, StripReads, SectionReads, DivisionEnds, SectionBuilt, ExplanationEnds
         DEF load_configuration
    <3>3. QED
      BY <2>1, <3>1, <3>2 DEF ReadInv
  <2>3. CASE init_modulas_subsystem \/ main_process \/ Answer \/ UNCHANGED vars
    <3>1. file' = file
      BY <2>1, <2>3, StaysRead
    <3>2. CASE pc \notin Reading /\ pc' \notin Reading /\ tree' = tree
      <4>1. file.good => TreeIs(Len(file.doc))'
        BY <2>1, <3>1, <3>2 DEF Explained, Reading, TreeIs
      <4>2. QED
        BY <2>1, <3>1, <3>2, <4>1
           DEF ReadInv, Stripping, Dividing, Explaining, Explained, Reading
    <3>3. CASE UNCHANGED vars
      BY <2>1, <3>3 DEF ReadInv, Stripping, Dividing, Explaining, Explained, SectionsAre, TreeIs,
                        Unread, Buffered, vars, confVars
    <3>4. QED
      BY <2>1, <2>3, <3>2, <3>3, StaysRead
  <2>4. QED
    BY <2>2, <2>3 DEF Next, Configure
<1>3. QED
  BY <1>1, <1>2, PTL DEF Spec

\* Every good file, whatever its sections and wherever its comments and blanks
\* stand, is read back as it was written (conf.c:284).
THEOREM ReadsBackAlways == Spec => []ReadsBack
<1>1. ReadInv => ReadsBack
  <2> SUFFICES ASSUME ReadInv, pc \notin {"strip", "sections", "vars"}, file.good
               PROVE  tree = [i \in DOMAIN file.doc |-> Meaning(file.doc[i])]
    BY DEF ReadsBack
  <2>1. file \in Files /\ TreeIs(Len(file.doc))
    BY DEF ReadInv, Explained
  <2>2. DOMAIN file.doc = 1 .. Len(file.doc)
    BY <2>1, GoodIs
  <2>3. QED
    BY <2>1, <2>2 DEF TreeIs
<1>2. QED
  BY <1>1, ReadInvAlways, PTL
=============================================================================
