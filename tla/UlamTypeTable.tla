---------------------------- MODULE UlamTypeTable ----------------------------
(***************************************************************************)
(* The table of ulam types of the compiler (CompilerState).  Every node    *)
(* and symbol names its type by a UTI, an index of m_indexToUlamKey; the   *)
(* key found there owns, through m_definedUlamTypes, one UlamType shared   *)
(* by all the UTIs that have the key, and m_keyToAnyUTI counts them so     *)
(* that the UlamType is deleted with its last user.  What a UTI stands for *)
(* is learnt while the program is parsed and labelled: its key is          *)
(* replaced, and m_unionRootUTI links it to the UTI it turned out to be.   *)
(*                                                                         *)
(* The table is one record, and each C++ helper that edits it is an        *)
(* operator from tables to tables; an action is a whole handler and        *)
(* composes them in the order of the code.                                 *)
(***************************************************************************)
EXTENDS Integers, FiniteSets, Functions

CONSTANTS
  Classes,      \* names of ordinary ulam classes
  Templates,    \* names of class templates
  PrimName,     \* "Int": stands for the primitive types
  NoName,       \* "0Nouti"
  HolderName,   \* "0Holder"
  Sizes,        \* the bit sizes that occur
  Lengths,      \* the array lengths that occur
  PrimBits,     \* the default bit size of the primitive
  Limit,        \* class type -> the most bits it may have
  MaxUTI        \* the last UTI the model has room for (a UTI is a u16)

Unknown == -2   \* UNKNOWNSIZE
NonArray == -1  \* NONARRAYSIZE

UTI == 0 .. MaxUTI
Nouti == 0
Prim == 1       \* Int, the first of the base types that are complete
Holder == 2

\* The name of an anonymous class is the decimal string of its UTI.
Name == Classes \cup Templates \cup {PrimName, NoName, HolderName} \cup UTI

ASSUME NamesDiffer ==
  /\ Classes \cap Templates = {}
  /\ PrimName # NoName /\ PrimName # HolderName /\ NoName # HolderName
  /\ {PrimName, NoName, HolderName} \cap (Classes \cup Templates) = {}
  /\ \A n \in Classes \cup Templates \cup {PrimName, NoName, HolderName} : n \notin UTI

ASSUME SizesAssumption ==
  /\ Sizes \subseteq Nat /\ PrimBits \in Sizes /\ 0 \in Sizes
  /\ Lengths \subseteq Nat
  /\ MaxUTI \in Nat /\ MaxUTI > Holder

Etypes == {"Nouti", "Nav", "Prim", "Class", "Holder"}
Ctypes == {"NotAClass", "Unseen", "Quark", "Element"}

\* MAXSTATEBITS and its like are no negative numbers.
ASSUME LimitAssumption == Limit \in [Ctypes -> Nat]

\* UlamKeyTypeSignature; ref is m_referenceType, ALT_NOT or a reference.
Key == [name : Name, bits : Sizes \cup {Unknown},
        arr : Lengths \cup {Unknown, NonArray}, inst : UTI, ref : BOOLEAN]

\* What an UlamType adds to its key: m_bitsizeAsBaseClass is known or not.
UlamType == [etyp : Etypes, ctyp : Ctypes, based : BOOLEAN]

MkKey(n, b, a, i, r) == [name |-> n, bits |-> b, arr |-> a, inst |-> i, ref |-> r]
MkType(e, c) == [etyp |-> e, ctyp |-> c, based |-> FALSE]

NoKey == MkKey(NoName, 0, NonArray, Nouti, FALSE)
PrimKey == MkKey(PrimName, PrimBits, NonArray, Nouti, FALSE)
HolderKey == MkKey(HolderName, Unknown, NonArray, Nouti, FALSE)

NoType == MkType("Nouti", "NotAClass")
PrimType == MkType("Prim", "NotAClass")
HolderType == MkType("Holder", "NotAClass")
NavType == MkType("Nav", "NotAClass")

VARIABLES
  table,      \* [size, key, typ, utis, root]: the four containers
  prog,       \* m_programDefST: class name -> UTI of its SymbolClassName
  instances,  \* template instances: UTI -> UTI of its SymbolClass
  stubs,      \* the instances that are still stubs
  generated,  \* UTIs of the typedefs the parser made up for unknown names
  parsing,    \* getThisClassForParsing(): {} or the class being parsed
  labelling   \* FALSE while files are parsed, TRUE in checkAndTypeLabel

vars == <<table, prog, instances, stubs, generated, parsing, labelling>>

-----------------------------------------------------------------------------
(* Queries.                                                                *)

Used(t) == 0 .. t.size - 1
UtisOf(t, k) == IF k \in DOMAIN t.utis THEN t.utis[k] ELSE {}
\* A key whose UlamType is gone reads as Nav.
TypeOf(t, u) == IF t.key[u] \in DOMAIN t.typ THEN t.typ[t.key[u]] ELSE NavType

IsHolder(t, u) == \/ TypeOf(t, u).etyp = "Holder"
                  \/ TypeOf(t, u).etyp = "Class" /\ t.key[u].name \in UTI
IsScalar(t, u) == t.key[u].arr = NonArray
IsClass(t, u) == TypeOf(t, u).etyp = "Class"
IsScalarClass(t, u) == IsClass(t, u) /\ IsScalar(t, u) /\ ~t.key[u].ref
IsUnseen(t, u) == IsClass(t, u) /\ TypeOf(t, u).ctyp = "Unseen"
IsRoot(t, u) == t.root[u] = u

IsComplete(t, u) ==
  /\ TypeOf(t, u).etyp \in {"Prim", "Class"}
  /\ t.key[u].bits # Unknown /\ t.key[u].arr # Unknown
  /\ TypeOf(t, u).etyp = "Class" =>
       /\ ~IsHolder(t, u)
       /\ TypeOf(t, u).ctyp # "Unseen"
       /\ TypeOf(t, u).ctyp = "Quark" /\ IsScalarClass(t, u) => TypeOf(t, u).based

IsStillNouti(t, u) == u = Nouti \/ t.root[u] = Nouti
OkUTI(t, u) == ~IsStillNouti(t, u)

\* A UTI that a handler may hold: Nouti and Holder are never anyone's type.
Held(t) == Used(t) \ {Nouti, Holder}

LeastOf(S) == CHOOSE u \in S : \A v \in S : u <= v

-----------------------------------------------------------------------------
(* The helpers that edit the containers.                                   *)

\* An entry of m_keyToAnyUTI is there exactly while its set is not empty.
WithUtis(t, k, S) ==
  [t EXCEPT !.utis = [x \in IF S = {} THEN DOMAIN @ \ {k} ELSE DOMAIN @ \cup {k} |->
                        IF x = k THEN S ELSE t.utis[x]]]

IncrementKey(t, k, u) == WithUtis(t, k, UtisOf(t, k) \cup {u})
DecrementKey(t, k, u) == WithUtis(t, k, UtisOf(t, k) \ {u})

DefineType(t, k, ty) ==
  [t EXCEPT !.typ = [x \in DOMAIN @ \cup {k} |-> IF x \in DOMAIN t.typ THEN t.typ[x] ELSE ty]]
ReplaceType(t, k, ty) == [t EXCEPT !.typ[k] = ty]
EraseType(t, k) == [t EXCEPT !.typ = [x \in DOMAIN @ \ {k} |-> t.typ[x]]]

AliasForced(t, u, v) == [t EXCEPT !.root[u] = v]
Alias(t, u, v) ==
  IF ~IsComplete(t, u) /\ ~IsComplete(t, v) /\ u # v THEN t ELSE AliasForced(t, u, v)

\* This variant and the others whose names start with Bug are wrong on purpose:
\* each is a plausible slip in the definition after it, and breaks a property.
\* Bug: the last user leaves and the UlamType stays.
BugDeleteKeyLeaks(t, k, u) ==
  AliasForced(IncrementKey([DecrementKey(t, k, u) EXCEPT !.key[u] = NoKey], NoKey, u), u, Nouti)

DeleteKey(t, k, u) ==
  LET less == DecrementKey(t, k, u)
      kept == IF UtisOf(less, k) = {} THEN EraseType(less, k) ELSE less
  IN  AliasForced(IncrementKey([kept EXCEPT !.key[u] = NoKey], NoKey, u), u, Nouti)

\* The tail shared by every change of key: the type of the key is created
\* when nothing has it, the user counted and the index set.
GiveKey(t, k, ty, u) ==
  IncrementKey([DefineType(t, k, ty) EXCEPT !.key[u] = k], k, u)

Append(t, k, ty) ==
  GiveKey([t EXCEPT !.size = @ + 1, !.root[t.size] = t.size], k, ty, t.size)

\* A bound of the model: the vectors of the code simply grow.
Room(t) == t.size <= MaxUTI

-----------------------------------------------------------------------------
(* makeUlamType(key): the UTI of a key, an old one when the key is known   *)
(* and sized.  A scalar class without an instance is its own instance.     *)

MakeUlamType(t, k, ty) ==
  LET known == k.bits # Unknown /\ k.arr # Unknown /\ k \in DOMAIN t.typ
      scalar == k.arr = NonArray /\ ~k.ref
      inst == IF ty.etyp # "Class" THEN Nouti
              ELSE IF ~scalar THEN k.inst
              ELSE t.size
  IN  IF known THEN [tab |-> t, uti |-> LeastOf(t.utis[k])]
      ELSE IF ty.etyp = "Class" /\ scalar /\ k.inst # Nouti /\ k.name \notin Templates
      THEN [tab |-> t, uti |-> k.inst]
      ELSE [tab |-> Append(t, [k EXCEPT !.inst = inst], ty), uti |-> t.size]

(* makeUlamTypeFromHolder, once the program table is settled: UTI u loses  *)
(* key old, takes key k and is linked to the first UTI that already has it.*)

\* Bug: the old key is not deleted.
BugFromHolderKeepsOldKey(t, u, old, k, ty) ==
  LET first == IF k \in DOMAIN t.typ THEN LeastOf(UtisOf(t, k)) ELSE u
  IN  Alias(GiveKey(t, k, ty, u), u, first)

FromHolder(t, u, old, k, ty) ==
  LET less == DeleteKey(t, old, u)
      first == IF k \in DOMAIN less.typ THEN LeastOf(UtisOf(less, k)) ELSE u
  IN  Alias(GiveKey(less, k, ty, u), u, first)

(* removeIncompleteClassSymbolFromProgramTable: the class goes from the    *)
(* program table, and its own UTI loses its key; a class that is seen      *)
(* stays.  The result is the pair of tables.                               *)

\* Bug: the class's own UTI loses its key and the entry stays.
BugRemoveIncompleteClassKeepsEntry(t, p, n) ==
  [tab |-> IF n \in DOMAIN p /\ IsUnseen(t, p[n])
           THEN DeleteKey(t, t.key[p[n]], p[n]) ELSE t,
   prog |-> p]

RemoveIncompleteClass(t, p, n) ==
  IF n \in DOMAIN p /\ IsUnseen(t, p[n])
  THEN [tab |-> DeleteKey(t, t.key[p[n]], p[n]), prog |-> Restrict(p, DOMAIN p \ {n})]
  ELSE [tab |-> t, prog |-> p]

RenameInTable(p, old, new) ==
  [n \in (DOMAIN p \ {old}) \cup {new} |-> IF n = new THEN p[old] ELSE p[n]]

(* makeUlamTypeFromHolder, whole.  A UTI that was taken for a class gives  *)
(* up its entry of the program table: to the new class name when that is   *)
(* not there yet, otherwise the entry is removed.  A template's name never *)
(* changes, and then nothing does.                                         *)

TypeFromHolder(t, p, u, k, ty) ==
  LET old == t.key[u].name
      gone == RemoveIncompleteClass(t, p, old)
  IN  IF t.key[u] = k THEN [tab |-> t, prog |-> p]
      ELSE IF ~IsScalarClass(t, u) \/ (ty.etyp = "Class" /\ old \notin DOMAIN p)
      THEN [tab |-> FromHolder(t, u, t.key[u], k, ty), prog |-> p]
      ELSE IF old \in Templates THEN [tab |-> t, prog |-> p]
      ELSE IF ty.etyp = "Class" /\ k.name \notin DOMAIN p
      THEN [tab |-> FromHolder(t, u, t.key[u], k, ty),
            prog |-> RenameInTable(p, old, k.name)]
      ELSE [tab |-> FromHolder(gone.tab, u, t.key[u], k, ty), prog |-> gone.prog]

(* replaceUTIKeyAndAlias: u takes the key of v, which must have a type,    *)
(* and is linked to v; an anonymous class leaves the program table first.  *)

ReplaceKeyAndAlias(t, p, u, v) ==
  LET gone == IF IsHolder(t, u) /\ IsClass(t, u)
              THEN RemoveIncompleteClass(t, p, t.key[u].name) ELSE [tab |-> t, prog |-> p]
      less == DeleteKey(gone.tab, t.key[u], u)
      more == IncrementKey([less EXCEPT !.key[u] = t.key[v]], t.key[v], u)
  IN  [tab |-> AliasForced(more, u, v), prog |-> gone.prog]

(* setUTISizes with setSizesOfNonClassAndArrays and setSizeAsHolderArray:  *)
(* the key gets the sizes and the UTI is a root again.                     *)

Total(b, a) == IF a >= 0 THEN b * a ELSE b

Resize(t, u, b, a) ==
  LET k == [t.key[u] EXCEPT !.bits = b, !.arr = a]
      ty == [TypeOf(t, u) EXCEPT !.based = FALSE]
  IN  IF t.key[u] = k THEN t
      ELSE AliasForced(GiveKey(DeleteKey(t, t.key[u], u), k, ty, u), u, u)

SetUTISizes(t, u, b, a, scalarIntoArray) ==
  LET limit == IF IsClass(t, u) /\ IsScalar(t, u) THEN TypeOf(t, u).ctyp ELSE "NotAClass"
  IN  IF \/ IsHolder(t, u)
         \/ /\ ~IsComplete(t, u) \/ scalarIntoArray
            /\ Total(b, a) <= Limit[limit]
      THEN Resize(t, u, b, a) ELSE t

SetBaseClassBitSize(t, u) ==
  IF OkUTI(t, u) /\ IsClass(t, u) /\ IsScalar(t, u) /\ TypeOf(t, u).ctyp = "Quark"
  THEN ReplaceType(t, t.key[u], [TypeOf(t, u) EXCEPT !.based = TRUE]) ELSE t

-----------------------------------------------------------------------------
(* Init: initPrimitiveUlamTypes.  Of its types three matter to the table:  *)
(* Nouti, one complete primitive and Holder.                               *)

BaseKey(u) == CASE u = Prim -> PrimKey [] u = Holder -> HolderKey [] OTHER -> NoKey

Init ==
  /\ table = [size |-> 3,
              key |-> [u \in UTI |-> BaseKey(u)],
              typ |-> [k \in {NoKey, PrimKey, HolderKey} |->
                         IF k = NoKey THEN NoType
                         ELSE IF k = PrimKey THEN PrimType ELSE HolderType],
              utis |-> [k \in {NoKey, PrimKey, HolderKey} |->
                          {u \in {Nouti, Prim, Holder} : BaseKey(u) = k}],
              root |-> [u \in UTI |-> IF u <= Holder THEN u ELSE Nouti]]
  /\ prog = [n \in {} |-> Nouti]
  /\ instances = [u \in {} |-> Nouti]
  /\ stubs = {}
  /\ generated = {}
  /\ parsing = {}
  /\ labelling = FALSE

-----------------------------------------------------------------------------
(* While files are parsed.                                                 *)

\* A name nothing is known of: makeUlamTypeHolder, and a typedef of that name
\* for the scope when the parser makes one up.  A name followed by '.' is
\* taken for a class: the holder becomes an anonymous class.
MakeHolder(isTypedef, isClass) ==
  LET u == table.size
      held == Append(table, HolderKey, HolderType)
      anon == TypeFromHolder(held, prog, u, MkKey(u, Unknown, NonArray, u, FALSE),
                             MkType("Class", "Unseen"))
  IN  /\ ~labelling /\ Room(table)
      /\ isClass => isTypedef
      /\ table' = IF isClass THEN anon.tab ELSE held
      /\ prog' = IF isClass THEN [n \in DOMAIN prog \cup {u} |-> IF n = u THEN u ELSE prog[n]]
                 ELSE prog
      /\ generated' = IF isTypedef THEN generated \cup {u} ELSE generated
      /\ UNCHANGED <<instances, stubs, parsing, labelling>>

\* addIncompleteClassSymbolToProgramTable, and the same for a template: a
\* class name is used before its class is seen.
AddIncompleteClass(c) ==
  LET made == MakeUlamType(table, MkKey(c, Unknown, NonArray, Nouti, FALSE),
                           MkType("Class", "Unseen"))
  IN  /\ ~labelling /\ Room(table)
      /\ c \notin DOMAIN prog
      /\ table' = made.tab
      /\ prog' = [n \in DOMAIN prog \cup {c} |-> IF n = c THEN made.uti ELSE prog[n]]
      /\ UNCHANGED <<instances, stubs, generated, parsing, labelling>>

SetClassType(t, k, c) ==
  IF k \in DOMAIN t.typ THEN ReplaceType(t, k, MkType("Class", c)) ELSE t

\* parseThisClass meets the head of class c: the class type is known from now.
SeeClass(c, ctyp) ==
  /\ ~labelling /\ parsing = {}
  /\ c \in DOMAIN prog /\ IsUnseen(table, prog[c])
  /\ table' = SetClassType(table, table.key[prog[c]], ctyp)
  /\ parsing' = {c}
  /\ UNCHANGED <<prog, instances, stubs, generated, labelling>>

\* fixAnyUnseenClassInstances: instances made while the template was unseen.
InstancesToFix(c) ==
  {k \in DOMAIN table.typ :
     /\ table.typ[k].ctyp = "Unseen"
     /\ \E u \in DOMAIN instances :
          OkUTI(table, instances[u]) /\ table.key[instances[u]] = k /\ k.name = c}

FinishClass(c) ==
  /\ parsing = {c}
  /\ table' = [table EXCEPT !.typ =
       [k \in DOMAIN @ |-> IF k \in InstancesToFix(c)
                           THEN MkType("Class", TypeOf(table, prog[c]).ctyp) ELSE @[k]]]
  /\ parsing' = {}
  /\ UNCHANGED <<prog, instances, stubs, generated, labelling>>

\* The class block does not parse: back to UC_UNSEEN.
FailClass(c) ==
  /\ parsing = {c}
  /\ table' = SetClassType(table, table.key[prog[c]], "Unseen")
  /\ parsing' = {}
  /\ UNCHANGED <<prog, instances, stubs, generated, labelling>>

\* NodeIdent::installSymbolTypedef: the typedef of a holder names a primitive.
TypedefOfPrimitive(u, b, ref) ==
  LET done == TypeFromHolder(table, prog, u, MkKey(PrimName, b, NonArray, Nouti, ref), PrimType)
  IN  /\ ~labelling
      /\ u \in Held(table) /\ IsHolder(table, u)
      /\ table' = done.tab
      /\ prog' = done.prog
      /\ UNCHANGED <<instances, stubs, generated, parsing, labelling>>

\* A use of template c with arguments: a stub, its own instance.
\* Bug: the stub is not entered among the instances of its template.
BugMakeStubNotEntered(c) ==
  LET made == MakeUlamType(table, MkKey(c, Unknown, NonArray, Nouti, FALSE),
                           MkType("Class", TypeOf(table, prog[c]).ctyp))
  IN  /\ Room(table)
      /\ c \in DOMAIN prog
      /\ table' = made.tab
      /\ stubs' = stubs \cup {made.uti}
      /\ UNCHANGED <<prog, instances, generated, parsing, labelling>>

MakeStub(c) ==
  LET made == MakeUlamType(table, MkKey(c, Unknown, NonArray, Nouti, FALSE),
                           MkType("Class", TypeOf(table, prog[c]).ctyp))
  IN  /\ Room(table)
      /\ c \in DOMAIN prog
      /\ table' = made.tab
      /\ instances' = [u \in DOMAIN instances \cup {made.uti} |->
                         IF u = made.uti THEN u ELSE instances[u]]
      /\ stubs' = stubs \cup {made.uti}
      /\ UNCHANGED <<prog, generated, parsing, labelling>>

\* Compiler::checkAndTypeLabelProgram, once every file is parsed.
StartLabelling ==
  /\ ~labelling /\ parsing = {}
  /\ labelling' = TRUE
  /\ UNCHANGED <<table, prog, instances, stubs, generated, parsing>>

-----------------------------------------------------------------------------
(* Types made from types.                                                  *)

\* getUlamTypeAsRef
AsRef(u) ==
  /\ u \in Held(table) /\ OkUTI(table, u) /\ ~table.key[u].ref
  /\ Room(table)
  /\ table' = MakeUlamType(table, [table.key[u] EXCEPT !.ref = TRUE],
                           [TypeOf(table, u) EXCEPT !.based = FALSE]).tab
  /\ UNCHANGED <<prog, instances, stubs, generated, parsing, labelling>>

\* getUlamTypeAsDeref
AsDeref(u) ==
  /\ u \in Held(table) /\ OkUTI(table, u)
  /\ ~(IsClass(table, u) /\ IsScalar(table, u))
  /\ Room(table)
  /\ table' = MakeUlamType(table, [table.key[u] EXCEPT !.ref = FALSE],
                           [TypeOf(table, u) EXCEPT !.based = FALSE]).tab
  /\ UNCHANGED <<prog, instances, stubs, generated, parsing, labelling>>

\* getUlamTypeAsArrayOfScalar
AsArrayOfScalar(u) ==
  /\ u \in Held(table) /\ IsScalar(table, u)
  /\ Room(table)
  /\ table' = MakeUlamType(table, [table.key[u] EXCEPT !.arr = Unknown, !.ref = FALSE],
                           [TypeOf(table, u) EXCEPT !.based = FALSE]).tab
  /\ UNCHANGED <<prog, instances, stubs, generated, parsing, labelling>>

-----------------------------------------------------------------------------
(* While the program is labelled: what the unknown types turn out to be.   *)
(* An assertion of the code is part of a guard: it aborts the compiler.    *)

\* What a caller has found out of u: callers look a class up by its name.
KnownType(u) ==
  /\ OkUTI(table, u) /\ ~IsHolder(table, u)
  /\ IsClass(table, u) => table.key[u].name \in DOMAIN prog

\* What makeUlamTypeFromHolder asserts when class u takes key k, and what
\* removeIncompleteClassSymbolFromProgramTable does of an entry it leaves.
FromHolderAsserts(t, p, u, k, ty) ==
  t.key[u] # k /\ IsScalarClass(t, u) =>
    LET old == t.key[u].name
    IN  IF ty.etyp # "Class" THEN old \in DOMAIN p /\ IsUnseen(t, p[old])
        ELSE IF old \notin DOMAIN p THEN k.name \in DOMAIN p
        ELSE k.name \in DOMAIN p => IsUnseen(t, p[old]) \/ IsComplete(t, p[old])

\* Bug: the type may be known already.
BugCleanableKnown(h) == IsHolder(table, h) \/ labelling

Cleanable(h) == IsHolder(table, h) \/ (labelling /\ ~IsComplete(table, h))

\* cleanupExistingHolder, from the parser, the resolver, the type descriptors
\* and the scope of a file.  No caller has a type of a class template: "no way
\* a template or stub" (Resolver.cpp:180).
CleanupExistingHolder(h, u) ==
  LET done == TypeFromHolder(table, prog, h, table.key[u],
                             [TypeOf(table, u) EXCEPT !.based = FALSE])
  IN  /\ h \in Held(table) /\ u \in Held(table) /\ h # u
      /\ Cleanable(h) /\ table.key[h].name \notin Templates
      /\ KnownType(u)
      /\ FromHolderAsserts(table, prog, h, table.key[u], TypeOf(table, u))
      /\ table' = AliasForced(done.tab, h, u)
      /\ prog' = done.prog
      /\ UNCHANGED <<instances, stubs, generated, parsing, labelling>>

\* NodeTypedef::checkAndLabelType links the UTI a typedef has to the UTI its
\* descriptor resolved to; Nav, which is not in the model, is all that is left out.
LinkedTypedef(t, td, u) ==
  IF t.key[td].ref # t.key[u].ref THEN t
  ELSE IF IsClass(t, u) THEN AliasForced(t, td, u) ELSE Alias(t, td, u)

\* ... and when the parser had made the typedef up, takes the key over first.
ReplaceGeneratedTypedef(td, u) ==
  LET done == ReplaceKeyAndAlias(table, prog, td, u)
  IN  /\ labelling
      /\ td \in generated /\ u \in Held(table) /\ u # td
      /\ OkUTI(table, u)
      /\ table' = LinkedTypedef(done.tab, td, u)
      /\ prog' = done.prog
      /\ generated' = generated \ {td}
      /\ UNCHANGED <<instances, stubs, parsing, labelling>>

LinkTypedef(td, u) ==
  /\ labelling
  /\ td \in Held(table) \ generated /\ u \in Held(table) /\ u # td
  /\ OkUTI(table, u)
  /\ table' = LinkedTypedef(table, td, u)
  /\ UNCHANGED <<prog, instances, stubs, generated, parsing, labelling>>

\* NodeTypeDescriptor::resetGivenUTI: the given type's root is a stub and the
\* new one's root is not.  Both name the type of one descriptor, so the stub
\* turns out to have the arguments of u.
AliasStub(s, u) ==
  /\ labelling
  /\ s \in stubs /\ IsRoot(table, s)
  /\ \E v \in Held(table) : v # s /\ table.root[v] = s
  /\ u \in Held(table) \ stubs /\ u # s
  /\ IsRoot(table, u) /\ OkUTI(table, u) /\ IsScalarClass(table, u)
  /\ table.key[u].name = table.key[s].name
  /\ u \in DOMAIN instances /\ instances[u] = u
  /\ table' = AliasForced(table, s, u)
  /\ UNCHANGED <<prog, instances, stubs, generated, parsing, labelling>>

\* fullyInstantiate: a stub whose arguments are known is instantiated, or
\* merged (mergeClassUTI) into the instance that already has these arguments:
\* for a stub linked to an instance, into that one.
Instantiate(s) ==
  /\ labelling /\ s \in stubs /\ IsRoot(table, s) /\ ~IsUnseen(table, s)
  /\ stubs' = stubs \ {s}
  /\ UNCHANGED <<table, prog, instances, generated, parsing, labelling>>

MergeStub(s, u) ==
  LET done == ReplaceKeyAndAlias(table, prog, s, u)
  IN  /\ labelling /\ s \in stubs /\ ~IsUnseen(table, s)
      /\ u \in DOMAIN instances \ stubs /\ instances[u] = u /\ OkUTI(table, u)
      /\ ~IsUnseen(table, u)
      /\ table.root[s] \in {s, u}
      /\ table.key[s].name = table.key[u].name
      /\ table' = done.tab
      /\ prog' = done.prog
      /\ instances' = [instances EXCEPT ![s] = u]
      /\ stubs' = stubs \ {s}
      /\ UNCHANGED <<generated, parsing, labelling>>

\* SymbolClassName::setBitSizeOfClassInstances, b the total bits.
SizeClass(c, b) ==
  LET u == prog[c]
      sized == SetUTISizes(table, u, b, table.key[u].arr, FALSE)
  IN  /\ labelling /\ c \in DOMAIN prog \ Templates
      /\ ~IsComplete(table, u) /\ ~IsUnseen(table, u)
      /\ table' = IF sized.key[u].bits = b THEN SetBaseClassBitSize(sized, u) ELSE sized
      /\ UNCHANGED <<prog, instances, stubs, generated, parsing, labelling>>

\* One turn of SymbolClassNameTemplate::setBitSizeOfClassInstances' loop: the
\* entry takes the size of its symbol's class when that one is complete; b is
\* computed from the symbol, so it is the same for every entry of a symbol.
SizeInstance(u, b) ==
  LET c == instances[u]
      total == IF IsComplete(table, c) THEN table.key[c].bits ELSE b
      sized == SetUTISizes(table, u, total, table.key[u].arr, FALSE)
  IN  /\ labelling /\ u \in DOMAIN instances \ stubs /\ c \notin stubs
      /\ ~IsUnseen(table, u) /\ ~IsComplete(table, u)
      /\ \A v \in DOMAIN instances :
           instances[v] = c /\ IsComplete(table, v) => b = table.key[v].bits
      /\ table' = AliasForced(SetBaseClassBitSize(sized, u), u, c)
      /\ UNCHANGED <<prog, instances, stubs, generated, parsing, labelling>>

\* completeAReferenceTypeWith
CompleteAReference(r, u) ==
  LET k == [table.key[u] EXCEPT !.ref = TRUE]
      ty == [TypeOf(table, u) EXCEPT !.based = FALSE]
      held == TypeFromHolder(table, prog, r, k, ty)
      sized == SetUTISizes(table, r, table.key[u].bits, table.key[u].arr, FALSE)
      seen == IF IsComplete(sized, r) THEN sized ELSE ReplaceType(sized, sized.key[r], ty)
  IN  /\ labelling
      /\ r \in Held(table) /\ table.key[r].ref
      /\ u \in Held(table) /\ ~table.key[u].ref /\ IsComplete(table, u)
      /\ ~IsComplete(table, r)
      /\ ~IsHolder(table, r) => /\ table.key[r].name = table.key[u].name
                                /\ table.key[r].inst = table.key[u].inst
      /\ IF IsHolder(table, r) THEN table' = held.tab /\ prog' = held.prog
         ELSE table' = seen /\ prog' = prog
      /\ UNCHANGED <<instances, stubs, generated, parsing, labelling>>

\* NodeTypeDescriptorArray::resolveType: array a of scalar type s, n its
\* length if the bracket could be evaluated.
SizeArray(a, s, n) ==
  LET ka == table.key[a]
      ks == table.key[s]
      ts == [TypeOf(table, s) EXCEPT !.based = FALSE]
      len == IF ka.arr >= 0 THEN ka.arr ELSE n
      given == IF IsHolder(table, a) /\ ka.arr < 0
               THEN TypeFromHolder(table, prog, a, [ks EXCEPT !.arr = Unknown, !.ref = ka.ref], ts)
               ELSE [tab |-> table, prog |-> prog]
      sized == SetUTISizes(given.tab, a, ks.bits, len, TRUE)
      matched == IF IsClass(sized, a) /\ TypeOf(sized, a).ctyp # ts.ctyp
                 THEN SetClassType(sized, sized.key[a], ts.ctyp) ELSE sized
  IN  /\ labelling
      /\ a \in Held(table) /\ ~ka.ref /\ s \in Held(table) /\ ~ks.ref /\ a # s
      /\ IsScalar(table, s) /\ KnownType(s)
      /\ \/ IsHolder(table, a)
         \/ ~IsScalar(table, a) /\ ka.name = ks.name /\ ka.inst = ks.inst
      /\ ~IsComplete(table, a)
      /\ ka.arr >= 0 => IsComplete(table, s)
      /\ table' = matched
      /\ prog' = given.prog
      /\ UNCHANGED <<instances, stubs, generated, parsing, labelling>>

-----------------------------------------------------------------------------
Parse ==
  \/ \E td, c \in BOOLEAN : MakeHolder(td, c)
  \/ \E c \in Classes \cup Templates : AddIncompleteClass(c)
  \/ \E c \in Classes \cup Templates, ct \in {"Quark", "Element"} : SeeClass(c, ct)
  \/ \E c \in Classes \cup Templates : FinishClass(c) \/ FailClass(c)
  \/ \E u \in UTI, b \in Sizes \ {0}, ref \in BOOLEAN : TypedefOfPrimitive(u, b, ref)
  \/ \E c \in Templates : MakeStub(c)
  \/ StartLabelling

Derive == \E u \in UTI : AsRef(u) \/ AsDeref(u) \/ AsArrayOfScalar(u)

Label ==
  \/ \E h, u \in UTI : CleanupExistingHolder(h, u)
  \/ \E td, u \in UTI : ReplaceGeneratedTypedef(td, u) \/ LinkTypedef(td, u)
  \/ \E s, u \in UTI : AliasStub(s, u) \/ MergeStub(s, u)
  \/ \E s \in UTI : Instantiate(s)
  \/ \E c \in Classes, b \in Sizes : SizeClass(c, b)
  \/ \E u \in UTI, b \in Sizes : SizeInstance(u, b)
  \/ \E r, u \in UTI : CompleteAReference(r, u)
  \/ \E a, s \in UTI, n \in Lengths \cup {Unknown} : SizeArray(a, s, n)

Next == Parse \/ Derive \/ Label

Spec == Init /\ [][Next]_vars

-----------------------------------------------------------------------------
(* Properties.                                                             *)

TableOK(t) ==
  /\ t = [size |-> t.size, key |-> t.key, typ |-> t.typ, utis |-> t.utis, root |-> t.root]
  /\ t.size \in 1 .. MaxUTI + 1
  /\ t.key \in [UTI -> Key]
  /\ DOMAIN t.typ \subseteq Key /\ \A k \in DOMAIN t.typ : t.typ[k] \in UlamType
  /\ DOMAIN t.utis \subseteq Key /\ \A k \in DOMAIN t.utis : t.utis[k] \subseteq Used(t)
  /\ t.root \in [UTI -> UTI]

ParsingOK == parsing \in {{}} \cup {{c} : c \in Classes \cup Templates}

\* Every variable holds a value of its type: among others a stub, and what a
\* stub is merged into, are instances of their template, and no class symbol
\* and no instance has type Nouti.
TypeOK ==
  /\ TableOK(table)
  /\ DOMAIN prog \subseteq Name /\ \A n \in DOMAIN prog : prog[n] \in Used(table) \ {Nouti}
  /\ DOMAIN instances \subseteq Used(table) \ {Nouti}
  /\ \A u \in DOMAIN instances : instances[u] \in DOMAIN instances
  /\ stubs \subseteq DOMAIN instances
  /\ generated \subseteq Used(table) \ {Nouti}
  /\ ParsingOK
  /\ labelling \in BOOLEAN

\* Every entry of m_indexToUlamKey is counted under its key and, for every key
\* but Nouti's (where a deleted key leaves its user behind), nobody else is:
\* incrementUTICounter and decrementUTICounter pair up over every handler.
CountsExact(t) ==
  /\ \A u \in Used(t) : u \in UtisOf(t, t.key[u])
  /\ \A k \in DOMAIN t.utis :
       /\ t.utis[k] # {}
       /\ k # NoKey => \A u \in t.utis[k] : t.key[u] = k

KeyCountsExact == CountsExact(table)

\* deleteUlamKeyTypeSignature deletes an UlamType with its last user and not
\* before: no index names a key without a type, and no type is leaked.
NoDangling(t) == DOMAIN t.typ = DOMAIN t.utis

NoDanglingKey == NoDangling(table)

\* m_programDefST and the type table agree: an entry's UTI has a class type of
\* that name, and the name of every scalar class that is its own root is there
\* (alreadyDefinedSymbolClassName is asserted to find it).
ProgramTableNamesClasses ==
  /\ \A n \in DOMAIN prog : IsClass(table, prog[n]) /\ table.key[prog[n]].name = n
  /\ \A u \in Used(table) :
       IsScalarClass(table, u) /\ IsRoot(table, u) => table.key[u].name \in DOMAIN prog

Complete == {u \in Used(table) : IsComplete(table, u)}

\* A type that is complete keeps its key and stays complete while keys and
\* UlamTypes it shares with others are replaced, resized and deleted around it:
\* only a typedef that the parser made up may change once more, when its own
\* declaration is labelled.
KnownTypeStays ==
  [][\A u \in UTI :
       u \in Complete => \/ u \in Complete' /\ table'.key[u] = table.key[u]
                        \/ u \in generated \ generated']_vars

=============================================================================
