------------------------- MODULE UlamTypeTableProofs -------------------------
(***************************************************************************)
(* For every set of classes, sizes and lengths and any number of UTIs: the *)
(* containers of UlamTypeTable keep their types, the users of every key    *)
(* are counted exactly and a key has an UlamType exactly while it has a    *)
(* user.  The invariant is proved helper by helper: each operator that     *)
(* edits the table takes a counted table to a counted table.               *)
(*                                                                         *)
(* The second half is about what the UTIs stand for: UInv says what the    *)
(* keys, the program table and the instances of templates have to do with  *)
(* each other.  Most handlers only move one UTI (Moved) or give one key    *)
(* another UlamType (Retyped), and the lemmas on those two do most of the  *)
(* work.  The theorems are at the end, from both invariants.               *)
(***************************************************************************)
EXTENDS UlamTypeTable, FiniteSetTheorems, WellFoundedInduction, TLAPS

\* What every helper needs of the table and restores, but for the UTIs in E
\* whose key is being changed: those are counted nowhere but under Nouti's key.
CountedBut(t, E) ==
  /\ TableOK(t)
  /\ NoDangling(t)
  /\ \A u \in Used(t) \ E : u \in UtisOf(t, t.key[u])
  /\ \A k \in DOMAIN t.utis :
       /\ t.utis[k] # {}
       /\ k # NoKey => \A u \in t.utis[k] : t.key[u] = k
  /\ Nouti \in UtisOf(t, NoKey) /\ t.key[Nouti] = NoKey
  /\ \A u \in E \cup (UTI \ Used(t)) : u \in UTI => t.key[u] = NoKey

Counted(t) == CountedBut(t, {})

USE DEF Nouti, Prim, Holder, Unknown, NonArray

-----------------------------------------------------------------------------
(* The assumptions in the form the steps need.                             *)

LEMMA ConstantFacts ==
  /\ MaxUTI \in Nat /\ MaxUTI > 2
  /\ Sizes \subseteq Nat /\ PrimBits \in Sizes /\ 0 \in Sizes /\ Lengths \subseteq Nat
BY SizesAssumption

LEMMA BaseKeysAreKeys == NoKey \in Key /\ PrimKey \in Key /\ HolderKey \in Key
BY ConstantFacts DEF NoKey, PrimKey, HolderKey, MkKey, Key, Name, UTI

LEMMA BaseTypesAreTypes ==
  NoType \in UlamType /\ PrimType \in UlamType /\ HolderType \in UlamType /\ NavType \in UlamType
BY DEF NoType, PrimType, HolderType, NavType, MkType, UlamType, Etypes, Ctypes

\* begin() of a non-empty std::set<UTI> is its least element.
LEMMA LeastOfIsLeast ==
  ASSUME NEW S, S \subseteq Nat, S # {}
  PROVE  LeastOf(S) \in S /\ \A v \in S : LeastOf(S) <= v
<1> DEFINE Below == {0 .. n : n \in S}
<1>1. \A n \in S : IsFiniteSet(0 .. n)
  BY FS_Interval
<1>2. Below \subseteq FiniteSubsetsOf(Nat) /\ Below # {}
  <2>1. \A n \in S : 0 .. n \in SUBSET Nat
    OBVIOUS
  <2>2. \A n \in S : 0 .. n \in FiniteSubsetsOf(Nat)
    BY <1>1, <2>1, Zenon DEF FiniteSubsetsOf
  <2> QED BY <2>2
<1>3. PICK B \in Below : \A C \in Below : <<C, B>> \notin StrictSubsetOrdering(Nat)
  <2> HIDE DEF Below
  <2> QED BY <1>2, FS_StrictSubsetOrderingWellFounded, WFMin, Zenon
<1>4. PICK m \in S : B = 0 .. m
  OBVIOUS
<1>5. ASSUME NEW v \in S PROVE m <= v
  <2>1. SUFFICES ASSUME v < m PROVE FALSE
    OBVIOUS
  <2>2. 0 .. v \in Below
    OBVIOUS
  <2>3. /\ 0 .. v \subseteq 0 .. m /\ 0 .. v \subseteq Nat /\ 0 .. m \subseteq Nat
        /\ m \in 0 .. m /\ m \notin 0 .. v
    BY <2>1
  <2>4. <<0 .. v, 0 .. m>> \in StrictSubsetOrdering(Nat)
    BY <2>3, Zenon DEF StrictSubsetOrdering
  <2> QED BY <1>3, <1>4, <2>2, <2>4
<1> QED BY <1>5 DEF LeastOf

-----------------------------------------------------------------------------
(* Lemmas on the containers.                                               *)

LEMMA TypeOfIsType ==
  ASSUME NEW t, TableOK(t), NEW u \in UTI
  PROVE  /\ TypeOf(t, u) \in UlamType
         /\ [TypeOf(t, u) EXCEPT !.based = FALSE] \in UlamType
<1>1. TypeOf(t, u) \in UlamType
  BY BaseTypesAreTypes DEF TypeOf, TableOK
<1> QED BY <1>1 DEF UlamType

LEMMA TableOfParts ==
  ASSUME NEW n \in 1 .. MaxUTI + 1, NEW key \in [UTI -> Key], NEW typ, NEW utis, NEW root \in [UTI -> UTI],
         \A k \in DOMAIN typ : k \in Key /\ typ[k] \in UlamType,
         \A k \in DOMAIN utis : k \in Key /\ utis[k] \subseteq 0 .. n - 1
  PROVE  TableOK([size |-> n, key |-> key, typ |-> typ, utis |-> utis, root |-> root])
BY DEF TableOK, Used

LEMMA UsedIsUTI == ASSUME NEW t, TableOK(t) PROVE Used(t) \subseteq UTI
BY ConstantFacts DEF Used, TableOK, UTI

\* Kept folded where a lemma is instantiated.
AreUsers(t, S) == S \subseteq Used(t)

UtisWith(t, k, S) ==
  [x \in IF S = {} THEN DOMAIN t.utis \ {k} ELSE DOMAIN t.utis \cup {k} |->
     IF x = k THEN S ELSE t.utis[x]]

LEMMA WithUtisFields ==
  ASSUME NEW t, TableOK(t), NEW k \in Key, NEW S, AreUsers(t, S)
  PROVE  /\ TableOK(WithUtis(t, k, S))
         /\ WithUtis(t, k, S).size = t.size
         /\ WithUtis(t, k, S).key = t.key
         /\ WithUtis(t, k, S).typ = t.typ
         /\ WithUtis(t, k, S).utis = UtisWith(t, k, S)
<1>1. WithUtis(t, k, S) = [size |-> t.size, key |-> t.key, typ |-> t.typ,
                           utis |-> UtisWith(t, k, S), root |-> t.root]
  BY DEF WithUtis, UtisWith, TableOK
<1>2. \A x \in DOMAIN UtisWith(t, k, S) : UtisWith(t, k, S)[x] \subseteq 0 .. t.size - 1 /\ x \in Key
  BY DEF TableOK, AreUsers, Used, UtisWith
<1>3. TableOK(WithUtis(t, k, S))
  BY <1>1, <1>2, TableOfParts DEF TableOK
<1> QED BY <1>1, <1>3

LEMMA UtisOfUsed ==
  ASSUME NEW t, TableOK(t), NEW k, NEW S \in SUBSET Used(t)
  PROVE  AreUsers(t, UtisOf(t, k) \cup S) /\ AreUsers(t, UtisOf(t, k) \ S)
BY DEF TableOK, UtisOf, AreUsers

\* incrementUTICounter counts u under k.
LEMMA IncrementFields ==
  ASSUME NEW t, TableOK(t), NEW k \in Key, NEW u \in Used(t)
  PROVE  /\ TableOK(IncrementKey(t, k, u))
         /\ IncrementKey(t, k, u).size = t.size
         /\ IncrementKey(t, k, u).key = t.key
         /\ IncrementKey(t, k, u).typ = t.typ
         /\ IncrementKey(t, k, u).utis = UtisWith(t, k, UtisOf(t, k) \cup {u})
BY UtisOfUsed, WithUtisFields DEF IncrementKey

LEMMA DecrementFields ==
  ASSUME NEW t, TableOK(t), NEW k \in Key, NEW u \in Used(t)
  PROVE  /\ TableOK(DecrementKey(t, k, u))
         /\ DecrementKey(t, k, u).size = t.size
         /\ DecrementKey(t, k, u).key = t.key
         /\ DecrementKey(t, k, u).typ = t.typ
         /\ DecrementKey(t, k, u).utis = UtisWith(t, k, UtisOf(t, k) \ {u})
BY UtisOfUsed, WithUtisFields DEF DecrementKey

LEMMA EraseFields ==
  ASSUME NEW t, TableOK(t), NEW k
  PROVE  /\ TableOK(EraseType(t, k))
         /\ EraseType(t, k).size = t.size
         /\ EraseType(t, k).key = t.key
         /\ EraseType(t, k).typ = [x \in DOMAIN t.typ \ {k} |-> t.typ[x]]
         /\ EraseType(t, k).utis = t.utis
<1> DEFINE f == [x \in DOMAIN t.typ \ {k} |-> t.typ[x]]
<1>1. EraseType(t, k) = [size |-> t.size, key |-> t.key, typ |-> f, utis |-> t.utis, root |-> t.root]
  BY DEF EraseType, TableOK
<1>2. \A x \in DOMAIN f : f[x] \in UlamType /\ x \in Key
  BY DEF TableOK
<1> HIDE DEF f
<1>3. TableOK(EraseType(t, k))
  BY <1>1, <1>2, TableOfParts DEF TableOK, Used
<1> QED BY <1>1, <1>3 DEF f

LEMMA DefineFields ==
  ASSUME NEW t, TableOK(t), NEW k \in Key, NEW ty \in UlamType
  PROVE  /\ TableOK(DefineType(t, k, ty))
         /\ DefineType(t, k, ty).size = t.size
         /\ DefineType(t, k, ty).key = t.key
         /\ DOMAIN DefineType(t, k, ty).typ = DOMAIN t.typ \cup {k}
         /\ DefineType(t, k, ty).utis = t.utis
<1> DEFINE f == [x \in DOMAIN t.typ \cup {k} |-> IF x \in DOMAIN t.typ THEN t.typ[x] ELSE ty]
<1>1. DefineType(t, k, ty) = [size |-> t.size, key |-> t.key, typ |-> f, utis |-> t.utis, root |-> t.root]
  BY DEF DefineType, TableOK
<1>2. \A x \in DOMAIN f : f[x] \in UlamType /\ x \in Key
  BY DEF TableOK
<1>3. DOMAIN f = DOMAIN t.typ \cup {k}
  OBVIOUS
<1> HIDE DEF f
<1>4. TableOK(DefineType(t, k, ty))
  BY <1>1, <1>2, TableOfParts DEF TableOK, Used
<1> QED BY <1>1, <1>3, <1>4

LEMMA ReplaceFields ==
  ASSUME NEW t, TableOK(t), NEW k \in DOMAIN t.typ, NEW ty \in UlamType
  PROVE  /\ TableOK(ReplaceType(t, k, ty))
         /\ ReplaceType(t, k, ty).size = t.size
         /\ ReplaceType(t, k, ty).key = t.key
         /\ DOMAIN ReplaceType(t, k, ty).typ = DOMAIN t.typ
         /\ ReplaceType(t, k, ty).utis = t.utis
<1> DEFINE f == [t.typ EXCEPT ![k] = ty]
<1>1. ReplaceType(t, k, ty) = [size |-> t.size, key |-> t.key, typ |-> f, utis |-> t.utis, root |-> t.root]
  BY DEF ReplaceType, TableOK
<1>2. \A x \in DOMAIN f : f[x] \in UlamType /\ x \in Key
  BY DEF TableOK
<1>3. DOMAIN f = DOMAIN t.typ
  OBVIOUS
<1> HIDE DEF f
<1>4. TableOK(ReplaceType(t, k, ty))
  BY <1>1, <1>2, TableOfParts DEF TableOK, Used
<1> QED BY <1>1, <1>3, <1>4

LEMMA SetKeyFields ==
  ASSUME NEW t, TableOK(t), NEW u \in UTI, NEW k \in Key
  PROVE  /\ TableOK([t EXCEPT !.key[u] = k])
         /\ [t EXCEPT !.key[u] = k].size = t.size
         /\ [t EXCEPT !.key[u] = k].key = [t.key EXCEPT ![u] = k]
         /\ [t EXCEPT !.key[u] = k].typ = t.typ
         /\ [t EXCEPT !.key[u] = k].utis = t.utis
<1>1. [t EXCEPT !.key[u] = k] = [size |-> t.size, key |-> [t.key EXCEPT ![u] = k], typ |-> t.typ,
                                 utis |-> t.utis, root |-> t.root]
  BY DEF TableOK
<1>2. [t.key EXCEPT ![u] = k] \in [UTI -> Key]
  BY DEF TableOK
<1>3. TableOK([t EXCEPT !.key[u] = k])
  BY <1>1, <1>2, TableOfParts DEF TableOK, Used
<1> QED BY <1>1, <1>3

LEMMA AliasForcedFields ==
  ASSUME NEW t, TableOK(t), NEW u \in UTI, NEW v \in UTI
  PROVE  /\ TableOK(AliasForced(t, u, v))
         /\ AliasForced(t, u, v).size = t.size
         /\ AliasForced(t, u, v).key = t.key
         /\ AliasForced(t, u, v).typ = t.typ
         /\ AliasForced(t, u, v).utis = t.utis
<1>1. AliasForced(t, u, v) = [size |-> t.size, key |-> t.key, typ |-> t.typ,
                              utis |-> t.utis, root |-> [t.root EXCEPT ![u] = v]]
  BY DEF AliasForced, TableOK
<1>2. [t.root EXCEPT ![u] = v] \in [UTI -> UTI]
  BY DEF TableOK
<1>3. TableOK(AliasForced(t, u, v))
  BY <1>1, <1>2, TableOfParts DEF TableOK, Used
<1> QED BY <1>1, <1>3

-----------------------------------------------------------------------------
(* The helpers keep the table counted.                                     *)

LEMMA CountedFacts ==
  ASSUME NEW t, NEW E, CountedBut(t, E)
  PROVE  /\ TableOK(t) /\ t.key \in [UTI -> Key] /\ Used(t) \subseteq UTI
         /\ NoKey \in Key /\ NoKey \in DOMAIN t.utis /\ Nouti \in t.utis[NoKey] /\ Nouti \in UTI
         /\ DOMAIN t.utis \subseteq Key /\ DOMAIN t.typ = DOMAIN t.utis
         /\ \A x \in DOMAIN t.utis : t.utis[x] \subseteq UTI
BY UsedIsUTI, BaseKeysAreKeys, ConstantFacts DEF CountedBut, UtisOf, TableOK, NoDangling

\* deleteUlamKeyTypeSignature: only u is uncounted; the UlamType goes with the
\* last user.  k is the key of u, or the key it had before it was deleted.
LEMMA DeleteKeyCounted ==
  ASSUME NEW t, Counted(t), NEW u \in Used(t), u # Nouti,
         NEW k \in Key, t.key[u] \in {k, NoKey}
  PROVE  /\ Counted(DeleteKey(t, k, u))
         /\ DeleteKey(t, k, u).size = t.size
         /\ DeleteKey(t, k, u).key = [t.key EXCEPT ![u] = NoKey]
<1>1. PICK less : less = DecrementKey(t, k, u)
  OBVIOUS
<1>2. PICK kept : kept = IF UtisOf(less, k) = {} THEN EraseType(less, k) ELSE less
  OBVIOUS
<1>3. PICK bare : bare = [kept EXCEPT !.key[u] = NoKey]
  OBVIOUS
<1>4. PICK more : more = IncrementKey(bare, NoKey, u)
  OBVIOUS
<1>5. PICK d : d = AliasForced(more, u, Nouti)
  OBVIOUS
<1>6. d = DeleteKey(t, k, u)
  BY <1>1, <1>2, <1>3, <1>4, <1>5 DEF DeleteKey
<1>7. TableOK(t) /\ NoKey \in Key /\ u \in UTI /\ Nouti \in UTI
  BY CountedFacts DEF Counted
<1>8. /\ TableOK(less) /\ less.size = t.size /\ less.key = t.key /\ less.typ = t.typ
      /\ less.utis = UtisWith(t, k, UtisOf(t, k) \ {u})
  BY <1>1, <1>7, DecrementFields
<1>9. /\ TableOK(kept) /\ kept.size = t.size /\ kept.key = t.key /\ kept.utis = less.utis
      /\ kept.typ = IF UtisOf(less, k) = {} THEN [x \in DOMAIN t.typ \ {k} |-> t.typ[x]] ELSE t.typ
  <2>1. CASE UtisOf(less, k) = {}
    BY <1>2, <1>8, <2>1, EraseFields
  <2>2. CASE UtisOf(less, k) # {}
    BY <1>2, <1>8, <2>2
  <2> QED BY <2>1, <2>2
<1>10. /\ TableOK(bare) /\ bare.size = t.size /\ bare.typ = kept.typ /\ bare.utis = less.utis
       /\ bare.key = [t.key EXCEPT ![u] = NoKey]
  BY <1>3, <1>7, <1>9, SetKeyFields
<1>11. u \in Used(bare)
  BY <1>10 DEF Used
<1>12. /\ TableOK(more) /\ more.size = t.size /\ more.typ = kept.typ /\ more.key = bare.key
       /\ more.utis = UtisWith(bare, NoKey, UtisOf(bare, NoKey) \cup {u})
  <2>1. TableOK(bare) /\ NoKey \in Key /\ u \in Used(bare)
    BY <1>7, <1>10, <1>11
  <2>2. /\ TableOK(more) /\ more.size = bare.size /\ more.typ = bare.typ /\ more.key = bare.key
        /\ more.utis = UtisWith(bare, NoKey, UtisOf(bare, NoKey) \cup {u})
    BY <1>4, <2>1, IncrementFields
  <2> QED BY <1>10, <2>2
<1>13. /\ TableOK(d) /\ d.size = t.size /\ d.typ = kept.typ /\ d.utis = more.utis
       /\ d.key = [t.key EXCEPT ![u] = NoKey]
  <2>1. /\ TableOK(d) /\ d.size = more.size /\ d.typ = more.typ /\ d.utis = more.utis
        /\ d.key = more.key
    <3>1. PICK v \in UTI : v = Nouti
      BY <1>7
    <3>2. d = AliasForced(more, u, v)
      BY <1>5, <3>1
    <3>3. TableOK(more) /\ u \in UTI
      BY <1>7, <1>12
    <3> QED BY <3>2, <3>3, AliasForcedFields
  <2> QED BY <1>10, <1>12, <2>1
<1>14. Used(d) = Used(t)
  BY <1>13 DEF Used
\* What the two counts come to.
<1>15. /\ DOMAIN less.utis = IF UtisOf(t, k) \ {u} = {} THEN DOMAIN t.utis \ {k} ELSE DOMAIN t.utis \cup {k}
       /\ \A x \in DOMAIN less.utis : less.utis[x] = IF x = k THEN UtisOf(t, k) \ {u} ELSE t.utis[x]
  BY <1>8 DEF UtisWith
<1>16. NoKey \in DOMAIN less.utis /\ Nouti \in less.utis[NoKey]
  BY <1>15, CountedFacts DEF Counted, UtisOf
<1>17. /\ DOMAIN d.utis = DOMAIN less.utis
       /\ \A x \in DOMAIN d.utis : d.utis[x] = IF x = NoKey THEN less.utis[NoKey] \cup {u} ELSE less.utis[x]
  BY <1>10, <1>12, <1>13, <1>16, SMTT(30) DEF UtisWith, UtisOf
<1>18. NoDangling(d)
  <2>1. DOMAIN t.typ = DOMAIN t.utis
    BY CountedFacts DEF Counted
  <2>2. CASE UtisOf(t, k) \ {u} = {}
    <3>1. UtisOf(less, k) = {}
      BY <1>15, <2>2 DEF UtisOf
    <3> QED BY <1>9, <1>13, <1>15, <1>17, <2>1, <2>2, <3>1 DEF NoDangling
  <2>3. CASE UtisOf(t, k) \ {u} # {}
    <3>1. UtisOf(less, k) # {} /\ k \in DOMAIN t.utis
      BY <1>15, <2>3 DEF UtisOf
    <3> QED BY <1>9, <1>13, <1>15, <1>17, <2>1, <2>3, <3>1 DEF NoDangling
  <2> QED BY <2>2, <2>3
<1>19. ASSUME NEW v \in Used(d) PROVE v \in UtisOf(d, d.key[v])
  <2>1. CASE v = u
    <3>1. d.key[v] = NoKey
      BY <1>7, <1>13, <2>1, CountedFacts DEF Counted
    <3> QED BY <1>16, <1>17, <2>1, <3>1 DEF UtisOf
  <2>2. CASE v # u
    <3>1. v \in UtisOf(t, t.key[v]) /\ v \in UTI
      BY <1>14, CountedFacts DEF Counted, CountedBut
    <3>2. d.key[v] = t.key[v]
      BY <1>7, <1>13, <2>2, <3>1, CountedFacts DEF Counted
    <3>3. v \in UtisOf(less, t.key[v])
      BY <1>15, <2>2, <3>1 DEF UtisOf
    <3> QED BY <1>17, <3>2, <3>3 DEF UtisOf
  <2> QED BY <2>1, <2>2
<1>20. ASSUME NEW x \in DOMAIN d.utis
       PROVE  d.utis[x] # {} /\ (x # NoKey => \A v \in d.utis[x] : d.key[v] = x)
  <2>1. CASE x = NoKey
    BY <1>17, <2>1
  <2>2. CASE x # NoKey
    <3>1. x \in DOMAIN less.utis /\ d.utis[x] = less.utis[x]
      BY <1>17, <2>2
    <3>2. /\ x \in DOMAIN t.utis /\ less.utis[x] # {} /\ less.utis[x] \subseteq t.utis[x]
          /\ x = k => u \notin less.utis[x]
      BY <1>15, <3>1 DEF Counted, CountedBut, UtisOf
    <3>3. \A v \in t.utis[x] : t.key[v] = x /\ v \in UTI
      BY <2>2, <3>2, CountedFacts DEF Counted, CountedBut
    <3>4. u \notin less.utis[x]
      BY <2>2, <3>2, <3>3
    <3>5. \A v \in less.utis[x] : d.key[v] = t.key[v]
      BY <1>7, <1>13, <3>2, <3>3, <3>4, CountedFacts DEF Counted
    <3> QED BY <3>1, <3>2, <3>3, <3>5
  <2> QED BY <2>1, <2>2
<1>21. d.key[Nouti] = NoKey /\ Nouti \in UtisOf(d, NoKey)
  BY <1>7, <1>13, <1>16, <1>17, CountedFacts DEF UtisOf, Counted, CountedBut
<1>22. \A v \in UTI \ Used(d) : d.key[v] = NoKey
  BY <1>7, <1>13, <1>14, CountedFacts DEF Counted, CountedBut
<1> QED BY <1>6, <1>13, <1>18, <1>19, <1>20, <1>21, <1>22 DEF Counted, CountedBut

\* u is counted under the key it is given; def is t with a type for that key.
LEMMA CountKeyCounted ==
  ASSUME NEW t, NEW u \in Used(t), CountedBut(t, {u}), NEW k \in Key, u # Nouti,
         NEW def, TableOK(def), def.size = t.size, def.key = t.key, def.utis = t.utis,
         DOMAIN def.typ = DOMAIN t.typ \cup {k}
  PROVE  /\ Counted(IncrementKey([def EXCEPT !.key[u] = k], k, u))
         /\ IncrementKey([def EXCEPT !.key[u] = k], k, u).size = t.size
<1>2. PICK set : set = [def EXCEPT !.key[u] = k]
  OBVIOUS
<1>3. PICK d : d = IncrementKey(set, k, u)
  OBVIOUS
<1>5. TableOK(t) /\ u \in UTI /\ Nouti \in UTI /\ NoKey \in Key
  BY CountedFacts
<1>7. /\ TableOK(set) /\ set.size = t.size /\ set.utis = t.utis
      /\ DOMAIN set.typ = DOMAIN t.typ \cup {k} /\ set.key = [t.key EXCEPT ![u] = k]
  BY <1>2, <1>5, SetKeyFields
<1>8. u \in Used(set)
  BY <1>7 DEF Used
<1>9. /\ TableOK(d) /\ d.size = t.size /\ d.utis = UtisWith(set, k, UtisOf(set, k) \cup {u})
      /\ DOMAIN d.typ = DOMAIN t.typ \cup {k} /\ d.key = [t.key EXCEPT ![u] = k]
  BY <1>3, <1>7, <1>8, IncrementFields
<1>10. /\ DOMAIN d.utis = DOMAIN t.utis \cup {k}
       /\ \A x \in DOMAIN d.utis : d.utis[x] = IF x = k THEN UtisOf(t, k) \cup {u} ELSE t.utis[x]
  BY <1>7, <1>9 DEF UtisWith, UtisOf
<1>11. NoDangling(d) /\ Used(d) = Used(t)
  BY <1>9, <1>10, CountedFacts DEF NoDangling, Used
<1>12. ASSUME NEW v \in Used(d) PROVE v \in UtisOf(d, d.key[v])
  <2>1. CASE v = u
    BY <1>5, <1>9, <1>10, <2>1, CountedFacts DEF UtisOf
  <2>2. CASE v # u
    <3>1. v \in Used(t) \ {u} /\ v \in UTI
      BY <1>11, <2>2, CountedFacts
    <3>2. v \in UtisOf(t, t.key[v])
      BY <3>1 DEF CountedBut
    <3>3. d.key[v] = t.key[v]
      BY <1>9, <2>2, <3>1, CountedFacts
    <3> QED BY <1>10, <3>2, <3>3 DEF UtisOf
  <2> QED BY <2>1, <2>2
<1>13. ASSUME NEW x \in DOMAIN d.utis
       PROVE  d.utis[x] # {} /\ (x # NoKey => \A v \in d.utis[x] : d.key[v] = x)
  <2>1. d.utis[x] # {}
    BY <1>10 DEF CountedBut
  <2>2. ASSUME x # NoKey, NEW v \in d.utis[x] PROVE d.key[v] = x
    <3>1. t.key[u] = NoKey
      BY <1>5 DEF CountedBut
    <3>2. CASE v = u
      <4>1. x = k
        BY <1>10, <2>2, <3>1, <3>2 DEF CountedBut
      <4> QED BY <1>5, <1>9, <3>2, <4>1, CountedFacts
    <3>3. CASE v # u
      <4>1. x \in DOMAIN t.utis /\ v \in t.utis[x]
        BY <1>10, <2>2, <3>3 DEF UtisOf
      <4>2. t.key[v] = x /\ v \in UTI
        BY <2>2, <4>1, CountedFacts DEF CountedBut
      <4> QED BY <1>5, <1>9, <3>3, <4>2, CountedFacts
    <3> QED BY <3>2, <3>3
  <2> QED BY <2>1, <2>2
<1>14. d.key[Nouti] = NoKey /\ Nouti \in UtisOf(d, NoKey)
  <2>1. t.key[Nouti] = NoKey /\ NoKey \in DOMAIN t.utis /\ Nouti \in t.utis[NoKey]
    BY CountedFacts DEF CountedBut
  <2>2. d.key[Nouti] = NoKey
    BY <1>5, <1>9, <2>1, CountedFacts
  <2> QED BY <1>10, <2>1, <2>2 DEF UtisOf
<1>15. \A v \in UTI \ Used(d) : d.key[v] = NoKey
  BY <1>9, <1>11, CountedFacts DEF CountedBut
<1> QED BY <1>2, <1>3, <1>9, <1>11, <1>12, <1>13, <1>14, <1>15, SMTT(30) DEF Counted, CountedBut

LEMMA GiveKeyCounted ==
  ASSUME NEW t, NEW u \in Used(t), CountedBut(t, {u}), NEW k \in Key, NEW ty \in UlamType, u # Nouti
  PROVE  Counted(GiveKey(t, k, ty, u)) /\ GiveKey(t, k, ty, u).size = t.size
<1>1. PICK def : def = DefineType(t, k, ty)
  OBVIOUS
<1>2. TableOK(t)
  BY DEF CountedBut
<1>3. /\ TableOK(def) /\ def.size = t.size /\ def.key = t.key /\ def.utis = t.utis
      /\ DOMAIN def.typ = DOMAIN t.typ \cup {k}
  BY <1>1, <1>2, DefineFields
<1>4. GiveKey(t, k, ty, u) = IncrementKey([def EXCEPT !.key[u] = k], k, u)
  BY <1>1 DEF GiveKey
<1> QED BY <1>3, <1>4, CountKeyCounted

LEMMA AliasCounted ==
  ASSUME NEW t, Counted(t), NEW u \in UTI, NEW v \in UTI
  PROVE  /\ Counted(AliasForced(t, u, v)) /\ AliasForced(t, u, v).size = t.size
         /\ AliasForced(t, u, v).key = t.key
         /\ Counted(Alias(t, u, v)) /\ Alias(t, u, v).size = t.size
<1>1. PICK d : d = AliasForced(t, u, v)
  OBVIOUS
<1>2. TableOK(t)
  BY DEF Counted, CountedBut
<1>3. TableOK(d) /\ d.size = t.size /\ d.key = t.key /\ d.typ = t.typ /\ d.utis = t.utis
  BY <1>1, <1>2, AliasForcedFields
<1>4. Counted(d)
  BY <1>3 DEF Counted, CountedBut, NoDangling, UtisOf, Used
<1> QED BY <1>1, <1>3, <1>4 DEF Alias

\* initUTIAlias and the new entry of m_indexToUlamKey.
LEMMA AppendCounted ==
  ASSUME NEW t, Counted(t), Room(t), NEW k \in Key, NEW ty \in UlamType
  PROVE  /\ Counted(Append(t, k, ty)) /\ Append(t, k, ty).size = t.size + 1
         /\ t.size \in UTI /\ t.size # Nouti
<1>1. PICK new : new = [t EXCEPT !.size = @ + 1, !.root[t.size] = t.size]
  OBVIOUS
<1>2. TableOK(t) /\ t.size \in UTI /\ t.size # Nouti /\ t.size + 1 \in 1 .. MaxUTI + 1
  BY ConstantFacts DEF Counted, CountedBut, TableOK, Room, UTI
<1>3. new = [size |-> t.size + 1, key |-> t.key, typ |-> t.typ, utis |-> t.utis,
             root |-> [t.root EXCEPT ![t.size] = t.size]]
  BY <1>1, <1>2 DEF TableOK
<1>4. [t.root EXCEPT ![t.size] = t.size] \in [UTI -> UTI]
  BY <1>2 DEF TableOK
<1>5. TableOK(new)
  BY <1>2, <1>3, <1>4, TableOfParts DEF TableOK, Used
<1>6. /\ new.size = t.size + 1 /\ new.key = t.key /\ new.typ = t.typ /\ new.utis = t.utis
      /\ Used(new) = Used(t) \cup {t.size} /\ t.size \in UTI \ Used(t)
  BY <1>2, <1>3 DEF Used, TableOK
<1>7. CountedBut(new, {t.size})
  BY <1>5, <1>6 DEF Counted, CountedBut, NoDangling, UtisOf
<1>8. Append(t, k, ty) = GiveKey(new, k, ty, t.size) /\ t.size \in Used(new)
  BY <1>1, <1>6 DEF Append
<1>9. Counted(Append(t, k, ty)) /\ Append(t, k, ty).size = new.size
  BY <1>2, <1>7, <1>8, GiveKeyCounted
<1> QED BY <1>2, <1>6, <1>9

\* deleteUlamKeyTypeSignature and then another key.
LEMMA RekeyCounted ==
  ASSUME NEW t, Counted(t), NEW u \in Used(t), u # Nouti, NEW old \in Key, t.key[u] \in {old, NoKey},
         NEW k \in Key, NEW ty \in UlamType, NEW less, less = DeleteKey(t, old, u)
  PROVE  /\ Counted(less) /\ less.size = t.size
         /\ Counted(GiveKey(less, k, ty, u)) /\ GiveKey(less, k, ty, u).size = t.size
<1>1. Counted(less) /\ less.size = t.size /\ less.key = [t.key EXCEPT ![u] = NoKey]
  BY DeleteKeyCounted
<1>2. u \in Used(less) /\ less.key[u] = NoKey
  BY <1>1, CountedFacts DEF Used, Counted
<1>3. CountedBut(less, {u})
  BY <1>1, <1>2 DEF Counted, CountedBut
<1>4. Counted(GiveKey(less, k, ty, u)) /\ GiveKey(less, k, ty, u).size = less.size
  BY <1>2, <1>3, GiveKeyCounted
<1> QED BY <1>1, <1>4

LEMMA FromHolderCounted ==
  ASSUME NEW t, Counted(t), NEW u \in Used(t), u # Nouti, NEW old \in Key, t.key[u] \in {old, NoKey},
         NEW k \in Key, NEW ty \in UlamType
  PROVE  Counted(FromHolder(t, u, old, k, ty)) /\ FromHolder(t, u, old, k, ty).size = t.size
<1>1. PICK less : less = DeleteKey(t, old, u)
  OBVIOUS
<1>2. PICK first : first = IF k \in DOMAIN less.typ THEN LeastOf(UtisOf(less, k)) ELSE u
  OBVIOUS
<1>3. PICK given : given = GiveKey(less, k, ty, u)
  OBVIOUS
<1>4. FromHolder(t, u, old, k, ty) = Alias(given, u, first)
  BY <1>1, <1>2, <1>3 DEF FromHolder
<1>5. Counted(less) /\ Counted(given) /\ given.size = t.size
  BY <1>1, <1>3, RekeyCounted
<1>6. u \in UTI
  BY CountedFacts DEF Counted
<1>7. first \in UTI
  <2>1. CASE k \in DOMAIN less.typ
    <3>1. k \in DOMAIN less.utis
      BY <1>5, <2>1 DEF Counted, CountedBut, NoDangling
    <3>2. less.utis[k] # {} /\ less.utis[k] \subseteq Used(less) /\ Used(less) \subseteq UTI
      BY <1>5, <3>1, CountedFacts DEF Counted, CountedBut, TableOK
    <3>3. less.utis[k] \subseteq Nat
      BY <3>2, ConstantFacts DEF UTI
    <3>4. LeastOf(less.utis[k]) \in less.utis[k]
      BY <3>2, <3>3, LeastOfIsLeast
    <3> QED BY <1>2, <2>1, <3>1, <3>2, <3>4 DEF UtisOf
  <2>2. CASE k \notin DOMAIN less.typ
    BY <1>2, <1>6, <2>2
  <2> QED BY <2>1, <2>2
<1> QED BY <1>4, <1>5, <1>6, <1>7, AliasCounted

\* What holds of m_programDefST.
ProgOK(p, t) == DOMAIN p \subseteq Name /\ \A n \in DOMAIN p : p[n] \in Used(t) \ {Nouti}

\* Class u is not the one that is taken out of the program table under name n.
Remains(t, p, n, u) == n \in DOMAIN p /\ IsUnseen(t, p[n]) => u # p[n]

LEMMA RemoveIncompleteClassCounted ==
  ASSUME NEW t, Counted(t), NEW p, ProgOK(p, t), NEW n
  PROVE  \E d, q : /\ RemoveIncompleteClass(t, p, n) = [tab |-> d, prog |-> q]
                   /\ Counted(d) /\ d.size = t.size /\ ProgOK(q, d)
                   /\ \A u \in UTI : d.key[u] \in {t.key[u], NoKey}
                   /\ \A u \in UTI : Remains(t, p, n, u) => d.key[u] = t.key[u]
<1>1. CASE n \in DOMAIN p /\ IsUnseen(t, p[n])
  <2>1. PICK d : d = DeleteKey(t, t.key[p[n]], p[n])
    OBVIOUS
  <2>2. p[n] \in Used(t) /\ p[n] # Nouti /\ p[n] \in UTI /\ t.key[p[n]] \in Key
    BY <1>1, CountedFacts DEF ProgOK, Counted
  <2>3. Counted(d) /\ d.size = t.size /\ d.key = [t.key EXCEPT ![p[n]] = NoKey]
    BY <2>1, <2>2, DeleteKeyCounted
  <2>4. \A u \in UTI : d.key[u] = IF u = p[n] THEN NoKey ELSE t.key[u]
    BY <2>3, CountedFacts DEF Counted
  <2>5. ProgOK(Restrict(p, DOMAIN p \ {n}), d)
    BY <2>3 DEF ProgOK, Restrict, Used
  <2>6. RemoveIncompleteClass(t, p, n) = [tab |-> d, prog |-> Restrict(p, DOMAIN p \ {n})]
    BY <1>1, <2>1 DEF RemoveIncompleteClass
  <2>7. \A u \in UTI : Remains(t, p, n, u) => d.key[u] = t.key[u]
    BY <1>1, <2>4 DEF Remains
  <2> QED BY <1>1, <2>3, <2>4, <2>5, <2>6, <2>7
<1>2. CASE ~(n \in DOMAIN p /\ IsUnseen(t, p[n]))
  BY <1>2 DEF RemoveIncompleteClass
<1> QED BY <1>1, <1>2

LEMMA TypeFromHolderCounted ==
  ASSUME NEW t, Counted(t), NEW p, ProgOK(p, t), NEW u \in Used(t), u # Nouti,
         NEW k \in Key, NEW ty \in UlamType
  PROVE  \E d, q : /\ TypeFromHolder(t, p, u, k, ty) = [tab |-> d, prog |-> q]
                   /\ Counted(d) /\ d.size = t.size /\ ProgOK(q, d)
<1> DEFINE old == t.key[u].name
<1>1. PICK g, q : /\ RemoveIncompleteClass(t, p, old) = [tab |-> g, prog |-> q]
                  /\ Counted(g) /\ g.size = t.size /\ ProgOK(q, g)
                  /\ \A v \in UTI : g.key[v] \in {t.key[v], NoKey}
  BY RemoveIncompleteClassCounted
<1>2. u \in UTI /\ t.key[u] \in Key
  BY CountedFacts DEF Counted
<1>3. g.key[u] \in {t.key[u], NoKey}
  BY <1>1, <1>2
<1>4. PICK direct : direct = FromHolder(t, u, t.key[u], k, ty)
  OBVIOUS
<1>5. PICK after : after = FromHolder(g, u, t.key[u], k, ty)
  OBVIOUS
<1>6. Counted(direct) /\ direct.size = t.size /\ ProgOK(p, direct)
  BY <1>2, <1>4, FromHolderCounted DEF ProgOK, Used
<1>7. Counted(after) /\ after.size = t.size /\ ProgOK(q, after)
  <2>1. u \in Used(g)
    BY <1>1 DEF Used
  <2>2. Counted(after) /\ after.size = t.size
    BY <1>1, <1>2, <1>3, <1>5, <2>1, FromHolderCounted
  <2> QED BY <1>1, <2>2 DEF ProgOK, Used
<1>8. old \in DOMAIN p => ProgOK(RenameInTable(p, old, k.name), direct)
  <2>1. k.name \in Name
    BY DEF Key
  <2> HIDE DEF old
  <2> QED BY <1>6, <2>1 DEF ProgOK, RenameInTable
<1>9. \/ TypeFromHolder(t, p, u, k, ty) = [tab |-> t, prog |-> p]
      \/ TypeFromHolder(t, p, u, k, ty) = [tab |-> direct, prog |-> p]
      \/ TypeFromHolder(t, p, u, k, ty) = [tab |-> after, prog |-> q]
      \/ /\ old \in DOMAIN p
         /\ TypeFromHolder(t, p, u, k, ty) = [tab |-> direct, prog |-> RenameInTable(p, old, k.name)]
  BY <1>1, <1>4, <1>5 DEF TypeFromHolder
<1> HIDE DEF old
<1> QED BY <1>1, <1>6, <1>7, <1>8, <1>9

\* replaceUTIKeyAndAlias takes an anonymous class out first: v is not that one.
NotTaken(t, p, u, v) == IsHolder(t, u) /\ IsClass(t, u) => Remains(t, p, t.key[u].name, v)

\* replaceUTIKeyAndAlias creates no UlamType: it relies on the key of v having
\* one, which v itself keeps as long as its own key is not deleted.
LEMMA ReplaceKeyAndAliasCounted ==
  ASSUME NEW t, Counted(t), NEW p, ProgOK(p, t), NEW u \in Used(t), u # Nouti,
         NEW v \in Used(t), u # v, NotTaken(t, p, u, v)
  PROVE  \E d, q : /\ ReplaceKeyAndAlias(t, p, u, v) = [tab |-> d, prog |-> q]
                   /\ Counted(d) /\ d.size = t.size /\ ProgOK(q, d)
<1>1. PICK gone : gone = IF IsHolder(t, u) /\ IsClass(t, u)
                         THEN RemoveIncompleteClass(t, p, t.key[u].name) ELSE [tab |-> t, prog |-> p]
  OBVIOUS
<1>2. u \in UTI /\ v \in UTI /\ t.key[u] \in Key /\ t.key[v] \in Key
  BY CountedFacts DEF Counted
<1>3. PICK g, q : /\ gone = [tab |-> g, prog |-> q]
                  /\ Counted(g) /\ g.size = t.size /\ ProgOK(q, g)
                  /\ g.key[u] \in {t.key[u], NoKey}
                  /\ g.key[v] = t.key[v]
  <2>1. CASE IsHolder(t, u) /\ IsClass(t, u)
    <3>1. PICK g, q : /\ RemoveIncompleteClass(t, p, t.key[u].name) = [tab |-> g, prog |-> q]
                      /\ Counted(g) /\ g.size = t.size /\ ProgOK(q, g)
                      /\ \A x \in UTI : g.key[x] \in {t.key[x], NoKey}
                      /\ \A x \in UTI : Remains(t, p, t.key[u].name, x) => g.key[x] = t.key[x]
      BY RemoveIncompleteClassCounted
    <3> QED BY <1>1, <1>2, <2>1, <3>1 DEF NotTaken
  <2>2. CASE ~(IsHolder(t, u) /\ IsClass(t, u))
    BY <1>1, <2>2
  <2> QED BY <2>1, <2>2
<1>4. PICK less : less = DeleteKey(g, t.key[u], u)
  OBVIOUS
<1>5. PICK bare : bare = [less EXCEPT !.key[u] = t.key[v]]
  OBVIOUS
<1>6. PICK more : more = IncrementKey(bare, t.key[v], u)
  OBVIOUS
<1>7. ReplaceKeyAndAlias(t, p, u, v) = [tab |-> AliasForced(more, u, v), prog |-> q]
  BY <1>1, <1>3, <1>4, <1>5, <1>6, SMTT(30) DEF ReplaceKeyAndAlias
<1>8. u \in Used(g) /\ v \in Used(g)
  BY <1>3 DEF Used
<1>9. Counted(less) /\ less.size = t.size /\ less.key = [g.key EXCEPT ![u] = NoKey]
  BY <1>2, <1>3, <1>4, <1>8, DeleteKeyCounted
<1>10. less.key[u] = NoKey /\ less.key[v] = t.key[v] /\ u \in Used(less) /\ v \in Used(less)
  BY <1>2, <1>3, <1>8, <1>9, CountedFacts DEF Counted, Used
<1>11. t.key[v] \in DOMAIN less.utis /\ t.key[v] \in DOMAIN less.typ
  <2>1. v \in UtisOf(less, t.key[v])
    BY <1>9, <1>10 DEF Counted, CountedBut
  <2> QED BY <1>9, <2>1, CountedFacts DEF Counted, UtisOf
<1>12. Counted(more) /\ more.size = t.size
  <2>1. CountedBut(less, {u}) /\ TableOK(less)
    BY <1>9, <1>10 DEF Counted, CountedBut
  <2>2. DOMAIN less.typ = DOMAIN less.typ \cup {t.key[v]}
    BY <1>11
  <2>3. /\ Counted(IncrementKey([less EXCEPT !.key[u] = t.key[v]], t.key[v], u))
        /\ IncrementKey([less EXCEPT !.key[u] = t.key[v]], t.key[v], u).size = less.size
    BY <1>2, <1>10, <2>1, <2>2, CountKeyCounted
  <2> QED BY <1>5, <1>6, <1>9, <2>3
<1>13. Counted(AliasForced(more, u, v)) /\ AliasForced(more, u, v).size = more.size
  BY <1>2, <1>12, AliasCounted
<1>14. ProgOK(q, AliasForced(more, u, v))
  BY <1>3, <1>12, <1>13 DEF ProgOK, Used
<1> QED BY <1>7, <1>12, <1>13, <1>14

\* makeUlamType: either nothing is made, or one entry is appended.
LEMMA MakeUlamTypeCounted ==
  ASSUME NEW t, Counted(t), Room(t), NEW k \in Key, NEW ty \in UlamType
  PROVE  \E d, i : /\ MakeUlamType(t, k, ty) = [tab |-> d, uti |-> i]
                   /\ Counted(d) /\ d.size >= t.size
                   /\ k.bits = Unknown /\ k.inst = Nouti =>
                        i = t.size /\ d.size = t.size + 1 /\ i \in UTI /\ i # Nouti
<1>1. t.size \in UTI /\ t.size \in Nat
  <2>1. t.size \in UTI
    BY AppendCounted
  <2> QED BY <2>1, ConstantFacts DEF UTI
<1>2. \A i \in UTI : [k EXCEPT !.inst = i] \in Key
  BY DEF Key
<1>3. Nouti \in UTI /\ k.inst \in UTI
  BY ConstantFacts DEF Key, UTI
<1>4. PICK i \in UTI : i = IF ty.etyp # "Class" THEN Nouti
                           ELSE IF ~(k.arr = NonArray /\ ~k.ref) THEN k.inst ELSE t.size
  BY <1>1, <1>3
<1>5. PICK new : new = Append(t, [k EXCEPT !.inst = i], ty)
  OBVIOUS
<1>6. Counted(new) /\ new.size = t.size + 1 /\ t.size # Nouti
  BY <1>2, <1>5, AppendCounted
<1>7. \/ MakeUlamType(t, k, ty) = [tab |-> t, uti |-> LeastOf(t.utis[k])] /\ k.bits # Unknown
      \/ MakeUlamType(t, k, ty) = [tab |-> t, uti |-> k.inst] /\ k.inst # Nouti
      \/ MakeUlamType(t, k, ty) = [tab |-> new, uti |-> t.size]
  BY <1>4, <1>5 DEF MakeUlamType
<1> QED BY <1>1, <1>6, <1>7

LEMMA ReplaceTypeCounted ==
  ASSUME NEW t, Counted(t), NEW k \in DOMAIN t.typ, NEW ty \in UlamType
  PROVE  Counted(ReplaceType(t, k, ty)) /\ ReplaceType(t, k, ty).size = t.size
<1>1. PICK d : d = ReplaceType(t, k, ty)
  OBVIOUS
<1>2. TableOK(t)
  BY DEF Counted, CountedBut
<1>3. /\ TableOK(d) /\ d.size = t.size /\ d.key = t.key /\ DOMAIN d.typ = DOMAIN t.typ
      /\ d.utis = t.utis
  BY <1>1, <1>2, ReplaceFields
<1>4. Counted(d)
  BY <1>3 DEF Counted, CountedBut, NoDangling, UtisOf, Used
<1> QED BY <1>1, <1>3, <1>4

LEMMA SetClassTypeCounted ==
  ASSUME NEW t, Counted(t), NEW k, NEW c \in Ctypes
  PROVE  Counted(SetClassType(t, k, c)) /\ SetClassType(t, k, c).size = t.size
<1>1. MkType("Class", c) \in UlamType
  BY DEF MkType, UlamType, Etypes
<1> QED BY <1>1, ReplaceTypeCounted DEF SetClassType

LEMMA SetUTISizesCounted ==
  ASSUME NEW t, Counted(t), NEW u \in Used(t), u # Nouti,
         NEW b \in Sizes \cup {Unknown}, NEW a \in Lengths \cup {Unknown, NonArray}, NEW w
  PROVE  Counted(SetUTISizes(t, u, b, a, w)) /\ SetUTISizes(t, u, b, a, w).size = t.size
<1>1. u \in UTI /\ TableOK(t) /\ t.key[u] \in Key
  BY CountedFacts DEF Counted
<1>2. PICK k : k = [t.key[u] EXCEPT !.bits = b, !.arr = a]
  OBVIOUS
<1>3. k \in Key
  BY <1>1, <1>2 DEF Key
<1>4. PICK ty \in UlamType : ty = [TypeOf(t, u) EXCEPT !.based = FALSE]
  BY <1>1, TypeOfIsType
<1>5. PICK less : less = DeleteKey(t, t.key[u], u)
  OBVIOUS
<1>6. PICK given : given = GiveKey(less, k, ty, u)
  OBVIOUS
<1>7. Counted(given) /\ given.size = t.size
  BY <1>1, <1>3, <1>5, <1>6, RekeyCounted
<1>8. Counted(AliasForced(given, u, u)) /\ AliasForced(given, u, u).size = given.size
  BY <1>1, <1>7, AliasCounted
<1>9. Resize(t, u, b, a) \in {t, AliasForced(given, u, u)}
  BY <1>2, <1>4, <1>5, <1>6 DEF Resize
<1>10. SetUTISizes(t, u, b, a, w) \in {t, Resize(t, u, b, a)}
  BY DEF SetUTISizes
<1> QED BY <1>7, <1>8, <1>9, <1>10

LEMMA SetBaseClassBitSizeCounted ==
  ASSUME NEW t, Counted(t), NEW u \in Used(t)
  PROVE  Counted(SetBaseClassBitSize(t, u)) /\ SetBaseClassBitSize(t, u).size = t.size
<1>1. u \in UTI /\ TableOK(t)
  BY CountedFacts DEF Counted
<1>2. PICK ty : ty = [TypeOf(t, u) EXCEPT !.based = TRUE]
  OBVIOUS
<1>3. ty \in UlamType
  <2>1. TypeOf(t, u) \in UlamType
    BY <1>1, TypeOfIsType
  <2> QED BY <1>2, <2>1 DEF UlamType
<1>4. CASE TypeOf(t, u).ctyp = "Quark"
  <2>1. t.key[u] \in DOMAIN t.typ
    BY <1>4 DEF TypeOf, NavType, MkType
  <2>2. Counted(ReplaceType(t, t.key[u], ty)) /\ ReplaceType(t, t.key[u], ty).size = t.size
    BY <1>3, <2>1, ReplaceTypeCounted
  <2> QED BY <1>2, <2>2 DEF SetBaseClassBitSize
<1>5. CASE TypeOf(t, u).ctyp # "Quark"
  BY <1>5 DEF SetBaseClassBitSize
<1> QED BY <1>4, <1>5

-----------------------------------------------------------------------------
(* The invariant.  TypeOK and KeyCountsExact alone are not inductive: that *)
(* a deleted key leaves no trace needs Nouti to hold its own key for good, *)
(* and the entries not handed out yet to have none.                        *)

IInv == Counted(table) /\ TypeOK

\* Every step but those that make or merge instances.
LEMMA KeepsInstances ==
  ASSUME IInv, Counted(table'), table'.size >= table.size, ProgOK(prog', table'),
         instances' = instances, stubs' \subseteq stubs,
         generated' \subseteq Used(table') \ {Nouti}, ParsingOK', labelling' \in BOOLEAN
  PROVE  IInv'
<1>1. TableOK(table)' /\ Counted(table)'
  BY DEF Counted, CountedBut
<1>2. Used(table) \subseteq Used(table')
  BY <1>1 DEF Used, IInv, TypeOK, TableOK
<1> QED BY <1>1, <1>2 DEF IInv, TypeOK, ProgOK, ParsingOK

LEMMA UsedGrows ==
  ASSUME NEW t, NEW d, Counted(t), Counted(d), d.size >= t.size
  PROVE  Used(t) \subseteq Used(d) /\ \A p : ProgOK(p, t) => ProgOK(p, d)
BY DEF Counted, CountedBut, TableOK, Used, ProgOK

LEMMA Initially == Init => IInv
<1> SUFFICES ASSUME Init PROVE IInv
  OBVIOUS
<1> DEFINE K == {NoKey, PrimKey, HolderKey}
           utis == [k \in K |-> {u \in {Nouti, Prim, Holder} : BaseKey(u) = k}]
           key == [u \in UTI |-> BaseKey(u)]
           typ == [k \in K |-> IF k = NoKey THEN NoType ELSE IF k = PrimKey THEN PrimType ELSE HolderType]
           root == [u \in UTI |-> IF u <= Holder THEN u ELSE Nouti]
<1>1. table = [size |-> 3, key |-> key, typ |-> typ, utis |-> utis, root |-> root]
  BY DEF Init
<1>2. BaseKey(0) = NoKey /\ BaseKey(1) = PrimKey /\ BaseKey(2) = HolderKey
  BY DEF BaseKey
<1>3. \A u \in UTI : u \notin 0 .. 2 => BaseKey(u) = NoKey
  BY DEF BaseKey
<1>4. \A u \in UTI : BaseKey(u) \in K
  BY DEF BaseKey
<1>5. K \subseteq Key
  BY BaseKeysAreKeys
<1>6. {0, 1, 2} = 0 .. 2 /\ 0 .. 2 \subseteq UTI /\ 3 \in 1 .. MaxUTI + 1
  BY ConstantFacts DEF UTI
<1>7. key \in [UTI -> Key] /\ root \in [UTI -> UTI]
  BY <1>4, <1>5, <1>6 DEF UTI
<1>8. /\ DOMAIN typ = K /\ DOMAIN utis = K
      /\ \A k \in K : typ[k] \in UlamType
      /\ \A k \in K : utis[k] = {u \in {0, 1, 2} : BaseKey(u) = k}
  BY BaseTypesAreTypes
<1>9. \A u \in UTI : key[u] = BaseKey(u)
  OBVIOUS
<1> HIDE DEF K, utis, key, typ, root
<1>10. TableOK(table)
  <2>1. \A k \in K : utis[k] \subseteq 0 .. 3 - 1
    BY <1>6, <1>8
  <2> QED BY <1>1, <1>5, <1>6, <1>7, <1>8, <2>1, TableOfParts
<1>11. /\ table.size = 3 /\ table.key = key /\ table.typ = typ /\ table.utis = utis
       /\ Used(table) = {0, 1, 2}
  BY <1>1, <1>6 DEF Used
<1>12. \A u \in {0, 1, 2} : BaseKey(u) \in K /\ u \in utis[BaseKey(u)]
  BY <1>4, <1>6, <1>8
<1>13. \A k \in K : utis[k] # {}
  BY <1>2, <1>8 DEF K
<1>14. CountedBut(table, {})
  <2>1. \A u \in Used(table) : u \in UtisOf(table, table.key[u])
    BY <1>6, <1>8, <1>9, <1>11, <1>12 DEF UtisOf
  <2>2. \A k \in DOMAIN table.utis :
          table.utis[k] # {} /\ (k # NoKey => \A u \in table.utis[k] : table.key[u] = k)
    BY <1>6, <1>8, <1>9, <1>11, <1>13
  <2>3. 0 \in UtisOf(table, NoKey) /\ table.key[0] = NoKey
    BY <1>2, <1>6, <1>8, <1>9, <1>11, <1>12 DEF UtisOf
  <2>4. \A u \in UTI \ Used(table) : table.key[u] = NoKey
    BY <1>3, <1>6, <1>9, <1>11
  <2> QED BY <1>8, <1>10, <1>11, <2>1, <2>2, <2>3, <2>4 DEF CountedBut, NoDangling
<1> QED BY <1>10, <1>14 DEF IInv, Counted, TypeOK, Init, ParsingOK

-----------------------------------------------------------------------------
(* One lemma for each action.                                              *)

LEMMA InvFacts ==
  ASSUME IInv
  PROVE  /\ Counted(table) /\ TableOK(table) /\ ProgOK(prog, table) /\ Used(table) \subseteq UTI
         /\ generated \subseteq Used(table) \ {Nouti} /\ ParsingOK /\ labelling \in BOOLEAN
         /\ \A u \in UTI : table.key[u] \in Key
         /\ \A u \in Used(table) : table.key[u] \in DOMAIN table.typ
<1>1. Counted(table) /\ TableOK(table) /\ ProgOK(prog, table)
  BY DEF IInv, TypeOK, ProgOK
<1>2. table.key \in [UTI -> Key] /\ Used(table) \subseteq UTI
  BY <1>1, CountedFacts DEF Counted
<1>3. \A u \in Used(table) : table.key[u] \in DOMAIN table.typ
  BY <1>1, CountedFacts DEF Counted, CountedBut, UtisOf
<1> QED BY <1>1, <1>2, <1>3 DEF IInv, TypeOK

\* A step that leaves all but the table and the program table.
LEMMA TableStep ==
  ASSUME IInv, NEW d, table' = d, Counted(d), d.size >= table.size, ProgOK(prog', d),
         UNCHANGED <<instances, stubs, parsing, labelling>>, generated' \subseteq generated
  PROVE  IInv'
<1>1. Used(table) \subseteq Used(d)
  BY InvFacts, UsedGrows
<1> QED BY <1>1, InvFacts, KeepsInstances DEF ParsingOK

LEMMA SizeIsNat == ASSUME IInv PROVE table.size \in Nat
BY InvFacts DEF TableOK

LEMMA MakeHolderStep ==
  ASSUME IInv, NEW isTypedef \in BOOLEAN, NEW isClass \in BOOLEAN, MakeHolder(isTypedef, isClass)
  PROVE  IInv'
<1>1. PICK u : u = table.size
  OBVIOUS
<1>2. PICK held : held = Append(table, HolderKey, HolderType)
  OBVIOUS
<1>3. Counted(held) /\ held.size = table.size + 1 /\ u \in UTI /\ u # Nouti
  BY <1>1, <1>2, InvFacts, AppendCounted, BaseKeysAreKeys, BaseTypesAreTypes DEF MakeHolder
<1>4. u \in Used(held) /\ ProgOK(prog, held)
  BY <1>1, <1>3, InvFacts, SizeIsNat, UsedGrows DEF Used
<1>5. PICK k \in Key : k = MkKey(u, Unknown, NonArray, u, FALSE)
  BY <1>3 DEF MkKey, Key, Name
<1>6. PICK ty \in UlamType : ty = MkType("Class", "Unseen")
  BY DEF MkType, UlamType, Etypes, Ctypes
<1>7. PICK d, q : /\ TypeFromHolder(held, prog, u, k, ty) = [tab |-> d, prog |-> q]
                  /\ Counted(d) /\ d.size = held.size /\ ProgOK(q, d)
  BY <1>3, <1>4, TypeFromHolderCounted
<1>8. table' \in {d, held}
  <2>1. table' \in {TypeFromHolder(held, prog, u, k, ty).tab, held}
    BY <1>1, <1>2, <1>5, <1>6 DEF MakeHolder
  <2> QED BY <1>7, <2>1
<1>9. Counted(table') /\ table'.size = held.size
  BY <1>3, <1>7, <1>8
<1>10. ProgOK(prog, table') /\ Used(table) \subseteq Used(table') /\ u \in Used(table') \ {Nouti}
  BY <1>1, <1>3, <1>9, InvFacts, SizeIsNat, UsedGrows DEF Used
<1>11. prog' = prog \/ prog' = [n \in DOMAIN prog \cup {u} |-> IF n = u THEN u ELSE prog[n]]
  BY <1>1 DEF MakeHolder
<1>12. ProgOK(prog', table')
  BY <1>3, <1>10, <1>11 DEF ProgOK, Name
<1>13. generated' \subseteq Used(table') \ {Nouti}
  BY <1>1, <1>10, InvFacts DEF MakeHolder
<1>14. instances' = instances /\ stubs' \subseteq stubs /\ ParsingOK' /\ labelling' \in BOOLEAN
  BY InvFacts DEF MakeHolder, ParsingOK
<1>15. table'.size >= table.size
  BY <1>3, <1>9, SizeIsNat
<1> QED BY <1>9, <1>12, <1>13, <1>14, <1>15, KeepsInstances

LEMMA NewKeyIsKey ==
  ASSUME NEW c \in Classes \cup Templates
  PROVE  MkKey(c, Unknown, NonArray, Nouti, FALSE) \in Key
<1>1. c \in Name
  BY DEF Name
<1>2. Nouti \in UTI
  BY ConstantFacts DEF UTI
<1> QED BY <1>1, <1>2 DEF MkKey, Key

LEMMA AddIncompleteClassStep ==
  ASSUME IInv, NEW c \in Classes \cup Templates, AddIncompleteClass(c)
  PROVE  IInv'
<1>1. PICK k \in Key : k = MkKey(c, Unknown, NonArray, Nouti, FALSE)
  BY NewKeyIsKey
<1>2. PICK ty \in UlamType : ty = MkType("Class", "Unseen")
  BY DEF MkType, UlamType, Etypes, Ctypes
<1>3. k.bits = Unknown /\ k.inst = Nouti
  BY <1>1 DEF MkKey
<1>4. PICK d, i : /\ MakeUlamType(table, k, ty) = [tab |-> d, uti |-> i]
                  /\ Counted(d) /\ d.size >= table.size
                  /\ i = table.size /\ d.size = table.size + 1 /\ i \in UTI /\ i # Nouti
  BY <1>3, InvFacts, MakeUlamTypeCounted DEF AddIncompleteClass
<1>5. table' = d /\ prog' = [n \in DOMAIN prog \cup {c} |-> IF n = c THEN i ELSE prog[n]]
  <2>1. /\ table' = MakeUlamType(table, k, ty).tab
        /\ prog' = [n \in DOMAIN prog \cup {c} |-> IF n = c THEN MakeUlamType(table, k, ty).uti ELSE prog[n]]
    BY <1>1, <1>2 DEF AddIncompleteClass
  <2> QED BY <1>4, <2>1
<1>6. i \in Used(d) /\ ProgOK(prog, d)
  BY <1>4, InvFacts, SizeIsNat, UsedGrows DEF Used
<1>7. ProgOK(prog', d)
  BY <1>4, <1>5, <1>6 DEF ProgOK, Name
<1> QED BY <1>4, <1>5, <1>7, TableStep DEF AddIncompleteClass

\* SeeClass and FailClass
LEMMA SetClassStep ==
  ASSUME IInv, NEW c \in Classes \cup Templates,
         (\E ct \in {"Quark", "Element"} : SeeClass(c, ct)) \/ FailClass(c)
  PROVE  IInv'
<1>1. PICK ct \in Ctypes : table' = SetClassType(table, table.key[prog[c]], ct)
  BY DEF SeeClass, FailClass, Ctypes
<1>2. Counted(table') /\ table'.size = table.size
  BY <1>1, InvFacts, SetClassTypeCounted
<1>3. Used(table') = Used(table)
  BY <1>2 DEF Used
<1>4. ParsingOK' /\ labelling' \in BOOLEAN /\ prog' = prog /\ instances' = instances /\ stubs' = stubs
      /\ generated' = generated
  BY InvFacts DEF SeeClass, FailClass, ParsingOK
<1> QED BY <1>2, <1>3, <1>4, InvFacts, SizeIsNat, KeepsInstances DEF ProgOK

LEMMA FinishClassStep ==
  ASSUME IInv, NEW c \in Classes \cup Templates, FinishClass(c)
  PROVE  IInv'
<1> DEFINE f == [k \in DOMAIN table.typ |->
                   IF k \in InstancesToFix(c)
                   THEN MkType("Class", TypeOf(table, prog[c]).ctyp) ELSE table.typ[k]]
<1>1. Counted(table) /\ TableOK(table)
  BY InvFacts
<1>2. table' = [size |-> table.size, key |-> table.key, typ |-> f, utis |-> table.utis, root |-> table.root]
  BY <1>1 DEF FinishClass, TableOK
<1>3. \A k \in DOMAIN f : k \in Key /\ f[k] \in UlamType
  <2>2. \A e \in Ctypes : MkType("Class", e) \in UlamType
    BY DEF MkType, UlamType, Etypes
  <2>3. TypeOf(table, prog[c]).ctyp \in Ctypes
    BY <1>1, BaseTypesAreTypes DEF TypeOf, TableOK, UlamType
  <2> QED BY <1>1, <2>2, <2>3 DEF TableOK
<1>4. DOMAIN f = DOMAIN table.typ
  OBVIOUS
<1> HIDE DEF f
<1>5. TableOK(table')
  BY <1>1, <1>2, <1>3, TableOfParts DEF TableOK, Used
<1>6. /\ table'.size = table.size /\ table'.key = table.key /\ table'.utis = table.utis
      /\ DOMAIN table'.typ = DOMAIN table.typ
  BY <1>2, <1>4
<1>7. Counted(table') /\ Used(table') = Used(table)
  BY <1>1, <1>5, <1>6 DEF Counted, CountedBut, NoDangling, UtisOf, Used
<1>8. ParsingOK' /\ labelling' \in BOOLEAN /\ prog' = prog /\ instances' = instances /\ stubs' = stubs
      /\ generated' = generated
  BY InvFacts DEF FinishClass, ParsingOK
<1> QED BY <1>6, <1>7, <1>8, InvFacts, SizeIsNat, KeepsInstances DEF ProgOK

\* A table and a program table that TypeFromHolder gave back, linked or not.
LEMMA HolderStep ==
  ASSUME IInv, NEW h \in Held(table), NEW k \in Key, NEW ty \in UlamType
  PROVE  \E d, q : /\ TypeFromHolder(table, prog, h, k, ty) = [tab |-> d, prog |-> q]
                   /\ Counted(d) /\ d.size = table.size /\ ProgOK(q, d)
<1>1. h \in Used(table) /\ h # Nouti
  BY DEF Held
<1> QED BY <1>1, InvFacts, TypeFromHolderCounted

LEMMA TypedefOfPrimitiveStep ==
  ASSUME IInv, NEW u \in UTI, NEW b \in Sizes, NEW ref \in BOOLEAN, TypedefOfPrimitive(u, b, ref)
  PROVE  IInv'
<1>1. PICK k \in Key : k = MkKey(PrimName, b, NonArray, Nouti, ref)
  <2>1. PrimName \in Name /\ Nouti \in UTI
    BY ConstantFacts DEF Name, UTI
  <2> QED BY <2>1 DEF MkKey, Key
<1>2. u \in Held(table)
  BY DEF TypedefOfPrimitive
<1>3. PICK d, q : /\ TypeFromHolder(table, prog, u, k, PrimType) = [tab |-> d, prog |-> q]
                  /\ Counted(d) /\ d.size = table.size /\ ProgOK(q, d)
  BY <1>2, BaseTypesAreTypes, HolderStep
<1>4. table' = d /\ prog' = q
  BY <1>1, <1>3 DEF TypedefOfPrimitive
<1> QED BY <1>3, <1>4, SizeIsNat, TableStep DEF TypedefOfPrimitive

LEMMA MakeStubStep ==
  ASSUME IInv, NEW c \in Templates, MakeStub(c)
  PROVE  IInv'
<1>1. PICK k \in Key : k = MkKey(c, Unknown, NonArray, Nouti, FALSE)
  BY NewKeyIsKey
<1>2. PICK ty \in UlamType : ty = MkType("Class", TypeOf(table, prog[c]).ctyp)
  <2>1. prog[c] \in UTI
    BY InvFacts DEF MakeStub, ProgOK
  <2>2. TypeOf(table, prog[c]).ctyp \in Ctypes
    BY <2>1, InvFacts, TypeOfIsType DEF UlamType
  <2> QED BY <2>2 DEF MkType, UlamType, Etypes
<1>3. k.bits = Unknown /\ k.inst = Nouti
  BY <1>1 DEF MkKey
<1>4. PICK d, i : /\ MakeUlamType(table, k, ty) = [tab |-> d, uti |-> i]
                  /\ Counted(d) /\ d.size >= table.size
                  /\ i = table.size /\ d.size = table.size + 1 /\ i \in UTI /\ i # Nouti
  BY <1>3, InvFacts, MakeUlamTypeCounted DEF MakeStub
<1>5. /\ table' = d /\ stubs' = stubs \cup {i}
      /\ instances' = [u \in DOMAIN instances \cup {i} |-> IF u = i THEN u ELSE instances[u]]
  <2>1. /\ table' = MakeUlamType(table, k, ty).tab
        /\ stubs' = stubs \cup {MakeUlamType(table, k, ty).uti}
        /\ instances' = [u \in DOMAIN instances \cup {MakeUlamType(table, k, ty).uti} |->
                           IF u = MakeUlamType(table, k, ty).uti THEN u ELSE instances[u]]
    BY <1>1, <1>2 DEF MakeStub
  <2> QED BY <1>4, <2>1
<1>6. i \in Used(d) \ {Nouti} /\ ProgOK(prog, d) /\ Used(table) \subseteq Used(d)
  BY <1>4, InvFacts, SizeIsNat, UsedGrows DEF Used
<1>7. DOMAIN instances' \subseteq Used(d) \ {Nouti} /\ \A u \in DOMAIN instances' : instances'[u] \in DOMAIN instances'
  BY <1>5, <1>6 DEF IInv, TypeOK
<1>8. TableOK(d)
  BY <1>4 DEF Counted, CountedBut
<1>9. /\ stubs' \subseteq DOMAIN instances'
      /\ prog' = prog /\ generated' = generated /\ labelling' = labelling /\ parsing' = parsing
  BY <1>5 DEF IInv, TypeOK, MakeStub
<1> QED BY <1>4, <1>5, <1>6, <1>7, <1>8, <1>9, InvFacts DEF IInv, TypeOK, ProgOK, ParsingOK

LEMMA StartLabellingStep ==
  ASSUME IInv, StartLabelling PROVE IInv'
BY InvFacts, SizeIsNat, KeepsInstances DEF StartLabelling, ParsingOK

\* AsRef, AsDeref and AsArrayOfScalar
LEMMA DeriveStep ==
  ASSUME IInv, NEW u \in UTI, AsRef(u) \/ AsDeref(u) \/ AsArrayOfScalar(u)
  PROVE  IInv'
<1>1. PICK ty \in UlamType : ty = [TypeOf(table, u) EXCEPT !.based = FALSE]
  BY InvFacts, TypeOfIsType
<1>2. PICK k \in Key : table' = MakeUlamType(table, k, ty).tab
  <2>1. table.key[u] \in Key
    BY InvFacts
  <2>2. /\ [table.key[u] EXCEPT !.ref = TRUE] \in Key /\ [table.key[u] EXCEPT !.ref = FALSE] \in Key
        /\ [table.key[u] EXCEPT !.arr = Unknown, !.ref = FALSE] \in Key
    BY <2>1 DEF Key
  <2> QED BY <1>1, <2>2 DEF AsRef, AsDeref, AsArrayOfScalar
<1>3. Room(table)
  BY DEF AsRef, AsDeref, AsArrayOfScalar
<1>4. PICK d, i : /\ MakeUlamType(table, k, ty) = [tab |-> d, uti |-> i]
                  /\ Counted(d) /\ d.size >= table.size
  BY <1>3, InvFacts, MakeUlamTypeCounted
<1>5. table' = d /\ ProgOK(prog, d)
  BY <1>2, <1>4, InvFacts, UsedGrows
<1>6. prog' = prog /\ UNCHANGED <<instances, stubs, generated, parsing, labelling>>
  BY DEF AsRef, AsDeref, AsArrayOfScalar
<1> QED BY <1>4, <1>5, <1>6, TableStep

LEMMA CleanupExistingHolderStep ==
  ASSUME IInv, NEW h \in UTI, NEW u \in UTI, CleanupExistingHolder(h, u)
  PROVE  IInv'
<1>1. PICK ty \in UlamType : ty = [TypeOf(table, u) EXCEPT !.based = FALSE]
  BY InvFacts, TypeOfIsType
<1>2. PICK d, q : /\ TypeFromHolder(table, prog, h, table.key[u], ty) = [tab |-> d, prog |-> q]
                  /\ Counted(d) /\ d.size = table.size /\ ProgOK(q, d)
  BY InvFacts, HolderStep DEF CleanupExistingHolder
<1>3. PICK e : e = AliasForced(d, h, u)
  OBVIOUS
<1>4. Counted(e) /\ e.size = d.size
  BY <1>2, <1>3, AliasCounted
<1>5. table' = e /\ prog' = q
  BY <1>1, <1>2, <1>3 DEF CleanupExistingHolder
<1>6. ProgOK(q, e)
  BY <1>2, <1>4 DEF ProgOK, Used
<1>7. generated' \subseteq generated /\ UNCHANGED <<instances, stubs, parsing, labelling>>
  BY DEF CleanupExistingHolder
<1>8. e.size >= table.size
  BY <1>2, <1>4, SizeIsNat
<1> QED BY <1>4, <1>5, <1>6, <1>7, <1>8, TableStep

\* A table and a program table that ReplaceKeyAndAlias gave back.
LEMMA ReplaceStep ==
  ASSUME IInv, NEW u \in Used(table) \ {Nouti}, NEW v \in Used(table), u # v, NotTaken(table, prog, u, v)
  PROVE  \E d, q : /\ ReplaceKeyAndAlias(table, prog, u, v) = [tab |-> d, prog |-> q]
                   /\ Counted(d) /\ d.size = table.size /\ ProgOK(q, d)
BY InvFacts, ReplaceKeyAndAliasCounted

\* NodeTypedef::checkAndLabelType's link, or none.
LEMMA LinkedCounted ==
  ASSUME NEW t, Counted(t), NEW td \in Used(t), NEW u \in UTI
  PROVE  Counted(LinkedTypedef(t, td, u)) /\ LinkedTypedef(t, td, u).size = t.size
<1>1. /\ Counted(AliasForced(t, td, u)) /\ AliasForced(t, td, u).size = t.size
      /\ Counted(Alias(t, td, u)) /\ Alias(t, td, u).size = t.size
  BY CountedFacts, AliasCounted DEF Counted
<1> QED BY <1>1 DEF LinkedTypedef

\* No typedef that the parser made up is an anonymous class whose entry of the
\* program table is that of another UTI.
OwnEntry(t, p, x) ==
  IsHolder(t, x) /\ IsClass(t, x) /\ t.key[x].name \in DOMAIN p => p[t.key[x].name] = x

LEMMA ReplaceGeneratedTypedefStep ==
  ASSUME IInv, NEW td \in UTI, NEW u \in UTI, ReplaceGeneratedTypedef(td, u), OwnEntry(table, prog, td)
  PROVE  IInv'
<1>1. td \in Used(table) \ {Nouti} /\ u \in Used(table) /\ u # td
  BY InvFacts DEF ReplaceGeneratedTypedef, Held
<1>2. NotTaken(table, prog, td, u)
  BY <1>1 DEF NotTaken, Remains, OwnEntry
<1>3. PICK d, q : /\ ReplaceKeyAndAlias(table, prog, td, u) = [tab |-> d, prog |-> q]
                  /\ Counted(d) /\ d.size = table.size /\ ProgOK(q, d)
  BY <1>1, <1>2, ReplaceStep
<1>4. PICK e : e = LinkedTypedef(d, td, u)
  OBVIOUS
<1>5. table' = e /\ prog' = q
  BY <1>3, <1>4 DEF ReplaceGeneratedTypedef
<1>6. Counted(e) /\ e.size = d.size
  <2>1. td \in Used(d)
    BY <1>1, <1>3 DEF Used
  <2> QED BY <1>3, <1>4, <2>1, LinkedCounted
<1>7. ProgOK(prog', e)
  BY <1>3, <1>5, <1>6 DEF ProgOK, Used
<1>8. generated' \subseteq generated /\ UNCHANGED <<instances, stubs, parsing, labelling>>
  BY DEF ReplaceGeneratedTypedef
<1>9. e.size >= table.size
  BY <1>3, <1>6, SizeIsNat
<1> QED BY <1>5, <1>6, <1>7, <1>8, <1>9, TableStep

LEMMA LinkTypedefStep ==
  ASSUME IInv, NEW td \in UTI, NEW u \in UTI, LinkTypedef(td, u)
  PROVE  IInv'
<1>1. PICK d : d = LinkedTypedef(table, td, u)
  OBVIOUS
<1>2. Counted(d) /\ d.size = table.size
  BY <1>1, InvFacts, LinkedCounted DEF LinkTypedef, Held
<1>3. ProgOK(prog, d) /\ d.size >= table.size
  BY <1>2, InvFacts, SizeIsNat, UsedGrows
<1>4. table' = d /\ prog' = prog /\ generated' \subseteq generated
      /\ UNCHANGED <<instances, stubs, parsing, labelling>>
  BY <1>1 DEF LinkTypedef
<1> QED BY <1>2, <1>3, <1>4, TableStep

LEMMA AliasStubStep ==
  ASSUME IInv, NEW s \in UTI, NEW u \in UTI, AliasStub(s, u)
  PROVE  IInv'
<1>1. PICK d : d = AliasForced(table, s, u)
  OBVIOUS
<1>2. Counted(d) /\ d.size = table.size
  BY <1>1, InvFacts, AliasCounted
<1>3. ProgOK(prog, d)
  BY <1>2, InvFacts, SizeIsNat, UsedGrows
<1>4. table' = d /\ prog' = prog /\ generated' \subseteq generated
      /\ UNCHANGED <<instances, stubs, parsing, labelling>>
  BY <1>1 DEF AliasStub
<1>5. d.size >= table.size
  BY <1>2, SizeIsNat
<1> QED BY <1>2, <1>3, <1>4, <1>5, TableStep

LEMMA InstantiateStep ==
  ASSUME IInv, NEW s \in UTI, Instantiate(s)
  PROVE  IInv'
BY InvFacts, SizeIsNat, KeepsInstances DEF Instantiate, ParsingOK

LEMMA MergeStubStep ==
  ASSUME IInv, NEW s \in UTI, NEW u \in UTI, MergeStub(s, u)
  PROVE  IInv'
<1>1. /\ s \in Used(table) \ {Nouti} /\ u \in Used(table) /\ s # u /\ NotTaken(table, prog, s, u)
      /\ s \in DOMAIN instances /\ u \in DOMAIN instances
  BY DEF MergeStub, IInv, TypeOK, NotTaken, Remains
<1>2. PICK d, q : /\ ReplaceKeyAndAlias(table, prog, s, u) = [tab |-> d, prog |-> q]
                  /\ Counted(d) /\ d.size = table.size /\ ProgOK(q, d)
  BY <1>1, ReplaceStep
<1>3. table' = d /\ prog' = q
  BY <1>2 DEF MergeStub
<1>4. TableOK(d) /\ Used(d) = Used(table)
  BY <1>2 DEF Counted, CountedBut, Used
<1>5. /\ DOMAIN instances' = DOMAIN instances
      /\ \A x \in DOMAIN instances' : instances'[x] \in DOMAIN instances'
      /\ stubs' \subseteq DOMAIN instances'
  BY <1>1 DEF MergeStub, IInv, TypeOK
<1>6. generated' = generated /\ labelling' = labelling /\ parsing' = parsing
  BY DEF MergeStub
<1> QED BY <1>2, <1>3, <1>4, <1>5, <1>6, InvFacts DEF IInv, TypeOK, ProgOK, ParsingOK

\* setUTISizes and then the bits as a base class, or not.
LEMMA SizedCounted ==
  ASSUME NEW t, Counted(t), NEW u \in Used(t) \ {Nouti}, NEW b \in Sizes, NEW a \in Lengths \cup {Unknown, NonArray},
         NEW w, NEW d, d = SetUTISizes(t, u, b, a, w)
  PROVE  /\ Counted(d) /\ d.size = t.size
         /\ Counted(SetBaseClassBitSize(d, u)) /\ SetBaseClassBitSize(d, u).size = t.size
<1>1. Counted(d) /\ d.size = t.size
  <2>1. u \in Used(t) /\ u # Nouti /\ b \in Sizes \cup {Unknown}
    OBVIOUS
  <2>2. /\ Counted(SetUTISizes(t, u, b, a, w))
        /\ SetUTISizes(t, u, b, a, w).size = t.size
    BY <2>1, SetUTISizesCounted
  <2> QED BY <2>2
<1>2. u \in Used(d)
  BY <1>1 DEF Used
<1>3. Counted(SetBaseClassBitSize(d, u)) /\ SetBaseClassBitSize(d, u).size = d.size
  BY <1>1, <1>2, SetBaseClassBitSizeCounted
<1> QED BY <1>1, <1>3

LEMMA SizeClassStep ==
  ASSUME IInv, NEW c \in Classes, NEW b \in Sizes, SizeClass(c, b)
  PROVE  IInv'
<1>1. PICK u : u = prog[c]
  OBVIOUS
<1>2. u \in Used(table) \ {Nouti} /\ table.key[u].arr \in Lengths \cup {Unknown, NonArray}
  <2>1. u \in Used(table) \ {Nouti} /\ u \in UTI
    BY <1>1, InvFacts DEF SizeClass, ProgOK
  <2>2. table.key[u] \in Key
    BY <2>1, InvFacts
  <2> QED BY <2>1, <2>2 DEF Key
<1> DEFINE w == FALSE
<1>3. PICK sized : sized = SetUTISizes(table, u, b, table.key[u].arr, w)
  OBVIOUS
<1> HIDE DEF w
<1>4. /\ Counted(sized) /\ sized.size = table.size
      /\ Counted(SetBaseClassBitSize(sized, u)) /\ SetBaseClassBitSize(sized, u).size = table.size
  <2>1. Counted(table)
    BY InvFacts
  <2> QED BY <1>2, <1>3, <2>1, SizedCounted
<1>5. PICK d : d = table'
  OBVIOUS
<1>6. d \in {sized, SetBaseClassBitSize(sized, u)}
  BY <1>1, <1>3, <1>5 DEF SizeClass, w
<1>7. Counted(d) /\ d.size = table.size
  BY <1>4, <1>6
<1>8. ProgOK(prog, d) /\ d.size >= table.size
  BY <1>7, InvFacts, SizeIsNat, UsedGrows
<1>9. prog' = prog /\ UNCHANGED <<instances, stubs, generated, parsing, labelling>>
  BY DEF SizeClass
<1> QED BY <1>5, <1>7, <1>8, <1>9, TableStep

LEMMA SizeInstanceStep ==
  ASSUME IInv, NEW u \in UTI, NEW b \in Sizes, SizeInstance(u, b)
  PROVE  IInv'
<1>1. PICK c : c = instances[u]
  OBVIOUS
<1>2. u \in Used(table) \ {Nouti} /\ c \in Used(table) /\ c \in UTI
  BY <1>1, InvFacts DEF SizeInstance, IInv, TypeOK
<1>3. table.key[u] \in Key /\ table.key[c] \in Key
  BY <1>2, InvFacts
<1>4. PICK total : total = IF IsComplete(table, c) THEN table.key[c].bits ELSE b
  OBVIOUS
<1>5. total \in Sizes
  <2>1. IsComplete(table, c) => table.key[c].bits # Unknown
    BY DEF IsComplete
  <2> QED BY <1>3, <1>4, <2>1 DEF Key
<1>6. table.key[u].arr \in Lengths \cup {Unknown, NonArray}
  BY <1>3 DEF Key
<1> DEFINE w == FALSE
<1>7. PICK sized : sized = SetUTISizes(table, u, total, table.key[u].arr, w)
  OBVIOUS
<1> HIDE DEF w
<1>8. PICK based : based = SetBaseClassBitSize(sized, u)
  OBVIOUS
<1>9. Counted(based) /\ based.size = table.size
  <2>1. Counted(table)
    BY InvFacts
  <2>2. /\ Counted(SetBaseClassBitSize(sized, u))
        /\ SetBaseClassBitSize(sized, u).size = table.size
    BY <1>2, <1>5, <1>6, <1>7, <2>1, SizedCounted
  <2> QED BY <1>8, <2>2
<1>10. PICK d : d = AliasForced(based, u, c)
  OBVIOUS
<1>11. Counted(d) /\ d.size = table.size
  BY <1>2, <1>9, <1>10, AliasCounted
<1>12. table' = d
  BY <1>1, <1>4, <1>7, <1>8, <1>10 DEF SizeInstance, w
<1>13. ProgOK(prog, d) /\ d.size >= table.size
  BY <1>11, InvFacts, SizeIsNat, UsedGrows
<1>14. prog' = prog /\ UNCHANGED <<instances, stubs, generated, parsing, labelling>>
  BY DEF SizeInstance
<1> QED BY <1>11, <1>12, <1>13, <1>14, TableStep

\* setUTISizes of a table in use, whether it lets a scalar become an array.
LEMMA ResizedCounted ==
  ASSUME NEW t, Counted(t), NEW u \in Used(t) \ {Nouti}, NEW k \in Key,
         NEW a \in Lengths \cup {Unknown, NonArray}, NEW w
  PROVE  Counted(SetUTISizes(t, u, k.bits, a, w)) /\ SetUTISizes(t, u, k.bits, a, w).size = t.size
<1>1. PICK b \in Sizes \cup {Unknown} : b = k.bits
  BY DEF Key
<1>2. u \in Used(t) /\ u # Nouti
  OBVIOUS
<1>3. Counted(SetUTISizes(t, u, b, a, w)) /\ SetUTISizes(t, u, b, a, w).size = t.size
  BY <1>2, SetUTISizesCounted
<1> QED BY <1>1, <1>3

LEMMA CompleteAReferenceStep ==
  ASSUME IInv, NEW r \in UTI, NEW u \in UTI, CompleteAReference(r, u)
  PROVE  IInv'
<1>1. PICK ku \in Key : ku = table.key[u]
  BY InvFacts
<1>2. PICK k \in Key : k = [ku EXCEPT !.ref = TRUE]
  BY DEF Key
<1>3. PICK ty \in UlamType : ty = [TypeOf(table, u) EXCEPT !.based = FALSE]
  BY InvFacts, TypeOfIsType
<1>4. r \in Held(table) /\ r \in Used(table) \ {Nouti}
  BY DEF CompleteAReference, Held
<1>5. PICK d, q : /\ TypeFromHolder(table, prog, r, k, ty) = [tab |-> d, prog |-> q]
                  /\ Counted(d) /\ d.size = table.size /\ ProgOK(q, d)
  BY <1>4, HolderStep
<1> DEFINE w == FALSE
<1>6. PICK sized : sized = SetUTISizes(table, r, ku.bits, ku.arr, w)
  OBVIOUS
<1> HIDE DEF w
<1>7. Counted(sized) /\ sized.size = table.size
  <2>1. Counted(table) /\ ku.arr \in Lengths \cup {Unknown, NonArray}
    BY InvFacts DEF Key
  <2> QED BY <1>4, <1>6, <2>1, ResizedCounted
<1>8. sized.key[r] \in DOMAIN sized.typ
  <2>1. r \in Used(sized)
    BY <1>4, <1>7 DEF Used
  <2> QED BY <1>7, <2>1, CountedFacts DEF Counted, CountedBut, UtisOf
<1>9. PICK seen : seen = ReplaceType(sized, sized.key[r], ty)
  OBVIOUS
<1>10. Counted(seen) /\ seen.size = table.size
  BY <1>7, <1>8, <1>9, ReplaceTypeCounted
<1>11. PICK e : e = table'
  OBVIOUS
<1>12. (e = d /\ prog' = q) \/ (e \in {sized, seen} /\ prog' = prog)
  <2>1. PICK held : held = TypeFromHolder(table, prog, r, k, ty)
    OBVIOUS
  <2>2. IF IsHolder(table, r) THEN table' = held.tab /\ prog' = held.prog
        ELSE table' = (IF IsComplete(sized, r) THEN sized ELSE seen) /\ prog' = prog
    BY <1>1, <1>2, <1>3, <1>6, <1>9, <2>1 DEF CompleteAReference, w
  <2>3. held.tab = d /\ held.prog = q
    BY <1>5, <2>1
  <2> QED BY <1>11, <2>2, <2>3
<1>13. Counted(e) /\ e.size = table.size
  BY <1>5, <1>7, <1>10, <1>12
<1>14. ProgOK(prog', e) /\ e.size >= table.size
  <2>1. e.size >= table.size /\ ProgOK(prog, e)
    BY <1>13, InvFacts, SizeIsNat, UsedGrows
  <2> QED BY <1>5, <1>12, <2>1
<1>15. generated' \subseteq generated /\ UNCHANGED <<instances, stubs, parsing, labelling>>
  BY DEF CompleteAReference
<1> QED BY <1>11, <1>13, <1>14, <1>15, TableStep

LEMMA SizeArrayStep ==
  ASSUME IInv, NEW a \in UTI, NEW s \in UTI, NEW n \in Lengths \cup {Unknown}, SizeArray(a, s, n)
  PROVE  IInv'
<1>1. PICK ka \in Key : ka = table.key[a]
  BY InvFacts
<1>2. PICK ks \in Key : ks = table.key[s]
  BY InvFacts
<1>3. PICK ts \in UlamType : ts = [TypeOf(table, s) EXCEPT !.based = FALSE]
  BY InvFacts, TypeOfIsType
<1>4. PICK k \in Key : k = [ks EXCEPT !.arr = Unknown, !.ref = ka.ref]
  BY DEF Key
<1>5. a \in Held(table) /\ a \in Used(table) \ {Nouti}
  BY DEF SizeArray, Held
<1>6. PICK len \in Lengths \cup {Unknown, NonArray} : len = IF ka.arr >= 0 THEN ka.arr ELSE n
  BY DEF Key
<1>7. PICK d, q : /\ TypeFromHolder(table, prog, a, k, ts) = [tab |-> d, prog |-> q]
                  /\ Counted(d) /\ d.size = table.size /\ ProgOK(q, d)
  BY <1>5, HolderStep
<1>8. PICK g, p : /\ [tab |-> g, prog |-> p] =
                       IF IsHolder(table, a) /\ ka.arr < 0
                       THEN TypeFromHolder(table, prog, a, k, ts) ELSE [tab |-> table, prog |-> prog]
                  /\ Counted(g) /\ g.size = table.size /\ ProgOK(p, g)
  BY <1>7, InvFacts
<1> DEFINE w == TRUE
<1>9. PICK sized : sized = SetUTISizes(g, a, ks.bits, len, w)
  OBVIOUS
<1> HIDE DEF w
<1>10. Counted(sized) /\ sized.size = table.size
  <2>1. a \in Used(g) \ {Nouti}
    BY <1>5, <1>8 DEF Used
  <2> QED BY <1>8, <1>9, <2>1, ResizedCounted
<1>11. PICK c \in Ctypes : c = ts.ctyp
  BY DEF UlamType
<1>12. PICK matched : matched = SetClassType(sized, sized.key[a], c)
  OBVIOUS
<1>13. Counted(matched) /\ matched.size = table.size
  BY <1>10, <1>12, SetClassTypeCounted
<1>14. PICK e : e = table'
  OBVIOUS
<1>15. e \in {sized, matched} /\ prog' = p
  <2>1. PICK given, l, ty :
          /\ given = IF IsHolder(table, a) /\ table.key[a].arr < 0
                     THEN TypeFromHolder(table, prog, a,
                            [table.key[s] EXCEPT !.arr = Unknown, !.ref = table.key[a].ref],
                            [TypeOf(table, s) EXCEPT !.based = FALSE])
                     ELSE [tab |-> table, prog |-> prog]
          /\ l = (IF table.key[a].arr >= 0 THEN table.key[a].arr ELSE n)
          /\ ty = [TypeOf(table, s) EXCEPT !.based = FALSE]
    OBVIOUS
  <2>2. PICK z : z = SetUTISizes(given.tab, a, table.key[s].bits, l, TRUE)
    OBVIOUS
  <2>3. /\ prog' = given.prog
        /\ table' = IF IsClass(z, a) /\ TypeOf(z, a).ctyp # ty.ctyp
                    THEN SetClassType(z, z.key[a], ty.ctyp) ELSE z
    BY <2>1, <2>2 DEF SizeArray
  <2>4. l = len /\ ty = ts
    BY <1>1, <1>3, <1>6, <2>1
  <2>5. given = [tab |-> g, prog |-> p]
    BY <1>1, <1>2, <1>3, <1>4, <1>8, <2>1
  <2>6. given.tab = g /\ given.prog = p
    BY <2>5
  <2>7. z = sized
    BY <1>2, <1>9, <2>2, <2>4, <2>6 DEF w
  <2> QED BY <1>11, <1>12, <1>14, <2>3, <2>4, <2>6, <2>7
<1>16. Counted(e) /\ e.size = table.size
  BY <1>10, <1>13, <1>15
<1>17. ProgOK(prog', e) /\ e.size >= table.size
  BY <1>8, <1>15, <1>16, SizeIsNat DEF ProgOK, Used
<1>18. generated' \subseteq generated /\ UNCHANGED <<instances, stubs, parsing, labelling>>
  BY DEF SizeArray
<1> QED BY <1>14, <1>16, <1>17, <1>18, TableStep

-----------------------------------------------------------------------------
(* The theorems.                                                           *)

\* Every handler, whole, keeps the invariant.
LEMMA Inductive ==
  ASSUME IInv, \A x \in generated : OwnEntry(table, prog, x), [Next]_vars
  PROVE  IInv'
<1>1. ASSUME NEW td \in BOOLEAN, NEW c \in BOOLEAN, MakeHolder(td, c) PROVE IInv'
  BY <1>1, MakeHolderStep
<1>2. ASSUME NEW c \in Classes \cup Templates,
             \/ AddIncompleteClass(c)
             \/ \E ct \in {"Quark", "Element"} : SeeClass(c, ct)
             \/ FinishClass(c)
             \/ FailClass(c)
      PROVE  IInv'
  BY <1>2, AddIncompleteClassStep, SetClassStep, FinishClassStep
<1>3. ASSUME NEW u \in UTI, NEW b \in Sizes \ {0}, NEW ref \in BOOLEAN, TypedefOfPrimitive(u, b, ref)
      PROVE  IInv'
  BY <1>3, TypedefOfPrimitiveStep
<1>4. ASSUME NEW c \in Templates, MakeStub(c) PROVE IInv'
  BY <1>4, MakeStubStep
<1>5. CASE StartLabelling
  BY <1>5, StartLabellingStep
<1>6. CASE Derive
  BY <1>6, DeriveStep DEF Derive
<1>7. ASSUME NEW h \in UTI, NEW u \in UTI,
             \/ CleanupExistingHolder(h, u)
             \/ ReplaceGeneratedTypedef(h, u)
             \/ LinkTypedef(h, u)
      PROVE  IInv'
  <2>1. ReplaceGeneratedTypedef(h, u) => OwnEntry(table, prog, h)
    BY DEF ReplaceGeneratedTypedef
  <2> QED BY <1>7, <2>1, CleanupExistingHolderStep, ReplaceGeneratedTypedefStep, LinkTypedefStep
<1>8. ASSUME NEW s \in UTI, NEW u \in UTI, AliasStub(s, u) \/ MergeStub(s, u) PROVE IInv'
  BY <1>8, AliasStubStep, MergeStubStep
<1>9. ASSUME NEW s \in UTI, Instantiate(s) PROVE IInv'
  BY <1>9, InstantiateStep
<1>10. ASSUME NEW c \in Classes, NEW b \in Sizes, SizeClass(c, b) PROVE IInv'
  BY <1>10, SizeClassStep
<1>11. ASSUME NEW u \in UTI, NEW b \in Sizes, SizeInstance(u, b) PROVE IInv'
  BY <1>11, SizeInstanceStep
<1>12. ASSUME NEW r \in UTI, NEW u \in UTI, CompleteAReference(r, u) PROVE IInv'
  BY <1>12, CompleteAReferenceStep
<1>13. ASSUME NEW a \in UTI, NEW s \in UTI, NEW n \in Lengths \cup {Unknown}, SizeArray(a, s, n)
       PROVE  IInv'
  BY <1>13, SizeArrayStep
<1>14. CASE UNCHANGED vars
  BY <1>14 DEF vars, IInv, TypeOK, ParsingOK
<1> QED BY <1>1, <1>2, <1>3, <1>4, <1>5, <1>6, <1>7, <1>8, <1>9, <1>10, <1>11, <1>12, <1>13, <1>14
        DEF Next, Parse, Label

-----------------------------------------------------------------------------
(* What the UTIs stand for.  That the program table and the type table     *)
(* agree, and that known types stay, has to be seen together: a handler    *)
(* takes an entry of the program table from its UTI only if that one is    *)
(* unknown, and a UTI that leaves its key has no entry any more.           *)

\* The name of a UTI that is not known yet, of a class that is anonymous or not.
HolderNames == UTI \cup {HolderName}
ClassNames == UTI \cup Classes \cup Templates

\* The base type that names stand for.
EtypeOf(n) == IF n = NoName THEN "Nouti" ELSE IF n = PrimName THEN "Prim"
              ELSE IF n = HolderName THEN "Holder" ELSE "Class"

\* A key and its UlamType go together.
KeyMeans(k, ty, U, lab) ==
  /\ ty.etyp = EtypeOf(k.name)
  /\ ty.ctyp = "NotAClass" <=> EtypeOf(k.name) # "Class"
  /\ k.inst \in U
  /\ ty.ctyp = "Unseen" => k.bits = Unknown
  /\ k.name \in HolderNames => k.arr < 0
  /\ k.name \in UTI => ty.ctyp = "Unseen" /\ k.name \in U /\ k.inst = k.name
  /\ ~lab /\ EtypeOf(k.name) = "Class" => k.bits = Unknown

KeysMean(t, lab) == \A k \in DOMAIN t.typ : KeyMeans(k, t.typ[k], Used(t), lab)

ScalarClassKey(k) == EtypeOf(k.name) = "Class" /\ k.arr = NonArray /\ ~k.ref

\* What is known of the instances of templates, stubs among them.
InstanceOK(t, p, st, gen, x) ==
  LET k == t.key[x]
  IN  /\ x \in Used(t) \ {Nouti}
      /\ k.name \in Templates /\ k.arr = NonArray /\ ~k.ref
      /\ x \notin gen /\ \A n \in DOMAIN p : p[n] # x
      /\ x \in st => k.bits = Unknown

InstancesOK(t, p, ins, st, gen) == \A x \in DOMAIN ins : InstanceOK(t, p, st, gen, x)

EntriesOf(p) == {p[n] : n \in DOMAIN p}

EntryOK(t, p, gen, n) ==
  LET k == t.key[p[n]]
  IN  /\ p[n] \in Used(t) \ {Nouti} /\ n \in ClassNames
      /\ k.name = n /\ k.arr = NonArray /\ ~k.ref /\ k.inst = p[n]
      /\ n \notin UTI => p[n] \notin gen

EnteredOK(t, p, x) ==
  LET k == t.key[x]
  IN  /\ k.name \in Templates => k.name \in DOMAIN p
      /\ ScalarClassKey(k) /\ t.root[x] = x /\ k.name \notin Templates =>
           k.name \in DOMAIN p /\ p[k.name] = x

\* An anonymous class that a typedef stands for has the name of the typedef's UTI.
OwnName(t, x) == t.key[x].name \in UTI => t.key[x].name = x

AnonymousOwn(t, gen) == \A x \in gen \cap Used(t) : OwnName(t, x)

Understood(t, p, ins, st, gen, lab) ==
  /\ KeysMean(t, lab)
  /\ InstancesOK(t, p, ins, st, gen)
  /\ \A n \in DOMAIN p : EntryOK(t, p, gen, n)
  /\ \A x \in Used(t) : EnteredOK(t, p, x)
  /\ AnonymousOwn(t, gen)

-----------------------------------------------------------------------------
(* Names and queries.                                                      *)

\* The names of the base types, of classes and of holders differ.
LEMMA NameFacts ==
  /\ \A n : EtypeOf(n) = "Class" <=> n \notin {NoName, PrimName, HolderName}
  /\ EtypeOf(NoName) = "Nouti" /\ EtypeOf(PrimName) = "Prim" /\ EtypeOf(HolderName) = "Holder"
  /\ \A n \in ClassNames : EtypeOf(n) = "Class"
  /\ \A n \in Classes \cup Templates \cup {NoName, PrimName} : n \notin HolderNames
  /\ \A n \in UTI : n \notin Classes \cup Templates /\ n # HolderName /\ n # NoName /\ n # PrimName
BY NamesDiffer DEF EtypeOf, ClassNames, HolderNames

\* The keys of the UTIs in use have an UlamType.
LEMMA TypedKeys ==
  ASSUME NEW t, Counted(t), NEW x \in Used(t)
  PROVE  t.key[x] \in DOMAIN t.typ /\ TypeOf(t, x) = t.typ[t.key[x]] /\ t.key[x] \in Key
<1>1. /\ NoKey \in DOMAIN t.utis /\ DOMAIN t.typ = DOMAIN t.utis
      /\ t.key \in [UTI -> Key] /\ Used(t) \subseteq UTI
  BY CountedFacts DEF Counted
<1>2. x \in UtisOf(t, t.key[x])
  BY DEF Counted, CountedBut
<1> QED BY <1>1, <1>2 DEF UtisOf, TypeOf

\* The queries, by the key.
LEMMA Answers ==
  ASSUME NEW t, Counted(t), NEW lab, KeysMean(t, lab), NEW x \in Used(t)
  PROVE  /\ KeyMeans(t.key[x], TypeOf(t, x), Used(t), lab)
         /\ IsHolder(t, x) <=> t.key[x].name \in HolderNames
         /\ IsClass(t, x) <=> EtypeOf(t.key[x].name) = "Class"
         /\ IsScalarClass(t, x) <=> ScalarClassKey(t.key[x])
         /\ IsComplete(t, x) <=>
              /\ t.key[x].bits # Unknown /\ t.key[x].arr # Unknown
              /\ t.key[x].name \notin HolderNames \cup {NoName}
              /\ TypeOf(t, x).ctyp = "Quark" /\ ScalarClassKey(t.key[x]) => TypeOf(t, x).based
<1>1. t.key[x] \in DOMAIN t.typ /\ TypeOf(t, x) = t.typ[t.key[x]]
  BY TypedKeys
<1>2. KeyMeans(t.key[x], TypeOf(t, x), Used(t), lab)
  BY <1>1 DEF KeysMean
<1>3. TypeOf(t, x).etyp = EtypeOf(t.key[x].name)
  BY <1>2 DEF KeyMeans
<1>4. IsHolder(t, x) <=> t.key[x].name \in HolderNames
  BY <1>3, NameFacts DEF IsHolder, HolderNames, EtypeOf
<1>5. IsClass(t, x) <=> EtypeOf(t.key[x].name) = "Class"
  BY <1>3 DEF IsClass
<1>6. IsScalarClass(t, x) <=> ScalarClassKey(t.key[x])
  BY <1>5 DEF IsScalarClass, IsScalar, ScalarClassKey
<1>7. t.key[x].bits # Unknown => TypeOf(t, x).ctyp # "Unseen"
  BY <1>2 DEF KeyMeans
<1>8. TypeOf(t, x).etyp \in {"Prim", "Class"} <=> t.key[x].name \notin {NoName, HolderName}
  BY <1>3, NameFacts DEF EtypeOf
<1>9. EtypeOf(t.key[x].name) # "Class" =>
        TypeOf(t, x).etyp # "Class" /\ TypeOf(t, x).ctyp = "NotAClass" /\ t.key[x].name \notin UTI
  BY <1>2, <1>3, NameFacts DEF KeyMeans
<1>10. ScalarClassKey(t.key[x]) => EtypeOf(t.key[x].name) = "Class"
  BY DEF ScalarClassKey
<1> QED BY <1>2, <1>3, <1>4, <1>5, <1>6, <1>7, <1>8, <1>9, <1>10 DEF IsComplete, HolderNames

-----------------------------------------------------------------------------
(* What a handler may do to the UTIs.                                      *)

\* x is for d what it is for t, and known if it was.
Same(t, d, x) ==
  d.key[x] = t.key[x] /\ d.root[x] = t.root[x] /\ (IsComplete(t, x) => IsComplete(d, x))

\* A known type stays known and the same.
Stays(t, d, x) ==
  IsComplete(t, x) => IsComplete(d, x) /\ d.key[x] = t.key[x]

\* A handler makes u or changes it, deletes the keys of the UTIs in V and
\* leaves the others.
Moved(t, d, u, V) ==
  /\ Used(t) \subseteq Used(d) /\ Used(d) \subseteq Used(t) \cup {u}
  /\ Nouti \in Used(t) /\ d.key[Nouti] = NoKey /\ u \in Used(d) \ {Nouti}
  /\ V \subseteq Used(t) \ {Nouti, u}
  /\ \A x \in Used(t) \ (V \cup {u}) : Same(t, d, x)
  /\ \A v \in V : ~IsComplete(t, v) /\ d.key[v] = NoKey /\ d.root[v] = Nouti

\* UTIs with the same key are known together.
LEMMA SameKeyAnswers ==
  ASSUME NEW t, NEW x, NEW y, t.key[x] = t.key[y]
  PROVE  /\ TypeOf(t, x) = TypeOf(t, y) /\ (IsComplete(t, x) <=> IsComplete(t, y))
         /\ (IsUnseen(t, x) <=> IsUnseen(t, y))
BY DEF IsComplete, IsHolder, IsScalarClass, IsClass, IsScalar, TypeOf, IsUnseen

\* What a handler does to the program table: it may enter u, and take out u
\* and the UTIs in V.
ProgMoved(p, q, u, V) ==
  /\ \A n \in DOMAIN q : q[n] = u \/ (n \in DOMAIN p /\ q[n] = p[n] /\ p[n] \notin V)
  /\ \A n \in DOMAIN p : \/ n \in DOMAIN q /\ q[n] = p[n]
                         \/ n \notin Templates /\ p[n] \in V \cup {u}

\* The entries of the others stay good.
LEMMA EntriesKept ==
  ASSUME NEW t, NEW d, NEW u, NEW V, Moved(t, d, u, V), NEW p, NEW q, ProgMoved(p, q, u, V),
         NEW gen, NEW gen2, gen2 \ {u} \subseteq gen,
         \A n \in DOMAIN p : EntryOK(t, p, gen, n),
         \A n \in DOMAIN q : q[n] = u => EntryOK(d, q, gen2, n)
  PROVE  \A n \in DOMAIN q : EntryOK(d, q, gen2, n)
<1> SUFFICES ASSUME NEW n \in DOMAIN q, q[n] # u PROVE EntryOK(d, q, gen2, n)
  OBVIOUS
<1>1. n \in DOMAIN p /\ q[n] = p[n] /\ p[n] \notin V /\ EntryOK(t, p, gen, n)
  BY DEF ProgMoved
<1>2. p[n] \in Used(t) \ {Nouti}
  BY <1>1 DEF EntryOK
<1>3. Same(t, d, p[n]) /\ p[n] \in Used(d)
  BY <1>1, <1>2 DEF Moved
<1> QED BY <1>1, <1>3 DEF EntryOK, Same

\* The classes of the others stay entered.
LEMMA EnteredKept ==
  ASSUME NEW t, NEW d, NEW u, NEW V, Moved(t, d, u, V), NEW p, NEW q, ProgMoved(p, q, u, V),
         \A x \in Used(t) : EnteredOK(t, p, x),
         EnteredOK(d, q, u)
  PROVE  \A x \in Used(d) : EnteredOK(d, q, x)
<1> SUFFICES ASSUME NEW x \in Used(d), x # u PROVE EnteredOK(d, q, x)
  OBVIOUS
<1>1. x \in Used(t) /\ EnteredOK(t, p, x)
  BY DEF Moved
<1>2. CASE x \in V
  <2>1. d.key[x].name = NoName
    BY <1>2 DEF Moved, NoKey, MkKey
  <2> QED BY <2>1, NameFacts, NamesDiffer DEF EnteredOK, ScalarClassKey
<1>3. CASE x \notin V
  <2>1. d.key[x] = t.key[x] /\ d.root[x] = t.root[x]
    BY <1>1, <1>3 DEF Moved, Same
  <2>2. \A n \in Templates : n \in DOMAIN p => n \in DOMAIN q
    BY DEF ProgMoved
  <2>3. \A n \in DOMAIN p : p[n] = x => n \in DOMAIN q /\ q[n] = x
    BY <1>3 DEF ProgMoved
  <2> QED BY <1>1, <2>1, <2>2, <2>3 DEF EnteredOK
<1> QED BY <1>2, <1>3

\* What a handler does to the instances: u may become one, a stub too, and
\* stubs become instances.
InstancesMoved(ins, ins2, st, st2, u) ==
  DOMAIN ins2 \subseteq DOMAIN ins \cup {u} /\ st2 \ {u} \subseteq st

\* The other instances stay what they are.
LEMMA InstancesKept ==
  ASSUME NEW t, NEW d, NEW u, NEW V, Moved(t, d, u, V), NEW p, NEW q, ProgMoved(p, q, u, V),
         NEW ins, NEW ins2, NEW st, NEW st2, InstancesMoved(ins, ins2, st, st2, u),
         NEW gen, NEW gen2, gen2 \ {u} \subseteq gen,
         V \subseteq EntriesOf(p),
         InstancesOK(t, p, ins, st, gen),
         u \in DOMAIN ins2 => InstanceOK(d, q, st2, gen2, u)
  PROVE  InstancesOK(d, q, ins2, st2, gen2)
<1> SUFFICES ASSUME NEW x \in DOMAIN ins2, x # u PROVE InstanceOK(d, q, st2, gen2, x)
  BY DEF InstancesOK
<1>1. x \in DOMAIN ins /\ InstanceOK(t, p, st, gen, x) /\ (x \in st2 => x \in st)
  BY DEF InstancesMoved, InstancesOK
<1>2. x \in Used(t) \ {Nouti} /\ x \notin V /\ x \notin gen2
  BY <1>1 DEF InstanceOK, EntriesOf
<1>3. d.key[x] = t.key[x] /\ x \in Used(d)
  BY <1>2 DEF Moved, Same
<1>4. \A n \in DOMAIN q : q[n] # x
  BY <1>1 DEF ProgMoved, InstanceOK
<1> QED BY <1>1, <1>2, <1>3, <1>4 DEF InstanceOK

\* All of it: what has to be seen of u so that everything stays understood.
LEMMA MovedUnderstood ==
  ASSUME NEW t, NEW d, NEW u, NEW V, Moved(t, d, u, V), NEW p, NEW q, ProgMoved(p, q, u, V),
         NEW ins, NEW ins2, NEW st, NEW st2, InstancesMoved(ins, ins2, st, st2, u),
         NEW gen, NEW gen2, gen2 \ {u} \subseteq gen, NEW lab, NEW lab2,
         Understood(t, p, ins, st, gen, lab), KeysMean(d, lab2),
         V \subseteq EntriesOf(p),
         \A n \in DOMAIN q : q[n] = u => EntryOK(d, q, gen2, n),
         u \in DOMAIN ins2 => InstanceOK(d, q, st2, gen2, u),
         EnteredOK(d, q, u),
         u \in gen2 => OwnName(d, u)
  PROVE  Understood(d, q, ins2, st2, gen2, lab2)
<1>1. /\ InstancesOK(t, p, ins, st, gen)
      /\ \A n \in DOMAIN p : EntryOK(t, p, gen, n)
      /\ \A x \in Used(t) : EnteredOK(t, p, x)
      /\ AnonymousOwn(t, gen)
  BY DEF Understood
<1>2. InstancesOK(d, q, ins2, st2, gen2)
  BY <1>1, InstancesKept
<1>3. \A n \in DOMAIN q : EntryOK(d, q, gen2, n)
  BY <1>1, EntriesKept
<1>4. \A x \in Used(d) : EnteredOK(d, q, x)
  BY <1>1, EnteredKept
<1>5. AnonymousOwn(d, gen2)
  <2> SUFFICES ASSUME NEW x \in gen2 \cap Used(d), x # u PROVE OwnName(d, x)
    BY DEF AnonymousOwn
  <2>1. x \in gen \cap Used(t)
    BY DEF Moved
  <2>2. CASE x \in V
    <3>1. d.key[x].name = NoName
      BY <2>2 DEF Moved, NoKey, MkKey
    <3> QED BY <3>1, NameFacts DEF OwnName
  <2>3. CASE x \notin V
    <3>1. d.key[x] = t.key[x]
      BY <2>1, <2>3 DEF Moved, Same
    <3> QED BY <1>1, <2>1, <3>1 DEF AnonymousOwn, OwnName
  <2> QED BY <2>2, <2>3
<1> QED BY <1>2, <1>3, <1>4, <1>5 DEF Understood

\* When every UTI stays the same.
LEMMA SameUnderstood ==
  ASSUME NEW t, NEW d, Used(d) = Used(t), \A x \in Used(t) : Same(t, d, x),
         NEW p, NEW ins, NEW st, NEW gen, NEW lab, NEW lab2,
         Understood(t, p, ins, st, gen, lab), KeysMean(d, lab2)
  PROVE  Understood(d, p, ins, st, gen, lab2)
<1>1. \A x \in Used(t) : d.key[x] = t.key[x] /\ d.root[x] = t.root[x]
  BY DEF Same
<1>2. ASSUME NEW x \in DOMAIN ins PROVE InstanceOK(d, p, st, gen, x)
  BY <1>1, <1>2 DEF Understood, InstancesOK, InstanceOK
<1>3. ASSUME NEW n \in DOMAIN p PROVE EntryOK(d, p, gen, n)
  BY <1>1, <1>3 DEF Understood, EntryOK
<1>4. ASSUME NEW x \in Used(t) PROVE EnteredOK(d, p, x)
  <2>1. EnteredOK(t, p, x)
    BY <1>4 DEF Understood
  <2> QED BY <1>1, <2>1 DEF EnteredOK
<1>5. AnonymousOwn(d, gen)
  BY <1>1 DEF Understood, AnonymousOwn, OwnName
<1> QED BY <1>2, <1>3, <1>4, <1>5 DEF Understood, InstancesOK

-----------------------------------------------------------------------------
(* What the helpers do to the UTIs.                                        *)

Untouched(t, d, x) ==
  d.key[x] = t.key[x] /\ d.root[x] = t.root[x] /\ TypeOf(d, x) = TypeOf(t, x)

\* u has key k and link r, the UTIs in V have lost theirs, and no key has got
\* an UlamType but k, which may have got one in T.
Rekeyed(t, d, u, V, k, T, r) ==
  /\ Counted(d) /\ d.size = t.size
  /\ d.key[u] = k /\ d.root[u] = r
  /\ \A x \in Used(t) \ (V \cup {u}) : Untouched(t, d, x)
  /\ \A v \in V \ {u} : d.key[v] = NoKey /\ d.root[v] = Nouti
  /\ \A x \in DOMAIN d.typ : \/ x \in DOMAIN t.typ /\ d.typ[x] = t.typ[x]
                             \/ x = k /\ d.typ[x] \in T

\* What keeps its key, link and UlamType is the same for both tables.
LEMMA UntouchedIsSame ==
  ASSUME NEW t, NEW d, NEW x, Untouched(t, d, x) PROVE Same(t, d, x)
BY DEF Untouched, Same, IsComplete, IsScalarClass, IsClass, IsScalar, IsHolder

\* Counting users changes neither links nor UlamTypes.
LEMMA WithUtisRoot ==
  ASSUME NEW t, TableOK(t), NEW k, NEW S
  PROVE  WithUtis(t, k, S).root = t.root /\ WithUtis(t, k, S).typ = t.typ
BY DEF WithUtis, TableOK

\* When a table keeps the UlamTypes of another, a UTI of the same key keeps its.
LEMMA KeptType ==
  ASSUME NEW t, Counted(t), NEW d, Counted(d), NEW x \in Used(t) \cap Used(d),
         d.key[x] = t.key[x], d.typ[t.key[x]] = t.typ[t.key[x]]
  PROVE  TypeOf(d, x) = TypeOf(t, x)
<1>1. TypeOf(d, x) = d.typ[d.key[x]]
  BY TypedKeys
<1>2. TypeOf(t, x) = t.typ[t.key[x]]
  BY TypedKeys
<1> QED BY <1>1, <1>2

\* deleteUlamKeyTypeSignature leaves all but u as it was.
LEMMA DeleteKeyTouches ==
  ASSUME NEW t, Counted(t), NEW u \in Used(t), u # Nouti,
         NEW k \in Key, t.key[u] \in {k, NoKey}
  PROVE  Rekeyed(t, DeleteKey(t, k, u), u, {}, NoKey, {}, Nouti)
<1>1. PICK less : less = DecrementKey(t, k, u)
  OBVIOUS
<1>2. PICK kept : kept = IF UtisOf(less, k) = {} THEN EraseType(less, k) ELSE less
  OBVIOUS
<1>3. PICK bare : bare = [kept EXCEPT !.key[u] = NoKey]
  OBVIOUS
<1>4. PICK more : more = IncrementKey(bare, NoKey, u)
  OBVIOUS
<1>5. PICK d : d = AliasForced(more, u, Nouti)
  OBVIOUS
<1>6. d = DeleteKey(t, k, u)
  BY <1>1, <1>2, <1>3, <1>4, <1>5 DEF DeleteKey
<1>7. Counted(d) /\ d.size = t.size /\ d.key = [t.key EXCEPT ![u] = NoKey]
  BY <1>6, DeleteKeyCounted
<1>8. TableOK(t) /\ NoKey \in Key /\ u \in UTI /\ 0 \in UTI /\ Used(t) \subseteq UTI
  BY CountedFacts DEF Counted
<1>9. TableOK(less) /\ less.root = t.root /\ less.typ = t.typ /\ less.key = t.key /\ less.size = t.size
  <2>1. TableOK(less) /\ less.key = t.key /\ less.size = t.size
    BY <1>1, <1>8, DecrementFields
  <2> QED BY <1>1, <1>8, <2>1, WithUtisRoot DEF DecrementKey
<1>10. TableOK(kept) /\ kept.root = t.root /\ kept.key = t.key /\ kept.size = t.size
       /\ \A x \in DOMAIN kept.typ : x \in DOMAIN t.typ /\ kept.typ[x] = t.typ[x]
  <2>1. CASE UtisOf(less, k) = {}
    <3>1. /\ TableOK(kept) /\ kept.key = t.key /\ kept.size = t.size
          /\ kept.typ = [x \in DOMAIN t.typ \ {k} |-> t.typ[x]]
      BY <1>2, <1>9, <2>1, EraseFields
    <3>2. kept.root = t.root
      BY <1>2, <1>9, <2>1 DEF EraseType, TableOK
    <3> QED BY <3>1, <3>2
  <2>2. CASE UtisOf(less, k) # {}
    BY <1>2, <1>9, <2>2
  <2> QED BY <2>1, <2>2
<1>11. TableOK(bare) /\ bare.root = t.root /\ bare.typ = kept.typ /\ bare.size = t.size
  <2>1. TableOK(bare) /\ bare.typ = kept.typ /\ bare.size = t.size
    BY <1>3, <1>8, <1>10, SetKeyFields
  <2> QED BY <1>3, <1>10, <2>1 DEF TableOK
<1>12. TableOK(more) /\ more.root = t.root /\ more.typ = kept.typ
  <2>1. u \in Used(bare)
    BY <1>11 DEF Used
  <2>2. TableOK(more)
    BY <1>4, <1>8, <1>11, <2>1, IncrementFields
  <2> QED BY <1>4, <1>11, <2>2, WithUtisRoot DEF IncrementKey
<1>13. d.root = [t.root EXCEPT ![u] = 0] /\ d.typ = kept.typ
  BY <1>5, <1>12 DEF AliasForced, TableOK
<1>14. t.root \in [UTI -> UTI] /\ t.key \in [UTI -> Key]
  BY <1>8 DEF TableOK
<1>15. Used(d) = Used(t)
  BY <1>7 DEF Used
<1>16. ASSUME NEW x \in Used(t) \ {u} PROVE Untouched(t, d, x)
  <2>1. d.key[x] = t.key[x] /\ d.root[x] = t.root[x]
    BY <1>7, <1>8, <1>13, <1>14
  <2>2. d.key[x] \in DOMAIN d.typ
    BY <1>7, <1>15, TypedKeys
  <2>3. d.typ[t.key[x]] = t.typ[t.key[x]]
    BY <1>10, <1>13, <2>1, <2>2
  <2>4. TypeOf(d, x) = TypeOf(t, x)
    BY <1>7, <1>15, <2>1, <2>3, KeptType
  <2> QED BY <2>1, <2>4 DEF Untouched
<1>17. d.key[u] = NoKey /\ d.root[u] = Nouti
  BY <1>7, <1>8, <1>13, <1>14
<1>18. \A x \in DOMAIN d.typ : x \in DOMAIN t.typ /\ d.typ[x] = t.typ[x]
  BY <1>10, <1>13
<1> QED BY <1>6, <1>7, <1>16, <1>17, <1>18 DEF Rekeyed

\* The tail of every change of key: u has none, k may have a UlamType already.
LEMMA GiveKeyTouches ==
  ASSUME NEW t, Counted(t), NEW u \in Used(t), u # Nouti, t.key[u] = NoKey,
         NEW k \in Key, NEW ty \in UlamType
  PROVE  LET d == GiveKey(t, k, ty, u)
         IN  /\ Rekeyed(t, d, u, {}, k, {ty}, t.root[u]) /\ d.root = t.root
             /\ TypeOf(d, u) = IF k \in DOMAIN t.typ THEN t.typ[k] ELSE ty
<1>1. PICK def : def = DefineType(t, k, ty)
  OBVIOUS
<1>2. PICK set : set = [def EXCEPT !.key[u] = k]
  OBVIOUS
<1>3. PICK d : d = IncrementKey(set, k, u)
  OBVIOUS
<1>4. d = GiveKey(t, k, ty, u)
  BY <1>1, <1>2, <1>3 DEF GiveKey
<1>5. CountedBut(t, {u}) /\ TableOK(t) /\ u \in UTI /\ t.key \in [UTI -> Key] /\ Used(t) \subseteq UTI
  <2>1. CountedBut(t, {u})
    BY DEF Counted, CountedBut
  <2> QED BY <2>1, CountedFacts
<1>6. Counted(d) /\ d.size = t.size
  BY <1>4, <1>5, GiveKeyCounted
<1>7. /\ TableOK(def) /\ def.key = t.key /\ def.root = t.root /\ def.size = t.size
      /\ def.typ = [x \in DOMAIN t.typ \cup {k} |-> IF x \in DOMAIN t.typ THEN t.typ[x] ELSE ty]
  <2>1. TableOK(def) /\ def.key = t.key /\ def.size = t.size
    BY <1>1, <1>5, DefineFields
  <2> QED BY <1>1, <1>5, <2>1 DEF DefineType, TableOK
<1>8. /\ TableOK(set) /\ set.key = [t.key EXCEPT ![u] = k] /\ set.root = t.root /\ set.typ = def.typ
      /\ set.size = t.size
  <2>1. TableOK(set) /\ set.key = [def.key EXCEPT ![u] = k] /\ set.typ = def.typ /\ set.size = def.size
    BY <1>2, <1>5, <1>7, SetKeyFields
  <2> QED BY <1>2, <1>7, <2>1 DEF TableOK
<1>9. d.key = [t.key EXCEPT ![u] = k] /\ d.root = t.root /\ d.typ = def.typ
  <2>1. u \in Used(set)
    BY <1>8 DEF Used
  <2>2. d.key = set.key
    BY <1>3, <1>8, <2>1, IncrementFields
  <2> QED BY <1>3, <1>8, <2>2, WithUtisRoot DEF IncrementKey
<1>10. Used(d) = Used(t)
  BY <1>6 DEF Used
<1>11. ASSUME NEW x \in Used(t) \ {u} PROVE Untouched(t, d, x)
  <2>1. d.key[x] = t.key[x] /\ d.root[x] = t.root[x]
    BY <1>5, <1>9
  <2>2. t.key[x] \in DOMAIN t.typ
    BY TypedKeys
  <2>3. d.typ[t.key[x]] = t.typ[t.key[x]]
    BY <1>7, <1>9, <2>2
  <2>4. TypeOf(d, x) = TypeOf(t, x)
    BY <1>6, <1>10, <2>1, <2>3, KeptType
  <2> QED BY <2>1, <2>4 DEF Untouched
<1>12. d.key[u] = k /\ d.root[u] = t.root[u]
  BY <1>5, <1>9
<1>13. TypeOf(d, u) = IF k \in DOMAIN t.typ THEN t.typ[k] ELSE ty
  <2>1. TypeOf(d, u) = d.typ[k] /\ k \in DOMAIN d.typ
    BY <1>6, <1>10, <1>12, TypedKeys
  <2> QED BY <1>7, <1>9, <2>1
<1>14. \A x \in DOMAIN d.typ : \/ x \in DOMAIN t.typ /\ d.typ[x] = t.typ[x]
                               \/ x = k /\ d.typ[x] = ty
  BY <1>7, <1>9
<1> QED BY <1>4, <1>6, <1>9, <1>11, <1>12, <1>13, <1>14 DEF Rekeyed

\* An alias changes nothing but one link.
LEMMA AliasTouches ==
  ASSUME NEW t, NEW d, NEW u \in Used(t), NEW V, NEW k, NEW T, NEW r,
         Counted(t), Rekeyed(t, d, u, V, k, T, r), NEW y \in UTI
  PROVE  /\ Rekeyed(t, AliasForced(d, u, y), u, V, k, T, y)
         /\ TypeOf(AliasForced(d, u, y), u) = TypeOf(d, u)
         /\ IsComplete(AliasForced(d, u, y), u) <=> IsComplete(d, u)
<1>1. PICK e : e = AliasForced(d, u, y)
  OBVIOUS
<1>2. Counted(d) /\ TableOK(d) /\ u \in UTI /\ Used(t) \subseteq UTI
  BY CountedFacts DEF Rekeyed, Counted
<1>3. Counted(e) /\ e.size = d.size /\ e.key = d.key
  BY <1>1, <1>2, AliasCounted
<1>4. e.typ = d.typ
  BY <1>1, <1>2, AliasForcedFields
<1>5. e.root = [d.root EXCEPT ![u] = y] /\ d.root \in [UTI -> UTI]
  BY <1>1, <1>2 DEF AliasForced, TableOK
<1>6. \A x \in UTI : TypeOf(e, x) = TypeOf(d, x) /\ (x # u => e.root[x] = d.root[x])
  BY <1>3, <1>4, <1>5 DEF TypeOf
<1>7. e.root[u] = y
  BY <1>2, <1>5
<1>8. IsComplete(e, u) <=> IsComplete(d, u)
  BY <1>2, <1>3, <1>6 DEF IsComplete, IsHolder, IsScalarClass, IsClass, IsScalar
<1>9. \A x \in Used(t) \ (V \cup {u}) : Untouched(t, e, x)
  BY <1>2, <1>3, <1>6 DEF Rekeyed, Untouched
<1>10. \A v \in V \ {u} : v \in UTI => e.key[v] = NoKey /\ e.root[v] = Nouti
  BY <1>3, <1>6 DEF Rekeyed
<1>11. \A v \in V \ {u} : e.root[v] = d.root[v]
  BY <1>5
<1> QED BY <1>1, <1>2, <1>3, <1>4, <1>6, <1>7, <1>8, <1>9, <1>11 DEF Rekeyed

\* One UTI loses its key and then another, or the same one, gets a new key.
LEMMA RekeyedAgain ==
  ASSUME NEW t, Counted(t), NEW g, NEW d, NEW v \in Used(t), NEW u \in Used(t), NEW k, NEW T, NEW r,
         Rekeyed(t, g, v, {}, NoKey, {}, Nouti), Rekeyed(g, d, u, {}, k, T, r)
  PROVE  Rekeyed(t, d, u, {v} \ {u}, k, T, r)
<1>1. Used(g) = Used(t)
  BY DEF Rekeyed, Used
<1>2. \A x \in Used(t) \ {v, u} : Untouched(t, d, x)
  BY <1>1 DEF Rekeyed, Untouched
<1>3. v # u => d.key[v] = NoKey /\ d.root[v] = Nouti
  BY <1>1 DEF Rekeyed, Untouched
<1>4. \A x \in DOMAIN d.typ : (x \in DOMAIN t.typ /\ d.typ[x] = t.typ[x]) \/ (x = k /\ d.typ[x] \in T)
  BY DEF Rekeyed
<1> QED BY <1>2, <1>3, <1>4 DEF Rekeyed

\* The first user of a key is a UTI in use.
LEMMA FirstIsUsed ==
  ASSUME NEW t, Counted(t), NEW k \in DOMAIN t.typ
  PROVE  LeastOf(UtisOf(t, k)) \in Used(t)
<1>1. DOMAIN t.typ = DOMAIN t.utis /\ TableOK(t) /\ Used(t) \subseteq UTI
  BY CountedFacts DEF Counted, CountedBut
<1>2. UtisOf(t, k) = t.utis[k] /\ t.utis[k] # {} /\ t.utis[k] \subseteq Used(t)
  BY <1>1 DEF UtisOf, Counted, CountedBut, TableOK
<1>3. t.utis[k] \subseteq Nat
  BY <1>1, <1>2, ConstantFacts DEF UTI
<1> QED BY <1>2, <1>3, LeastOfIsLeast

\* makeUlamTypeFromHolder changes the key and the link of one UTI.
LEMMA FromHolderTouches ==
  ASSUME NEW t, Counted(t), NEW u \in Used(t), u # Nouti, NEW old \in Key, t.key[u] \in {old, NoKey},
         NEW k \in Key, NEW ty \in UlamType
  PROVE  \E r : Rekeyed(t, FromHolder(t, u, old, k, ty), u, {}, k, {ty}, r)
<1>1. PICK less : less = DeleteKey(t, old, u)
  OBVIOUS
<1>2. PICK first : first = IF k \in DOMAIN less.typ THEN LeastOf(UtisOf(less, k)) ELSE u
  OBVIOUS
<1>3. PICK given : given = GiveKey(less, k, ty, u)
  OBVIOUS
<1>4. PICK d : d = Alias(given, u, first)
  OBVIOUS
<1>5. d = FromHolder(t, u, old, k, ty)
  BY <1>1, <1>2, <1>3, <1>4 DEF FromHolder
<1>6. Rekeyed(t, less, u, {}, NoKey, {}, Nouti)
  BY <1>1, DeleteKeyTouches
<1>7. Counted(less) /\ Used(less) = Used(t) /\ less.key[u] = NoKey /\ less.root[u] = Nouti
  BY <1>6 DEF Rekeyed, Used
<1>8. Rekeyed(less, given, u, {}, k, {ty}, Nouti)
  BY <1>3, <1>7, GiveKeyTouches
<1>9. Rekeyed(t, given, u, {}, k, {ty}, Nouti)
  <2>1. Rekeyed(t, given, u, {u} \ {u}, k, {ty}, Nouti)
    BY <1>6, <1>8, RekeyedAgain
  <2>2. {u} \ {u} = {}
    OBVIOUS
  <2> QED BY <2>1, <2>2
<1>10. first \in UTI
  BY <1>2, <1>7, FirstIsUsed, CountedFacts DEF Counted
<1>11. Rekeyed(t, AliasForced(given, u, first), u, {}, k, {ty}, first)
  BY <1>9, <1>10, AliasTouches
<1>12. d = given \/ d = AliasForced(given, u, first)
  BY <1>4 DEF Alias
<1> QED BY <1>5, <1>9, <1>11, <1>12

\* What removeIncompleteClassSymbolFromProgramTable takes away.
Removed(t, p, d, q, n) ==
  \/ d = t /\ q = p /\ ~ (n \in DOMAIN p /\ IsUnseen(t, p[n]))
  \/ /\ n \in DOMAIN p /\ IsUnseen(t, p[n])
     /\ Rekeyed(t, d, p[n], {}, NoKey, {}, Nouti)
     /\ q = Restrict(p, DOMAIN p \ {n})

\* removeIncompleteClassSymbolFromProgramTable changes the class's own UTI and
\* its entry, or nothing.
LEMMA RemoveIncompleteTouches ==
  ASSUME NEW t, Counted(t), NEW p, ProgOK(p, t), NEW n
  PROVE  \E d, q : /\ RemoveIncompleteClass(t, p, n) = [tab |-> d, prog |-> q]
                   /\ Removed(t, p, d, q, n)
<1>1. CASE n \in DOMAIN p /\ IsUnseen(t, p[n])
  <2>1. PICK d : d = DeleteKey(t, t.key[p[n]], p[n])
    OBVIOUS
  <2>2. p[n] \in Used(t) /\ p[n] # Nouti /\ t.key[p[n]] \in Key
    BY <1>1, TypedKeys DEF ProgOK
  <2>3. Rekeyed(t, d, p[n], {}, NoKey, {}, Nouti)
    BY <2>1, <2>2, DeleteKeyTouches
  <2>4. RemoveIncompleteClass(t, p, n) = [tab |-> d, prog |-> Restrict(p, DOMAIN p \ {n})]
    BY <1>1, <2>1 DEF RemoveIncompleteClass
  <2> QED BY <1>1, <2>3, <2>4 DEF Removed
<1>2. CASE ~(n \in DOMAIN p /\ IsUnseen(t, p[n]))
  BY <1>2 DEF RemoveIncompleteClass, Removed
<1> QED BY <1>1, <1>2

\* The entries and keys that go with a change of u's key.
Gone(t, p, q, u, V, n, may) ==
  \/ V = {} /\ q = p /\ ~ (may /\ n \in DOMAIN p /\ IsUnseen(t, p[n]))
  \/ /\ may /\ n \in DOMAIN p /\ IsUnseen(t, p[n])
     /\ V = {p[n]} \ {u} /\ q = Restrict(p, DOMAIN p \ {n})

\* makeUlamTypeFromHolder as its callers use it: u gets a new key, and a class
\* is the type of one that has been entered.
LEMMA HolderTouches ==
  ASSUME NEW t, Counted(t), NEW p, ProgOK(p, t), NEW u \in Used(t), u # Nouti,
         NEW k \in Key, NEW ty \in UlamType, t.key[u] # k, t.key[u].name \notin Templates,
         IsScalarClass(t, u) /\ ty.etyp = "Class" => k.name \in DOMAIN p
  PROVE  \E d, q, V, r :
           /\ TypeFromHolder(t, p, u, k, ty) = [tab |-> d, prog |-> q]
           /\ Rekeyed(t, d, u, V, k, {ty}, r)
           /\ Gone(t, p, q, u, V, t.key[u].name, IsScalarClass(t, u))
<1> DEFINE old == t.key[u].name
<1>1. PICK g, q : RemoveIncompleteClass(t, p, old) = [tab |-> g, prog |-> q] /\ Removed(t, p, g, q, old)
  BY RemoveIncompleteTouches
<1>2. t.key[u] \in Key
  BY TypedKeys
<1>3. PICK direct : direct = FromHolder(t, u, t.key[u], k, ty)
  OBVIOUS
<1>4. PICK after : after = FromHolder(g, u, t.key[u], k, ty)
  OBVIOUS
<1>5. PICK r : Rekeyed(t, direct, u, {}, k, {ty}, r)
  BY <1>2, <1>3, FromHolderTouches
<1> HIDE DEF old
<1>6. CASE ~IsScalarClass(t, u) \/ (ty.etyp = "Class" /\ old \notin DOMAIN p)
  <2>1. TypeFromHolder(t, p, u, k, ty) = [tab |-> direct, prog |-> p]
    BY <1>3, <1>6 DEF TypeFromHolder, old
  <2>2. Gone(t, p, p, u, {}, old, IsScalarClass(t, u))
    BY <1>6 DEF Gone
  <2> QED BY <1>5, <2>1, <2>2 DEF old
<1>7. CASE ~(~IsScalarClass(t, u) \/ (ty.etyp = "Class" /\ old \notin DOMAIN p))
  <2>1. TypeFromHolder(t, p, u, k, ty) = [tab |-> after, prog |-> q]
    BY <1>1, <1>4, <1>7 DEF TypeFromHolder, old
  <2>2. CASE g = t /\ q = p /\ ~ (old \in DOMAIN p /\ IsUnseen(t, p[old]))
    <3>1. Gone(t, p, q, u, {}, old, IsScalarClass(t, u)) /\ after = direct
      BY <1>3, <1>4, <2>2 DEF Gone
    <3> QED BY <1>5, <2>1, <3>1 DEF old
  <2>3. CASE /\ old \in DOMAIN p /\ IsUnseen(t, p[old])
             /\ Rekeyed(t, g, p[old], {}, NoKey, {}, Nouti)
             /\ q = Restrict(p, DOMAIN p \ {old})
    <3>1. PICK v : v = p[old]
      OBVIOUS
    <3>2. v \in Used(t) /\ v # Nouti /\ Rekeyed(t, g, v, {}, NoKey, {}, Nouti)
      BY <2>3, <3>1 DEF ProgOK
    <3>3. Counted(g) /\ Used(g) = Used(t) /\ g.key[u] \in {t.key[u], NoKey} /\ g.key[v] = NoKey
      BY <3>2 DEF Rekeyed, Used, Untouched
    <3>4. PICK s : Rekeyed(g, after, u, {}, k, {ty}, s)
      BY <1>2, <1>4, <3>3, FromHolderTouches
    <3>5. PICK V : V = {v} \ {u}
      OBVIOUS
    <3>6. Rekeyed(t, after, u, V, k, {ty}, s)
      BY <3>2, <3>4, <3>5, RekeyedAgain
    <3>7. Gone(t, p, q, u, V, old, IsScalarClass(t, u))
      BY <1>7, <2>3, <3>1, <3>5 DEF Gone
    <3> QED BY <2>1, <3>6, <3>7 DEF old
  <2> QED BY <1>1, <2>2, <2>3 DEF Removed
<1> QED BY <1>6, <1>7

\* replaceUTIKeyAndAlias gives u the key of v and links it to v.
LEMMA ReplaceTouches ==
  ASSUME NEW t, Counted(t), NEW p, ProgOK(p, t), NEW u \in Used(t), u # Nouti,
         NEW v \in Used(t), u # v, NotTaken(t, p, u, v)
  PROVE  \E d, q, V :
           /\ ReplaceKeyAndAlias(t, p, u, v) = [tab |-> d, prog |-> q]
           /\ Rekeyed(t, d, u, V, t.key[v], {}, v) /\ v \notin V
           /\ Gone(t, p, q, u, V, t.key[u].name, IsHolder(t, u) /\ IsClass(t, u))
<1> DEFINE old == t.key[u].name
           may == IsHolder(t, u) /\ IsClass(t, u)
           k == t.key[v]
<1>1. PICK gone : gone = IF IsHolder(t, u) /\ IsClass(t, u)
                         THEN RemoveIncompleteClass(t, p, old) ELSE [tab |-> t, prog |-> p]
  OBVIOUS
<1>2. u \in UTI /\ v \in UTI /\ t.key[u] \in Key /\ k \in Key /\ Used(t) \subseteq UTI
  BY CountedFacts, TypedKeys DEF Counted
<1>3. PICK g, q : /\ gone = [tab |-> g, prog |-> q]
                  /\ \/ g = t /\ q = p /\ ~ (may /\ old \in DOMAIN p /\ IsUnseen(t, p[old]))
                     \/ may /\ Removed(t, p, g, q, old)
  <2>1. CASE may
    BY <1>1, <2>1, RemoveIncompleteTouches
  <2>2. CASE ~may
    BY <1>1, <2>2
  <2> QED BY <2>1, <2>2
<1>4. PICK less : less = DeleteKey(g, t.key[u], u)
  OBVIOUS
<1>5. PICK bare : bare = [less EXCEPT !.key[u] = k]
  OBVIOUS
<1>6. PICK more : more = IncrementKey(bare, k, u)
  OBVIOUS
<1>7. PICK d : d = AliasForced(more, u, v)
  OBVIOUS
<1>8. ReplaceKeyAndAlias(t, p, u, v) = [tab |-> d, prog |-> q]
  BY <1>1, <1>3, <1>4, <1>5, <1>6, <1>7, SMTT(30) DEF ReplaceKeyAndAlias
<1> HIDE DEF old, may, k
\* From the table without the entry on.
<1>9. ASSUME Counted(g), Used(g) = Used(t), g.key[u] \in {t.key[u], NoKey}, g.key[v] = k
      PROVE  Rekeyed(g, d, u, {}, k, {}, v)
  <2>1. Rekeyed(g, less, u, {}, NoKey, {}, Nouti)
    BY <1>2, <1>4, <1>9, DeleteKeyTouches
  <2>2. Counted(less) /\ TableOK(less) /\ less.size = g.size /\ less.key[u] = NoKey /\ less.key[v] = k
        /\ Used(less) = Used(t)
    BY <1>9, <2>1 DEF Rekeyed, Untouched, Used, Counted, CountedBut
  <2>3. k \in DOMAIN less.typ
    BY <2>2, TypedKeys
  <2>4. CountedBut(less, {u}) /\ DOMAIN less.typ = DOMAIN less.typ \cup {k}
    BY <2>2, <2>3 DEF Counted, CountedBut
  <2>5. Counted(more) /\ more.size = less.size
    BY <1>2, <1>5, <1>6, <2>2, <2>4, CountKeyCounted
  <2>6. TableOK(bare) /\ bare.key = [less.key EXCEPT ![u] = k] /\ bare.typ = less.typ /\ bare.root = less.root
        /\ bare.size = less.size
    <3>1. TableOK(bare) /\ bare.key = [less.key EXCEPT ![u] = k] /\ bare.typ = less.typ
          /\ bare.size = less.size
      BY <1>2, <1>5, <2>2, SetKeyFields
    <3> QED BY <1>5, <2>2, <3>1 DEF TableOK
  <2>7. more.key = bare.key /\ more.typ = less.typ /\ more.root = less.root
    <3>1. u \in Used(bare)
      BY <2>2, <2>6 DEF Used
    <3>2. more.key = bare.key
      BY <1>2, <1>6, <2>6, <3>1, IncrementFields
    <3> QED BY <1>6, <2>6, <3>2, WithUtisRoot DEF IncrementKey
  <2>8. Used(more) = Used(t)
    BY <2>2, <2>5 DEF Used
  <2>9. ASSUME NEW x \in Used(t) \ {u} PROVE Untouched(g, more, x)
    <3>1. Untouched(g, less, x) /\ x \in UTI
      BY <1>2, <1>9, <2>1 DEF Rekeyed
    <3>2. more.key[x] = less.key[x] /\ more.root[x] = less.root[x]
      BY <2>2, <2>6, <2>7, <3>1 DEF TableOK
    <3>3. TypeOf(more, x) = TypeOf(less, x)
      BY <2>2, <2>5, <2>7, <2>8, <3>2, KeptType
    <3> QED BY <3>1, <3>2, <3>3 DEF Untouched
  <2>10. more.key[u] = k
    BY <1>2, <2>2, <2>6, <2>7 DEF TableOK
  <2>11. Rekeyed(g, more, u, {}, k, {}, more.root[u])
    BY <1>9, <2>1, <2>2, <2>5, <2>7, <2>9, <2>10 DEF Rekeyed
  <2> QED BY <1>2, <1>7, <1>9, <2>11, AliasTouches
<1>10. CASE g = t /\ q = p /\ ~ (may /\ old \in DOMAIN p /\ IsUnseen(t, p[old]))
  <2>1. Rekeyed(t, d, u, {}, k, {}, v)
    BY <1>9, <1>10 DEF k
  <2>2. Gone(t, p, q, u, {}, old, may)
    BY <1>10 DEF Gone
  <2> QED BY <1>8, <2>1, <2>2 DEF k, old, may
<1>11. CASE /\ may /\ old \in DOMAIN p /\ IsUnseen(t, p[old])
            /\ Rekeyed(t, g, p[old], {}, NoKey, {}, Nouti)
            /\ q = Restrict(p, DOMAIN p \ {old})
  <2>1. PICK w : w = p[old]
    OBVIOUS
  <2>2. w \in Used(t) /\ w # Nouti /\ Rekeyed(t, g, w, {}, NoKey, {}, Nouti) /\ w # v
    <3>1. w # v
      BY <1>11, <2>1 DEF NotTaken, Remains, may, old
    <3> QED BY <1>11, <2>1, <3>1 DEF ProgOK
  <2>3. Counted(g) /\ Used(g) = Used(t) /\ g.key[u] \in {t.key[u], NoKey} /\ g.key[v] = k
    BY <2>2 DEF Rekeyed, Used, Untouched, k
  <2>4. PICK V : V = {w} \ {u}
    OBVIOUS
  <2>5. Rekeyed(t, d, u, V, k, {}, v)
    BY <1>9, <2>2, <2>3, <2>4, RekeyedAgain
  <2>6. Gone(t, p, q, u, V, old, may)
    BY <1>11, <2>1, <2>4 DEF Gone
  <2>7. v \notin V
    BY <2>2, <2>4
  <2> QED BY <1>8, <2>5, <2>6, <2>7 DEF k, old, may
<1> QED BY <1>3, <1>10, <1>11 DEF Removed

\* setUTISizes with another size gives u the new key and makes it a root.
LEMMA ResizeTouches ==
  ASSUME NEW t, Counted(t), NEW u \in Used(t), u # Nouti,
         NEW b \in Sizes \cup {Unknown}, NEW a \in Lengths \cup {Unknown, NonArray},
         NEW k, k = [t.key[u] EXCEPT !.bits = b, !.arr = a], t.key[u] # k
  PROVE  /\ k \in Key
         /\ Rekeyed(t, Resize(t, u, b, a), u, {}, k, {[TypeOf(t, u) EXCEPT !.based = FALSE]}, u)
<1>1. u \in UTI /\ TableOK(t) /\ t.key[u] \in Key
  BY CountedFacts, TypedKeys DEF Counted
<1>2. k \in Key
  BY <1>1 DEF Key
<1>3. PICK ty \in UlamType : ty = [TypeOf(t, u) EXCEPT !.based = FALSE]
  BY <1>1, TypeOfIsType
<1>4. PICK less : less = DeleteKey(t, t.key[u], u)
  OBVIOUS
<1>5. PICK given : given = GiveKey(less, k, ty, u)
  OBVIOUS
<1>6. Resize(t, u, b, a) = AliasForced(given, u, u)
  BY <1>3, <1>4, <1>5 DEF Resize
<1>7. Rekeyed(t, less, u, {}, NoKey, {}, Nouti)
  BY <1>1, <1>4, DeleteKeyTouches
<1>8. Counted(less) /\ u \in Used(less) /\ less.key[u] = NoKey /\ less.root[u] = Nouti
  BY <1>7 DEF Rekeyed, Used
<1>9. Rekeyed(less, given, u, {}, k, {ty}, Nouti)
  BY <1>2, <1>5, <1>8, GiveKeyTouches
<1>10. Rekeyed(t, given, u, {}, k, {ty}, Nouti)
  <2>1. Rekeyed(t, given, u, {u} \ {u}, k, {ty}, Nouti)
    BY <1>7, <1>9, RekeyedAgain
  <2>2. {u} \ {u} = {}
    OBVIOUS
  <2> QED BY <2>1, <2>2
<1>11. Rekeyed(t, AliasForced(given, u, u), u, {}, k, {ty}, u)
  BY <1>1, <1>10, AliasTouches
<1> QED BY <1>2, <1>3, <1>6, <1>11

\* Another UlamType for a key.
Retyped(t, d, k, ty) ==
  /\ Counted(d) /\ d.size = t.size /\ d.key = t.key /\ d.root = t.root
  /\ \A x \in Used(t) : TypeOf(d, x) = IF t.key[x] = k THEN ty ELSE TypeOf(t, x)
  /\ DOMAIN d.typ = DOMAIN t.typ
  /\ \A x \in DOMAIN d.typ : d.typ[x] = IF x = k THEN ty ELSE t.typ[x]

\* Another UlamType for a key is one for all the UTIs that have the key.
LEMMA ReplaceTypeTouches ==
  ASSUME NEW t, Counted(t), NEW k \in DOMAIN t.typ, NEW ty \in UlamType
  PROVE  Retyped(t, ReplaceType(t, k, ty), k, ty)
<1>1. PICK d : d = ReplaceType(t, k, ty)
  OBVIOUS
<1>2. TableOK(t) /\ Used(t) \subseteq UTI
  BY CountedFacts DEF Counted
<1>3. Counted(d) /\ d.size = t.size /\ d.key = t.key
  BY <1>1, <1>2, ReplaceTypeCounted, ReplaceFields
<1>4. d.root = t.root /\ d.typ = [t.typ EXCEPT ![k] = ty]
  BY <1>1, <1>2 DEF ReplaceType, TableOK
<1>5. Used(d) = Used(t)
  BY <1>3 DEF Used
<1>6. ASSUME NEW x \in Used(t) PROVE TypeOf(d, x) = IF t.key[x] = k THEN ty ELSE TypeOf(t, x)
  <2>1. TypeOf(d, x) = d.typ[t.key[x]]
    BY <1>3, <1>5, TypedKeys
  <2>2. TypeOf(t, x) = t.typ[t.key[x]] /\ t.key[x] \in DOMAIN t.typ
    BY TypedKeys
  <2> QED BY <1>4, <2>1, <2>2
<1> QED BY <1>1, <1>3, <1>4, <1>6 DEF Retyped

\* A new UTI is a root.
Made(t, d, u, k, ty) ==
  /\ Counted(d) /\ d.size = t.size + 1 /\ u = t.size
  /\ u \in Used(d) \ {Nouti} /\ Used(d) = Used(t) \cup {u} /\ u \notin Used(t)
  /\ d.key[u] = k /\ d.root[u] = u
  /\ \A x \in Used(t) : Untouched(t, d, x)
  /\ \A x \in DOMAIN d.typ : (x \in DOMAIN t.typ /\ d.typ[x] = t.typ[x]) \/ (x = k /\ d.typ[x] = ty)

\* A new UTI is a root, and the others are untouched.
LEMMA AppendTouches ==
  ASSUME NEW t, Counted(t), Room(t), NEW k \in Key, NEW ty \in UlamType
  PROVE  Made(t, Append(t, k, ty), t.size, k, ty)
<1>1. PICK new : new = [t EXCEPT !.size = @ + 1, !.root[t.size] = t.size]
  OBVIOUS
<1>2. PICK u : u = t.size
  OBVIOUS
<1>3. TableOK(t) /\ u \in UTI /\ u # Nouti /\ u + 1 \in 1 .. MaxUTI + 1 /\ u \in Nat
  BY <1>2, ConstantFacts DEF Counted, CountedBut, TableOK, Room, UTI
<1>4. new = [size |-> u + 1, key |-> t.key, typ |-> t.typ, utis |-> t.utis,
             root |-> [t.root EXCEPT ![u] = u]]
  BY <1>1, <1>2, <1>3 DEF TableOK
<1>5. [t.root EXCEPT ![u] = u] \in [UTI -> UTI]
  BY <1>3 DEF TableOK
<1>6. TableOK(new)
  BY <1>2, <1>3, <1>4, <1>5, TableOfParts DEF TableOK, Used
<1>7. /\ new.size = u + 1 /\ new.key = t.key /\ new.typ = t.typ /\ new.utis = t.utis
      /\ Used(new) = Used(t) \cup {u} /\ u \in UTI \ Used(t)
  BY <1>2, <1>3, <1>4 DEF Used, TableOK
<1>8. CountedBut(new, {u}) /\ Counted(new) = Counted(new) /\ new.key[u] = NoKey
  BY <1>6, <1>7 DEF Counted, CountedBut, NoDangling, UtisOf
<1>9. PICK d : d = GiveKey(new, k, ty, u)
  OBVIOUS
<1>10. d = Append(t, k, ty)
  BY <1>1, <1>2, <1>9 DEF Append
<1>11. Counted(d) /\ d.size = u + 1
  BY <1>2, <1>3, <1>10, AppendCounted
<1>12. PICK def : def = DefineType(new, k, ty)
  OBVIOUS
<1>13. /\ TableOK(def) /\ def.key = t.key /\ def.root = new.root /\ def.size = u + 1
       /\ def.typ = [x \in DOMAIN t.typ \cup {k} |-> IF x \in DOMAIN t.typ THEN t.typ[x] ELSE ty]
  <2>1. TableOK(def) /\ def.key = new.key /\ def.size = new.size
    BY <1>6, <1>12, DefineFields
  <2> QED BY <1>6, <1>7, <1>12, <2>1 DEF DefineType, TableOK
<1>14. PICK set : set = [def EXCEPT !.key[u] = k]
  OBVIOUS
<1>15. /\ TableOK(set) /\ set.key = [t.key EXCEPT ![u] = k] /\ set.root = new.root /\ set.typ = def.typ
       /\ set.size = u + 1
  <2>1. TableOK(set) /\ set.key = [def.key EXCEPT ![u] = k] /\ set.typ = def.typ /\ set.size = def.size
    BY <1>3, <1>13, <1>14, SetKeyFields
  <2> QED BY <1>13, <1>14, <2>1 DEF TableOK
<1>16. d = IncrementKey(set, k, u)
  BY <1>9, <1>12, <1>14 DEF GiveKey
<1>17. d.key = [t.key EXCEPT ![u] = k] /\ d.root = [t.root EXCEPT ![u] = u] /\ d.typ = def.typ
  <2>1. u \in Used(set)
    BY <1>3, <1>15 DEF Used
  <2>2. d.key = set.key
    BY <1>15, <1>16, <2>1, IncrementFields
  <2>3. new.root = [t.root EXCEPT ![u] = u]
    BY <1>4
  <2> QED BY <1>15, <1>16, <2>2, <2>3, WithUtisRoot DEF IncrementKey
<1>18. Used(d) = Used(t) \cup {u}
  BY <1>7, <1>11 DEF Used
<1>19. ASSUME NEW x \in Used(t) PROVE Untouched(t, d, x)
  <2>1. x # u /\ x \in UTI
    BY <1>7, UsedIsUTI, <1>3
  <2>2. d.key[x] = t.key[x] /\ d.root[x] = t.root[x]
    BY <1>3, <1>17, <2>1 DEF TableOK
  <2>3. t.key[x] \in DOMAIN t.typ
    BY TypedKeys
  <2>4. d.typ[t.key[x]] = t.typ[t.key[x]]
    BY <1>13, <1>17, <2>3
  <2>5. TypeOf(d, x) = TypeOf(t, x)
    BY <1>11, <1>18, <2>2, <2>4, KeptType
  <2> QED BY <2>2, <2>5 DEF Untouched
<1>20. d.key[u] = k /\ d.root[u] = u
  BY <1>3, <1>17 DEF TableOK
<1>21. \A x \in DOMAIN d.typ : (x \in DOMAIN t.typ /\ d.typ[x] = t.typ[x]) \/ (x = k /\ d.typ[x] = ty)
  BY <1>13, <1>17
<1> QED BY <1>2, <1>3, <1>7, <1>10, <1>11, <1>18, <1>19, <1>20, <1>21 DEF Made

-----------------------------------------------------------------------------
(* From what the helpers touch to what the UTIs stand for.                 *)

\* Keys and UlamTypes still go together when the new key and its UlamType do.
LEMMA RekeyedMeans ==
  ASSUME NEW t, NEW d, NEW lab, KeysMean(t, lab), NEW u, NEW V, NEW k, NEW T, NEW r,
         Rekeyed(t, d, u, V, k, T, r), \A ty \in T : KeyMeans(k, ty, Used(t), lab)
  PROVE  KeysMean(d, lab) /\ Used(d) = Used(t)
<1>1. Used(d) = Used(t)
  BY DEF Rekeyed, Used
<1>2. \A x \in DOMAIN d.typ : (x \in DOMAIN t.typ /\ d.typ[x] = t.typ[x]) \/ (x = k /\ d.typ[x] \in T)
  BY DEF Rekeyed
<1>3. \A x \in DOMAIN d.typ : KeyMeans(x, d.typ[x], Used(t), lab)
  BY <1>2 DEF KeysMean
<1> QED BY <1>1, <1>3 DEF KeysMean

\* Nouti is the first UTI, and its key never changes.
LEMMA NoutiIsUsed ==
  ASSUME NEW t, Counted(t)
  PROVE  Nouti \in Used(t) /\ t.key[Nouti] = NoKey
<1>1. TableOK(t) /\ NoKey \in DOMAIN t.utis /\ Nouti \in t.utis[NoKey] /\ t.key[Nouti] = NoKey
  BY CountedFacts DEF Counted, CountedBut
<1>2. \A k \in DOMAIN t.utis : t.utis[k] \subseteq Used(t)
  BY <1>1 DEF TableOK
<1> QED BY <1>1, <1>2

\* What is entered under a name is found under no other.
LEMMA EntriesDiffer ==
  ASSUME NEW t, NEW p, NEW ins, NEW st, NEW gen, NEW lab, Understood(t, p, ins, st, gen, lab),
         NEW m \in DOMAIN p, NEW n \in DOMAIN p, p[m] = p[n]
  PROVE  m = n
BY DEF Understood, EntryOK

\* An entry that is removed or renamed is that of a UTI whose key is deleted, or
\* of u.
LEMMA GoneMoved ==
  ASSUME NEW t, NEW p, NEW ins, NEW st, NEW gen, NEW lab, Understood(t, p, ins, st, gen, lab),
         NEW q, NEW u, NEW V, NEW n, NEW may \in BOOLEAN, Gone(t, p, q, u, V, n, may),
         may => n \notin Templates
  PROVE  /\ ProgMoved(p, q, u, V) /\ V \subseteq EntriesOf(p) /\ u \notin V
         /\ \A v \in V : IsUnseen(t, v) /\ v \in Used(t) \ {Nouti} /\ t.key[v].name = n
<1>1. CASE V = {} /\ q = p
  BY <1>1 DEF ProgMoved, EntriesOf
<1>2. CASE /\ may /\ n \in DOMAIN p /\ IsUnseen(t, p[n])
           /\ V = {p[n]} \ {u} /\ q = Restrict(p, DOMAIN p \ {n})
  <2>1. EntryOK(t, p, gen, n)
    BY <1>2 DEF Understood
  <2>2. DOMAIN q = DOMAIN p \ {n} /\ \A m \in DOMAIN q : q[m] = p[m]
    BY <1>2 DEF Restrict
  <2>3. \A m \in DOMAIN q : p[m] # p[n]
    BY <1>2, <2>2, EntriesDiffer
  <2>4. ProgMoved(p, q, u, V)
    BY <1>2, <2>2, <2>3 DEF ProgMoved
  <2> QED BY <1>2, <2>1, <2>4 DEF EntriesOf, EntryOK
<1> QED BY <1>1, <1>2 DEF Gone

\* A change of the key of u moves only u and the classes that go.
LEMMA RekeyedMoved ==
  ASSUME NEW t, Counted(t), NEW p, NEW ins, NEW st, NEW gen, NEW lab,
         Understood(t, p, ins, st, gen, lab),
         NEW u \in Used(t) \ {Nouti}, NEW d, NEW V, NEW k, NEW T, NEW r,
         Rekeyed(t, d, u, V, k, T, r),
         NEW q, NEW n, NEW may \in BOOLEAN, Gone(t, p, q, u, V, n, may), may => n \notin Templates,
         \A ty \in T : KeyMeans(k, ty, Used(t), lab)
  PROVE  /\ Moved(t, d, u, V) /\ ProgMoved(p, q, u, V) /\ KeysMean(d, lab) /\ V \subseteq EntriesOf(p)
         /\ Counted(d) /\ Used(d) = Used(t)
<1>1. KeysMean(t, lab)
  BY DEF Understood
<1>2. KeysMean(d, lab) /\ Used(d) = Used(t) /\ Counted(d)
  <2>1. KeysMean(d, lab) /\ Used(d) = Used(t)
    BY <1>1, RekeyedMeans
  <2> QED BY <2>1 DEF Rekeyed
<1>3. /\ ProgMoved(p, q, u, V) /\ V \subseteq EntriesOf(p) /\ u \notin V
      /\ \A v \in V : IsUnseen(t, v) /\ v \in Used(t) \ {Nouti}
  BY GoneMoved
<1>4. Nouti \in Used(t) /\ Nouti \in Used(d) /\ t.key[Nouti] = NoKey /\ d.key[Nouti] = NoKey
  BY <1>2, NoutiIsUsed
<1>5. \A x \in Used(t) \ (V \cup {u}) : Same(t, d, x)
  BY UntouchedIsSame DEF Rekeyed
<1>6. ASSUME NEW v \in V
      PROVE  ~IsComplete(t, v) /\ d.key[v] = NoKey /\ d.root[v] = Nouti
  <2>1. d.key[v] = NoKey /\ d.root[v] = Nouti
    BY <1>3, <1>6 DEF Rekeyed
  <2>2. ~IsComplete(t, v)
    BY <1>3, <1>6 DEF IsUnseen, IsClass, IsComplete
  <2> QED BY <2>1, <2>2
<1> QED BY <1>2, <1>3, <1>4, <1>5, <1>6 DEF Moved

\* A UTI that is no instance and is not entered gets the key of another one, and
\* a link to another one if it is a scalar class then.
LEMMA PlainUnderstood ==
  ASSUME NEW t, NEW p, NEW ins, NEW st, NEW gen, NEW lab, Understood(t, p, ins, st, gen, lab),
         NEW u \in Used(t), NEW d, NEW V, NEW q, Moved(t, d, u, V), ProgMoved(p, q, u, V),
         V \subseteq EntriesOf(p), KeysMean(d, lab),
         NEW gen2, gen2 \ {u} \subseteq gen,
         u \notin DOMAIN ins, u \notin EntriesOf(q),
         d.key[u].name \in Templates => d.key[u].name \in DOMAIN p,
         ScalarClassKey(d.key[u]) => d.root[u] # u,
         u \in gen2 => OwnName(d, u)
  PROVE  Understood(d, q, ins, st, gen2, lab)
<1>1. InstancesMoved(ins, ins, st, st, u)
  BY DEF InstancesMoved
<1>2. \A n \in DOMAIN q : q[n] # u
  BY DEF EntriesOf
<1>3. EnteredOK(d, q, u)
  <2>1. \A n \in Templates : n \in DOMAIN p => n \in DOMAIN q
    BY DEF ProgMoved
  <2> QED BY <2>1 DEF EnteredOK
<1> QED BY <1>1, <1>2, <1>3, MovedUnderstood

\* A scalar class that has been entered, by its key.
LEMMA EntryIsScalar ==
  ASSUME NEW t, Counted(t), NEW p, NEW ins, NEW st, NEW gen, NEW lab,
         Understood(t, p, ins, st, gen, lab), NEW n \in DOMAIN p
  PROVE  /\ p[n] \in Used(t) \ {Nouti} /\ t.key[p[n]].name = n /\ n \in ClassNames
         /\ t.key[p[n]].inst = p[n] /\ t.key[p[n]].arr = NonArray /\ ~t.key[p[n]].ref
         /\ ScalarClassKey(t.key[p[n]]) /\ IsScalarClass(t, p[n]) /\ IsClass(t, p[n])
         /\ n \in UTI => IsHolder(t, p[n]) /\ IsUnseen(t, p[n])
<1>1. /\ p[n] \in Used(t) \ {Nouti} /\ t.key[p[n]].name = n /\ n \in ClassNames
      /\ t.key[p[n]].inst = p[n] /\ t.key[p[n]].arr = NonArray /\ ~t.key[p[n]].ref
  BY DEF Understood, EntryOK
<1>2. KeysMean(t, lab)
  BY DEF Understood
<1>3. ScalarClassKey(t.key[p[n]])
  BY <1>1, NameFacts DEF ScalarClassKey
<1>4. IsScalarClass(t, p[n]) /\ IsClass(t, p[n])
  BY <1>1, <1>2, <1>3, Answers DEF IsScalarClass
<1>5. n \in UTI => IsHolder(t, p[n]) /\ TypeOf(t, p[n]).ctyp = "Unseen"
  BY <1>1, <1>2, Answers DEF KeyMeans, HolderNames
<1> QED BY <1>1, <1>3, <1>4, <1>5 DEF IsUnseen

\* A UTI that is not seen leaves the program table.
LEMMA LeavesTable ==
  ASSUME NEW t, Counted(t), NEW p, NEW ins, NEW st, NEW gen, NEW lab,
         Understood(t, p, ins, st, gen, lab),
         NEW u \in Used(t), NEW q, NEW V, NEW may, Gone(t, p, q, u, V, t.key[u].name, may),
         u \in EntriesOf(p) => may /\ IsUnseen(t, u)
  PROVE  u \notin EntriesOf(q)
<1> SUFFICES ASSUME NEW n \in DOMAIN q, q[n] = u PROVE FALSE
  BY DEF EntriesOf
<1>1. CASE V = {} /\ q = p /\ ~ (may /\ t.key[u].name \in DOMAIN p /\ IsUnseen(t, p[t.key[u].name]))
  <2>1. n \in DOMAIN p /\ p[n] = u /\ u \in EntriesOf(p)
    BY <1>1 DEF EntriesOf
  <2>2. t.key[u].name = n
    BY <2>1, EntryIsScalar
  <2> QED BY <1>1, <2>1, <2>2
<1>2. CASE t.key[u].name \in DOMAIN p /\ q = Restrict(p, DOMAIN p \ {t.key[u].name})
  <2>1. n \in DOMAIN p \ {t.key[u].name} /\ p[n] = u
    BY <1>2 DEF Restrict
  <2>2. t.key[u].name = n
    BY <2>1, EntryIsScalar
  <2> QED BY <2>1, <2>2
<1> QED BY <1>1, <1>2 DEF Gone

\* Instances of templates are no holders, and other facts about one.
LEMMA InstanceFacts ==
  ASSUME NEW t, NEW p, NEW ins, NEW st, NEW gen, NEW lab, Understood(t, p, ins, st, gen, lab),
         NEW x \in DOMAIN ins
  PROVE  /\ InstanceOK(t, p, st, gen, x)
         /\ t.key[x].name \in Templates /\ t.key[x].name \notin HolderNames
         /\ ScalarClassKey(t.key[x]) /\ x \notin EntriesOf(p)
<1>1. InstanceOK(t, p, st, gen, x)
  BY DEF Understood, InstancesOK
<1>2. t.key[x].name \in Templates /\ t.key[x].arr = NonArray /\ ~t.key[x].ref /\ x \notin EntriesOf(p)
  BY <1>1 DEF InstanceOK, EntriesOf
<1>3. t.key[x].name \notin HolderNames /\ EtypeOf(t.key[x].name) = "Class"
  BY <1>2, NameFacts DEF ClassNames
<1> QED BY <1>1, <1>2, <1>3 DEF ScalarClassKey

\* A known type has a UlamType that may be given to others.
LEMMA UnbasedMeans ==
  ASSUME NEW k, NEW ty, NEW U, NEW lab, KeyMeans(k, ty, U, lab)
  PROVE  KeyMeans(k, [ty EXCEPT !.based = FALSE], U, lab)
BY DEF KeyMeans

\* When no entry is taken away.
LEMMA RekeyedAlone ==
  ASSUME NEW t, Counted(t), NEW lab, KeysMean(t, lab),
         NEW u \in Used(t) \ {Nouti}, NEW d, NEW k, NEW T, NEW r, Rekeyed(t, d, u, {}, k, T, r),
         \A ty \in T : KeyMeans(k, ty, Used(t), lab)
  PROVE  Moved(t, d, u, {}) /\ KeysMean(d, lab) /\ Counted(d) /\ Used(d) = Used(t)
<1>1. KeysMean(d, lab) /\ Used(d) = Used(t)
  BY RekeyedMeans
<1>2. Counted(d)
  BY DEF Rekeyed
<1>3. Nouti \in Used(t) /\ d.key[Nouti] = NoKey
  BY <1>2, NoutiIsUsed
<1>4. \A x \in Used(t) \ {u} : Same(t, d, x)
  BY UntouchedIsSame DEF Rekeyed
<1> QED BY <1>1, <1>2, <1>3, <1>4 DEF Moved

-----------------------------------------------------------------------------
(* The invariant, and one lemma for each action.                           *)

\* The class that is parsed has been entered, and nothing is parsed later on.
ParsedIsEntered == \A c \in parsing : c \in DOMAIN prog /\ ~labelling

UInv == Understood(table, prog, instances, stubs, generated, labelling) /\ ParsedIsEntered

\* What was known stays known, but for the UTIs in E.
KeepsBut(t, d, E) == Used(t) \subseteq Used(d) /\ \A x \in Used(t) \ E : Stays(t, d, x)
Keeps(t, d) == Used(t) \subseteq Used(d) /\ \A x \in Used(t) : Stays(t, d, x)

LEMMA KeepsAll == ASSUME NEW t, NEW d, Keeps(t, d) PROVE \A E : KeepsBut(t, d, E)
BY DEF Keeps, KeepsBut

\* A move forgets no known type, if not that of u.
LEMMA MovedKeeps ==
  ASSUME NEW t, NEW d, NEW u, NEW V, Moved(t, d, u, V), u \in Used(t) => Stays(t, d, u)
  PROVE  Keeps(t, d)
<1>1. \A x \in Used(t) \ (V \cup {u}) : Stays(t, d, x)
  BY DEF Moved, Same, Stays
<1>2. \A x \in V : Stays(t, d, x)
  BY DEF Moved, Stays
<1>3. Used(t) \subseteq Used(d)
  BY DEF Moved
<1> QED BY <1>1, <1>2, <1>3 DEF Keeps

\* A link is all that an alias moves.
LEMMA AliasMoved ==
  ASSUME NEW t, Counted(t), NEW lab, KeysMean(t, lab), NEW u \in Used(t) \ {Nouti}, NEW y \in UTI,
         NEW d, d = AliasForced(t, u, y)
  PROVE  /\ Moved(t, d, u, {}) /\ KeysMean(d, lab) /\ Counted(d) /\ Used(d) = Used(t)
         /\ d.key[u] = t.key[u] /\ d.root[u] = y /\ (IsComplete(d, u) <=> IsComplete(t, u))
<1>1. PICK k, r : k = t.key[u] /\ r = t.root[u]
  OBVIOUS
<1>2. Rekeyed(t, t, u, {}, k, {}, r)
  BY <1>1 DEF Rekeyed, Untouched
<1>3. Rekeyed(t, d, u, {}, k, {}, y) /\ (IsComplete(d, u) <=> IsComplete(t, u))
  BY <1>2, AliasTouches
<1>4. d.key[u] = t.key[u] /\ d.root[u] = y
  BY <1>1, <1>3 DEF Rekeyed
<1>5. \A ty \in {} : KeyMeans(k, ty, Used(t), lab)
  OBVIOUS
<1> QED BY <1>3, <1>4, <1>5, RekeyedAlone

\* A link to another UTI leaves everything as it is understood.
LEMMA LinkUnderstood ==
  ASSUME NEW t, Counted(t), NEW p, NEW ins, NEW st, NEW gen, NEW lab,
         Understood(t, p, ins, st, gen, lab),
         NEW u \in Used(t) \ {Nouti}, NEW y \in UTI, y # u, NEW d, d = AliasForced(t, u, y)
  PROVE  Understood(d, p, ins, st, gen, lab) /\ Keeps(t, d)
<1>1. KeysMean(t, lab)
  BY DEF Understood
<1>2. /\ Moved(t, d, u, {}) /\ KeysMean(d, lab) /\ Used(d) = Used(t)
      /\ d.key[u] = t.key[u] /\ d.root[u] = y /\ (IsComplete(d, u) <=> IsComplete(t, u))
  BY <1>1, AliasMoved
<1>3. ProgMoved(p, p, u, {}) /\ InstancesMoved(ins, ins, st, st, u)
  BY DEF ProgMoved, InstancesMoved
<1>4. ASSUME NEW n \in DOMAIN p, p[n] = u PROVE EntryOK(d, p, gen, n)
  <2>1. EntryOK(t, p, gen, n)
    BY DEF Understood
  <2> QED BY <1>2, <1>4, <2>1 DEF EntryOK
<1>5. u \in DOMAIN ins => InstanceOK(d, p, st, gen, u)
  BY <1>2 DEF Understood, InstancesOK, InstanceOK
<1>6. EnteredOK(d, p, u)
  BY <1>2 DEF Understood, EnteredOK
<1>7. u \in gen => OwnName(d, u)
  BY <1>2 DEF Understood, AnonymousOwn, OwnName
<1>8. Understood(d, p, ins, st, gen, lab)
  BY <1>2, <1>3, <1>4, <1>5, <1>6, <1>7, MovedUnderstood
<1> QED BY <1>2, <1>8, MovedKeeps DEF Stays

\* The two invariants in the form the steps need.
LEMMA UFacts ==
  ASSUME IInv, UInv
  PROVE  /\ Counted(table) /\ KeysMean(table, labelling) /\ ProgOK(prog, table)
         /\ Understood(table, prog, instances, stubs, generated, labelling)
         /\ Nouti \in Used(table) /\ Used(table) \subseteq UTI
         /\ generated \subseteq Used(table) \ {Nouti}
         /\ labelling => parsing = {}
         /\ parsing \subseteq Classes \cup Templates /\ parsing \subseteq DOMAIN prog
BY InvFacts, NoutiIsUsed DEF UInv, Understood, ParsedIsEntered, ParsingOK

\* A primitive type of any size goes with the UlamType of primitives.
LEMMA PrimMeans ==
  ASSUME NEW b, NEW ref, NEW U, Nouti \in U, NEW lab
  PROVE  KeyMeans(MkKey(PrimName, b, NonArray, Nouti, ref), PrimType, U, lab)
<1>1. EtypeOf(PrimName) = "Prim" /\ PrimName \notin HolderNames /\ PrimName \notin UTI
  BY NameFacts
<1> QED BY <1>1 DEF KeyMeans, MkKey, PrimType, MkType

\* installSymbolTypedef: a holder becomes a primitive type.
LEMMA TypedefOfPrimitiveUnderstood ==
  ASSUME IInv, UInv, NEW u \in UTI, NEW b \in Sizes, NEW ref \in BOOLEAN, TypedefOfPrimitive(u, b, ref)
  PROVE  UInv' /\ Keeps(table, table')
<1>1. PICK k \in Key : k = MkKey(PrimName, b, NonArray, Nouti, ref)
  <2>1. PrimName \in Name /\ Nouti \in UTI
    BY ConstantFacts DEF Name, UTI
  <2> QED BY <2>1 DEF MkKey, Key
<1>2. u \in Used(table) \ {Nouti} /\ IsHolder(table, u) /\ PrimType \in UlamType /\ k.name = PrimName
  BY <1>1, BaseTypesAreTypes DEF TypedefOfPrimitive, Held, MkKey
<1>3. Counted(table) /\ KeysMean(table, labelling) /\ ProgOK(prog, table) /\ Nouti \in Used(table)
      /\ Understood(table, prog, instances, stubs, generated, labelling)
      /\ parsing \subseteq Classes \cup Templates /\ parsing \subseteq DOMAIN prog
  BY UFacts
<1>4. table.key[u].name \in HolderNames /\ ~IsComplete(table, u)
  <2>1. table.key[u].name \in HolderNames
    BY <1>2, <1>3, Answers
  <2> QED BY <1>2, <1>3, <2>1, Answers
<1>5. /\ PrimName \notin HolderNames /\ table.key[u] # k /\ table.key[u].name \notin Templates \cup Classes
      /\ PrimType.etyp # "Class" /\ ~ScalarClassKey(k) /\ PrimName \notin Templates
      /\ NoName \notin HolderNames
  BY <1>2, <1>4, NameFacts, NamesDiffer DEF PrimType, MkType, ScalarClassKey
<1>6. PICK d, q, V, r :
        /\ TypeFromHolder(table, prog, u, k, PrimType) = [tab |-> d, prog |-> q]
        /\ Rekeyed(table, d, u, V, k, {PrimType}, r)
        /\ Gone(table, prog, q, u, V, table.key[u].name, IsScalarClass(table, u))
  BY <1>2, <1>3, <1>5, HolderTouches
<1>7. table' = d /\ prog' = q
  BY <1>1, <1>6 DEF TypedefOfPrimitive
<1>8. UNCHANGED <<instances, stubs, generated, parsing, labelling>>
  BY DEF TypedefOfPrimitive
<1>9. /\ Moved(table, d, u, V) /\ ProgMoved(prog, q, u, V) /\ KeysMean(d, labelling)
      /\ V \subseteq EntriesOf(prog) /\ Counted(d) /\ Used(d) = Used(table)
  <2>1. KeyMeans(k, PrimType, Used(table), labelling)
    BY <1>1, <1>3, PrimMeans
  <2>2. \A ty \in {PrimType} : KeyMeans(k, ty, Used(table), labelling)
    BY <2>1
  <2>3. IsScalarClass(table, u) \in BOOLEAN
    BY DEF IsScalarClass, IsClass
  <2> QED BY <1>2, <1>3, <1>5, <1>6, <2>2, <2>3, RekeyedMoved
<1>10. d.key[u] = k /\ d.root[u] = r
  BY <1>6 DEF Rekeyed
<1>11. u \notin EntriesOf(q)
  <2>1. u \in EntriesOf(prog) => IsScalarClass(table, u) /\ IsUnseen(table, u)
    <3>1. ASSUME NEW n \in DOMAIN prog, prog[n] = u
          PROVE  IsScalarClass(table, u) /\ IsUnseen(table, u)
      <4>1. table.key[u].name = n /\ n \in ClassNames /\ IsScalarClass(table, u)
            /\ (n \in UTI => IsUnseen(table, u))
        BY <1>3, <3>1, EntryIsScalar
      <4>2. n \in UTI
        BY <1>4, <4>1, NameFacts DEF ClassNames, HolderNames
      <4> QED BY <4>1, <4>2
    <3> QED BY <3>1 DEF EntriesOf
  <2> QED BY <1>2, <1>3, <1>6, <2>1, LeavesTable
<1>12. u \notin DOMAIN instances
  BY <1>3, <1>5, InstanceFacts
<1>13. OwnName(d, u)
  BY <1>2, <1>10, NameFacts DEF OwnName
<1>14. Stays(table, d, u)
  BY <1>4 DEF Stays
<1>15. Understood(d, q, instances, stubs, generated, labelling)
  BY <1>2, <1>3, <1>5, <1>9, <1>10, <1>11, <1>12, <1>13, PlainUnderstood
<1>16. parsing \subseteq DOMAIN q
  <2>1. DOMAIN prog \ {table.key[u].name} \subseteq DOMAIN q
    BY <1>6 DEF Gone, Restrict
  <2> QED BY <1>3, <1>5, <2>1
<1>17. UInv'
  BY <1>7, <1>8, <1>15, <1>16 DEF UInv, ParsedIsEntered, TypedefOfPrimitive
<1> QED BY <1>7, <1>9, <1>14, <1>17, MovedKeeps

\* When a type is given to another UTI.
LEMMA TypeGiven ==
  ASSUME NEW t, Counted(t), NEW lab, KeysMean(t, lab), NEW w \in Used(t)
  PROVE  /\ TypeOf(t, w) \in UlamType /\ [TypeOf(t, w) EXCEPT !.based = FALSE] \in UlamType
         /\ [TypeOf(t, w) EXCEPT !.based = FALSE].etyp = TypeOf(t, w).etyp
         /\ [TypeOf(t, w) EXCEPT !.based = FALSE].ctyp = TypeOf(t, w).ctyp
         /\ KeyMeans(t.key[w], TypeOf(t, w), Used(t), lab)
         /\ KeyMeans(t.key[w], [TypeOf(t, w) EXCEPT !.based = FALSE], Used(t), lab)
         /\ TypeOf(t, w).etyp = EtypeOf(t.key[w].name)
<1>1. KeyMeans(t.key[w], TypeOf(t, w), Used(t), lab)
  BY Answers
<1>2. TableOK(t) /\ w \in UTI
  BY CountedFacts DEF Counted
<1>3. TypeOf(t, w) \in UlamType /\ [TypeOf(t, w) EXCEPT !.based = FALSE] \in UlamType
  BY <1>2, TypeOfIsType
<1>4. /\ [TypeOf(t, w) EXCEPT !.based = FALSE].etyp = TypeOf(t, w).etyp
      /\ [TypeOf(t, w) EXCEPT !.based = FALSE].ctyp = TypeOf(t, w).ctyp
  BY <1>3 DEF UlamType
<1> QED BY <1>1, <1>3, <1>4, UnbasedMeans DEF KeyMeans

\* cleanupExistingHolder gives h another key.
LEMMA CleanupRekeys ==
  ASSUME IInv, UInv, NEW h \in UTI, NEW u \in UTI, CleanupExistingHolder(h, u),
         table.key[h] # table.key[u]
  PROVE  UInv' /\ Keeps(table, table')
<1>1. PICK ty : ty = [TypeOf(table, u) EXCEPT !.based = FALSE]
  OBVIOUS
<1>2. PICK k : k = table.key[u]
  OBVIOUS
<1>3. /\ h \in Used(table) \ {Nouti} /\ u \in Used(table) /\ h # u
      /\ IsHolder(table, h) \/ (labelling /\ ~IsComplete(table, h))
      /\ table.key[h].name \notin Templates
      /\ ~IsHolder(table, u) /\ (IsClass(table, u) => k.name \in DOMAIN prog)
      /\ FromHolderAsserts(table, prog, h, k, TypeOf(table, u))
      /\ table.key[h] # k
  BY <1>2 DEF CleanupExistingHolder, Held, Cleanable, KnownType
<1>4. Counted(table) /\ KeysMean(table, labelling) /\ ProgOK(prog, table) /\ Nouti \in Used(table)
      /\ Understood(table, prog, instances, stubs, generated, labelling)
      /\ Used(table) \subseteq UTI /\ (labelling => parsing = {})
      /\ parsing \subseteq Classes \cup Templates /\ parsing \subseteq DOMAIN prog
  BY UFacts
<1>5. ty \in UlamType /\ KeyMeans(k, ty, Used(table), labelling) /\ k \in Key
      /\ ty.etyp = TypeOf(table, u).etyp
  BY <1>1, <1>2, <1>3, <1>4, TypeGiven, TypedKeys
<1>6. k.name \notin HolderNames
  BY <1>2, <1>3, <1>4, Answers
<1>7. ~IsComplete(table, h) /\ (IsHolder(table, h) <=> table.key[h].name \in HolderNames)
  BY <1>3, <1>4, Answers
<1>8. IsScalarClass(table, h) /\ ty.etyp = "Class" => k.name \in DOMAIN prog
  BY <1>3, <1>5 DEF IsClass
<1>9. PICK b, q, V, r :
        /\ TypeFromHolder(table, prog, h, k, ty) = [tab |-> b, prog |-> q]
        /\ Rekeyed(table, b, h, V, k, {ty}, r)
        /\ Gone(table, prog, q, h, V, table.key[h].name, IsScalarClass(table, h))
  BY <1>3, <1>4, <1>5, <1>8, HolderTouches
<1>10. PICK d : d = AliasForced(b, h, u)
  OBVIOUS
<1>11. table' = d /\ prog' = q
  BY <1>1, <1>2, <1>9, <1>10 DEF CleanupExistingHolder
<1>12. UNCHANGED <<instances, stubs, generated, parsing, labelling>>
  BY DEF CleanupExistingHolder
<1>13. Rekeyed(table, d, h, V, k, {ty}, u)
  BY <1>3, <1>4, <1>9, <1>10, AliasTouches
<1>14. IsScalarClass(table, h) \in BOOLEAN
  BY DEF IsScalarClass, IsClass
<1>15. /\ Moved(table, d, h, V) /\ ProgMoved(prog, q, h, V) /\ KeysMean(d, labelling)
       /\ V \subseteq EntriesOf(prog) /\ Counted(d) /\ Used(d) = Used(table)
  <2>1. \A x \in {ty} : KeyMeans(k, x, Used(table), labelling)
    BY <1>5
  <2>2. h \in Used(table) \ {Nouti} /\ (IsScalarClass(table, h) => table.key[h].name \notin Templates)
    BY <1>3
  <2>3. Gone(table, prog, q, h, V, table.key[h].name, IsScalarClass(table, h))
    BY <1>9
  <2> QED BY <1>4, <1>13, <1>14, <2>1, <2>2, <2>3, RekeyedMoved
<1>16. d.key[h] = k /\ d.root[h] = u
  BY <1>13 DEF Rekeyed
<1>17. h \notin EntriesOf(q)
  <2>1. ASSUME NEW n \in DOMAIN prog, prog[n] = h
        PROVE  IsScalarClass(table, h) /\ IsUnseen(table, h)
    <3>1. /\ table.key[h].name = n /\ IsScalarClass(table, h) /\ IsClass(table, h)
          /\ n \in UTI => IsUnseen(table, h)
      BY <1>4, <2>1, EntryIsScalar
    <3>2. CASE TypeOf(table, u).etyp = "Class"
      <4>1. k.name \in DOMAIN prog
        BY <1>3, <3>2 DEF IsClass
      <4>2. IsUnseen(table, h) \/ IsComplete(table, h)
        BY <1>3, <2>1, <3>1, <3>2, <4>1 DEF FromHolderAsserts
      <4> QED BY <1>7, <3>1, <4>2
    <3>3. CASE TypeOf(table, u).etyp # "Class"
      BY <1>3, <2>1, <3>1, <3>3 DEF FromHolderAsserts
    <3> QED BY <3>2, <3>3
  <2>2. h \in EntriesOf(prog) => IsScalarClass(table, h) /\ IsUnseen(table, h)
    BY <2>1 DEF EntriesOf
  <2> QED BY <1>3, <1>4, <1>9, <2>2, LeavesTable
<1>18. h \notin DOMAIN instances
  BY <1>3, <1>4, InstanceFacts
<1>19. k.name \in Templates => k.name \in DOMAIN prog
  BY <1>2, <1>3, <1>4 DEF Understood, EnteredOK
<1>20. OwnName(d, h)
  BY <1>6, <1>16 DEF OwnName, HolderNames
<1>21. Understood(d, q, instances, stubs, generated, labelling)
  BY <1>3, <1>4, <1>15, <1>16, <1>17, <1>18, <1>19, <1>20, PlainUnderstood
<1>22. parsing \subseteq DOMAIN q
  <2>1. DOMAIN prog \ {table.key[h].name} \subseteq DOMAIN q
    BY <1>9 DEF Gone, Restrict
  <2>2. parsing # {} => table.key[h].name \in HolderNames
    BY <1>3, <1>4, <1>7
  <2>3. table.key[h].name \in HolderNames => table.key[h].name \notin Classes \cup Templates
    BY NameFacts
  <2> QED BY <1>4, <2>1, <2>2, <2>3
<1>23. UInv'
  BY <1>4, <1>11, <1>12, <1>21, <1>22 DEF UInv, ParsedIsEntered
<1>24. Stays(table, d, h)
  BY <1>7 DEF Stays
<1> QED BY <1>11, <1>15, <1>23, <1>24, MovedKeeps

\* A step that only links x to another UTI, or does nothing.
LEMMA LinkStep ==
  ASSUME IInv, UInv, NEW x \in Used(table) \ {Nouti}, NEW y \in UTI, x # y,
         table' \in {table, AliasForced(table, x, y)},
         UNCHANGED <<prog, instances, stubs, generated, parsing, labelling>>
  PROVE  UInv' /\ Keeps(table, table')
<1>1. Counted(table) /\ Understood(table, prog, instances, stubs, generated, labelling)
  BY UFacts
<1>2. PICK d : d = AliasForced(table, x, y)
  OBVIOUS
<1>3. Understood(d, prog, instances, stubs, generated, labelling) /\ Keeps(table, d)
  BY <1>1, <1>2, LinkUnderstood
<1>4. Keeps(table, table)
  BY DEF Keeps, Stays
<1>5. CASE table' = table
  BY <1>4, <1>5 DEF UInv, ParsedIsEntered
<1>6. CASE table' = d
  BY <1>3, <1>6 DEF UInv, ParsedIsEntered
<1> QED BY <1>2, <1>5, <1>6

\* cleanupExistingHolder: a holder, or a type that is not known, takes the key of
\* the type it stands for, or has it already.
LEMMA CleanupUnderstood ==
  ASSUME IInv, UInv, NEW h \in UTI, NEW u \in UTI, CleanupExistingHolder(h, u)
  PROVE  UInv' /\ Keeps(table, table')
<1>1. CASE table.key[h] # table.key[u]
  BY <1>1, CleanupRekeys
<1>2. CASE table.key[h] = table.key[u]
  <2>1. \A ty : TypeFromHolder(table, prog, h, table.key[u], ty) = [tab |-> table, prog |-> prog]
    BY <1>2 DEF TypeFromHolder
  <2>2. table' = AliasForced(table, h, u) /\ prog' = prog
    BY <2>1 DEF CleanupExistingHolder
  <2>3. h \in Used(table) \ {Nouti} /\ h # u /\ UNCHANGED <<instances, stubs, generated, parsing, labelling>>
    BY DEF CleanupExistingHolder, Held
  <2> QED BY <2>2, <2>3, LinkStep
<1> QED BY <1>1, <1>2

\* A typedef that has its own declaration is linked to what it stands for.
LEMMA LinkTypedefUnderstood ==
  ASSUME IInv, UInv, NEW td \in UTI, NEW u \in UTI, LinkTypedef(td, u)
  PROVE  UInv' /\ Keeps(table, table')
<1>1. table' \in {table, AliasForced(table, td, u)}
  BY DEF LinkTypedef, LinkedTypedef, Alias
<1>2. /\ td \in Used(table) \ {Nouti} /\ td # u
      /\ UNCHANGED <<prog, instances, stubs, generated, parsing, labelling>>
  BY DEF LinkTypedef, Held
<1> QED BY <1>1, <1>2, LinkStep

\* A made-up typedef that is an anonymous class has no other's entry.
LEMMA TypedefsOwnEntries ==
  ASSUME IInv, UInv, NEW x \in generated PROVE OwnEntry(table, prog, x)
<1>1. /\ Counted(table) /\ KeysMean(table, labelling) /\ x \in Used(table)
      /\ Understood(table, prog, instances, stubs, generated, labelling)
  BY UFacts, InvFacts
<1> SUFFICES ASSUME IsHolder(table, x), IsClass(table, x), table.key[x].name \in DOMAIN prog
             PROVE  prog[table.key[x].name] = x
  BY DEF OwnEntry
<1>2. table.key[x].name = x
  <2>1. table.key[x].name \in HolderNames /\ EtypeOf(table.key[x].name) = "Class"
    BY <1>1, Answers
  <2>2. table.key[x].name \in UTI
    BY <2>1, NameFacts DEF HolderNames
  <2> QED BY <1>1, <2>2 DEF Understood, AnonymousOwn, OwnName
<1>3. /\ prog[x] \in Used(table) /\ table.key[prog[x]].name = x /\ table.key[prog[x]].inst = prog[x]
      /\ x \in UTI
  BY <1>1, <1>2, InvFacts DEF Understood, EntryOK
<1>4. KeyMeans(table.key[prog[x]], TypeOf(table, prog[x]), Used(table), labelling)
  BY <1>1, <1>3, Answers
<1> QED BY <1>2, <1>3, <1>4 DEF KeyMeans

\* A typedef the parser made up takes the key of the type it resolved to.
LEMMA ReplaceGeneratedUnderstood ==
  ASSUME IInv, UInv, NEW td \in UTI, NEW u \in UTI, ReplaceGeneratedTypedef(td, u)
  PROVE  UInv' /\ KeepsBut(table, table', generated \ generated')
<1>1. PICK k : k = table.key[u]
  OBVIOUS
<1>2. td \in generated /\ u \in Used(table) \ {Nouti} /\ u # td /\ labelling
  BY DEF ReplaceGeneratedTypedef, Held
<1>3. Counted(table) /\ KeysMean(table, labelling) /\ ProgOK(prog, table) /\ Nouti \in Used(table)
      /\ Understood(table, prog, instances, stubs, generated, labelling)
      /\ parsing = {} /\ Used(table) \subseteq UTI /\ td \in Used(table) \ {Nouti}
  BY <1>2, UFacts
<1>4. NotTaken(table, prog, td, u)
  <2>1. OwnEntry(table, prog, td)
    BY <1>2, TypedefsOwnEntries
  <2> QED BY <1>2, <2>1 DEF NotTaken, Remains, OwnEntry
<1>5. PICK may \in BOOLEAN : may = (IsHolder(table, td) /\ IsClass(table, td))
  OBVIOUS
<1>6. PICK b, q, V :
        /\ ReplaceKeyAndAlias(table, prog, td, u) = [tab |-> b, prog |-> q]
        /\ Rekeyed(table, b, td, V, k, {}, u) /\ u \notin V
        /\ Gone(table, prog, q, td, V, table.key[td].name, may)
  BY <1>1, <1>2, <1>3, <1>4, <1>5, ReplaceTouches
<1>7. PICK d : d = LinkedTypedef(b, td, u)
  OBVIOUS
<1>8. table' = d /\ prog' = q
  BY <1>6, <1>7 DEF ReplaceGeneratedTypedef
<1>9. UNCHANGED <<instances, stubs, parsing, labelling>> /\ generated' = generated \ {td}
  BY DEF ReplaceGeneratedTypedef
<1>10. Rekeyed(table, d, td, V, k, {}, u)
  <2>1. Rekeyed(table, AliasForced(b, td, u), td, V, k, {}, u)
    BY <1>2, <1>3, <1>6, AliasTouches
  <2>2. d \in {b, AliasForced(b, td, u)}
    BY <1>7 DEF LinkedTypedef, Alias
  <2> QED BY <1>6, <2>1, <2>2
<1>11. d.key[td] = k /\ d.root[td] = u
  BY <1>10 DEF Rekeyed
<1>12. may => table.key[td].name \in UTI /\ table.key[td].name \notin Templates
  BY <1>3, <1>5, NameFacts DEF IsHolder, IsClass
<1>13. /\ Moved(table, d, td, V) /\ ProgMoved(prog, q, td, V) /\ KeysMean(d, labelling)
       /\ V \subseteq EntriesOf(prog) /\ Counted(d) /\ Used(d) = Used(table)
  <2>1. \A x \in {} : KeyMeans(k, x, Used(table), labelling)
    OBVIOUS
  <2> QED BY <1>3, <1>6, <1>10, <1>12, <2>1, RekeyedMoved
<1>14. td \notin EntriesOf(q)
  <2>1. td \in EntriesOf(prog) => may /\ IsUnseen(table, td)
    <3>1. ASSUME NEW n \in DOMAIN prog, prog[n] = td
          PROVE  may /\ IsUnseen(table, td)
      <4>1. n \in UTI
        BY <1>2, <1>3, <3>1 DEF Understood, EntryOK
      <4>2. IsHolder(table, td) /\ IsUnseen(table, td) /\ IsClass(table, td)
        BY <1>3, <3>1, <4>1, EntryIsScalar
      <4> QED BY <1>5, <4>2
    <3> QED BY <3>1 DEF EntriesOf
  <2> QED BY <1>3, <1>6, <2>1, LeavesTable
<1>15. td \notin DOMAIN instances
  <2>1. \A x \in DOMAIN instances : InstanceOK(table, prog, stubs, generated, x)
    BY <1>3 DEF Understood, InstancesOK
  <2> QED BY <1>2, <2>1 DEF InstanceOK
<1>16. k.name \in Templates => k.name \in DOMAIN prog
  BY <1>1, <1>2, <1>3 DEF Understood, EnteredOK
<1>17. Understood(d, q, instances, stubs, generated \ {td}, labelling)
  BY <1>2, <1>3, <1>11, <1>13, <1>14, <1>15, <1>16, PlainUnderstood
<1>18. UInv'
  BY <1>3, <1>8, <1>9, <1>17 DEF UInv, ParsedIsEntered
<1>19. ASSUME NEW x \in Used(table) \ {td} PROVE Stays(table, d, x)
  <2>1. CASE x \in V
    BY <1>13, <2>1 DEF Moved, Stays
  <2>2. CASE x \notin V
    <3>1. Same(table, d, x)
      BY <1>13, <1>19, <2>2 DEF Moved
    <3> QED BY <3>1 DEF Same, Stays
  <2> QED BY <2>1, <2>2
<1> QED BY <1>2, <1>8, <1>9, <1>13, <1>18, <1>19 DEF KeepsBut

\* The steps that make a UTI.
LEMMA MadeMoved ==
  ASSUME NEW t, NEW lab, KeysMean(t, lab), Counted(t),
         NEW d, NEW u, NEW k, NEW ty, Made(t, d, u, k, ty), KeyMeans(k, ty, Used(d), lab)
  PROVE  Moved(t, d, u, {}) /\ KeysMean(d, lab)
<1>1. \A x, y : KeyMeans(x, y, Used(t), lab) => KeyMeans(x, y, Used(d), lab)
  BY DEF Made, KeyMeans
<1>2. KeysMean(d, lab)
  BY <1>1 DEF Made, KeysMean
<1>3. Nouti \in Used(t) /\ d.key[Nouti] = NoKey
  BY NoutiIsUsed DEF Made
<1>4. \A x \in Used(t) : Same(t, d, x)
  BY UntouchedIsSame DEF Made
<1> QED BY <1>2, <1>3, <1>4 DEF Made, Moved

\* What is known stays so when a UTI is made.
LEMMA NewUnderstood ==
  ASSUME NEW t, NEW p, NEW ins, NEW st, NEW gen, NEW lab, Understood(t, p, ins, st, gen, lab),
         NEW d, NEW u, Moved(t, d, u, {}), KeysMean(d, lab),
         NEW q, ProgMoved(p, q, u, {}),
         NEW ins2, NEW st2, InstancesMoved(ins, ins2, st, st2, u),
         NEW gen2, gen2 \ {u} \subseteq gen,
         \A n \in DOMAIN q : q[n] = u => EntryOK(d, q, gen2, n),
         u \in DOMAIN ins2 => InstanceOK(d, q, st2, gen2, u),
         EnteredOK(d, q, u), u \in gen2 => OwnName(d, u)
  PROVE  Understood(d, q, ins2, st2, gen2, lab)
<1>1. {} \subseteq EntriesOf(p)
  OBVIOUS
<1> QED BY <1>1, MovedUnderstood

\* Instances and entries are UTIs in use.
LEMMA InstancesAreUsed ==
  ASSUME NEW t, NEW p, NEW ins, NEW st, NEW gen, NEW lab, Understood(t, p, ins, st, gen, lab)
  PROVE  DOMAIN ins \subseteq Used(t) /\ \A n \in DOMAIN p : p[n] \in Used(t)
BY DEF Understood, InstancesOK, InstanceOK, EntryOK

\* makeUlamType finds a UTI or makes one.
LEMMA MakeTouches ==
  ASSUME NEW t, Counted(t), Room(t), NEW k \in Key, NEW ty \in UlamType
  PROVE  LET inst == IF ty.etyp # "Class" THEN Nouti
                     ELSE IF ~(k.arr = NonArray /\ ~k.ref) THEN k.inst ELSE t.size
             new == Append(t, [k EXCEPT !.inst = inst], ty)
         IN  /\ \/ MakeUlamType(t, k, ty).tab = t
                \/ MakeUlamType(t, k, ty) = [tab |-> new, uti |-> t.size]
             /\ k.bits = Unknown /\ (ty.etyp = "Class" => k.inst = Nouti) =>
                  MakeUlamType(t, k, ty) = [tab |-> new, uti |-> t.size]
             /\ Made(t, new, t.size, [k EXCEPT !.inst = inst], ty)
             /\ [k EXCEPT !.inst = inst] \in Key
<1>1. t.size \in UTI
  BY AppendCounted
<1>2. PICK inst : inst = IF ty.etyp # "Class" THEN Nouti
                         ELSE IF ~(k.arr = NonArray /\ ~k.ref) THEN k.inst ELSE t.size
  OBVIOUS
<1>3. inst \in UTI
  BY <1>1, <1>2, ConstantFacts DEF Key, UTI
<1>4. PICK key \in Key : key = [k EXCEPT !.inst = inst]
  BY <1>3 DEF Key
<1>5. PICK new : new = Append(t, key, ty)
  OBVIOUS
<1>6. Made(t, new, t.size, key, ty)
  BY <1>5, AppendTouches
<1>7. /\ \/ MakeUlamType(t, k, ty).tab = t
         \/ MakeUlamType(t, k, ty) = [tab |-> new, uti |-> t.size]
      /\ k.bits = Unknown /\ (ty.etyp = "Class" => k.inst = Nouti) =>
           MakeUlamType(t, k, ty) = [tab |-> new, uti |-> t.size]
  BY <1>2, <1>4, <1>5 DEF MakeUlamType
<1> QED BY <1>2, <1>4, <1>5, <1>6, <1>7

\* A reference, the type it refers to, or an array of it.
LEMMA DerivedUnderstood ==
  ASSUME IInv, UInv, Room(table), NEW w \in Used(table), NEW k \in Key, NEW ty \in UlamType,
         KeyMeans(k, ty, Used(table), labelling), ~ScalarClassKey(k), k.name = table.key[w].name,
         table' = MakeUlamType(table, k, ty).tab,
         UNCHANGED <<prog, instances, stubs, generated, parsing, labelling>>
  PROVE  UInv' /\ Keeps(table, table')
<1>1. /\ Counted(table) /\ KeysMean(table, labelling) /\ ProgOK(prog, table) /\ Nouti \in Used(table)
      /\ Understood(table, prog, instances, stubs, generated, labelling)
      /\ generated \subseteq Used(table)
      /\ ParsedIsEntered
  BY UFacts DEF UInv
<1>2. PICK inst : inst = IF ty.etyp # "Class" THEN Nouti
                         ELSE IF ~(k.arr = NonArray /\ ~k.ref) THEN k.inst ELSE table.size
  OBVIOUS
<1>3. PICK key : key = [k EXCEPT !.inst = inst]
  OBVIOUS
<1>4. PICK new : new = Append(table, key, ty)
  OBVIOUS
<1>5. /\ \/ table' = table \/ table' = new
      /\ Made(table, new, table.size, key, ty) /\ key \in Key
  BY <1>1, <1>2, <1>3, <1>4, MakeTouches
<1>6. CASE table' = table
  <2>1. UInv'
    BY <1>1, <1>6 DEF UInv, ParsedIsEntered
  <2>2. Keeps(table, table')
    BY <1>6 DEF Keeps, Stays
  <2> QED BY <2>1, <2>2
<1>7. CASE table' = new
  <2>1. PICK u : u = table.size
    OBVIOUS
  <2>2. Made(table, new, u, key, ty)
    BY <1>5, <2>1
  <2>3. ty.etyp = EtypeOf(k.name) /\ k.inst \in Used(table)
    BY DEF KeyMeans
  <2>4. inst \in Used(table)
    BY <1>1, <1>2, <2>3 DEF ScalarClassKey
  <2>5. /\ key.name = k.name /\ key.bits = k.bits /\ key.arr = k.arr /\ key.ref = k.ref
        /\ key.inst = inst
    BY <1>3 DEF Key
  <2>6. ~ScalarClassKey(key)
    BY <2>5 DEF ScalarClassKey
  <2>7. KeyMeans(key, ty, Used(new), labelling)
    <3>1. Used(table) \subseteq Used(new)
      BY <2>2 DEF Made
    <3>2. ty.etyp # "Class" => k.name \notin UTI
      BY <2>3, NameFacts
    <3>3. k.name \in UTI => inst = k.inst
      BY <1>2, <2>3, <3>2 DEF ScalarClassKey
    <3> QED BY <2>4, <2>5, <3>1, <3>3 DEF KeyMeans
  <2>8. Moved(table, new, u, {}) /\ KeysMean(new, labelling)
    BY <1>1, <2>2, <2>7, MadeMoved
  <2>9. u \notin Used(table) /\ new.root[u] = u /\ new.key[u] = key
    BY <2>2 DEF Made
  <2>10. u \notin DOMAIN instances /\ u \notin generated /\ \A n \in DOMAIN prog : prog[n] # u
    BY <1>1, <2>9, InstancesAreUsed
  <2>11. ProgMoved(prog, prog, u, {})
    BY DEF ProgMoved
  <2>12. InstancesMoved(instances, instances, stubs, stubs, u)
    BY DEF InstancesMoved
  <2>13. EnteredOK(new, prog, u)
    <3>1. k.name \in Templates => k.name \in DOMAIN prog
      BY <1>1 DEF Understood, EnteredOK
    <3> QED BY <2>5, <2>6, <2>9, <3>1 DEF EnteredOK
  <2>14. generated \ {u} \subseteq generated
    OBVIOUS
  <2>15. Understood(new, prog, instances, stubs, generated, labelling)
    BY <1>1, <2>8, <2>10, <2>11, <2>12, <2>13, <2>14, NewUnderstood
  <2>16. UInv'
    BY <1>1, <1>7, <2>15 DEF UInv, ParsedIsEntered
  <2> QED BY <1>7, <2>8, <2>9, <2>16, MovedKeeps
<1> QED BY <1>5, <1>6, <1>7

\* References, their opposite and arrays of a known type.
LEMMA DeriveUnderstood ==
  ASSUME IInv, UInv, NEW w \in UTI, AsRef(w) \/ AsDeref(w) \/ AsArrayOfScalar(w)
  PROVE  UInv' /\ Keeps(table, table')
<1>1. w \in Used(table) /\ Room(table)
      /\ UNCHANGED <<prog, instances, stubs, generated, parsing, labelling>>
  BY DEF AsRef, AsDeref, AsArrayOfScalar, Held
<1>2. Counted(table) /\ KeysMean(table, labelling)
  BY UFacts
<1>3. PICK ty : ty = [TypeOf(table, w) EXCEPT !.based = FALSE]
  OBVIOUS
<1>4. ty \in UlamType /\ KeyMeans(table.key[w], ty, Used(table), labelling) /\ table.key[w] \in Key
  BY <1>1, <1>2, <1>3, TypeGiven, TypedKeys
<1>5. \E k : /\ \/ k = [table.key[w] EXCEPT !.ref = TRUE]
                \/ k = [table.key[w] EXCEPT !.ref = FALSE] /\ AsDeref(w)
                \/ k = [table.key[w] EXCEPT !.arr = Unknown, !.ref = FALSE]
             /\ table' = MakeUlamType(table, k, ty).tab
  <2>1. CASE AsRef(w)
    <3>1. table' = MakeUlamType(table, [table.key[w] EXCEPT !.ref = TRUE], ty).tab
      BY <1>3, <2>1 DEF AsRef
    <3> QED BY <3>1
  <2>2. CASE AsDeref(w)
    <3>1. table' = MakeUlamType(table, [table.key[w] EXCEPT !.ref = FALSE], ty).tab
      BY <1>3, <2>2 DEF AsDeref
    <3> QED BY <2>2, <3>1
  <2>3. CASE AsArrayOfScalar(w)
    <3>1. table' = MakeUlamType(table, [table.key[w] EXCEPT !.arr = Unknown, !.ref = FALSE], ty).tab
      BY <1>3, <2>3 DEF AsArrayOfScalar
    <3> QED BY <3>1
  <2> QED BY <2>1, <2>2, <2>3
<1>6. PICK k : /\ \/ k = [table.key[w] EXCEPT !.ref = TRUE]
                  \/ k = [table.key[w] EXCEPT !.ref = FALSE] /\ AsDeref(w)
                  \/ k = [table.key[w] EXCEPT !.arr = Unknown, !.ref = FALSE]
               /\ table' = MakeUlamType(table, k, ty).tab
  BY <1>5
<1>7. /\ k \in Key /\ k.name = table.key[w].name /\ k.bits = table.key[w].bits
      /\ k.inst = table.key[w].inst
      /\ \/ k.arr = table.key[w].arr
         \/ k.arr = Unknown
  BY <1>4, <1>6 DEF Key
<1>8. ~ScalarClassKey(k)
  <2>1. CASE k = [table.key[w] EXCEPT !.ref = TRUE]
    BY <1>4, <2>1 DEF ScalarClassKey, Key
  <2>2. CASE k = [table.key[w] EXCEPT !.ref = FALSE] /\ AsDeref(w)
    <3>1. ~(EtypeOf(table.key[w].name) = "Class" /\ table.key[w].arr = NonArray)
      BY <1>1, <1>2, <2>2, Answers DEF AsDeref, IsScalar
    <3>2. k.arr = table.key[w].arr
      BY <1>4, <2>2 DEF Key
    <3> QED BY <1>7, <3>1, <3>2 DEF ScalarClassKey
  <2>3. CASE k = [table.key[w] EXCEPT !.arr = Unknown, !.ref = FALSE]
    BY <1>4, <2>3 DEF ScalarClassKey, Key
  <2> QED BY <1>6, <2>1, <2>2, <2>3
<1>9. KeyMeans(k, ty, Used(table), labelling)
  BY <1>4, <1>7 DEF KeyMeans
<1> QED BY <1>1, <1>4, <1>6, <1>7, <1>8, <1>9, DerivedUnderstood

\* A new class: u is its own instance.
LEMMA ClassMade ==
  ASSUME NEW t, Counted(t), Room(t), NEW k \in Key, NEW ty \in UlamType, ty.etyp = "Class",
         k.bits = Unknown, k.arr = NonArray, ~k.ref, k.inst = Nouti
  PROVE  \E d, key : /\ MakeUlamType(t, k, ty) = [tab |-> d, uti |-> t.size]
                     /\ Made(t, d, t.size, key, ty)
                     /\ key.name = k.name /\ key.bits = Unknown /\ key.arr = NonArray /\ ~key.ref
                     /\ key.inst = t.size
<1>1. PICK inst : inst = IF ty.etyp # "Class" THEN Nouti
                         ELSE IF ~(k.arr = NonArray /\ ~k.ref) THEN k.inst ELSE t.size
  OBVIOUS
<1>2. PICK key : key = [k EXCEPT !.inst = inst]
  OBVIOUS
<1>3. PICK d : d = Append(t, key, ty)
  OBVIOUS
<1>4. /\ MakeUlamType(t, k, ty) = [tab |-> d, uti |-> t.size]
      /\ Made(t, d, t.size, key, ty)
  BY <1>1, <1>2, <1>3, MakeTouches
<1>5. inst = t.size
  BY <1>1
<1>6. /\ key.name = k.name /\ key.bits = k.bits /\ key.arr = k.arr /\ key.ref = k.ref
      /\ key.inst = t.size
  BY <1>2, <1>5 DEF Key
<1> QED BY <1>4, <1>6

\* A class that has no size yet goes with any UlamType of a class.
LEMMA NewClassMeans ==
  ASSUME NEW k, k.name \in Classes \cup Templates, k.bits = Unknown, NEW U, k.inst \in U,
         NEW ty, ty.etyp = "Class", ty.ctyp # "NotAClass", NEW lab
  PROVE  KeyMeans(k, ty, U, lab)
<1>1. EtypeOf(k.name) = "Class" /\ k.name \notin HolderNames /\ k.name \notin UTI
  BY NameFacts DEF ClassNames
<1> QED BY <1>1 DEF KeyMeans

\* addIncompleteClassSymbolToProgramTable: the class is its own instance and is
\* entered.
LEMMA AddIncompleteClassUnderstood ==
  ASSUME IInv, UInv, NEW c \in Classes \cup Templates, AddIncompleteClass(c)
  PROVE  UInv' /\ Keeps(table, table')
<1>1. /\ Counted(table) /\ KeysMean(table, labelling) /\ ProgOK(prog, table) /\ Nouti \in Used(table)
      /\ Understood(table, prog, instances, stubs, generated, labelling)
      /\ generated \subseteq Used(table)
      /\ ParsedIsEntered
  BY UFacts DEF UInv
<1>2. PICK ty \in UlamType : ty = MkType("Class", "Unseen")
  BY DEF MkType, UlamType, Etypes, Ctypes
<1>3. ty.etyp = "Class" /\ ty.ctyp # "NotAClass"
  BY <1>2 DEF MkType
<1>4. Room(table) /\ c \notin DOMAIN prog
  BY DEF AddIncompleteClass
<1>5. PICK u : u = table.size
  OBVIOUS
<1>6. PICK new \in Key : new = MkKey(c, Unknown, NonArray, Nouti, FALSE)
  BY NewKeyIsKey
<1>7. /\ new.name = c /\ new.bits = Unknown /\ new.arr = NonArray /\ ~new.ref
      /\ new.inst = Nouti
  BY <1>6 DEF MkKey
<1>8. PICK d, k : /\ MakeUlamType(table, new, ty) = [tab |-> d, uti |-> u]
                  /\ Made(table, d, u, k, ty)
                  /\ k.name = c /\ k.bits = Unknown /\ k.arr = NonArray /\ ~k.ref /\ k.inst = u
  BY <1>1, <1>3, <1>4, <1>5, <1>7, ClassMade
<1>9. PICK q : q = [n \in DOMAIN prog \cup {c} |-> IF n = c THEN u ELSE prog[n]]
  OBVIOUS
<1>10. table' = d /\ prog' = q /\ UNCHANGED <<instances, stubs, generated, parsing, labelling>>
  <2>1. PICK made : made = MakeUlamType(table, new, ty)
    OBVIOUS
  <2>2. /\ table' = made.tab
        /\ prog' = [n \in DOMAIN prog \cup {c} |-> IF n = c THEN made.uti ELSE prog[n]]
        /\ UNCHANGED <<instances, stubs, generated, parsing, labelling>>
    BY <1>2, <1>6, <2>1 DEF AddIncompleteClass
  <2>3. made.tab = d /\ made.uti = u
    BY <1>8, <2>1
  <2> QED BY <1>9, <2>2, <2>3
<1>11. u \notin Used(table) /\ d.root[u] = u /\ d.key[u] = k /\ u \in Used(d) \ {Nouti}
  BY <1>8 DEF Made
<1>12. KeyMeans(k, ty, Used(d), labelling)
  <2>1. k.name \in Classes \cup Templates /\ k.inst \in Used(d)
    BY <1>8, <1>11
  <2> QED BY <1>3, <1>8, <2>1, NewClassMeans
<1>13. Moved(table, d, u, {}) /\ KeysMean(d, labelling)
  BY <1>1, <1>8, <1>12, MadeMoved
<1>14. u \notin DOMAIN instances /\ u \notin generated /\ \A n \in DOMAIN prog : prog[n] # u
  BY <1>1, <1>11, InstancesAreUsed
<1>15. ProgMoved(prog, q, u, {})
  BY <1>4, <1>9 DEF ProgMoved
<1>16. InstancesMoved(instances, instances, stubs, stubs, u)
  BY DEF InstancesMoved
<1>17. k.name = c /\ k.bits = Unknown /\ k.arr = NonArray /\ ~k.ref /\ k.inst = u
  BY <1>8
<1>18. \A n \in DOMAIN q : q[n] = u => EntryOK(d, q, generated, n)
  BY <1>9, <1>11, <1>14, <1>17 DEF EntryOK, ClassNames
<1>19. EnteredOK(d, q, u)
  BY <1>9, <1>11, <1>17 DEF EnteredOK
<1>20. generated \ {u} \subseteq generated /\ (u \in DOMAIN instances =>
         InstanceOK(d, q, stubs, generated, u))
  BY <1>14
<1>21. Understood(d, q, instances, stubs, generated, labelling)
  BY <1>1, <1>13, <1>14, <1>15, <1>16, <1>18, <1>19, <1>20, NewUnderstood
<1>22. DOMAIN prog \subseteq DOMAIN q
  BY <1>9
<1>23. UInv'
  BY <1>1, <1>10, <1>21, <1>22 DEF UInv, ParsedIsEntered
<1> QED BY <1>10, <1>11, <1>13, <1>23, MovedKeeps

\* A stub is an instance.
LEMMA MakeStubUnderstood ==
  ASSUME IInv, UInv, NEW c \in Templates, MakeStub(c)
  PROVE  UInv' /\ Keeps(table, table')
<1>1. /\ Counted(table) /\ KeysMean(table, labelling) /\ ProgOK(prog, table) /\ Nouti \in Used(table)
      /\ Understood(table, prog, instances, stubs, generated, labelling)
      /\ generated \subseteq Used(table)
      /\ ParsedIsEntered
  BY UFacts DEF UInv
<1>2. Room(table) /\ c \in DOMAIN prog
  BY DEF MakeStub
<1>3. PICK ty : ty = MkType("Class", TypeOf(table, prog[c]).ctyp)
  OBVIOUS
<1>4. ty.etyp = "Class" /\ ty.ctyp # "NotAClass" /\ ty \in UlamType
  <2>1. prog[c] \in Used(table) /\ table.key[prog[c]].name = c
    BY <1>1, <1>2, EntryIsScalar
  <2>2. TypeOf(table, prog[c]) \in UlamType /\ TypeOf(table, prog[c]).ctyp # "NotAClass"
    <3>1. KeyMeans(table.key[prog[c]], TypeOf(table, prog[c]), Used(table), labelling)
          /\ TypeOf(table, prog[c]) \in UlamType
      BY <1>1, <2>1, TypeGiven
    <3> QED BY <2>1, <3>1, NameFacts DEF KeyMeans, ClassNames
  <2> QED BY <1>3, <2>2 DEF MkType, UlamType, Etypes
<1>5. PICK u : u = table.size
  OBVIOUS
<1>6. PICK new \in Key : new = MkKey(c, Unknown, NonArray, Nouti, FALSE)
  BY NewKeyIsKey
<1>7. /\ new.name = c /\ new.bits = Unknown /\ new.arr = NonArray /\ ~new.ref
      /\ new.inst = Nouti
  BY <1>6 DEF MkKey
<1>8. PICK d, k : /\ MakeUlamType(table, new, ty) = [tab |-> d, uti |-> u]
                  /\ Made(table, d, u, k, ty)
                  /\ k.name = c /\ k.bits = Unknown /\ k.arr = NonArray /\ ~k.ref /\ k.inst = u
  BY <1>1, <1>2, <1>4, <1>5, <1>7, ClassMade
<1>9. PICK ins2, st2 : /\ ins2 = [x \in DOMAIN instances \cup {u} |-> IF x = u THEN x ELSE instances[x]]
                       /\ st2 = stubs \cup {u}
  OBVIOUS
<1>10. /\ table' = d /\ instances' = ins2 /\ stubs' = st2
       /\ UNCHANGED <<prog, generated, parsing, labelling>>
  <2>1. PICK made : made = MakeUlamType(table, new, ty)
    OBVIOUS
  <2>2. /\ table' = made.tab
        /\ instances' = [x \in DOMAIN instances \cup {made.uti} |->
                           IF x = made.uti THEN x ELSE instances[x]]
        /\ stubs' = stubs \cup {made.uti}
        /\ UNCHANGED <<prog, generated, parsing, labelling>>
    BY <1>3, <1>6, <2>1 DEF MakeStub
  <2>3. made.tab = d /\ made.uti = u
    BY <1>8, <2>1
  <2> QED BY <1>9, <2>2, <2>3
<1>11. u \notin Used(table) /\ d.root[u] = u /\ d.key[u] = k /\ u \in Used(d) \ {Nouti}
  BY <1>8 DEF Made
<1>12. KeyMeans(k, ty, Used(d), labelling)
  <2>1. k.name \in Classes \cup Templates /\ k.inst \in Used(d)
    BY <1>8, <1>11
  <2> QED BY <1>4, <1>8, <2>1, NewClassMeans
<1>13. Moved(table, d, u, {}) /\ KeysMean(d, labelling)
  BY <1>1, <1>8, <1>12, MadeMoved
<1>14. u \notin DOMAIN instances /\ u \notin generated /\ \A n \in DOMAIN prog : prog[n] # u
  BY <1>1, <1>11, InstancesAreUsed
<1>15. ProgMoved(prog, prog, u, {})
  BY DEF ProgMoved
<1>16. InstancesMoved(instances, ins2, stubs, st2, u)
  BY <1>9 DEF InstancesMoved
<1>17. k.name = c /\ k.bits = Unknown /\ k.arr = NonArray /\ ~k.ref /\ k.inst = u
  BY <1>8
<1>18. InstanceOK(d, prog, st2, generated, u)
  BY <1>11, <1>14, <1>17 DEF InstanceOK
<1>19. EnteredOK(d, prog, u)
  BY <1>2, <1>11, <1>17 DEF EnteredOK
<1>20. generated \ {u} \subseteq generated /\
       \A n \in DOMAIN prog : prog[n] = u => EntryOK(d, prog, generated, n)
  BY <1>14
<1>21. Understood(d, prog, ins2, st2, generated, labelling)
  BY <1>1, <1>13, <1>14, <1>15, <1>16, <1>18, <1>19, <1>20, NewUnderstood
<1>22. UInv'
  BY <1>1, <1>10, <1>21 DEF UInv, ParsedIsEntered
<1> QED BY <1>10, <1>11, <1>13, <1>22, MovedKeeps

\* makeUlamTypeHolder: a holder is a root, and as an anonymous class entered.
LEMMA MakeHolderUnderstood ==
  ASSUME IInv, UInv, NEW isTypedef \in BOOLEAN, NEW isClass \in BOOLEAN, MakeHolder(isTypedef, isClass)
  PROVE  UInv' /\ Keeps(table, table')
<1>1. /\ Counted(table) /\ KeysMean(table, labelling) /\ ProgOK(prog, table) /\ Nouti \in Used(table)
      /\ Understood(table, prog, instances, stubs, generated, labelling)
      /\ generated \subseteq Used(table)
      /\ ParsedIsEntered
  BY UFacts DEF UInv
<1>2. Room(table) /\ ~labelling
  BY DEF MakeHolder
<1>3. PICK u : u = table.size
  OBVIOUS
<1>4. PICK held : held = Append(table, HolderKey, HolderType)
  OBVIOUS
<1>5. HolderKey \in Key /\ HolderType \in UlamType
  BY BaseKeysAreKeys, BaseTypesAreTypes
<1>6. Made(table, held, u, HolderKey, HolderType)
  BY <1>1, <1>2, <1>3, <1>4, <1>5, AppendTouches
<1>7. /\ u \notin Used(table) /\ held.root[u] = u /\ held.key[u] = HolderKey /\ u \in Used(held) \ {Nouti}
      /\ Used(held) = Used(table) \cup {u} /\ Counted(held)
  BY <1>6 DEF Made
<1>8. HolderKey.name = HolderName /\ HolderKey.arr = NonArray /\ HolderKey.bits = Unknown
      /\ HolderKey.inst = Nouti /\ HolderType.etyp = "Holder" /\ HolderType.ctyp = "NotAClass"
      /\ HolderName \notin UTI /\ EtypeOf(HolderName) = "Holder" /\ HolderName \in HolderNames
  BY NameFacts, NamesDiffer DEF HolderKey, HolderType, MkKey, MkType, HolderNames
<1>9. Moved(table, held, u, {}) /\ KeysMean(held, labelling)
  <2>1. Nouti \in Used(held)
    BY <1>1, <1>7
  <2>2. KeyMeans(HolderKey, HolderType, Used(held), labelling)
    BY <1>8, <2>1 DEF KeyMeans
  <2> QED BY <1>1, <1>6, <2>2, MadeMoved
<1>10. /\ u \notin DOMAIN instances /\ u \notin generated /\ \A n \in DOMAIN prog : prog[n] # u
       /\ u \notin DOMAIN prog /\ u \in UTI
  <2>1. u \notin DOMAIN instances /\ \A n \in DOMAIN prog : prog[n] # u
    BY <1>1, <1>7, InstancesAreUsed
  <2>2. u \in UTI
    BY <1>7, CountedFacts DEF Counted
  <2>3. ASSUME u \in DOMAIN prog PROVE FALSE
    <3>1. prog[u] \in Used(table) /\ table.key[prog[u]].name = u
      BY <1>1, <2>3, EntryIsScalar
    <3>2. u \in Used(table)
      BY <1>1, <2>2, <3>1, Answers DEF KeyMeans
    <3> QED BY <1>7, <3>2
  <2> QED BY <1>1, <1>7, <2>1, <2>2, <2>3
<1>11. PICK gen2 : gen2 = IF isTypedef THEN generated \cup {u} ELSE generated
  OBVIOUS
<1>12. gen2 \ {u} \subseteq generated /\ generated' = gen2
       /\ UNCHANGED <<instances, stubs, parsing, labelling>>
  BY <1>3, <1>11 DEF MakeHolder
<1>13. CASE ~isClass
  <2>1. table' = held /\ prog' = prog
    BY <1>4, <1>13 DEF MakeHolder
  <2>2. ProgMoved(prog, prog, u, {})
    BY DEF ProgMoved
  <2>3. InstancesMoved(instances, instances, stubs, stubs, u)
    BY DEF InstancesMoved
  <2>4. ~ScalarClassKey(held.key[u]) /\ held.key[u].name \notin Templates
    BY <1>7, <1>8, NamesDiffer DEF ScalarClassKey
  <2>5. EnteredOK(held, prog, u) /\ OwnName(held, u)
    BY <1>7, <1>8, <2>4 DEF EnteredOK, OwnName
  <2>6. /\ \A n \in DOMAIN prog : prog[n] = u => EntryOK(held, prog, gen2, n)
        /\ u \in DOMAIN instances => InstanceOK(held, prog, stubs, gen2, u)
    BY <1>10
  <2>7. Understood(held, prog, instances, stubs, gen2, labelling)
    BY <1>1, <1>9, <1>12, <2>2, <2>3, <2>5, <2>6, NewUnderstood
  <2>8. UInv'
    BY <1>1, <1>12, <2>1, <2>7 DEF UInv, ParsedIsEntered
  <2> QED BY <1>7, <1>9, <2>1, <2>8, MovedKeeps
<1>14. CASE isClass
  <2>1. PICK k \in Key : k = MkKey(u, Unknown, NonArray, u, FALSE)
    BY <1>10 DEF MkKey, Key, Name
  <2>2. PICK ty \in UlamType : ty = MkType("Class", "Unseen")
    BY DEF MkType, UlamType, Etypes, Ctypes
  <2>3. /\ k.name = u /\ k.bits = Unknown /\ k.arr = NonArray /\ ~k.ref /\ k.inst = u
        /\ ty.etyp = "Class" /\ ty.ctyp = "Unseen"
    BY <2>1, <2>2 DEF MkKey, MkType
  <2>4. ~IsScalarClass(held, u) /\ ProgOK(prog, held)
    <3>1. ~IsScalarClass(held, u)
      BY <1>7, <1>8, <1>9, Answers DEF ScalarClassKey
    <3> QED BY <1>1, <1>7, <3>1 DEF ProgOK
  <2>5. PICK d, q, V, r :
          /\ TypeFromHolder(held, prog, u, k, ty) = [tab |-> d, prog |-> q]
          /\ Rekeyed(held, d, u, V, k, {ty}, r)
          /\ Gone(held, prog, q, u, V, held.key[u].name, IsScalarClass(held, u))
    <3>1. held.key[u] # k
      BY <1>7, <1>8, <1>10, <2>3
    <3>2. held.key[u].name \notin Templates
      BY <1>7, <1>8, NamesDiffer
    <3> QED BY <1>7, <2>4, <3>1, <3>2, HolderTouches
  <2>6. V = {} /\ q = prog
    BY <2>4, <2>5 DEF Gone
  <2>7. /\ Used(d) = Used(held) /\ d.key[u] = k /\ d.root[u] = r /\ Counted(d)
        /\ \A x \in Used(table) : Untouched(held, d, x)
    BY <1>7, <2>5, <2>6 DEF Rekeyed, Used
  <2>8. \A x \in Used(table) : Same(table, d, x)
    <3>1. \A x \in Used(table) : Same(held, d, x)
      BY <2>7, UntouchedIsSame
    <3>2. \A x \in Used(table) : Same(table, held, x)
      BY <1>7, <1>9 DEF Moved
    <3> QED BY <3>1, <3>2 DEF Same
  <2>9. OwnName(d, u)
    BY <2>3, <2>7 DEF OwnName
  <2>10. KeyMeans(k, ty, Used(held), labelling)
    BY <1>7, <1>10, <2>3, NameFacts DEF KeyMeans, ClassNames
  <2>11. KeysMean(d, labelling)
    <3>1. \A x \in {ty} : KeyMeans(k, x, Used(held), labelling)
      BY <2>10
    <3> QED BY <1>9, <2>5, <3>1, RekeyedMeans
  <2>12. Moved(table, d, u, {})
    <3>1. d.key[Nouti] = NoKey
      BY <2>7, NoutiIsUsed
    <3> QED BY <1>1, <1>7, <2>7, <2>8, <3>1 DEF Moved
  <2>13. PICK q2 : q2 = [n \in DOMAIN prog \cup {u} |-> IF n = u THEN u ELSE prog[n]]
    OBVIOUS
  <2>14. table' = d /\ prog' = q2
    <3>1. /\ table' = TypeFromHolder(held, prog, u, k, ty).tab
          /\ prog' = [n \in DOMAIN prog \cup {u} |-> IF n = u THEN u ELSE prog[n]]
      BY <1>3, <1>4, <1>14, <2>1, <2>2 DEF MakeHolder
    <3> QED BY <2>5, <2>13, <3>1
  <2>15. ProgMoved(prog, q2, u, {})
    BY <1>10, <2>13 DEF ProgMoved
  <2>16. InstancesMoved(instances, instances, stubs, stubs, u)
    BY DEF InstancesMoved
  <2>17. \A n \in DOMAIN q2 : q2[n] = u => EntryOK(d, q2, gen2, n)
    BY <1>7, <1>10, <2>3, <2>7, <2>13 DEF EntryOK, ClassNames
  <2>18. EnteredOK(d, q2, u)
    BY <1>10, <2>3, <2>7, <2>13, NameFacts DEF EnteredOK
  <2>19. u \in DOMAIN instances => InstanceOK(d, q2, stubs, gen2, u)
    BY <1>10
  <2>20. Understood(d, q2, instances, stubs, gen2, labelling)
    BY <1>1, <1>12, <2>9, <2>11, <2>12, <2>15, <2>16, <2>17, <2>18, <2>19, NewUnderstood
  <2>21. DOMAIN prog \subseteq DOMAIN q2
    BY <2>13
  <2>22. UInv'
    BY <1>1, <1>12, <2>14, <2>20, <2>21 DEF UInv, ParsedIsEntered
  <2> QED BY <1>7, <2>12, <2>14, <2>22, MovedKeeps
<1> QED BY <1>13, <1>14

\* Nor does a step that leaves every UTI as it was.
LEMMA SameKeeps ==
  ASSUME NEW t, NEW d, Used(d) = Used(t), \A x \in Used(t) : Same(t, d, x)
  PROVE  Keeps(t, d)
BY DEF Keeps, Stays, Same

\* Keys without a size or a length get other UlamTypes.
LEMMA RetypedUnderstood ==
  ASSUME NEW t, Counted(t), NEW p, NEW ins, NEW st, NEW gen, NEW lab,
         Understood(t, p, ins, st, gen, lab),
         NEW d, Counted(d), d.key = t.key, d.root = t.root, d.size = t.size,
         DOMAIN d.typ = DOMAIN t.typ,
         \A k \in DOMAIN t.typ : \/ d.typ[k] = t.typ[k]
                                 \/ /\ k.bits = Unknown \/ k.arr = Unknown
                                    /\ KeyMeans(k, d.typ[k], Used(t), lab)
  PROVE  Understood(d, p, ins, st, gen, lab) /\ Keeps(t, d)
<1>1. Used(d) = Used(t) /\ Nouti \in Used(t) /\ KeysMean(t, lab)
  BY NoutiIsUsed DEF Used, Understood
<1>2. KeysMean(d, lab)
  BY <1>1 DEF KeysMean
<1>3. ASSUME NEW x \in Used(t) PROVE Same(t, d, x)
  <2>1. CASE t.key[x].bits = Unknown \/ t.key[x].arr = Unknown
    <3>1. ~IsComplete(t, x) /\ ~IsComplete(d, x)
      BY <1>1, <1>2, <1>3, <2>1, Answers
    <3> QED BY <3>1 DEF Same
  <2>2. CASE ~(t.key[x].bits = Unknown \/ t.key[x].arr = Unknown)
    <3>1. t.key[x] \in DOMAIN t.typ
      BY <1>3, TypedKeys
    <3>2. d.typ[t.key[x]] = t.typ[t.key[x]]
      BY <2>2, <3>1
    <3>3. TypeOf(d, x) = TypeOf(t, x)
      BY <1>1, <1>3, <3>2, KeptType
    <3>4. Untouched(t, d, x)
      BY <3>3 DEF Untouched
    <3> QED BY <3>4, UntouchedIsSame
  <2> QED BY <2>1, <2>2
<1>4. Understood(d, p, ins, st, gen, lab)
  BY <1>1, <1>2, <1>3, SameUnderstood
<1> QED BY <1>1, <1>3, <1>4, SameKeeps

\* SeeClass and FailClass
LEMMA SetClassUnderstood ==
  ASSUME IInv, UInv, NEW c \in Classes \cup Templates,
         (\E ct \in {"Quark", "Element"} : SeeClass(c, ct)) \/ FailClass(c)
  PROVE  UInv' /\ Keeps(table, table')
<1>1. /\ Counted(table) /\ KeysMean(table, labelling) /\ ProgOK(prog, table) /\ Nouti \in Used(table)
      /\ Understood(table, prog, instances, stubs, generated, labelling)
      /\ parsing \subseteq DOMAIN prog /\ (labelling => parsing = {})
  BY UFacts
<1>2. PICK ct \in {"Quark", "Element", "Unseen"} : table' = SetClassType(table, table.key[prog[c]], ct)
  BY DEF SeeClass, FailClass
<1>3. c \in DOMAIN prog /\ ~labelling /\ (parsing' = {} \/ parsing' = {c})
  BY <1>1 DEF SeeClass, FailClass
<1>4. UNCHANGED <<prog, instances, stubs, generated, labelling>>
  BY DEF SeeClass, FailClass
<1>5. PICK k : k = table.key[prog[c]]
  OBVIOUS
<1>6. prog[c] \in Used(table) /\ k.name = c /\ EtypeOf(c) = "Class" /\ c \notin UTI /\ k \in DOMAIN table.typ
  <2>1. prog[c] \in Used(table) /\ k.name = c
    BY <1>1, <1>3, <1>5, EntryIsScalar
  <2>2. EtypeOf(c) = "Class" /\ c \notin UTI
    BY NameFacts DEF ClassNames
  <2> QED BY <1>1, <1>5, <2>1, <2>2, TypedKeys
<1>7. KeyMeans(k, TypeOf(table, prog[c]), Used(table), labelling)
  BY <1>1, <1>5, <1>6, Answers
<1>8. PICK ty \in UlamType : ty = MkType("Class", ct)
  BY DEF MkType, UlamType, Etypes, Ctypes
<1>9. ty.etyp = "Class" /\ ty.ctyp = ct
  BY <1>8 DEF MkType
<1>10. k.bits = Unknown /\ KeyMeans(k, ty, Used(table), labelling)
  BY <1>3, <1>6, <1>7, <1>9 DEF KeyMeans
<1>11. table' = ReplaceType(table, k, ty)
  BY <1>2, <1>5, <1>6, <1>8 DEF SetClassType
<1>12. Retyped(table, table', k, ty)
  BY <1>1, <1>6, <1>11, ReplaceTypeTouches
<1>13. Understood(table', prog, instances, stubs, generated, labelling) /\ Keeps(table, table')
  <2>1. /\ Counted(table') /\ table'.key = table.key /\ table'.root = table.root /\ table'.size = table.size
        /\ DOMAIN table'.typ = DOMAIN table.typ
    BY <1>12 DEF Retyped
  <2>2. \A x \in DOMAIN table.typ :
          \/ table'.typ[x] = table.typ[x]
          \/ x.bits = Unknown /\ KeyMeans(x, table'.typ[x], Used(table), labelling)
    BY <1>10, <1>12 DEF Retyped
  <2> QED BY <1>1, <2>1, <2>2, RetypedUnderstood
<1> QED BY <1>3, <1>4, <1>13 DEF UInv, ParsedIsEntered

\* The instances made while their template was unseen get its class type.
LEMMA FinishClassUnderstood ==
  ASSUME IInv, UInv, NEW c \in Classes \cup Templates, FinishClass(c)
  PROVE  UInv' /\ Keeps(table, table')
<1>1. /\ Counted(table) /\ KeysMean(table, labelling) /\ ProgOK(prog, table) /\ Nouti \in Used(table)
      /\ Understood(table, prog, instances, stubs, generated, labelling)
      /\ parsing \subseteq DOMAIN prog /\ parsing = {c} /\ parsing' = {}
      /\ UNCHANGED <<prog, instances, stubs, generated, labelling>>
  BY UFacts DEF FinishClass
<1>2. Counted(table')
  BY FinishClassStep DEF IInv
<1>3. PICK ty : ty = MkType("Class", TypeOf(table, prog[c]).ctyp)
  OBVIOUS
<1>4. /\ TableOK(table)
      /\ table' = [table EXCEPT !.typ = [k \in DOMAIN table.typ |->
                                           IF k \in InstancesToFix(c) THEN ty ELSE table.typ[k]]]
  BY <1>3, InvFacts DEF FinishClass
<1>5. /\ table'.key = table.key /\ table'.root = table.root /\ table'.size = table.size
      /\ table'.typ = [k \in DOMAIN table.typ |->
                         IF k \in InstancesToFix(c) THEN ty ELSE table.typ[k]]
  BY <1>4 DEF TableOK
<1>6. ty.etyp = "Class" /\ ty.ctyp # "NotAClass"
  <2>1. prog[c] \in Used(table) /\ table.key[prog[c]].name = c
    BY <1>1, EntryIsScalar
  <2>2. KeyMeans(table.key[prog[c]], TypeOf(table, prog[c]), Used(table), labelling)
    BY <1>1, <2>1, Answers
  <2> QED BY <1>3, <2>1, <2>2, NameFacts DEF KeyMeans, ClassNames, MkType
<1>7. ASSUME NEW k \in DOMAIN table.typ
      PROVE  \/ table'.typ[k] = table.typ[k]
             \/ k.bits = Unknown /\ KeyMeans(k, table'.typ[k], Used(table), labelling)
  <2>1. CASE k \in InstancesToFix(c)
    <3>1. table.typ[k].ctyp = "Unseen" /\ k.name = c
      BY <2>1 DEF InstancesToFix
    <3>2. KeyMeans(k, table.typ[k], Used(table), labelling)
      BY <1>1, <1>7 DEF KeysMean
    <3>3. k.bits = Unknown /\ k.inst \in Used(table)
      BY <3>1, <3>2 DEF KeyMeans
    <3>4. KeyMeans(k, ty, Used(table), labelling)
      BY <1>6, <3>1, <3>3, NewClassMeans
    <3>5. table'.typ[k] = ty
      BY <1>5, <1>7, <2>1
    <3> QED BY <3>3, <3>4, <3>5
  <2>2. CASE k \notin InstancesToFix(c)
    BY <1>5, <1>7, <2>2
  <2> QED BY <2>1, <2>2
<1>8. DOMAIN table'.typ = DOMAIN table.typ
  BY <1>5
<1>9. Understood(table', prog, instances, stubs, generated, labelling) /\ Keeps(table, table')
  BY <1>1, <1>2, <1>5, <1>7, <1>8, RetypedUnderstood
<1> QED BY <1>1, <1>9 DEF UInv, ParsedIsEntered

\* From now on sizes may be set.
LEMMA StartLabellingUnderstood ==
  ASSUME IInv, UInv, StartLabelling
  PROVE  UInv' /\ Keeps(table, table')
<1>1. /\ table' = table /\ labelling' = TRUE /\ parsing' = {}
      /\ UNCHANGED <<prog, instances, stubs, generated>>
  BY DEF StartLabelling
<1>2. Understood(table, prog, instances, stubs, generated, labelling) /\ Nouti \in Used(table)
  BY UFacts
<1>3. KeysMean(table, TRUE)
  BY <1>2 DEF Understood, KeysMean, KeyMeans
<1>4. \A x \in Used(table) : Same(table, table, x)
  BY DEF Same
<1>5. Understood(table, prog, instances, stubs, generated, TRUE) /\ Keeps(table, table)
  BY <1>2, <1>3, <1>4, SameUnderstood, SameKeeps
<1> QED BY <1>1, <1>5 DEF UInv, ParsedIsEntered

-----------------------------------------------------------------------------
(* The instances of templates.                                             *)

\* A UTI that stays one.
LEMMA KeptUnderstood ==
  ASSUME NEW t, NEW p, NEW ins, NEW st, NEW gen, NEW lab, Understood(t, p, ins, st, gen, lab),
         NEW u \in DOMAIN ins, NEW d, Moved(t, d, u, {}), KeysMean(d, lab),
         NEW ins2, NEW st2, InstancesMoved(ins, ins2, st, st2, u),
         InstanceOK(d, p, st2, gen, u), d.key[u].name = t.key[u].name
  PROVE  Understood(d, p, ins2, st2, gen, lab)
<1>1. InstanceOK(t, p, st, gen, u)
  BY InstanceFacts
<1>2. /\ t.key[u].name \in Templates /\ u \in Used(t) /\ u \notin gen
      /\ \A n \in DOMAIN p : p[n] # u
  BY <1>1 DEF InstanceOK
<1>3. ProgMoved(p, p, u, {}) /\ gen \ {u} \subseteq gen /\ {} \subseteq EntriesOf(p)
  BY DEF ProgMoved
<1>4. t.key[u].name \in DOMAIN p
  BY <1>2 DEF Understood, EnteredOK
<1>5. EnteredOK(d, p, u)
  BY <1>2, <1>4 DEF EnteredOK
<1> QED BY <1>2, <1>3, <1>5, MovedUnderstood

\* resetGivenUTI: a stub is linked to an instance.
LEMMA AliasStubUnderstood ==
  ASSUME IInv, UInv, NEW s \in UTI, NEW u \in UTI, AliasStub(s, u)
  PROVE  UInv' /\ Keeps(table, table')
<1>1. Understood(table, prog, instances, stubs, generated, labelling)
  BY UFacts
<1>2. /\ s \in DOMAIN instances /\ s # u /\ table' = AliasForced(table, s, u)
      /\ UNCHANGED <<prog, instances, stubs, generated, parsing, labelling>>
  BY DEF AliasStub, IInv, TypeOK
<1>3. s \in Used(table) \ {Nouti}
  BY <1>1, <1>2, InstanceFacts DEF InstanceOK
<1> QED BY <1>2, <1>3, LinkStep

\* A stub that is instantiated is an instance.
LEMMA InstantiateUnderstood ==
  ASSUME IInv, UInv, NEW s \in UTI, Instantiate(s)
  PROVE  UInv' /\ Keeps(table, table')
<1>1. /\ Counted(table) /\ KeysMean(table, labelling) /\ Nouti \in Used(table)
      /\ Understood(table, prog, instances, stubs, generated, labelling)
      /\ parsing = {}
      /\ UNCHANGED <<table, prog, instances, generated, parsing, labelling>>
  BY UFacts DEF Instantiate
<1>2. PICK st2 : st2 = stubs \ {s}
  OBVIOUS
<1>3. s \in DOMAIN instances /\ stubs' = st2
  BY <1>2 DEF Instantiate, IInv, TypeOK
<1>4. InstanceOK(table, prog, stubs, generated, s)
  BY <1>1, <1>3, InstanceFacts
<1>5. s \in Used(table) \ {Nouti} /\ InstanceOK(table, prog, st2, generated, s)
  BY <1>2, <1>4 DEF InstanceOK
<1>6. Moved(table, table, s, {})
  <2>1. table.key[Nouti] = NoKey
    BY <1>1, NoutiIsUsed
  <2> QED BY <1>1, <1>5, <2>1 DEF Moved, Same
<1>7. InstancesMoved(instances, instances, stubs, st2, s)
  BY <1>2 DEF InstancesMoved
<1>8. Understood(table, prog, instances, st2, generated, labelling)
  BY <1>1, <1>3, <1>5, <1>6, <1>7, KeptUnderstood
<1>9. UInv'
  BY <1>1, <1>3, <1>8 DEF UInv, ParsedIsEntered
<1>10. Stays(table, table, s)
  BY DEF Stays
<1> QED BY <1>1, <1>6, <1>9, <1>10, MovedKeeps

\* mergeClassUTI: a stub takes the key of an instance and is linked to it.
LEMMA MergeStubUnderstood ==
  ASSUME IInv, UInv, NEW s \in UTI, NEW u \in UTI, MergeStub(s, u)
  PROVE  UInv' /\ Keeps(table, table')
<1>1. /\ Counted(table) /\ KeysMean(table, labelling) /\ Nouti \in Used(table) /\ ProgOK(prog, table)
      /\ Understood(table, prog, instances, stubs, generated, labelling)
      /\ parsing = {}
      /\ UNCHANGED <<generated, parsing, labelling>>
  BY UFacts DEF MergeStub
<1>2. PICK ins2, st2 : ins2 = [instances EXCEPT ![s] = u] /\ st2 = stubs \ {s}
  OBVIOUS
<1>3. /\ s \in stubs /\ u \in DOMAIN instances \ stubs /\ s # u
      /\ table.key[s].name = table.key[u].name
      /\ stubs \subseteq DOMAIN instances /\ instances' = ins2 /\ stubs' = st2
  BY <1>2 DEF MergeStub, IInv, TypeOK
<1>4. /\ InstanceOK(table, prog, stubs, generated, s)
      /\ InstanceOK(table, prog, stubs, generated, u)
      /\ table.key[s].name \notin HolderNames
  BY <1>1, <1>3, InstanceFacts
<1>5. s \in Used(table) \ {Nouti} /\ ~IsComplete(table, s) /\ ~IsHolder(table, s)
      /\ u \in Used(table)
  BY <1>1, <1>3, <1>4, Answers DEF InstanceOK
<1>6. PICK k : k = table.key[u]
  OBVIOUS
<1>7. k.name \in Templates /\ k.arr = NonArray /\ ~k.ref
  BY <1>4, <1>6 DEF InstanceOK
<1>8. PICK may \in BOOLEAN : may = (IsHolder(table, s) /\ IsClass(table, s))
  OBVIOUS
<1>9. PICK d, q, V :
        /\ ReplaceKeyAndAlias(table, prog, s, u) = [tab |-> d, prog |-> q]
        /\ Rekeyed(table, d, s, V, k, {}, u) /\ u \notin V
        /\ Gone(table, prog, q, s, V, table.key[s].name, may)
  <2>1. NotTaken(table, prog, s, u)
    BY <1>5 DEF NotTaken, Remains
  <2> QED BY <1>1, <1>3, <1>5, <1>6, <1>8, <2>1, ReplaceTouches
<1>10. V = {} /\ q = prog
  BY <1>5, <1>8, <1>9 DEF Gone
<1>11. table' = d /\ prog' = prog
  BY <1>9, <1>10 DEF MergeStub
<1>12. Rekeyed(table, d, s, {}, k, {}, u)
  BY <1>9, <1>10
<1>13. Moved(table, d, s, {}) /\ KeysMean(d, labelling)
  <2>1. \A ty \in {} : KeyMeans(k, ty, Used(table), labelling)
    OBVIOUS
  <2> QED BY <1>1, <1>5, <1>12, <2>1, RekeyedAlone
<1>14. d.key[s] = k /\ s \in Used(d)
  BY <1>12, <1>13 DEF Rekeyed, Moved
<1>15. DOMAIN ins2 = DOMAIN instances /\ s \notin st2 /\ InstancesMoved(instances, ins2, stubs, st2, s)
  BY <1>2 DEF InstancesMoved
<1>16. InstanceOK(d, prog, st2, generated, s)
  BY <1>4, <1>5, <1>7, <1>14, <1>15 DEF InstanceOK
<1>17. d.key[s].name = table.key[s].name
  BY <1>3, <1>6, <1>14
<1>18. s \in DOMAIN instances
  BY <1>3
<1>19. Understood(d, prog, ins2, st2, generated, labelling)
  BY <1>1, <1>13, <1>15, <1>16, <1>17, <1>18, KeptUnderstood
<1>20. UInv'
  BY <1>1, <1>3, <1>11, <1>19 DEF UInv, ParsedIsEntered
<1>21. Stays(table, d, s)
  BY <1>5 DEF Stays
<1> QED BY <1>11, <1>13, <1>20, <1>21, MovedKeeps

-----------------------------------------------------------------------------
(* The steps that set sizes.                                               *)

\* Classes get their sizes only while the program is labelled.
Sizing(lab) == lab

\* setUTISizes changes the sizes of the key and makes the UTI a root, or does
\* nothing.
LEMMA SizesTouch ==
  ASSUME NEW t, Counted(t), NEW u \in Used(t), u # Nouti,
         NEW b \in Sizes \cup {Unknown}, NEW a \in Lengths \cup {Unknown, NonArray}, NEW w,
         NEW k, k = [t.key[u] EXCEPT !.bits = b, !.arr = a]
  PROVE  /\ k \in Key
         /\ \/ SetUTISizes(t, u, b, a, w) = t
            \/ /\ t.key[u] # k
               /\ Rekeyed(t, SetUTISizes(t, u, b, a, w), u, {}, k, {[TypeOf(t, u) EXCEPT !.based = FALSE]}, u)
<1>1. k \in Key
  <2>1. t.key[u] \in Key
    BY TypedKeys
  <2> QED BY <2>1 DEF Key
<1>2. CASE t.key[u] = k
  <2>1. Resize(t, u, b, a) = t
    BY <1>2 DEF Resize
  <2> QED BY <1>1, <2>1 DEF SetUTISizes
<1>3. CASE t.key[u] # k
  <2>1. Rekeyed(t, Resize(t, u, b, a), u, {}, k, {[TypeOf(t, u) EXCEPT !.based = FALSE]}, u)
    BY <1>3, ResizeTouches
  <2>2. SetUTISizes(t, u, b, a, w) \in {t, Resize(t, u, b, a)}
    BY DEF SetUTISizes
  <2> QED BY <1>1, <1>3, <2>1, <2>2
<1> QED BY <1>2, <1>3

\* setBaseClassBitSize changes the UlamType of a quark and nothing else.
LEMMA BaseSizeTouches ==
  ASSUME NEW t, Counted(t), NEW u \in Used(t), NEW ty, ty = [TypeOf(t, u) EXCEPT !.based = TRUE]
  PROVE  /\ ty \in UlamType /\ ty.etyp = TypeOf(t, u).etyp /\ ty.ctyp = TypeOf(t, u).ctyp /\ ty.based
         /\ \/ /\ SetBaseClassBitSize(t, u) = t
               /\ ~(OkUTI(t, u) /\ IsClass(t, u) /\ IsScalar(t, u) /\ TypeOf(t, u).ctyp = "Quark")
            \/ Retyped(t, SetBaseClassBitSize(t, u), t.key[u], ty)
<1>1. TableOK(t) /\ u \in UTI /\ t.key[u] \in DOMAIN t.typ
  BY CountedFacts, TypedKeys DEF Counted
<1>2. TypeOf(t, u) \in UlamType
  BY <1>1, TypeOfIsType
<1>3. ty \in UlamType /\ ty.etyp = TypeOf(t, u).etyp /\ ty.ctyp = TypeOf(t, u).ctyp /\ ty.based
  BY <1>2, Zenon DEF UlamType
<1>4. Retyped(t, ReplaceType(t, t.key[u], ty), t.key[u], ty)
  BY <1>1, <1>3, ReplaceTypeTouches
<1> QED BY <1>3, <1>4 DEF SetBaseClassBitSize

\* Keys and UlamTypes still go together when one that is replaced does.
LEMMA RetypedMeans ==
  ASSUME NEW t, NEW d, NEW lab, KeysMean(t, lab), NEW k, NEW ty, Retyped(t, d, k, ty),
         KeyMeans(k, ty, Used(t), lab)
  PROVE  KeysMean(d, lab) /\ Used(d) = Used(t) /\ Counted(d)
BY DEF Retyped, KeysMean, Used

\* Two moves of u are one.
LEMMA MovedAgain ==
  ASSUME NEW t, NEW g, NEW d, NEW u \in Used(t), NEW V, Moved(t, g, u, V), Moved(g, d, u, {})
  PROVE  Moved(t, d, u, V)
<1>1. Used(g) = Used(t) /\ Used(d) = Used(t) /\ u \in Used(d) \ {Nouti} /\ Nouti \in Used(t)
      /\ d.key[Nouti] = NoKey /\ V \subseteq Used(t) \ {Nouti, u}
  BY DEF Moved
<1>2. \A x \in Used(t) \ {u} : Same(g, d, x)
  BY <1>1 DEF Moved
<1>3. \A x \in Used(t) \ (V \cup {u}) : Same(t, d, x)
  BY <1>1, <1>2 DEF Moved, Same
<1>4. \A v \in V : ~IsComplete(t, v) /\ d.key[v] = NoKey /\ d.root[v] = Nouti
  BY <1>1, <1>2 DEF Moved, Same
<1> QED BY <1>1, <1>3, <1>4 DEF Moved

\* The size as a base class makes a UTI known, and all that share its key.
LEMMA BasedSame ==
  ASSUME NEW t, Counted(t), NEW lab, KeysMean(t, lab), NEW u \in Used(t),
         NEW d, d = SetBaseClassBitSize(t, u)
  PROVE  /\ Counted(d) /\ KeysMean(d, lab) /\ Used(d) = Used(t) /\ d.key = t.key /\ d.root = t.root
         /\ \A x \in Used(t) : Same(t, d, x)
<1>1. PICK ty : ty = [TypeOf(t, u) EXCEPT !.based = TRUE]
  OBVIOUS
<1>2. /\ ty.etyp = TypeOf(t, u).etyp /\ ty.ctyp = TypeOf(t, u).ctyp /\ ty.based
      /\ d = t \/ Retyped(t, d, t.key[u], ty)
  BY <1>1, BaseSizeTouches
<1>3. CASE d = t
  BY <1>3 DEF Same
<1>4. CASE Retyped(t, d, t.key[u], ty)
  <2>1. KeyMeans(t.key[u], ty, Used(t), lab)
    <3>1. KeyMeans(t.key[u], TypeOf(t, u), Used(t), lab)
      BY Answers
    <3> QED BY <1>2, <3>1 DEF KeyMeans
  <2>2. KeysMean(d, lab) /\ Used(d) = Used(t) /\ Counted(d) /\ d.key = t.key /\ d.root = t.root
    <3>1. KeysMean(d, lab) /\ Used(d) = Used(t) /\ Counted(d)
      BY <1>4, <2>1, RetypedMeans
    <3> QED BY <1>4, <3>1 DEF Retyped
  <2>3. ASSUME NEW x \in Used(t) PROVE Same(t, d, x)
    <3>1. CASE t.key[x] = t.key[u]
      <4>1. TypeOf(t, x) = TypeOf(t, u) /\ TypeOf(d, x) = ty
        BY <1>4, <2>3, <3>1, SameKeyAnswers DEF Retyped
      <4>2. /\ TypeOf(d, x).etyp = TypeOf(t, x).etyp /\ TypeOf(d, x).ctyp = TypeOf(t, x).ctyp
            /\ TypeOf(d, x).based
        BY <1>2, <4>1
      <4> QED BY <2>2, <4>2 DEF Same, IsComplete, IsHolder, IsScalarClass, IsClass, IsScalar
    <3>2. CASE t.key[x] # t.key[u]
      <4>1. TypeOf(d, x) = TypeOf(t, x)
        BY <1>4, <2>3, <3>2 DEF Retyped
      <4> QED BY <2>2, <4>1, UntouchedIsSame DEF Untouched
    <3> QED BY <3>1, <3>2
  <2> QED BY <2>2, <2>3
<1> QED BY <1>2, <1>3, <1>4

\* Keys that differ in the size alone.
ButForSize(k, j) == k.name = j.name /\ k.arr = j.arr /\ k.inst = j.inst /\ k.ref = j.ref

\* s is t when u has got b bits, and d perhaps with its size as a base class.
SizedWith(t, u, b, s, d) ==
  s = SetUTISizes(t, u, b, t.key[u].arr, FALSE) /\ d \in {s, SetBaseClassBitSize(s, u)}

\* A scalar class gets a size, of itself and as a base class.
LEMMA ScalarSized ==
  ASSUME NEW t, Counted(t), NEW lab, Sizing(lab), KeysMean(t, lab), NEW u \in Used(t) \ {Nouti},
         ScalarClassKey(t.key[u]), ~IsUnseen(t, u), t.key[u].name \notin HolderNames,
         NEW b \in Sizes \cup {Unknown}, NEW s, NEW d, SizedWith(t, u, b, s, d)
  PROVE  /\ Moved(t, d, u, {}) /\ KeysMean(d, lab) /\ Counted(d) /\ Used(d) = Used(t)
         /\ ButForSize(d.key[u], t.key[u]) /\ d.root[u] \in {u, t.root[u]}
<1>1. PICK a, w, k : /\ a = t.key[u].arr /\ k = [t.key[u] EXCEPT !.bits = b, !.arr = a]
                     /\ s = SetUTISizes(t, u, b, a, w) /\ d \in {s, SetBaseClassBitSize(s, u)}
  BY DEF SizedWith
<1>2. t.key[u] \in Key /\ a \in Lengths \cup {Unknown, NonArray}
  BY <1>1, TypedKeys DEF Key
<1>3. PICK ty : ty = [TypeOf(t, u) EXCEPT !.based = FALSE]
  OBVIOUS
<1>4. k \in Key /\ (s = t \/ Rekeyed(t, s, u, {}, k, {ty}, u))
  BY <1>1, <1>2, <1>3, SizesTouch
<1>5. ButForSize(k, t.key[u])
  BY <1>1, <1>2 DEF Key, ButForSize
<1>6. KeyMeans(k, ty, Used(t), lab)
  <2>1. /\ KeyMeans(t.key[u], ty, Used(t), lab) /\ ty.ctyp = TypeOf(t, u).ctyp
        /\ ty.etyp = TypeOf(t, u).etyp
    BY <1>3, TypeGiven
  <2>2. ty.ctyp # "Unseen"
    BY <2>1, Answers DEF IsUnseen, ScalarClassKey
  <2>3. k.name \notin HolderNames /\ k.name \notin UTI
    BY <1>5 DEF HolderNames, ButForSize
  <2> QED BY <1>5, <2>1, <2>2, <2>3 DEF KeyMeans, Sizing, ButForSize
<1>7. /\ Moved(t, s, u, {}) /\ KeysMean(s, lab) /\ Counted(s) /\ Used(s) = Used(t)
      /\ ButForSize(s.key[u], t.key[u]) /\ s.root[u] \in {u, t.root[u]}
  <2>1. CASE s = t
    <3>1. Nouti \in Used(t) /\ t.key[Nouti] = NoKey
      BY NoutiIsUsed
    <3> QED BY <2>1, <3>1 DEF Moved, Same, ButForSize
  <2>2. CASE Rekeyed(t, s, u, {}, k, {ty}, u)
    <3>1. \A x \in {ty} : KeyMeans(k, x, Used(t), lab)
      BY <1>6
    <3>2. Moved(t, s, u, {}) /\ KeysMean(s, lab) /\ Counted(s) /\ Used(s) = Used(t)
      BY <2>2, <3>1, RekeyedAlone
    <3>3. s.key[u] = k /\ s.root[u] = u
      BY <2>2 DEF Rekeyed
    <3> QED BY <1>5, <3>2, <3>3
  <2> QED BY <1>4, <2>1, <2>2
<1>8. CASE d = s
  BY <1>7, <1>8
<1>9. CASE d = SetBaseClassBitSize(s, u)
  <2>1. /\ Counted(d) /\ KeysMean(d, lab) /\ Used(d) = Used(s) /\ d.key = s.key /\ d.root = s.root
        /\ \A x \in Used(s) : Same(s, d, x)
    BY <1>7, <1>9, BasedSame
  <2>2. Moved(s, d, u, {})
    <3>1. Nouti \in Used(s) /\ s.key[Nouti] = NoKey
      BY <1>7, NoutiIsUsed
    <3> QED BY <1>7, <2>1, <3>1 DEF Moved
  <2>3. Moved(t, d, u, {})
    BY <1>7, <2>2, MovedAgain
  <2> QED BY <1>7, <2>1, <2>3
<1> QED BY <1>1, <1>8, <1>9

\* setBitSizeOfClassInstances of a class.
LEMMA SizeClassUnderstood ==
  ASSUME IInv, UInv, NEW c \in Classes, NEW b \in Sizes, SizeClass(c, b)
  PROVE  UInv' /\ Keeps(table, table')
<1>1. /\ Counted(table) /\ KeysMean(table, labelling) /\ Sizing(labelling)
      /\ Understood(table, prog, instances, stubs, generated, labelling)
      /\ parsing = {}
      /\ UNCHANGED <<prog, instances, stubs, generated, parsing, labelling>>
  BY UFacts DEF SizeClass, Sizing
<1>2. PICK u : u = prog[c]
  OBVIOUS
<1>3. c \in DOMAIN prog /\ c \notin Templates /\ ~IsComplete(table, u) /\ ~IsUnseen(table, u)
  BY <1>2 DEF SizeClass
<1>4. /\ u \in Used(table) \ {Nouti} /\ table.key[u].name = c /\ ScalarClassKey(table.key[u])
      /\ c \notin HolderNames /\ c \notin UTI
  <2>1. u \in Used(table) \ {Nouti} /\ table.key[u].name = c /\ ScalarClassKey(table.key[u])
    BY <1>1, <1>2, <1>3, EntryIsScalar
  <2>2. c \notin HolderNames
    BY NameFacts
  <2> QED BY <2>1, <2>2 DEF HolderNames
<1>5. PICK s, d : SizedWith(table, u, b, s, d) /\ table' = d
  BY <1>2 DEF SizedWith, SizeClass
<1>6. /\ Moved(table, d, u, {}) /\ KeysMean(d, labelling)
      /\ ButForSize(d.key[u], table.key[u]) /\ u \in Used(d)
  <2>1. b \in Sizes \cup {Unknown} /\ table.key[u].name \notin HolderNames
    BY <1>4
  <2> QED BY <1>1, <1>3, <1>4, <1>5, <2>1, ScalarSized
<1>7. u \notin DOMAIN instances
  BY <1>1, <1>3, <1>4, InstanceFacts
<1>8. /\ InstancesMoved(instances, instances, stubs, stubs, u)
      /\ ProgMoved(prog, prog, u, {}) /\ generated \ {u} \subseteq generated /\ {} \subseteq EntriesOf(prog)
  BY DEF InstancesMoved, ProgMoved
<1>9. \A n \in DOMAIN prog : prog[n] = u => EntryOK(d, prog, generated, n)
  <2>1. \A n \in DOMAIN prog : EntryOK(table, prog, generated, n)
    BY <1>1 DEF Understood
  <2> QED BY <1>4, <1>6, <2>1 DEF EntryOK, ButForSize
<1>10. EnteredOK(d, prog, u) /\ OwnName(d, u)
  BY <1>2, <1>3, <1>4, <1>6 DEF EnteredOK, OwnName, ButForSize
<1>11. Understood(d, prog, instances, stubs, generated, labelling)
  BY <1>1, <1>6, <1>7, <1>8, <1>9, <1>10, MovedUnderstood
<1>12. UInv'
  BY <1>1, <1>5, <1>11 DEF UInv, ParsedIsEntered
<1>13. Stays(table, d, u)
  BY <1>3 DEF Stays
<1> QED BY <1>5, <1>6, <1>12, <1>13, MovedKeeps

\* setBitSizeOfClassInstances of a template, one turn: the entry gets a size and
\* is linked to its symbol's class.
LEMMA SizeInstanceUnderstood ==
  ASSUME IInv, UInv, NEW u \in UTI, NEW b \in Sizes, SizeInstance(u, b)
  PROVE  UInv' /\ Keeps(table, table')
<1>1. /\ Counted(table) /\ KeysMean(table, labelling) /\ Sizing(labelling)
      /\ Used(table) \subseteq UTI
      /\ Understood(table, prog, instances, stubs, generated, labelling)
      /\ parsing = {}
      /\ UNCHANGED <<prog, instances, stubs, generated, parsing, labelling>>
  BY UFacts DEF SizeInstance, Sizing
<1>2. PICK c : c = instances[u]
  OBVIOUS
<1>3. /\ u \in DOMAIN instances /\ u \notin stubs /\ c \in DOMAIN instances
      /\ ~IsUnseen(table, u) /\ ~IsComplete(table, u)
  BY <1>2 DEF SizeInstance, IInv, TypeOK
<1>4. /\ InstanceOK(table, prog, stubs, generated, u)
      /\ table.key[u].name \notin HolderNames /\ ScalarClassKey(table.key[u])
  BY <1>1, <1>3, InstanceFacts
<1>5. u \in Used(table) \ {Nouti} /\ c \in Used(table) /\ c \in UTI
  BY <1>1, <1>3, <1>4, InstancesAreUsed DEF InstanceOK
<1>6. PICK total \in Sizes \cup {Unknown} :
        total = IF IsComplete(table, c) THEN table.key[c].bits ELSE b
  BY <1>1, <1>5, TypedKeys DEF Key
<1>7. PICK s, d : SizedWith(table, u, total, s, d) /\ d = SetBaseClassBitSize(s, u)
  BY DEF SizedWith
<1>8. PICK e : e = AliasForced(d, u, c)
  OBVIOUS
<1>9. table' = e
  BY <1>2, <1>6, <1>7, <1>8 DEF SizedWith, SizeInstance
<1>10. /\ Moved(table, d, u, {}) /\ KeysMean(d, labelling) /\ Counted(d) /\ Used(d) = Used(table)
       /\ ButForSize(d.key[u], table.key[u])
  BY <1>1, <1>3, <1>4, <1>5, <1>7, ScalarSized
<1>11. /\ Moved(d, e, u, {}) /\ KeysMean(e, labelling) /\ Used(e) = Used(d) /\ e.key[u] = d.key[u]
  BY <1>5, <1>8, <1>10, AliasMoved
<1>12. Moved(table, e, u, {})
  BY <1>5, <1>10, <1>11, MovedAgain
<1>13. InstanceOK(e, prog, stubs, generated, u)
  BY <1>3, <1>4, <1>5, <1>10, <1>11 DEF InstanceOK, ButForSize
<1>14. InstancesMoved(instances, instances, stubs, stubs, u)
  BY DEF InstancesMoved
<1>15. e.key[u].name = table.key[u].name
  BY <1>10, <1>11 DEF ButForSize
<1>16. Understood(e, prog, instances, stubs, generated, labelling)
  BY <1>1, <1>3, <1>11, <1>12, <1>13, <1>14, <1>15, KeptUnderstood
<1>17. UInv'
  BY <1>1, <1>9, <1>16 DEF UInv, ParsedIsEntered
<1>18. Stays(table, e, u)
  BY <1>3 DEF Stays
<1> QED BY <1>9, <1>12, <1>17, <1>18, MovedKeeps

-----------------------------------------------------------------------------
(* The steps that set the sizes of references and arrays.                  *)

\* Of what is no scalar class it is the key that tells whether it is known.
LEMMA KnownByKey ==
  ASSUME NEW t, Counted(t), NEW d, Counted(d), NEW lab, KeysMean(t, lab), KeysMean(d, lab),
         NEW x \in Used(t) \cap Used(d), t.key[x] = d.key[x], ~ScalarClassKey(t.key[x])
  PROVE  IsComplete(d, x) <=> IsComplete(t, x)
<1>1. x \in Used(t) /\ x \in Used(d) /\ ~ScalarClassKey(d.key[x])
  OBVIOUS
<1>2. IsComplete(t, x) <=> /\ t.key[x].bits # Unknown /\ t.key[x].arr # Unknown
                           /\ t.key[x].name \notin HolderNames \cup {NoName}
  BY <1>1, Answers
<1>3. IsComplete(d, x) <=> /\ d.key[x].bits # Unknown /\ d.key[x].arr # Unknown
                           /\ d.key[x].name \notin HolderNames \cup {NoName}
  BY <1>1, Answers
<1> QED BY <1>2, <1>3

\* Key k has perhaps got another UlamType.
MayRetype(t, d, k, ty) == d = t \/ Retyped(t, d, k, ty)

\* u takes a key that is no scalar class's, and the key then perhaps another
\* UlamType.
LEMMA ResizedMoved ==
  ASSUME NEW t, Counted(t), NEW lab, KeysMean(t, lab), NEW u \in Used(t) \ {Nouti},
         NEW k, ~ScalarClassKey(k),
         NEW T, NEW r, NEW s, Rekeyed(t, s, u, {}, k, T, r),
         NEW d, NEW ty, MayRetype(s, d, k, ty),
         KeyMeans(k, TypeOf(d, u), Used(t), lab)
  PROVE  /\ Moved(t, d, u, {}) /\ KeysMean(d, lab) /\ Counted(d) /\ Used(d) = Used(t)
         /\ d.key[u] = k /\ d.root[u] = r
<1>1. /\ Counted(s) /\ s.size = t.size /\ s.key[u] = k /\ s.root[u] = r
      /\ \A x \in Used(t) \ {u} : s.key[x] = t.key[x] /\ s.root[x] = t.root[x]
      /\ \A x \in DOMAIN s.typ : x = k \/ (x \in DOMAIN t.typ /\ s.typ[x] = t.typ[x])
  BY DEF Rekeyed, Untouched
<1>2. /\ Counted(d) /\ d.size = t.size /\ d.key[u] = k /\ d.root[u] = r
      /\ \A x \in Used(t) \ {u} : d.key[x] = t.key[x] /\ d.root[x] = t.root[x]
      /\ \A x \in DOMAIN d.typ : x = k \/ (x \in DOMAIN t.typ /\ d.typ[x] = t.typ[x])
  <2>1. CASE d = s
    BY <1>1, <2>1
  <2>2. CASE Retyped(s, d, k, ty)
    <3>1. /\ Counted(d) /\ d.size = s.size /\ d.key = s.key /\ d.root = s.root
          /\ DOMAIN d.typ = DOMAIN s.typ /\ \A x \in DOMAIN d.typ : x = k \/ d.typ[x] = s.typ[x]
      BY <2>2 DEF Retyped
    <3> QED BY <1>1, <3>1
  <2> QED BY <2>1, <2>2 DEF MayRetype
<1>3. Used(d) = Used(t)
  BY <1>2 DEF Used
<1>4. d.typ[k] = TypeOf(d, u)
  <2>1. u \in Used(d)
    BY <1>3
  <2>2. TypeOf(d, u) = d.typ[d.key[u]]
    BY <1>2, <2>1, TypedKeys
  <2> QED BY <1>2, <2>2
<1>5. KeysMean(d, lab)
  <2>1. \A x \in DOMAIN t.typ : KeyMeans(x, t.typ[x], Used(t), lab)
    BY DEF KeysMean
  <2> QED BY <1>2, <1>3, <1>4, <2>1 DEF KeysMean
<1>6. ASSUME NEW x \in Used(t) \ {u} PROVE Same(t, d, x)
  <2>1. d.key[x] = t.key[x] /\ d.root[x] = t.root[x] /\ x \in Used(t) \cap Used(d)
    BY <1>2, <1>3, <1>6
  <2>2. CASE t.key[x] = k
    <3>1. IsComplete(d, x) <=> IsComplete(t, x)
      BY <1>2, <1>5, <2>1, <2>2, KnownByKey
    <3> QED BY <2>1, <3>1 DEF Same
  <2>3. CASE t.key[x] # k
    <3>1. t.key[x] \in DOMAIN d.typ
      BY <1>2, <2>1, TypedKeys
    <3>2. TypeOf(d, x) = TypeOf(t, x)
      BY <1>2, <2>1, <2>3, <3>1, KeptType
    <3>3. Untouched(t, d, x)
      BY <2>1, <3>2 DEF Untouched
    <3> QED BY <3>3, UntouchedIsSame
  <2> QED BY <2>2, <2>3
<1>7. Moved(t, d, u, {})
  <2>1. Nouti \in Used(t) /\ d.key[Nouti] = NoKey
    BY <1>2, <1>3, NoutiIsUsed
  <2> QED BY <1>2, <1>3, <1>6, <2>1 DEF Moved
<1> QED BY <1>2, <1>3, <1>5, <1>7

\* A UTI that is no scalar class and keeps its name stays understood.
LEMMA ResizedUnderstood ==
  ASSUME NEW t, NEW p, NEW ins, NEW st, NEW gen, NEW lab, Understood(t, p, ins, st, gen, lab),
         NEW u \in Used(t), u \notin DOMAIN ins, u \notin EntriesOf(p),
         NEW d, Moved(t, d, u, {}), KeysMean(d, lab),
         d.key[u].name = t.key[u].name, ~ScalarClassKey(d.key[u])
  PROVE  Understood(d, p, ins, st, gen, lab)
<1>1. ProgMoved(p, p, u, {}) /\ {} \subseteq EntriesOf(p) /\ gen \ {u} \subseteq gen
  BY DEF ProgMoved
<1>2. d.key[u].name \in Templates => d.key[u].name \in DOMAIN p
  BY DEF Understood, EnteredOK
<1>3. u \in gen => OwnName(d, u)
  BY DEF Understood, AnonymousOwn, OwnName
<1> QED BY <1>1, <1>2, <1>3, PlainUnderstood

\* Of a reference: no instance, not entered, and known when its sizes are.
LEMMA NoScalarFacts ==
  ASSUME NEW t, Counted(t), NEW p, NEW ins, NEW st, NEW gen, NEW lab,
         Understood(t, p, ins, st, gen, lab),
         NEW u \in Used(t), ~ScalarClassKey(t.key[u])
  PROVE  /\ u \notin DOMAIN ins /\ u \notin EntriesOf(p)
         /\ ~IsComplete(t, u) => \/ t.key[u].bits = Unknown \/ t.key[u].arr = Unknown
                                 \/ t.key[u].name \in HolderNames \cup {NoName}
<1>1. u \notin DOMAIN ins
  BY InstanceFacts
<1>2. u \notin EntriesOf(p)
  <2>1. \A n \in DOMAIN p : ScalarClassKey(t.key[p[n]])
    BY EntryIsScalar
  <2> QED BY <2>1 DEF EntriesOf
<1>3. KeysMean(t, lab)
  BY DEF Understood
<1>4. ~IsComplete(t, u) => \/ t.key[u].bits = Unknown \/ t.key[u].arr = Unknown
                           \/ t.key[u].name \in HolderNames \cup {NoName}
  BY <1>3, Answers
<1> QED BY <1>1, <1>2, <1>4

\* A key without a size or a length gets another UlamType.
LEMMA UnsizedRetyped ==
  ASSUME NEW t, Counted(t), NEW p, NEW ins, NEW st, NEW gen, NEW lab,
         Understood(t, p, ins, st, gen, lab),
         NEW k, k.bits = Unknown \/ k.arr = Unknown, NEW ty, NEW d, Retyped(t, d, k, ty),
         KeyMeans(k, ty, Used(t), lab)
  PROVE  Understood(d, p, ins, st, gen, lab) /\ Keeps(t, d)
<1>1. /\ Counted(d) /\ d.key = t.key /\ d.root = t.root /\ d.size = t.size
      /\ DOMAIN d.typ = DOMAIN t.typ
      /\ \A x \in DOMAIN t.typ : d.typ[x] = t.typ[x] \/ (x = k /\ d.typ[x] = ty)
  BY DEF Retyped
<1>2. \A x \in DOMAIN t.typ : \/ d.typ[x] = t.typ[x]
                              \/ /\ x.bits = Unknown \/ x.arr = Unknown
                                 /\ KeyMeans(x, d.typ[x], Used(t), lab)
  BY <1>1
<1> QED BY <1>1, <1>2, RetypedUnderstood

\* An UlamType of a known type is good for a key of the same name.
LEMMA GivenMeans ==
  ASSUME NEW k, NEW j, NEW ty, NEW U, NEW lab, Sizing(lab), KeyMeans(k, ty, U, lab),
         j.name = k.name, j.name \notin HolderNames, j.inst = k.inst,
         ty.ctyp = "Unseen" => j.bits = Unknown
  PROVE  KeyMeans(j, ty, U, lab)
<1>1. j.name \notin UTI
  BY DEF HolderNames
<1> QED BY <1>1 DEF KeyMeans, Sizing

\* A holder becomes a reference to u.
LEMMA HolderBecomesReference ==
  ASSUME IInv, UInv, NEW r \in Used(table) \ {Nouti}, table.key[r].ref,
         table.key[r].name \in HolderNames,
         NEW u \in Used(table), table.key[u].name \notin HolderNames,
         NEW k \in Key, k.name = table.key[u].name, k.ref,
         NEW ty \in UlamType, KeyMeans(k, ty, Used(table), labelling)
  PROVE  \E d, V : /\ TypeFromHolder(table, prog, r, k, ty) = [tab |-> d, prog |-> prog]
                   /\ Moved(table, d, r, V) /\ Stays(table, d, r)
                   /\ Understood(d, prog, instances, stubs, generated, labelling)
<1>1. Counted(table) /\ KeysMean(table, labelling) /\ ProgOK(prog, table) /\ Nouti \in Used(table)
      /\ Understood(table, prog, instances, stubs, generated, labelling)
  BY UFacts
<1>2. ~ScalarClassKey(table.key[r]) /\ ~ScalarClassKey(k)
  BY DEF ScalarClassKey
<1>3. ~IsScalarClass(table, r) /\ ~IsComplete(table, r)
  BY <1>1, <1>2, Answers
<1>4. table.key[r] # k /\ table.key[r].name \notin Templates /\ NoName \notin HolderNames
  BY NameFacts
<1>5. PICK d, q, V, y :
        /\ TypeFromHolder(table, prog, r, k, ty) = [tab |-> d, prog |-> q]
        /\ Rekeyed(table, d, r, V, k, {ty}, y)
        /\ Gone(table, prog, q, r, V, table.key[r].name, IsScalarClass(table, r))
  BY <1>1, <1>3, <1>4, HolderTouches
<1>6. V = {} /\ q = prog
  BY <1>3, <1>5 DEF Gone
<1>7. Rekeyed(table, d, r, {}, k, {ty}, y)
  BY <1>5, <1>6
<1>8. Moved(table, d, r, {}) /\ KeysMean(d, labelling) /\ Counted(d) /\ Used(d) = Used(table)
  <2>1. \A x \in {ty} : KeyMeans(k, x, Used(table), labelling)
    OBVIOUS
  <2> QED BY <1>1, <1>7, <2>1, RekeyedAlone
<1>9. d.key[r] = k /\ Stays(table, d, r)
  BY <1>3, <1>7 DEF Rekeyed, Stays
<1>10. r \notin DOMAIN instances /\ r \notin EntriesOf(prog)
  BY <1>1, <1>2, NoScalarFacts
<1>11. OwnName(d, r)
  BY <1>9 DEF OwnName, HolderNames
<1>12. d.key[r].name \in Templates => d.key[r].name \in DOMAIN prog
  BY <1>1, <1>9 DEF Understood, EnteredOK
<1>13. Understood(d, prog, instances, stubs, generated, labelling)
  <2>1. ProgMoved(prog, prog, r, {}) /\ {} \subseteq EntriesOf(prog) /\ generated \ {r} \subseteq generated
    BY DEF ProgMoved
  <2>2. ~ScalarClassKey(d.key[r]) /\ r \in Used(table)
    BY <1>2, <1>9
  <2> QED BY <1>1, <1>8, <1>10, <1>11, <1>12, <2>1, <2>2, PlainUnderstood
<1> QED BY <1>5, <1>6, <1>8, <1>9, <1>13

\* completeAReferenceTypeWith: a reference gets the sizes of its referent.
LEMMA CompleteAReferenceUnderstood ==
  ASSUME IInv, UInv, NEW r \in UTI, NEW u \in UTI, CompleteAReference(r, u)
  PROVE  UInv' /\ Keeps(table, table')
<1>1. /\ Counted(table) /\ KeysMean(table, labelling) /\ Nouti \in Used(table)
      /\ Understood(table, prog, instances, stubs, generated, labelling)
      /\ parsing = {} /\ Sizing(labelling)
      /\ UNCHANGED <<instances, stubs, generated, parsing, labelling>>
  BY UFacts DEF CompleteAReference, Sizing
<1>2. /\ r \in Used(table) \ {Nouti} /\ table.key[r].ref /\ u \in Used(table) /\ IsComplete(table, u)
      /\ ~IsComplete(table, r)
      /\ ~IsHolder(table, r) => /\ table.key[r].name = table.key[u].name
                                /\ table.key[r].inst = table.key[u].inst
  BY DEF CompleteAReference, Held
<1>3. PICK k, ty : /\ k = [table.key[u] EXCEPT !.ref = TRUE]
                   /\ ty = [TypeOf(table, u) EXCEPT !.based = FALSE]
  OBVIOUS
<1>4. table.key[u] \in Key /\ table.key[r] \in Key
  BY <1>1, <1>2, TypedKeys
<1>5. /\ k \in Key /\ k.name = table.key[u].name /\ k.bits = table.key[u].bits
      /\ k.arr = table.key[u].arr /\ k.inst = table.key[u].inst /\ k.ref
  BY <1>3, <1>4 DEF Key
<1>6. /\ table.key[u].name \notin HolderNames /\ table.key[u].bits # Unknown
      /\ table.key[u].arr # Unknown /\ table.key[u].name # NoName
  BY <1>1, <1>2, Answers
<1>7. ty \in UlamType /\ KeyMeans(table.key[u], ty, Used(table), labelling)
  BY <1>1, <1>2, <1>3, TypeGiven
<1>8. ty.ctyp # "Unseen"
  BY <1>6, <1>7 DEF KeyMeans
<1>9. \A j : j.name = table.key[u].name /\ j.inst = table.key[u].inst =>
               KeyMeans(j, ty, Used(table), labelling)
  BY <1>1, <1>6, <1>7, <1>8, GivenMeans
<1>10. ASSUME IsHolder(table, r) PROVE UInv' /\ Keeps(table, table')
  <2>1. table.key[r].name \in HolderNames
    BY <1>1, <1>2, <1>10, Answers
  <2>2. KeyMeans(k, ty, Used(table), labelling)
    BY <1>5, <1>9
  <2>3. PICK d, V : /\ TypeFromHolder(table, prog, r, k, ty) = [tab |-> d, prog |-> prog]
                    /\ Moved(table, d, r, V) /\ Stays(table, d, r)
                    /\ Understood(d, prog, instances, stubs, generated, labelling)
    BY <1>1, <1>2, <1>5, <1>6, <1>7, <2>1, <2>2, HolderBecomesReference
  <2>4. table' = d /\ prog' = prog
    BY <1>3, <1>10, <2>3 DEF CompleteAReference
  <2>5. UInv'
    BY <1>1, <2>3, <2>4 DEF UInv, ParsedIsEntered
  <2> QED BY <2>3, <2>4, <2>5, MovedKeeps
<1>11. ASSUME ~IsHolder(table, r) PROVE UInv' /\ Keeps(table, table')
  <2>1. /\ table.key[r].name = table.key[u].name /\ table.key[r].inst = table.key[u].inst
        /\ table.key[r].name \notin HolderNames
    BY <1>2, <1>6, <1>11
  <2>2. ~ScalarClassKey(table.key[r])
    BY <1>2 DEF ScalarClassKey
  <2>3. /\ r \notin DOMAIN instances /\ r \notin EntriesOf(prog)
        /\ table.key[r].bits = Unknown \/ table.key[r].arr = Unknown
    BY <1>1, <1>2, <1>6, <2>1, <2>2, NoScalarFacts
  <2>4. PICK b, a, w : b = table.key[u].bits /\ a = table.key[u].arr /\ w = FALSE
    OBVIOUS
  <2>5. b \in Sizes \cup {Unknown} /\ a \in Lengths \cup {Unknown, NonArray}
    BY <1>4, <2>4 DEF Key
  <2>6. PICK s : s = SetUTISizes(table, r, b, a, w)
    OBVIOUS
  <2>7. PICK d : d = IF IsComplete(s, r) THEN s ELSE ReplaceType(s, s.key[r], ty)
    OBVIOUS
  <2>8. table' = d /\ prog' = prog
    BY <1>3, <1>11, <2>4, <2>6, <2>7 DEF CompleteAReference
  <2>9. PICK j, tr : /\ j = [table.key[r] EXCEPT !.bits = b, !.arr = a]
                     /\ tr = [TypeOf(table, r) EXCEPT !.based = FALSE]
    OBVIOUS
  <2>10. j \in Key /\ (s = table \/ Rekeyed(table, s, r, {}, j, {tr}, r))
    <3>1. r \in Used(table) /\ r # Nouti
      BY <1>2
    <3> QED BY <1>1, <2>5, <2>6, <2>9, <3>1, SizesTouch
  <2>11. j.name = table.key[r].name /\ j.inst = table.key[r].inst /\ j.ref
    BY <1>2, <1>4, <2>9 DEF Key
  <2>12. CASE s = table
    <3>1. d = ReplaceType(table, table.key[r], ty)
      BY <1>2, <2>7, <2>12
    <3>2. table.key[r] \in DOMAIN table.typ
      BY <1>1, <1>2, TypedKeys
    <3>3. Retyped(table, d, table.key[r], ty)
      BY <1>1, <1>7, <3>1, <3>2, ReplaceTypeTouches
    <3>4. KeyMeans(table.key[r], ty, Used(table), labelling)
      BY <1>9, <2>1
    <3>5. Understood(d, prog, instances, stubs, generated, labelling) /\ Keeps(table, d)
      BY <1>1, <2>3, <3>3, <3>4, UnsizedRetyped
    <3> QED BY <1>1, <2>8, <3>5 DEF UInv, ParsedIsEntered
  <2>13. CASE Rekeyed(table, s, r, {}, j, {tr}, r)
    <3>1. Counted(s) /\ s.key[r] = j /\ s.size = table.size
      BY <2>13 DEF Rekeyed
    <3>2. r \in Used(s)
      BY <1>2, <3>1 DEF Used
    <3>3. j \in DOMAIN s.typ /\ TypeOf(s, r) = s.typ[j]
      BY <3>1, <3>2, TypedKeys
    <3>4. MayRetype(s, d, j, ty) /\ KeyMeans(j, TypeOf(d, r), Used(table), labelling)
      <4>1. CASE IsComplete(s, r)
        <5>1. TypeOf(s, r) = tr \/ (j \in DOMAIN table.typ /\ TypeOf(s, r) = table.typ[j])
          BY <2>13, <3>3 DEF Rekeyed
        <5>2. KeyMeans(j, TypeOf(s, r), Used(table), labelling)
          <6>1. CASE j \in DOMAIN table.typ /\ TypeOf(s, r) = table.typ[j]
            BY <1>1, <6>1 DEF KeysMean
          <6>2. CASE TypeOf(s, r) = tr
            <7>1. KeyMeans(table.key[r], tr, Used(table), labelling)
              BY <1>1, <1>2, <2>9, TypeGiven
            <7>2. tr.ctyp # "Unseen"
              <8>1. tr.ctyp = "Unseen" => EtypeOf(table.key[r].name) = "Class" /\ tr.etyp = "Class"
                BY <7>1 DEF KeyMeans
              <8> QED BY <4>1, <6>2, <8>1 DEF IsComplete
            <7> QED BY <1>1, <2>1, <2>11, <6>2, <7>1, <7>2, GivenMeans
          <6> QED BY <5>1, <6>1, <6>2
        <5> QED BY <2>7, <4>1, <5>2 DEF MayRetype
      <4>2. CASE ~IsComplete(s, r)
        <5>1. Retyped(s, d, j, ty)
          BY <1>7, <2>7, <3>1, <3>3, <4>2, ReplaceTypeTouches
        <5>2. TypeOf(d, r) = ty
          BY <3>1, <3>2, <5>1 DEF Retyped
        <5>3. KeyMeans(j, ty, Used(table), labelling)
          BY <1>9, <2>1, <2>11
        <5> QED BY <5>1, <5>2, <5>3 DEF MayRetype
      <4> QED BY <4>1, <4>2
    <3>5. ~ScalarClassKey(j)
      BY <2>11 DEF ScalarClassKey
    <3>6. /\ Moved(table, d, r, {}) /\ KeysMean(d, labelling) /\ Counted(d) /\ Used(d) = Used(table)
          /\ d.key[r] = j /\ d.root[r] = r
      <4>1. Counted(table) /\ KeysMean(table, labelling)
        BY <1>1
      <4>2. r \in Used(table) \ {Nouti}
        BY <1>2
      <4> QED BY <2>13, <3>4, <3>5, <4>1, <4>2, ResizedMoved
    <3>7. r \in Used(table) /\ d.key[r].name = table.key[r].name /\ ~ScalarClassKey(d.key[r])
      BY <1>2, <2>11, <3>5, <3>6
    <3>8. Understood(d, prog, instances, stubs, generated, labelling)
      BY <1>1, <2>3, <3>6, <3>7, ResizedUnderstood
    <3>9. UInv'
      BY <1>1, <2>8, <3>8 DEF UInv, ParsedIsEntered
    <3>10. Stays(table, d, r)
      BY <1>2 DEF Stays
    <3> QED BY <2>8, <3>6, <3>9, <3>10, MovedKeeps
  <2> QED BY <2>10, <2>12, <2>13
<1> QED BY <1>10, <1>11

\* The class type of an array is matched to its scalar's.
Matched(t, a, c) ==
  IF IsClass(t, a) /\ TypeOf(t, a).ctyp # c THEN SetClassType(t, t.key[a], c) ELSE t

\* Matching replaces the UlamType of one key, or does nothing.
LEMMA MatchedTouches ==
  ASSUME NEW t, Counted(t), NEW a \in Used(t), NEW c \in Ctypes, NEW ty, ty = MkType("Class", c),
         NEW m, m = Matched(t, a, c)
  PROVE  \/ m = t /\ (IsClass(t, a) => TypeOf(t, a).ctyp = c)
         \/ Retyped(t, m, t.key[a], ty) /\ IsClass(t, a) /\ TypeOf(m, a) = ty
<1>1. t.key[a] \in DOMAIN t.typ
  BY TypedKeys
<1>2. ty \in UlamType
  BY DEF MkType, UlamType, Etypes
<1>3. CASE IsClass(t, a) /\ TypeOf(t, a).ctyp # c
  <2>1. m = ReplaceType(t, t.key[a], ty)
    BY <1>1, <1>3 DEF Matched, SetClassType
  <2>2. Retyped(t, m, t.key[a], ty)
    BY <1>1, <1>2, <2>1, ReplaceTypeTouches
  <2>3. TypeOf(m, a) = ty
    BY <2>2 DEF Retyped
  <2> QED BY <1>3, <2>2, <2>3
<1>4. CASE ~(IsClass(t, a) /\ TypeOf(t, a).ctyp # c)
  BY <1>4 DEF Matched
<1> QED BY <1>3, <1>4

\* And the key goes with the class type of the scalar.
LEMMA MatchedMeans ==
  ASSUME NEW k, NEW U, NEW lab, Sizing(lab), EtypeOf(k.name) = "Class", k.inst \in U,
         k.name \notin HolderNames, NEW c, c # "NotAClass", c = "Unseen" => k.bits = Unknown,
         NEW ty, ty = MkType("Class", c)
  PROVE  KeyMeans(k, ty, U, lab)
<1>1. k.name \notin UTI /\ ty.etyp = "Class" /\ ty.ctyp = c
  BY DEF HolderNames, MkType
<1> QED BY <1>1 DEF KeyMeans, Sizing

\* The length and size are set, and the class type is matched.
SizedArray(t, a, b, len, c, s, m) ==
  s = SetUTISizes(t, a, b, len, TRUE) /\ m = Matched(s, a, c)

\* An array that is not known keeps its key, or takes the sizes.
LEMMA ArraySized ==
  ASSUME NEW t, Counted(t), NEW lab, Sizing(lab), KeysMean(t, lab), NEW a \in Used(t) \ {Nouti},
         ~IsComplete(t, a), t.key[a].name \notin HolderNames,
         NEW b \in Sizes \cup {Unknown}, NEW len \in Lengths \cup {Unknown},
         NEW c \in Ctypes, EtypeOf(t.key[a].name) = "Class" => c # "NotAClass",
         c = "Unseen" => b = Unknown,
         NEW s, NEW m, SizedArray(t, a, b, len, c, s, m),
         s = t /\ c = "Unseen" => t.key[a].bits = Unknown,
         NEW ty, ty = MkType("Class", c)
  PROVE  \/ m = t
         \/ /\ Retyped(t, m, t.key[a], ty) /\ KeyMeans(t.key[a], ty, Used(t), lab)
            /\ TypeOf(m, a) = ty /\ EtypeOf(t.key[a].name) = "Class"
         \/ /\ Moved(t, m, a, {}) /\ KeysMean(m, lab) /\ Counted(m) /\ Used(m) = Used(t)
            /\ m.key[a].name = t.key[a].name /\ ~ScalarClassKey(m.key[a])
<1>1. a \in Used(t) /\ a # Nouti
  OBVIOUS
<1>2. PICK k, ta : /\ k = [t.key[a] EXCEPT !.bits = b, !.arr = len]
                   /\ ta = [TypeOf(t, a) EXCEPT !.based = FALSE]
  OBVIOUS
<1>3. PICK w : s = SetUTISizes(t, a, b, len, w)
  BY DEF SizedArray
<1>4. k \in Key /\ (s = t \/ Rekeyed(t, s, a, {}, k, {ta}, a))
  <2>1. len \in Lengths \cup {Unknown, NonArray}
    OBVIOUS
  <2> QED BY <1>1, <1>2, <1>3, <2>1, SizesTouch
<1>5. /\ KeyMeans(t.key[a], ta, Used(t), lab)
      /\ t.key[a].inst \in Used(t)
  <2>1. KeyMeans(t.key[a], ta, Used(t), lab)
    BY <1>1, <1>2, TypeGiven
  <2> QED BY <2>1 DEF KeyMeans
<1>6. m = Matched(s, a, c)
  BY DEF SizedArray
<1>7. CASE s = t
  <2>1. \/ m = t
        \/ Retyped(t, m, t.key[a], ty) /\ IsClass(t, a) /\ TypeOf(m, a) = ty
    BY <1>1, <1>6, <1>7, MatchedTouches
  <2>2. IsClass(t, a) => EtypeOf(t.key[a].name) = "Class"
    BY <1>1, Answers
  <2>3. EtypeOf(t.key[a].name) = "Class" => KeyMeans(t.key[a], ty, Used(t), lab)
    BY <1>5, <1>7, MatchedMeans
  <2> QED BY <2>1, <2>2, <2>3
<1>8. CASE Rekeyed(t, s, a, {}, k, {ta}, a)
  <2>1. /\ k.name = t.key[a].name /\ k.bits = b /\ k.arr = len /\ k.inst = t.key[a].inst
        /\ ~ScalarClassKey(k)
    <3>1. len # NonArray
      BY ConstantFacts
    <3>2. t.key[a] \in Key
      BY <1>1, TypedKeys
    <3> QED BY <1>2, <3>1, <3>2 DEF Key, ScalarClassKey
  <2>2. Counted(s) /\ s.key[a] = k /\ Used(s) = Used(t)
    BY <1>8 DEF Rekeyed, Used
  <2>3. k \in DOMAIN s.typ /\ TypeOf(s, a) = s.typ[k]
    BY <1>1, <2>2, TypedKeys
  <2>4. TypeOf(s, a) = ta \/ (k \in DOMAIN t.typ /\ TypeOf(s, a) = t.typ[k])
    BY <1>8, <2>3 DEF Rekeyed
  <2>5. TypeOf(s, a).etyp = EtypeOf(k.name)
    <3>1. k \in DOMAIN t.typ => t.typ[k].etyp = EtypeOf(k.name)
      BY DEF KeysMean, KeyMeans
    <3>2. ta.etyp = EtypeOf(k.name)
      BY <1>5, <2>1 DEF KeyMeans
    <3> QED BY <2>4, <3>1, <3>2
  <2>6. \/ m = s /\ (IsClass(s, a) => TypeOf(s, a).ctyp = c)
        \/ Retyped(s, m, k, ty) /\ IsClass(s, a) /\ TypeOf(m, a) = ty
    <3>1. a \in Used(s)
      BY <1>1, <2>2
    <3> QED BY <1>6, <2>2, <3>1, MatchedTouches
  <2>7. KeyMeans(k, TypeOf(m, a), Used(t), lab)
    <3>1. CASE m = s /\ (IsClass(s, a) => TypeOf(s, a).ctyp = c)
      <4>1. CASE k \in DOMAIN t.typ /\ TypeOf(s, a) = t.typ[k]
        BY <3>1, <4>1 DEF KeysMean
      <4>2. CASE TypeOf(s, a) = ta
        <5>1. ta.ctyp = "Unseen" => EtypeOf(k.name) = "Class"
          BY <1>5, <2>1 DEF KeyMeans
        <5>2. ta.ctyp = "Unseen" => k.bits = Unknown
          BY <2>1, <2>5, <3>1, <4>2, <5>1 DEF IsClass
        <5>3. KeyMeans(k, ta, Used(t), lab)
          BY <1>5, <2>1, <5>2, GivenMeans
        <5> QED BY <3>1, <4>2, <5>3
      <4> QED BY <2>4, <4>1, <4>2
    <3>2. CASE Retyped(s, m, k, ty) /\ IsClass(s, a) /\ TypeOf(m, a) = ty
      <4>1. EtypeOf(k.name) = "Class"
        BY <2>5, <3>2 DEF IsClass
      <4>2. KeyMeans(k, ty, Used(t), lab)
        BY <1>5, <2>1, <4>1, MatchedMeans
      <4> QED BY <3>2, <4>2
    <3> QED BY <2>6, <3>1, <3>2
  <2>8. MayRetype(s, m, k, ty)
    BY <2>1, <2>6 DEF MayRetype
  <2>9. /\ Moved(t, m, a, {}) /\ KeysMean(m, lab) /\ Counted(m) /\ Used(m) = Used(t)
        /\ m.key[a] = k
    BY <1>8, <2>1, <2>7, <2>8, ResizedMoved
  <2> QED BY <2>1, <2>9
<1> QED BY <1>4, <1>7, <1>8

\* Where the limits are no negative numbers, nothing keeps an array from
\* losing its size.
LEMMA UnsizedAlways ==
  ASSUME NEW t, Counted(t), NEW a \in Used(t), a # Nouti, NEW len \in Lengths \cup {Unknown},
         SetUTISizes(t, a, Unknown, len, TRUE) = t
  PROVE  t.key[a].bits = Unknown
<1>1. Total(Unknown, len) \in Int /\ Total(Unknown, len) <= 0
  <2>1. len \in Nat => Unknown * len \in Int /\ Unknown * len <= 0
    OBVIOUS
  <2>2. len \in Lengths => len \in Nat
    BY ConstantFacts
  <2> QED BY <2>1, <2>2 DEF Total
<1>2. \A c \in Ctypes : Total(Unknown, len) <= Limit[c]
  BY <1>1, LimitAssumption
<1>3. TypeOf(t, a).ctyp \in Ctypes /\ "NotAClass" \in Ctypes
  <2>1. TypeOf(t, a) \in UlamType
    BY CountedFacts, TypeOfIsType DEF Counted
  <2> QED BY <2>1 DEF UlamType, Ctypes
<1>4. Resize(t, a, Unknown, len) = t
  BY <1>2, <1>3 DEF SetUTISizes
<1>5. PICK b, k : b = Unknown /\ k = [t.key[a] EXCEPT !.bits = b, !.arr = len]
  OBVIOUS
<1>6. t.key[a] = k
  <2> SUFFICES ASSUME t.key[a] # k PROVE FALSE
    OBVIOUS
  <2>1. b \in Sizes \cup {Unknown} /\ len \in Lengths \cup {Unknown, NonArray}
    BY <1>5
  <2>2. Rekeyed(t, Resize(t, a, b, len), a, {}, k, {[TypeOf(t, a) EXCEPT !.based = FALSE]}, a)
    BY <1>5, <2>1, ResizeTouches
  <2>3. Resize(t, a, b, len).key[a] = k
    BY <2>2 DEF Rekeyed
  <2>4. Resize(t, a, b, len) = t
    BY <1>4, <1>5
  <2> QED BY <2>3, <2>4
<1>7. t.key[a] \in Key
  BY TypedKeys
<1> QED BY <1>5, <1>6, <1>7 DEF Key

\* A holder becomes an array of a known type; its length comes later.
LEMMA HolderBecomesArray ==
  ASSUME IInv, UInv, NEW a \in Used(table) \ {Nouti}, table.key[a].name \in HolderNames,
         NEW x \in Used(table), table.key[x].name \notin HolderNames,
         IsClass(table, x) => table.key[x].name \in DOMAIN prog,
         NEW k \in Key, k.name = table.key[x].name, k.arr = Unknown,
         NEW ty \in UlamType, ty.etyp = TypeOf(table, x).etyp, KeyMeans(k, ty, Used(table), labelling)
  PROVE  \E d, q, V :
           /\ TypeFromHolder(table, prog, a, k, ty) = [tab |-> d, prog |-> q]
           /\ Moved(table, d, a, V) /\ ProgMoved(prog, q, a, V) /\ KeysMean(d, labelling)
           /\ V \subseteq EntriesOf(prog) /\ Counted(d) /\ Used(d) = Used(table)
           /\ d.key[a] = k /\ a \notin DOMAIN instances /\ a \notin EntriesOf(q)
<1>1. Counted(table) /\ KeysMean(table, labelling) /\ ProgOK(prog, table)
      /\ Understood(table, prog, instances, stubs, generated, labelling)
  BY UFacts
<1>2. table.key[a] # k /\ table.key[a].name \notin Templates \cup Classes
  BY NameFacts
<1>3. IsScalarClass(table, a) /\ ty.etyp = "Class" => k.name \in DOMAIN prog
  BY DEF IsClass
<1>4. PICK d, q, V, r :
        /\ TypeFromHolder(table, prog, a, k, ty) = [tab |-> d, prog |-> q]
        /\ Rekeyed(table, d, a, V, k, {ty}, r)
        /\ Gone(table, prog, q, a, V, table.key[a].name, IsScalarClass(table, a))
  BY <1>1, <1>2, <1>3, HolderTouches
<1>5. /\ Moved(table, d, a, V) /\ ProgMoved(prog, q, a, V) /\ KeysMean(d, labelling)
      /\ V \subseteq EntriesOf(prog) /\ Counted(d) /\ Used(d) = Used(table)
  <2>1. \A z \in {ty} : KeyMeans(k, z, Used(table), labelling)
    OBVIOUS
  <2>2. IsScalarClass(table, a) \in BOOLEAN
    BY DEF IsScalarClass, IsClass
  <2>3. IsScalarClass(table, a) => table.key[a].name \notin Templates
    BY <1>2
  <2>4. Rekeyed(table, d, a, V, k, {ty}, r)
        /\ Gone(table, prog, q, a, V, table.key[a].name, IsScalarClass(table, a))
    BY <1>4
  <2> QED BY <1>1, <2>1, <2>2, <2>3, <2>4, RekeyedMoved
<1>6. d.key[a] = k
  BY <1>4 DEF Rekeyed
<1>7. a \notin EntriesOf(q)
  <2>1. a \in EntriesOf(prog) => IsScalarClass(table, a) /\ IsUnseen(table, a)
    <3>1. ASSUME NEW n \in DOMAIN prog, prog[n] = a
          PROVE  IsScalarClass(table, a) /\ IsUnseen(table, a)
      <4>1. table.key[a].name = n /\ n \in ClassNames /\ IsScalarClass(table, a)
            /\ (n \in UTI => IsUnseen(table, a))
        BY <1>1, <3>1, EntryIsScalar
      <4>2. n \in UTI
        BY <1>2, <4>1 DEF ClassNames
      <4> QED BY <4>1, <4>2
    <3> QED BY <3>1 DEF EntriesOf
  <2> QED BY <1>1, <1>4, <2>1, LeavesTable
<1>8. a \notin DOMAIN instances
  BY <1>1, InstanceFacts
<1> QED BY <1>4, <1>5, <1>6, <1>7, <1>8

\* A table's array that was a holder takes the sizes.
LEMMA ArrayGrown ==
  ASSUME NEW g, Counted(g), NEW lab, Sizing(lab), KeysMean(g, lab), NEW a \in Used(g) \ {Nouti},
         g.key[a].name \notin HolderNames, g.key[a].arr = Unknown,
         NEW b \in Sizes \cup {Unknown}, NEW len \in Lengths \cup {Unknown},
         NEW c \in Ctypes, EtypeOf(g.key[a].name) = "Class" => c # "NotAClass",
         c = "Unseen" => b = Unknown /\ g.key[a].bits = Unknown,
         NEW h, NEW e, SizedArray(g, a, b, len, c, h, e)
  PROVE  /\ Moved(g, e, a, {}) /\ KeysMean(e, lab) /\ Counted(e) /\ Used(e) = Used(g)
         /\ e.key[a].name = g.key[a].name /\ ~ScalarClassKey(e.key[a])
<1>1. PICK tm : tm = MkType("Class", c)
  OBVIOUS
<1>2. PICK k, r : k = g.key[a] /\ r = g.root[a]
  OBVIOUS
<1>3. ~IsComplete(g, a) /\ ~ScalarClassKey(k)
  BY <1>2, ConstantFacts, Answers DEF ScalarClassKey
<1>4. \/ e = g
      \/ /\ Retyped(g, e, g.key[a], tm) /\ KeyMeans(g.key[a], tm, Used(g), lab)
         /\ TypeOf(e, a) = tm /\ EtypeOf(g.key[a].name) = "Class"
      \/ /\ Moved(g, e, a, {}) /\ KeysMean(e, lab) /\ Counted(e) /\ Used(e) = Used(g)
         /\ e.key[a].name = g.key[a].name /\ ~ScalarClassKey(e.key[a])
  <2>1. /\ c = "Unseen" => b = Unknown
        /\ h = g /\ c = "Unseen" => g.key[a].bits = Unknown
    OBVIOUS
  <2> QED BY <1>1, <1>3, <2>1, ArraySized
<1>5. ASSUME MayRetype(g, e, k, tm), KeyMeans(k, TypeOf(e, a), Used(g), lab)
      PROVE  /\ Moved(g, e, a, {}) /\ KeysMean(e, lab) /\ Counted(e) /\ Used(e) = Used(g)
             /\ e.key[a] = k
  <2>1. Rekeyed(g, g, a, {}, k, {}, r)
    BY <1>2 DEF Rekeyed, Untouched
  <2> QED BY <1>3, <1>5, <2>1, ResizedMoved
<1>6. CASE e = g
  <2>1. KeyMeans(k, TypeOf(e, a), Used(g), lab)
    BY <1>2, <1>6, Answers
  <2>2. MayRetype(g, e, k, tm)
    BY <1>6 DEF MayRetype
  <2> QED BY <1>2, <1>3, <1>5, <2>1, <2>2
<1>7. CASE /\ Retyped(g, e, g.key[a], tm) /\ KeyMeans(g.key[a], tm, Used(g), lab)
           /\ TypeOf(e, a) = tm /\ EtypeOf(g.key[a].name) = "Class"
  <2>1. KeyMeans(k, TypeOf(e, a), Used(g), lab) /\ MayRetype(g, e, k, tm)
    BY <1>2, <1>7 DEF MayRetype
  <2> QED BY <1>2, <1>3, <1>5, <2>1
<1>8. CASE /\ Moved(g, e, a, {}) /\ KeysMean(e, lab) /\ Counted(e) /\ Used(e) = Used(g)
           /\ e.key[a].name = g.key[a].name /\ ~ScalarClassKey(e.key[a])
  BY <1>8
<1> QED BY <1>4, <1>6, <1>7, <1>8

\* The array and its scalar, by SizeArray's guard.
ArrayOf(a, s, b, c, ty) ==
  /\ a \in Used(table) \ {Nouti} /\ ~table.key[a].ref /\ ~IsComplete(table, a)
  /\ s \in Used(table) /\ table.key[s].bits = b /\ table.key[s].name \notin HolderNames
  /\ IsClass(table, s) => table.key[s].name \in DOMAIN prog
  /\ ty \in UlamType /\ ty.etyp = TypeOf(table, s).etyp /\ ty.ctyp = c
  /\ KeyMeans(table.key[s], ty, Used(table), labelling)
  /\ c = "Unseen" => b = Unknown

\* A holder is an array of s.
LEMMA ArrayOfHolder ==
  ASSUME IInv, UInv, Sizing(labelling), NEW a, NEW s, NEW b \in Sizes \cup {Unknown}, NEW c \in Ctypes,
         NEW ty, ArrayOf(a, s, b, c, ty), table.key[a].name \in HolderNames,
         NEW k \in Key, k.name = table.key[s].name, k.bits = b, k.arr = Unknown,
         k.inst = table.key[s].inst,
         NEW len \in Lengths \cup {Unknown}, NEW g, NEW p, NEW h, NEW e,
         TypeFromHolder(table, prog, a, k, ty) = [tab |-> g, prog |-> p],
         SizedArray(g, a, b, len, c, h, e)
  PROVE  /\ Understood(e, p, instances, stubs, generated, labelling)
         /\ Keeps(table, e)
<1>1. Counted(table) /\ KeysMean(table, labelling) /\ Nouti \in Used(table)
      /\ Understood(table, prog, instances, stubs, generated, labelling)
  BY UFacts
<1>2. /\ a \in Used(table) \ {Nouti} /\ ~table.key[a].ref
      /\ s \in Used(table) /\ table.key[s].bits = b /\ table.key[s].name \notin HolderNames
      /\ (IsClass(table, s) => table.key[s].name \in DOMAIN prog)
      /\ ty \in UlamType /\ ty.etyp = TypeOf(table, s).etyp /\ ty.ctyp = c
      /\ KeyMeans(table.key[s], ty, Used(table), labelling)
      /\ (c = "Unseen" => b = Unknown)
  BY DEF ArrayOf
<1>3. KeyMeans(k, ty, Used(table), labelling)
  <2>1. k.name \notin HolderNames /\ (ty.ctyp = "Unseen" => k.bits = Unknown)
    BY <1>2
  <2> QED BY <1>2, <2>1, GivenMeans
<1>4. PICK d, q, V :
        /\ TypeFromHolder(table, prog, a, k, ty) = [tab |-> d, prog |-> q]
        /\ Moved(table, d, a, V) /\ ProgMoved(prog, q, a, V) /\ KeysMean(d, labelling)
        /\ V \subseteq EntriesOf(prog) /\ Counted(d) /\ Used(d) = Used(table)
        /\ d.key[a] = k /\ a \notin DOMAIN instances /\ a \notin EntriesOf(q)
  <2>1. IsClass(table, s) => table.key[s].name \in DOMAIN prog
    BY <1>2
  <2> QED BY <1>2, <1>3, <2>1, HolderBecomesArray
<1>5. d = g /\ q = p
  BY <1>4
<1>6. /\ Moved(table, g, a, V) /\ ProgMoved(prog, p, a, V) /\ KeysMean(g, labelling)
      /\ V \subseteq EntriesOf(prog) /\ Counted(g) /\ Used(g) = Used(table)
      /\ g.key[a] = k /\ a \notin DOMAIN instances /\ a \notin EntriesOf(p)
  BY <1>4, <1>5
<1>7. /\ Moved(g, e, a, {}) /\ KeysMean(e, labelling) /\ Counted(e) /\ Used(e) = Used(g)
      /\ e.key[a].name = g.key[a].name /\ ~ScalarClassKey(e.key[a])
  <2>1. a \in Used(g) \ {Nouti} /\ g.key[a].name \notin HolderNames /\ g.key[a].arr = Unknown
    BY <1>2, <1>6
  <2>2. EtypeOf(g.key[a].name) = "Class" => c # "NotAClass"
    BY <1>2, <1>6 DEF KeyMeans
  <2>3. c = "Unseen" => b = Unknown /\ g.key[a].bits = Unknown
    BY <1>2, <1>6
  <2>4. Counted(g) /\ KeysMean(g, labelling)
    BY <1>6
  <2> QED BY <2>1, <2>2, <2>3, <2>4, ArrayGrown
<1>8. Moved(table, e, a, V)
  <2>1. a \in Used(table)
    BY <1>2
  <2> QED BY <1>6, <1>7, <2>1, MovedAgain
<1>9. OwnName(e, a) /\ Stays(table, e, a)
  <2>1. e.key[a].name \notin HolderNames /\ ~IsComplete(table, a)
    BY <1>2, <1>6, <1>7 DEF ArrayOf
  <2> QED BY <2>1 DEF OwnName, HolderNames, Stays
<1>10. e.key[a].name \in Templates => e.key[a].name \in DOMAIN prog
  <2>1. EnteredOK(table, prog, s)
    BY <1>1, <1>2 DEF Understood
  <2> QED BY <1>2, <1>6, <1>7, <2>1 DEF EnteredOK
<1>11. Understood(e, p, instances, stubs, generated, labelling)
  <2>1. a \in Used(table) /\ generated \ {a} \subseteq generated
    BY <1>2
  <2>2. Understood(table, prog, instances, stubs, generated, labelling) /\ KeysMean(e, labelling)
        /\ ~ScalarClassKey(e.key[a])
    BY <1>1, <1>7
  <2>3. ProgMoved(prog, p, a, V) /\ V \subseteq EntriesOf(prog) /\ a \notin DOMAIN instances
        /\ a \notin EntriesOf(p)
    BY <1>6
  <2> QED BY <1>8, <1>9, <1>10, <2>1, <2>2, <2>3, PlainUnderstood
<1> QED BY <1>8, <1>9, <1>11, MovedKeeps

\* An array of s that was one already.
LEMMA ArrayOfArray ==
  ASSUME IInv, UInv, Sizing(labelling), NEW a, NEW s, NEW b \in Sizes \cup {Unknown}, NEW c \in Ctypes,
         NEW ty, ArrayOf(a, s, b, c, ty), table.key[a].name = table.key[s].name,
         table.key[a].arr # NonArray,
         NEW len \in Lengths \cup {Unknown}, NEW h, NEW e, SizedArray(table, a, b, len, c, h, e)
  PROVE  /\ Understood(e, prog, instances, stubs, generated, labelling)
         /\ Keeps(table, e)
<1>1. Counted(table) /\ KeysMean(table, labelling) /\ Nouti \in Used(table)
      /\ Understood(table, prog, instances, stubs, generated, labelling)
  BY UFacts
<1>2. /\ a \in Used(table) \ {Nouti} /\ ~IsComplete(table, a)
      /\ table.key[a].name \notin HolderNames
      /\ EtypeOf(table.key[a].name) = "Class" => c # "NotAClass"
      /\ c = "Unseen" => b = Unknown
      /\ ~ScalarClassKey(table.key[a])
  BY DEF ArrayOf, KeyMeans, ScalarClassKey
<1>3. PICK tm : tm = MkType("Class", c)
  OBVIOUS
<1>4. h = table /\ c = "Unseen" => table.key[a].bits = Unknown
  <2> SUFFICES ASSUME h = table, c = "Unseen" PROVE table.key[a].bits = Unknown
    OBVIOUS
  <2>1. SetUTISizes(table, a, Unknown, len, TRUE) = table
    BY <1>2 DEF SizedArray
  <2> QED BY <1>1, <1>2, <2>1, UnsizedAlways
<1>5. \/ e = table
      \/ /\ Retyped(table, e, table.key[a], tm) /\ KeyMeans(table.key[a], tm, Used(table), labelling)
         /\ TypeOf(e, a) = tm /\ EtypeOf(table.key[a].name) = "Class"
      \/ /\ Moved(table, e, a, {}) /\ KeysMean(e, labelling) /\ Counted(e) /\ Used(e) = Used(table)
         /\ e.key[a].name = table.key[a].name /\ ~ScalarClassKey(e.key[a])
  <2>1. a \in Used(table) \ {Nouti} /\ ~IsComplete(table, a) /\ table.key[a].name \notin HolderNames
    BY <1>2
  <2>2. EtypeOf(table.key[a].name) = "Class" => c # "NotAClass"
    BY <1>2
  <2>3. c = "Unseen" => b = Unknown
    BY <1>2
  <2>4. Counted(table) /\ KeysMean(table, labelling)
    BY <1>1
  <2> QED BY <1>3, <1>4, <2>1, <2>2, <2>3, <2>4, ArraySized
<1>6. CASE e = table
  BY <1>1, <1>6 DEF Keeps, Stays
<1>7. a \notin DOMAIN instances /\ a \notin EntriesOf(prog)
  BY <1>1, <1>2, NoScalarFacts
<1>8. CASE /\ Retyped(table, e, table.key[a], tm) /\ KeyMeans(table.key[a], tm, Used(table), labelling)
           /\ TypeOf(e, a) = tm /\ EtypeOf(table.key[a].name) = "Class"
  <2>1. table.key[a].name # NoName
    BY <1>8, NameFacts
  <2>2. table.key[a].bits = Unknown \/ table.key[a].arr = Unknown
    BY <1>1, <1>2, <2>1, NoScalarFacts
  <2> QED BY <1>1, <1>8, <2>2, UnsizedRetyped
<1>9. CASE /\ Moved(table, e, a, {}) /\ KeysMean(e, labelling) /\ Counted(e) /\ Used(e) = Used(table)
           /\ e.key[a].name = table.key[a].name /\ ~ScalarClassKey(e.key[a])
  <2>1. a \in Used(table) /\ Stays(table, e, a)
    BY <1>2 DEF Stays
  <2>2. Understood(e, prog, instances, stubs, generated, labelling)
    BY <1>1, <1>7, <1>9, <2>1, ResizedUnderstood
  <2> QED BY <1>9, <2>1, <2>2, MovedKeeps
<1> QED BY <1>5, <1>6, <1>8, <1>9

\* NodeTypeDescriptorArray::resolveType: an array, or a holder that becomes one,
\* is sized.
LEMMA SizeArrayUnderstood ==
  ASSUME IInv, UInv, NEW a \in UTI, NEW s \in UTI, NEW n \in Lengths \cup {Unknown}, SizeArray(a, s, n)
  PROVE  UInv' /\ Keeps(table, table')
<1>1. /\ Counted(table) /\ KeysMean(table, labelling) /\ Nouti \in Used(table)
      /\ parsing = {} /\ Sizing(labelling)
      /\ UNCHANGED <<instances, stubs, generated, parsing, labelling>>
  BY UFacts DEF SizeArray, Sizing
<1>2. /\ a \in Used(table) \ {Nouti} /\ ~table.key[a].ref /\ ~IsComplete(table, a)
      /\ s \in Used(table) /\ ~table.key[s].ref /\ KnownType(s)
      /\ \/ IsHolder(table, a)
         \/ ~IsScalar(table, a) /\ table.key[a].name = table.key[s].name
  BY DEF SizeArray, Held
<1>3. table.key[s] \in Key /\ table.key[a] \in Key
  BY <1>1, <1>2, TypedKeys
<1>4. PICK b, c, ty, len :
        /\ b = table.key[s].bits /\ ty = [TypeOf(table, s) EXCEPT !.based = FALSE] /\ c = ty.ctyp
        /\ len = IF table.key[a].arr >= 0 THEN table.key[a].arr ELSE n
  OBVIOUS
<1>5. /\ ty \in UlamType /\ ty.etyp = TypeOf(table, s).etyp
      /\ KeyMeans(table.key[s], ty, Used(table), labelling)
  BY <1>1, <1>2, <1>4, TypeGiven
<1>6. b \in Sizes \cup {Unknown} /\ c \in Ctypes
  BY <1>3, <1>4, <1>5 DEF Key, UlamType
<1>7. len \in Lengths \cup {Unknown}
  BY <1>3, <1>4 DEF Key
<1>8. ArrayOf(a, s, b, c, ty)
  <2>1. table.key[s].name \notin HolderNames
    BY <1>1, <1>2, Answers DEF KnownType
  <2>2. c = "Unseen" => b = Unknown
    BY <1>4, <1>5 DEF KeyMeans
  <2>3. IsClass(table, s) => table.key[s].name \in DOMAIN prog
    BY <1>2 DEF KnownType
  <2> QED BY <1>2, <1>4, <1>5, <2>1, <2>2, <2>3 DEF ArrayOf
<1>9. CASE IsHolder(table, a)
  <2>1. table.key[a].name \in HolderNames /\ KeyMeans(table.key[a], TypeOf(table, a), Used(table), labelling)
    BY <1>1, <1>2, <1>9, Answers
  <2>2. table.key[a].arr < 0
    BY <2>1 DEF KeyMeans
  <2>3. PICK k : k = [table.key[s] EXCEPT !.arr = Unknown, !.ref = table.key[a].ref]
    OBVIOUS
  <2>4. /\ k \in Key /\ k.name = table.key[s].name /\ k.bits = b /\ k.arr = Unknown
        /\ k.inst = table.key[s].inst
    BY <1>2, <1>3, <1>4, <2>3 DEF Key
  <2>5. PICK g, p : TypeFromHolder(table, prog, a, k, ty) = [tab |-> g, prog |-> p]
    BY DEF TypeFromHolder, RemoveIncompleteClass
  <2>6. PICK h, e : h = SetUTISizes(g, a, b, len, TRUE) /\ e = Matched(h, a, c)
    OBVIOUS
  <2>7. SizedArray(g, a, b, len, c, h, e)
    BY <2>6 DEF SizedArray
  <2>8. table' = e /\ prog' = p
    <3>1. PICK given, l, w :
            /\ given = IF IsHolder(table, a) /\ table.key[a].arr < 0
                       THEN TypeFromHolder(table, prog, a,
                              [table.key[s] EXCEPT !.arr = Unknown, !.ref = table.key[a].ref],
                              [TypeOf(table, s) EXCEPT !.based = FALSE])
                       ELSE [tab |-> table, prog |-> prog]
            /\ l = (IF table.key[a].arr >= 0 THEN table.key[a].arr ELSE n)
            /\ w = [TypeOf(table, s) EXCEPT !.based = FALSE]
      OBVIOUS
    <3>2. /\ table' = Matched(SetUTISizes(given.tab, a, table.key[s].bits, l, TRUE), a, w.ctyp)
          /\ prog' = given.prog
      BY <3>1 DEF SizeArray, Matched
    <3>3. l = len /\ w = ty
      BY <1>4, <3>1
    <3>4. given = TypeFromHolder(table, prog, a, k, ty)
      BY <1>4, <1>9, <2>2, <2>3, <3>1
    <3>5. given.tab = g /\ given.prog = p
      BY <2>5, <3>4
    <3> QED BY <1>4, <2>6, <3>2, <3>3, <3>5
  <2>9. /\ Understood(e, p, instances, stubs, generated, labelling)
        /\ Keeps(table, e)
    BY <1>1, <1>6, <1>7, <1>8, <2>1, <2>4, <2>5, <2>7, ArrayOfHolder
  <2> QED BY <1>1, <2>8, <2>9 DEF UInv, ParsedIsEntered
<1>10. CASE ~IsHolder(table, a)
  <2>1. table.key[a].name = table.key[s].name /\ table.key[a].arr # NonArray
    BY <1>2, <1>10 DEF IsScalar
  <2>2. PICK h, e : h = SetUTISizes(table, a, b, len, TRUE) /\ e = Matched(h, a, c)
    OBVIOUS
  <2>3. SizedArray(table, a, b, len, c, h, e)
    BY <2>2 DEF SizedArray
  <2>4. table' = e /\ prog' = prog
    BY <1>4, <1>10, <2>2 DEF SizeArray, Matched
  <2>5. /\ Understood(e, prog, instances, stubs, generated, labelling)
        /\ Keeps(table, e)
    BY <1>1, <1>6, <1>7, <1>8, <2>1, <2>3, ArrayOfArray
  <2> QED BY <1>1, <2>4, <2>5 DEF UInv, ParsedIsEntered
<1> QED BY <1>9, <1>10

\* The base types mean what their names say.
LEMMA BaseTypesMean ==
  /\ KeyMeans(NoKey, NoType, {0, 1, 2}, FALSE)
  /\ KeyMeans(PrimKey, PrimType, {0, 1, 2}, FALSE)
  /\ KeyMeans(HolderKey, HolderType, {0, 1, 2}, FALSE)
<1>1. /\ NoKey.name = NoName /\ NoKey.inst = 0 /\ NoKey.arr < 0
      /\ PrimKey.name = PrimName /\ PrimKey.inst = 0 /\ PrimKey.arr < 0
      /\ HolderKey.name = HolderName /\ HolderKey.inst = 0 /\ HolderKey.arr < 0
  BY DEF NoKey, PrimKey, HolderKey, MkKey
<1>2. /\ NoType.etyp = "Nouti" /\ NoType.ctyp = "NotAClass"
      /\ PrimType.etyp = "Prim" /\ PrimType.ctyp = "NotAClass"
      /\ HolderType.etyp = "Holder" /\ HolderType.ctyp = "NotAClass"
  BY DEF NoType, PrimType, HolderType, MkType
<1>3. NoName \notin UTI /\ PrimName \notin UTI /\ HolderName \notin UTI
  BY NamesDiffer
<1> QED BY <1>1, <1>2, <1>3, NameFacts DEF KeyMeans

\* The base types mean what they should.
LEMMA InitiallyUnderstood == Init => UInv
<1> SUFFICES ASSUME Init PROVE UInv
  OBVIOUS
<1>1. table.size = 3 /\ Used(table) = {0, 1, 2}
  <2>1. table.size = 3
    BY DEF Init
  <2> QED BY <2>1 DEF Used
<1>2. {0, 1, 2} \subseteq UTI
  BY ConstantFacts DEF UTI
<1>3. /\ table.key[0] = NoKey /\ table.key[1] = PrimKey /\ table.key[2] = HolderKey
  BY <1>2 DEF Init, BaseKey
<1>4. KeysMean(table, FALSE)
  <2>1. table.typ = [k \in {NoKey, PrimKey, HolderKey} |->
                       IF k = NoKey THEN NoType ELSE IF k = PrimKey THEN PrimType ELSE HolderType]
    BY DEF Init
  <2>2. NoKey # PrimKey /\ NoKey # HolderKey /\ PrimKey # HolderKey
    BY NamesDiffer DEF NoKey, PrimKey, HolderKey, MkKey
  <2> QED BY <1>1, <2>1, <2>2, BaseTypesMean DEF KeysMean
<1>5. \A x \in Used(table) : ~ScalarClassKey(table.key[x]) /\ table.key[x].name \notin Templates
  <2>1. NoKey.name = NoName /\ PrimKey.name = PrimName /\ HolderKey.name = HolderName
    BY DEF NoKey, PrimKey, HolderKey, MkKey
  <2> QED BY <1>1, <1>3, <2>1, NamesDiffer, NameFacts DEF ScalarClassKey
<1>6. \A x \in Used(table) : EnteredOK(table, prog, x)
  BY <1>5 DEF EnteredOK
<1>7. AnonymousOwn(table, generated)
  BY DEF Init, AnonymousOwn
<1>8. /\ DOMAIN instances = {} /\ DOMAIN prog = {} /\ parsing = {} /\ ~labelling /\ labelling \in BOOLEAN
  BY DEF Init
<1>9. InstancesOK(table, prog, instances, stubs, generated)
  BY <1>8 DEF InstancesOK
<1>10. KeysMean(table, labelling)
  BY <1>4 DEF Init
<1> QED BY <1>6, <1>7, <1>8, <1>9, <1>10 DEF UInv, Understood, ParsedIsEntered

\* Every handler, whole, keeps what is known of the UTIs, and what is known of
\* one stays known and the same.
LEMMA UnderstoodStep ==
  ASSUME IInv, UInv, [Next]_vars
  PROVE  UInv' /\ KeepsBut(table, table', generated \ generated')
<1>1. ASSUME NEW td \in BOOLEAN, NEW c \in BOOLEAN, MakeHolder(td, c) PROVE UInv' /\ KeepsBut(table, table', generated \ generated')
  BY <1>1, MakeHolderUnderstood, KeepsAll
<1>2. ASSUME NEW c \in Classes \cup Templates,
             \/ AddIncompleteClass(c)
             \/ \E ct \in {"Quark", "Element"} : SeeClass(c, ct)
             \/ FinishClass(c)
             \/ FailClass(c)
      PROVE  UInv' /\ KeepsBut(table, table', generated \ generated')
  BY <1>2, AddIncompleteClassUnderstood, SetClassUnderstood, FinishClassUnderstood, KeepsAll
<1>3. ASSUME NEW u \in UTI, NEW b \in Sizes \ {0}, NEW ref \in BOOLEAN, TypedefOfPrimitive(u, b, ref)
      PROVE  UInv' /\ KeepsBut(table, table', generated \ generated')
  BY <1>3, TypedefOfPrimitiveUnderstood, KeepsAll
<1>4. ASSUME NEW c \in Templates, MakeStub(c) PROVE UInv' /\ KeepsBut(table, table', generated \ generated')
  BY <1>4, MakeStubUnderstood, KeepsAll
<1>5. CASE StartLabelling
  BY <1>5, StartLabellingUnderstood, KeepsAll
<1>6. CASE Derive
  BY <1>6, DeriveUnderstood, KeepsAll DEF Derive
<1>7. ASSUME NEW h \in UTI, NEW u \in UTI,
             \/ CleanupExistingHolder(h, u)
             \/ ReplaceGeneratedTypedef(h, u)
             \/ LinkTypedef(h, u)
      PROVE  UInv' /\ KeepsBut(table, table', generated \ generated')
  BY <1>7, CleanupUnderstood, ReplaceGeneratedUnderstood, LinkTypedefUnderstood, KeepsAll
<1>8. ASSUME NEW s \in UTI, NEW u \in UTI, AliasStub(s, u) \/ MergeStub(s, u)
      PROVE  UInv' /\ KeepsBut(table, table', generated \ generated')
  BY <1>8, AliasStubUnderstood, MergeStubUnderstood, KeepsAll
<1>9. ASSUME NEW s \in UTI, Instantiate(s) PROVE UInv' /\ KeepsBut(table, table', generated \ generated')
  BY <1>9, InstantiateUnderstood, KeepsAll
<1>10. ASSUME NEW c \in Classes, NEW b \in Sizes, SizeClass(c, b) PROVE UInv' /\ KeepsBut(table, table', generated \ generated')
  BY <1>10, SizeClassUnderstood, KeepsAll
<1>11. ASSUME NEW u \in UTI, NEW b \in Sizes, SizeInstance(u, b) PROVE UInv' /\ KeepsBut(table, table', generated \ generated')
  BY <1>11, SizeInstanceUnderstood, KeepsAll
<1>12. ASSUME NEW r \in UTI, NEW u \in UTI, CompleteAReference(r, u) PROVE UInv' /\ KeepsBut(table, table', generated \ generated')
  BY <1>12, CompleteAReferenceUnderstood, KeepsAll
<1>13. ASSUME NEW a \in UTI, NEW s \in UTI, NEW n \in Lengths \cup {Unknown}, SizeArray(a, s, n)
       PROVE  UInv' /\ KeepsBut(table, table', generated \ generated')
  BY <1>13, SizeArrayUnderstood, KeepsAll
<1>14. CASE UNCHANGED vars
  <2>1. table' = table /\ UNCHANGED <<prog, instances, stubs, generated, parsing, labelling>>
    BY <1>14 DEF vars
  <2>2. Keeps(table, table')
    BY <2>1 DEF Keeps, Stays
  <2>3. KeepsBut(table, table', generated \ generated')
    BY <2>2, KeepsAll
  <2> QED BY <2>1, <2>3 DEF UInv, ParsedIsEntered
<1> QED BY <1>1, <1>2, <1>3, <1>4, <1>5, <1>6, <1>7, <1>8, <1>9, <1>10, <1>11, <1>12, <1>13, <1>14
        DEF Next, Parse, Label

\* Hence both invariants hold in every state.
LEMMA Understanding == Spec => [](IInv /\ UInv)
<1>1. Init => IInv /\ UInv
  BY Initially, InitiallyUnderstood
<1>2. IInv /\ UInv /\ [Next]_vars => IInv' /\ UInv'
  BY TypedefsOwnEntries, Inductive, UnderstoodStep
<1> QED BY <1>1, <1>2, PTL DEF Spec

-----------------------------------------------------------------------------
(* The theorems.                                                           *)

\* The types of the containers hold: a stub, and what it is merged into, are
\* instances, and every symbol of a class has a type of its own.
THEOREM TypeCorrect == Spec => []TypeOK
<1>1. IInv => TypeOK
  BY DEF IInv
<1> QED BY <1>1, Understanding, PTL

\* incrementUTICounter and decrementUTICounter pair up: the users of a key are
\* those whose entry it is, over any sequence of handlers.
THEOREM CountsStayExact == Spec => []KeyCountsExact
<1>1. IInv => KeyCountsExact
  BY DEF IInv, Counted, CountedBut, KeyCountsExact, CountsExact
<1> QED BY <1>1, Understanding, PTL

\* deleteUlamKeyTypeSignature never leaves an index whose UlamType is gone, nor
\* an UlamType nobody uses.
THEOREM NothingDangles == Spec => []NoDanglingKey
<1>1. IInv => NoDanglingKey
  BY DEF IInv, Counted, CountedBut, NoDanglingKey
<1> QED BY <1>1, Understanding, PTL

\* m_programDefST and the type table agree whatever is parsed, guessed and
\* taken back.
THEOREM ProgramTableAgrees == Spec => []ProgramTableNamesClasses
<1>1. ASSUME IInv, UInv PROVE ProgramTableNamesClasses
  <2>1. /\ Counted(table) /\ KeysMean(table, labelling)
        /\ Understood(table, prog, instances, stubs, generated, labelling)
    BY <1>1, UFacts
  <2>2. ASSUME NEW n \in DOMAIN prog PROVE IsClass(table, prog[n]) /\ table.key[prog[n]].name = n
    <3>1. /\ prog[n] \in Used(table) /\ table.key[prog[n]].name = n /\ n \in ClassNames
      BY <2>1 DEF Understood, EntryOK
    <3> QED BY <2>1, <3>1, NameFacts, Answers
  <2>3. ASSUME NEW u \in Used(table), IsScalarClass(table, u), IsRoot(table, u)
        PROVE  table.key[u].name \in DOMAIN prog
    <3>1. ScalarClassKey(table.key[u])
      BY <2>1, <2>3, Answers
    <3> QED BY <2>1, <2>3, <3>1 DEF Understood, EnteredOK, IsRoot
  <2> QED BY <2>2, <2>3 DEF ProgramTableNamesClasses
<1> QED BY <1>1, Understanding, PTL

\* What is known of a type is never lost or changed by what happens to the
\* keys and UlamTypes it shares, except of a typedef that the parser made up,
\* and of that one only by the label of its own declaration.
THEOREM KnownTypesStay == Spec => KnownTypeStays
<1> DEFINE A == \A u \in UTI :
                  u \in Complete => \/ u \in Complete' /\ table'.key[u] = table.key[u]
                                   \/ u \in generated \ generated'
<1>1. IInv /\ UInv /\ [Next]_vars => [A]_vars
  <2> SUFFICES ASSUME IInv, UInv, [Next]_vars PROVE A
    OBVIOUS
  <2>1. KeepsBut(table, table', generated \ generated')
    BY UnderstoodStep
  <2> QED BY <2>1 DEF KeepsBut, Stays, Complete
<1> QED BY <1>1, Understanding, PTL DEF Spec, KnownTypeStays

=============================================================================
