--------------------------- MODULE SourceLoadProofs ---------------------------
(* For all files, in whatever order they are given, load and mention each  *)
(* other.  No class whose file exists is left unseen, because until it is  *)
(* seen it waits for the next round, in this one or in the file at hand.   *)
(* The local definitions of a file are those of it and of what it loads,   *)
(* because each item below the place where an open file is read has given  *)
(* all of its definitions, and a file that was read to its end is in no    *)
(* circle of loads.  And a program of the usual form is not rejected.      *)
EXTENDS SourceLoad, Induction, FiniteSetTheorems, SequenceTheorems, TLAPS

\* The part of the state that a class is found with.
TableTypes ==
  /\ prog \in Programs
  /\ toCompile \in Seq(Class)
  /\ table \in [Class -> {"unknown", "unseen", "seen"}]
  /\ unseenIds \subseteq Class

Awaited(c) ==
  \/ c \in unseenIds
  \/ c \in ToSet(toCompile)
  \/ startstr # << >> /\ startstr[1] = c

UnseenIsAwaited ==
  phase = "parse" => \A c \in Class : table[c] = "unseen" /\ Exists(c) => Awaited(c)

IInv == TableTypes /\ UnseenIsAwaited /\ NoFileForgotten

\* A set put in an order keeps all its elements.
LEMMA OrderedSet ==
  ASSUME NEW S, IsFiniteSet(S), NEW s \in SetToSeqs(S)
  PROVE  s \in Seq(S) /\ ToSet(s) = S
<1> DEFINE D == 1 .. Cardinality(S)
<1>1. Cardinality(S) \in Nat  BY FS_CardinalityType
<1>2. s \in [D -> S] /\ \A i, j \in D : i # j => s[i] # s[j]  BY DEF SetToSeqs
<1>3. s \in Injection(D, S)  BY <1>2 DEF Injection, IsInjective
<1>4. IsFiniteSet(D) /\ Cardinality(D) = Cardinality(S)  BY <1>1, FS_Interval
<1>5. s \in Surjection(D, S)  BY <1>3, <1>4, FS_Injection
<1> QED  BY <1>1, <1>2, <1>5 DEF Surjection, ToSet

\* The elements of a sequence are its first one and those of the rest.
LEMMA HeadAndTail ==
  ASSUME NEW S, NEW s \in Seq(S), s # << >>
  PROVE  Tail(s) \in Seq(S) /\ ToSet(s) = {Head(s)} \cup ToSet(Tail(s))
<1>1. /\ Tail(s) \in Seq(S) /\ Len(s) \in Nat \ {0} /\ Len(Tail(s)) = Len(s) - 1 /\ Head(s) = s[1]
      /\ \A i \in 1 .. Len(Tail(s)) : Tail(s)[i] = s[i + 1]
  BY HeadTailProperties, EmptySeq
<1>2. DOMAIN s = 1 .. Len(s) /\ DOMAIN Tail(s) = 1 .. Len(Tail(s))  BY <1>1
<1>3. ASSUME NEW i \in DOMAIN s PROVE s[i] = Head(s) \/ s[i] \in ToSet(Tail(s))
  <2>1. CASE i = 1  BY <1>1, <2>1
  <2>2. CASE i # 1
    <3>1. i - 1 \in DOMAIN Tail(s)  BY <1>1, <1>2, <2>2
    <3>2. Tail(s)[i - 1] = s[i]  BY <1>1, <1>2, <3>1
    <3> QED  BY <3>1, <3>2 DEF ToSet
  <2> QED  BY <2>1, <2>2
<1>4. \A i \in DOMAIN Tail(s) : i + 1 \in DOMAIN s /\ Tail(s)[i] = s[i + 1]  BY <1>1, <1>2
<1>5. Head(s) \in ToSet(s)  BY <1>1, <1>2 DEF ToSet
<1>6. ToSet(Tail(s)) \subseteq ToSet(s)  BY <1>4 DEF ToSet
<1>7. ToSet(s) \subseteq {Head(s)} \cup ToSet(Tail(s))  BY <1>3 DEF ToSet
<1> QED  BY <1>1, <1>5, <1>6, <1>7

\* What is mentioned is remembered, and what was known before stays known.
LEMMA Mentioned ==
  ASSUME NEW M, NEW t \in [Class -> {"unknown", "unseen", "seen"}]
  PROVE  /\ Mention(M, t) \in [Class -> {"unknown", "unseen", "seen"}]
         /\ \A c \in Class : t[c] = "seen" => Mention(M, t)[c] = "seen"
BY DEF Mention

\* At first nothing was mentioned.
LEMMA InitHasNoneUnseen == Init => IInv
<1> SUFFICES ASSUME Init PROVE IInv  OBVIOUS
<1>1. TableTypes  BY ProgramsAssumption DEF Init, TableTypes
<1> QED  BY <1>1 DEF Init, IInv, UnseenIsAwaited, NoFileForgotten

\* A file that is dropped has shown its class, the others are at hand next.
LEMMA CompileFileKeeps ==
  ASSUME IInv, CompileFile PROVE IInv'
<1> DEFINE f == Head(toCompile)
<1>1. /\ toCompile \in Seq(Class) /\ toCompile # << >> /\ startstr = << >> /\ phase = "parse"
      /\ UNCHANGED <<prog, table, unseenIds>>
  BY DEF IInv, TableTypes, CompileFile, Fail
<1>2. Tail(toCompile) \in Seq(Class) /\ ToSet(toCompile) = {f} \cup ToSet(Tail(toCompile))
  BY <1>1, HeadAndTail
<1>3. \/ table[f] # "unseen" /\ toCompile' = Tail(toCompile) /\ startstr' = startstr /\ phase' = phase
      \/ startstr' = <<f>> /\ toCompile' = Tail(toCompile) /\ phase' = phase
      \/ phase' = "error" /\ toCompile' = toCompile
  BY DEF CompileFile, Fail
<1>4. TableTypes'  BY <1>1, <1>2, <1>3 DEF IInv, TableTypes
<1>5. UnseenIsAwaited'
  <2> SUFFICES ASSUME phase' = "parse", NEW c \in Class, table[c] = "unseen", Exists(c)
               PROVE  Awaited(c)'
    BY <1>1 DEF UnseenIsAwaited, Exists, text
  <2>1. Awaited(c)  BY <1>1 DEF IInv, UnseenIsAwaited
  <2>2. /\ c \in unseenIds \/ c = f \/ c \in ToSet(Tail(toCompile))
        /\ toCompile' = Tail(toCompile) /\ (startstr' = <<f>> \/ c # f)
    BY <1>1, <1>2, <1>3, <2>1 DEF Awaited
  <2>3. ToSet(Tail(toCompile)) = ToSet(toCompile')  BY <2>2
  <2>4. startstr' = <<f>> => startstr' # << >> /\ startstr'[1] = f  OBVIOUS
  <2> QED  BY <1>1, <2>2, <2>3, <2>4 DEF Awaited
<1>6. NoFileForgotten'  BY <1>1, <1>3 DEF NoFileForgotten
<1> QED  BY <1>4, <1>5, <1>6 DEF IInv

\* An item shows a class, or mentions some, or does neither.
LEMMA ParseItemKeeps ==
  ASSUME IInv, NEW item, ParseItem(item) PROVE IInv'
<1>1. TableTypes /\ UnseenIsAwaited /\ phase = "parse"  BY DEF IInv, ParseItem, Reads
<1>2. CASE LoadFile(item) \/ UseFile(item)
  <2>1. UNCHANGED <<prog, toCompile, startstr, table, unseenIds>> /\ phase' \in {"parse", "error"}
    BY <1>1, <1>2 DEF LoadFile, UseFile
  <2> QED
    BY <1>1, <2>1
       DEF IInv, TableTypes, UnseenIsAwaited, Awaited, NoFileForgotten, Exists, text
<1>3. CASE LocalDef(item)
  <2>1. /\ UNCHANGED <<prog, toCompile, startstr>>
        /\ \/ /\ table' = Mention(item.mentions, table) /\ phase' = phase
              /\ unseenIds' = unseenIds \cup {c \in Class : table[c] # table'[c]}
           \/ phase' = "error" /\ UNCHANGED <<table, unseenIds>>
    BY <1>3 DEF LocalDef
  <2>2. TableTypes'  BY <1>1, <2>1, Mentioned DEF TableTypes
  <2>3. UnseenIsAwaited'
    BY <1>1, <2>1 DEF UnseenIsAwaited, Awaited, Exists, text
  <2> QED  BY <1>1, <2>1, <2>2, <2>3 DEF IInv, NoFileForgotten
<1>4. CASE ClassDef(item)
  <2> DEFINE seen == [table EXCEPT ![item.name] = "seen"]
  <2>1. /\ UNCHANGED <<prog, toCompile, startstr>>
        /\ \/ /\ table' = Mention(item.mentions, seen) /\ phase' = phase
              /\ unseenIds' = (unseenIds \cup {c \in Class : table[c] # table'[c]}) \ {item.name}
           \/ phase' = "error" /\ UNCHANGED <<table, unseenIds>>
    BY <1>4 DEF ClassDef
  <2>2. seen \in [Class -> {"unknown", "unseen", "seen"}]  BY <1>1 DEF TableTypes
  <2>3. item.name \in Class => seen[item.name] = "seen"  BY <1>1 DEF TableTypes
  <2> HIDE DEF seen
  <2>4. /\ Mention(item.mentions, seen) \in [Class -> {"unknown", "unseen", "seen"}]
        /\ item.name \in Class => Mention(item.mentions, seen)[item.name] = "seen"
    BY <2>2, <2>3, Mentioned
  <2>5. TableTypes'  BY <1>1, <2>1, <2>4 DEF TableTypes
  <2>6. item.name \in Class /\ phase' = "parse" => table'[item.name] = "seen"
    BY <1>1, <2>1, <2>4
  <2>7. UnseenIsAwaited'
    <3> SUFFICES ASSUME phase' = "parse", NEW c \in Class, table'[c] = "unseen", Exists(c)
                 PROVE  Awaited(c)'
      BY <2>1 DEF UnseenIsAwaited, Exists, text
    <3>1. c # item.name  BY <2>6
    <3>2. CASE table[c] # table'[c]  BY <2>1, <3>1, <3>2 DEF Awaited
    <3>3. CASE table[c] = table'[c]
      <4>1. Awaited(c)  BY <1>1, <3>3 DEF UnseenIsAwaited
      <4> QED  BY <2>1, <3>1, <4>1 DEF Awaited
    <3> QED  BY <3>2, <3>3
  <2> QED  BY <1>1, <2>1, <2>5, <2>7 DEF IInv, NoFileForgotten
<1> QED  BY <1>2, <1>3, <1>4 DEF ParseItem

\* A file is done with only when its class was seen.
LEMMA EndProgramKeeps ==
  ASSUME IInv, EndProgram PROVE IInv'
<1>1. /\ phase = "parse" /\ UNCHANGED <<prog, toCompile, table, unseenIds>>
      /\ \/ table[startstr[1]] = "seen" /\ startstr' = << >> /\ phase' = phase
         \/ phase' = "error"
  BY DEF EndProgram
<1>2. TableTypes'  BY <1>1 DEF IInv, TableTypes
<1>3. UnseenIsAwaited'
  BY <1>1 DEF IInv, UnseenIsAwaited, Awaited, Exists, text
<1> QED  BY <1>1, <1>2, <1>3 DEF IInv, NoFileForgotten

\* The next round takes all the unseen classes that have a file.
LEMMA NextRoundKeeps ==
  ASSUME IInv, NextRound PROVE IInv'
<1> DEFINE found == {c \in unseenIds : c \in pushed \/ Exists(c)}
<1>1. /\ phase = "parse" /\ phase' = phase /\ startstr = << >> /\ toCompile = << >>
      /\ toCompile' \in SetToSeqs(found) /\ UNCHANGED <<prog, table, startstr>> /\ unseenIds' = {}
  BY DEF NextRound
<1>2. found \subseteq Class /\ IsFiniteSet(found)
  BY FilesAssumption, FS_Subset DEF IInv, TableTypes
<1>3. toCompile' \in Seq(found) /\ ToSet(toCompile') = found  BY <1>1, <1>2, OrderedSet
<1>4. TableTypes'  BY <1>1, <1>2, <1>3 DEF IInv, TableTypes
<1>5. UnseenIsAwaited'
  <2> SUFFICES ASSUME NEW c \in Class, table[c] = "unseen", Exists(c) PROVE Awaited(c)'
    BY <1>1 DEF UnseenIsAwaited, Exists, text
  <2>1. Awaited(c)  BY <1>1 DEF IInv, UnseenIsAwaited
  <2>2. c \in found  BY <1>1, <2>1 DEF Awaited, ToSet
  <2> QED  BY <1>3, <2>2 DEF Awaited
<1> QED  BY <1>1, <1>4, <1>5 DEF IInv, NoFileForgotten

\* It ends when there is nowhere left where an unseen class could wait.
LEMMA EndParsingKeeps ==
  ASSUME IInv, EndParsing PROVE IInv'
<1>1. /\ phase = "parse" /\ phase' = "parsed" /\ startstr = << >> /\ toCompile = << >>
      /\ unseenIds = {} /\ UNCHANGED <<prog, toCompile, table, unseenIds>>
  BY DEF EndParsing
<1>2. \A c \in Class : ~ Awaited(c)  BY <1>1 DEF Awaited, ToSet
<1>3. NoFileForgotten'  BY <1>1, <1>2 DEF IInv, UnseenIsAwaited, NoFileForgotten, Exists, text
<1> QED  BY <1>1, <1>3 DEF IInv, TableTypes, UnseenIsAwaited

\* A step of any kind keeps the invariant.
LEMMA NextKeeps ==
  ASSUME IInv, [Next]_vars PROVE IInv'
<1>1. CASE EndOfFile \/ UNCHANGED vars
  <2>1. UNCHANGED <<prog, toCompile, startstr, table, unseenIds, phase>>
    BY <1>1 DEF EndOfFile, vars
  <2> QED  BY <2>1 DEF IInv, TableTypes, UnseenIsAwaited, Awaited, NoFileForgotten, Exists, text
<1> QED
  BY <1>1, CompileFileKeeps, ParseItemKeeps, EndProgramKeeps, NextRoundKeeps, EndParsingKeeps
     DEF Next, Done

------------------------------------------------------------------------------
\* compileFiles forgets no class: when it is done, each one that was mentioned
\* and whose file exists has been seen.
THEOREM NothingForgotten == Spec => []NoFileForgotten
<1>1. IInv => NoFileForgotten  BY DEF IInv
<1> QED  BY InitHasNoneUnseen, NextKeeps, <1>1, PTL DEF Spec

------------------------------------------------------------------------------
\* The flattening of a sequence of sequences, by the place of each part in it.

\* A flat sequence is put together one part after the other.
FlatParts(r, ss) ==
  /\ r[0] = << >> /\ r[Len(ss)] = FlattenSeq(ss)
  /\ \A i \in 1 .. Len(ss) : r[i] = r[i - 1] \o ss[i]

\* A flat sequence is what its parts are appended to, one by one.
LEMMA FlattenIs ==
  ASSUME NEW S, NEW ss \in Seq(Seq(S))
  PROVE  \E r \in [0 .. Len(ss) -> Seq(S)] : FlatParts(r, ss)
<1> DEFINE n == Len(ss)
           D == Seq(S)
           F == [x \in (1 .. n) \X D |-> x[2] \o ss[x[1]]]
<1>1. n \in Nat /\ \A i \in 1 .. n : ss[i] \in D
  OBVIOUS
<1>2. << >> \in D
  OBVIOUS
<1>3. F \in [(1 .. n) \X D -> D]
  <2>1. \A x \in (1 .. n) \X D : x[2] \o ss[x[1]] \in D
    BY <1>1, ConcatProperties
  <2> HIDE DEF D, n
  <2> QED BY <2>1
<1>4. PICK r \in [0 .. n -> D] : Recurs(r, n, << >>, F)
  <2> HIDE DEF F, D, n
  <2> QED BY <1>1, <1>2, <1>3, IntervalRecursion
<1>5. r = [i \in 0 .. n |-> IF i = 0 THEN << >> ELSE F[<<i, r[i - 1]>>]]
  BY <1>4 DEF Recurs
<1>6. \A i \in 1 .. n : r[i - 1] \in D /\ F[<<i, r[i - 1]>>] = r[i - 1] \o ss[i]
  <2> TAKE i \in 1 .. n
  <2>1. i - 1 \in 0 .. n
    BY <1>1
  <2>2. r[i - 1] \in D
    BY <1>4, <2>1
  <2> HIDE DEF D, n
  <2> QED BY <2>2
<1>7. r[0] = << >> /\ \A i \in 1 .. n : r[i] = r[i - 1] \o ss[i]
  <2>1. r[0] = << >>
    <3> HIDE DEF F
    <3> QED BY <1>1, <1>5
  <2>2. ASSUME NEW i \in 1 .. n PROVE r[i] = r[i - 1] \o ss[i]
    <3>1. i \in 0 .. n /\ i # 0
      BY <1>1
    <3>2. r[i] = F[<<i, r[i - 1]>>]
      <4> HIDE DEF F, n
      <4> QED BY <1>5, <3>1
    <3> QED BY <1>6, <3>2
  <2> QED BY <2>1, <2>2
<1>9. n # 0 => r[1] = ss[1]
  <2> SUFFICES ASSUME n # 0 PROVE r[1] = ss[1]
    OBVIOUS
  <2>1. 1 \in 1 .. n /\ 1 - 1 = 0
    BY <1>1
  <2>2. r[1] = << >> \o ss[1] /\ ss[1] \in D
    BY <1>1, <1>7, <2>1
  <2> QED BY <2>2, ConcatEmptySeq
<1>8. r[n] = FlattenSeq(ss)
  <2>1. CASE n = 0
    <3>1. ss = << >>
      BY <2>1
    <3>2. FlattenSeq(ss) = ss
      BY <2>1 DEF FlattenSeq
    <3> QED BY <1>7, <2>1, <3>1, <3>2
  <2>2. CASE n # 0
    <3> DEFINE body(f) == [i \in 1 .. n |-> IF i = 1 THEN ss[i] ELSE f[i - 1] \o ss[i]]
               flatten == CHOOSE f : f = body(f)
    <3>1. FlattenSeq(ss) = flatten[n]
      BY <2>2 DEF FlattenSeq
    <3> DEFINE h == [i \in 1 .. n |-> r[i]]
    <3>2. h = body(h)
      <4>1. ASSUME NEW i \in 1 .. n
            PROVE  r[i] = IF i = 1 THEN ss[i] ELSE h[i - 1] \o ss[i]
        <5>1. CASE i = 1
          BY <1>9, <2>2, <5>1
        <5>2. CASE i # 1
          <6>1. i - 1 \in 1 .. n
            BY <1>1, <5>2
          <6>2. h[i - 1] = r[i - 1]
            BY <6>1
          <6> QED BY <1>7, <5>2, <6>2
        <5> QED BY <5>1, <5>2
      <4> QED BY <4>1, Zenon
    <3>3. flatten = body(flatten)
      <4> HIDE DEF h, body
      <4> QED BY <3>2, Zenon
    <3> HIDE DEF flatten
    <3>4. \A i \in 1 .. n : flatten[i] = IF i = 1 THEN ss[i] ELSE flatten[i - 1] \o ss[i]
      BY <3>3
    <3> DEFINE T == {i \in 1 .. n : flatten[i] = r[i]}
    <3>5. 1 \in T
      <4>1. 1 \in 1 .. n
        BY <1>1, <2>2
      <4>2. flatten[1] = ss[1]
        BY <3>4, <4>1
      <4>3. r[1] = ss[1]
        BY <1>9, <2>2
      <4> QED BY <4>1, <4>2, <4>3
    <3>6. ASSUME NEW i \in 1 .. n - 1, i \in T PROVE i + 1 \in T
      <4>1. i + 1 \in 1 .. n /\ i + 1 # 1 /\ (i + 1) - 1 = i
        BY <1>1
      <4>2. flatten[i + 1] = flatten[i] \o ss[i + 1]
        BY <3>4, <4>1
      <4>3. r[i + 1] = r[i] \o ss[i + 1]
        BY <1>7, <4>1
      <4> QED BY <3>6, <4>1, <4>2, <4>3
    <3>7. 1 .. n \subseteq T
      <4> HIDE DEF T
      <4> QED BY <1>1, <2>2, <3>5, <3>6, IntervalInduction
    <3>8. n \in T
      BY <1>1, <2>2, <3>7
    <3> QED BY <3>1, <3>8
  <2> QED BY <2>1, <2>2
<1> QED BY <1>4, <1>7, <1>8 DEF FlatParts

\* Where the parts are in it, behind off[i - 1] the part i.
Places(off, ss) ==
  /\ off[0] = 0 /\ off[Len(ss)] = Len(FlattenSeq(ss))
  /\ \A i, j \in 0 .. Len(ss) : i <= j => off[i] <= off[j]
  /\ \A i \in 1 .. Len(ss) :
       /\ off[i] = off[i - 1] + Len(ss[i])
       /\ \A k \in 1 .. Len(ss[i]) : FlattenSeq(ss)[off[i - 1] + k] = ss[i][k]

\* Each part of a flat sequence is found whole in it, behind those before.
LEMMA FlatPlaces ==
  ASSUME NEW S, NEW ss \in Seq(Seq(S))
  PROVE  FlattenSeq(ss) \in Seq(S) /\ \E off \in [0 .. Len(ss) -> Nat] : Places(off, ss)
<1> DEFINE n == Len(ss)
           D == Seq(S)
<1>1. n \in Nat /\ \A i \in 1 .. n : ss[i] \in D
  OBVIOUS
<1>2. PICK r \in [0 .. n -> D] : FlatParts(r, ss)
  BY FlattenIs
<1>3. /\ r[0] = << >> /\ r[n] = FlattenSeq(ss)
      /\ \A i \in 1 .. n : r[i] = r[i - 1] \o ss[i]
  BY <1>2 DEF FlatParts
<1>a. \A i \in 0 .. n : r[i] \in D
  OBVIOUS
<1>b. \A s \in D : Len(s) \in Nat
  OBVIOUS
<1>c. \A s, u \in D :
        /\ Len(s \o u) = Len(s) + Len(u)
        /\ \A k \in 1 .. Len(s) + Len(u) : (s \o u)[k] = IF k <= Len(s) THEN s[k] ELSE u[k - Len(s)]
  BY ConcatProperties
<1>d. n = Len(ss)
  OBVIOUS
<1>e. \A a, b \in Nat :
        /\ \A k \in 1 .. a : k \in 1 .. a + b /\ k <= a
        /\ \A k \in 1 .. b : a + k \in 1 .. a + b /\ ~ (a + k <= a) /\ (a + k) - a = k
  OBVIOUS
<1>f. \A a, b, c \in Nat : a <= b => a <= b + c /\ \A k \in 1 .. a : k \in 1 .. b
  OBVIOUS
<1> HIDE DEF D, n
<1> DEFINE off == [i \in 0 .. n |-> Len(r[i])]
<1>4. \A i \in 0 .. n : r[i] \in D /\ Len(r[i]) \in Nat /\ off[i] = Len(r[i])
  BY <1>a, <1>b
<1>5. \A i \in 1 .. n :
        /\ i - 1 \in 0 .. n /\ i \in 0 .. n
        /\ Len(r[i]) = Len(r[i - 1]) + Len(ss[i])
        /\ \A k \in 1 .. Len(r[i - 1]) : r[i][k] = r[i - 1][k]
        /\ \A k \in 1 .. Len(ss[i]) : r[i][Len(r[i - 1]) + k] = ss[i][k]
  <2> TAKE i \in 1 .. n
  <2>1. i - 1 \in 0 .. n /\ i \in 0 .. n
    BY <1>1
  <2>2. r[i - 1] \in D /\ ss[i] \in D /\ r[i] = r[i - 1] \o ss[i]
    BY <1>1, <1>3, <2>1
  <2> DEFINE a == Len(r[i - 1])
             b == Len(ss[i])
  <2>3. a \in Nat /\ b \in Nat
    BY <1>b, <2>2
  <2>4. \A k \in 1 .. a + b : r[i][k] = IF k <= a THEN r[i - 1][k] ELSE ss[i][k - a]
    BY <1>c, <2>2
  <2>5. Len(r[i]) = a + b
    BY <1>c, <2>2
  <2>6. /\ \A k \in 1 .. a : r[i][k] = r[i - 1][k]
        /\ \A k \in 1 .. b : r[i][a + k] = ss[i][k]
    <3> HIDE DEF a, b
    <3>1. ASSUME NEW k \in 1 .. a PROVE r[i][k] = r[i - 1][k]
      <4>1. k \in 1 .. a + b /\ k <= a
        BY <2>3
      <4> QED BY <2>4, <4>1
    <3>2. ASSUME NEW k \in 1 .. b PROVE r[i][a + k] = ss[i][k]
      <4>1. a + k \in 1 .. a + b /\ ~ (a + k <= a) /\ (a + k) - a = k
        BY <2>3
      <4> QED BY <2>4, <4>1
    <3> QED BY <3>1, <3>2
  <2> QED BY <2>1, <2>5, <2>6
<1>6. ASSUME NEW i \in 0 .. n, NEW j \in i .. n
      PROVE  Len(r[i]) <= Len(r[j]) /\ \A k \in 1 .. Len(r[i]) : r[j][k] = r[i][k]
  <2> DEFINE T == {m \in i .. n : /\ Len(r[i]) <= Len(r[m])
                                 /\ \A k \in 1 .. Len(r[i]) : r[m][k] = r[i][k]}
  <2>1. i \in T
    BY <1>1, <1>4
  <2>2. ASSUME NEW m \in i .. n - 1, m \in T PROVE m + 1 \in T
    <3>1. m + 1 \in 1 .. n /\ m \in 0 .. n /\ m + 1 \in i .. n /\ (m + 1) - 1 = m
      BY <1>1
    <3>2. /\ Len(r[m + 1]) = Len(r[m]) + Len(ss[m + 1])
          /\ \A k \in 1 .. Len(r[m]) : r[m + 1][k] = r[m][k]
      <4> DEFINE u == m + 1
      <4>1. u \in 1 .. n /\ u - 1 = m
        BY <3>1
      <4>2. /\ Len(r[u]) = Len(r[u - 1]) + Len(ss[u])
            /\ \A k \in 1 .. Len(r[u - 1]) : r[u][k] = r[u - 1][k]
        <5> HIDE DEF u
        <5> QED BY <1>5, <4>1
      <4> QED BY <4>1, <4>2
    <3>3. Len(r[i]) \in Nat /\ Len(r[m]) \in Nat /\ Len(ss[m + 1]) \in Nat
      BY <1>1, <1>4, <3>1, <1>b
    <3>4. Len(r[i]) <= Len(r[m]) /\ \A k \in 1 .. Len(r[i]) : r[m][k] = r[i][k]
      BY <2>2
    <3>5. Len(r[i]) <= Len(r[m + 1]) /\ \A k \in 1 .. Len(r[i]) : k \in 1 .. Len(r[m])
      BY <1>f, <3>2, <3>3, <3>4
    <3> QED BY <3>1, <3>2, <3>4, <3>5
  <2>3. i .. n \subseteq T
    <3>1. i \in Nat
      BY <1>1
    <3> HIDE DEF T
    <3> QED BY <3>1, <1>1, <2>1, <2>2, IntervalInduction
  <2> QED BY <2>3
<1>7. \A i, j \in 0 .. n : i <= j => j \in i .. n
  BY <1>1
<1>8. off \in [0 .. n -> Nat]
  BY <1>4
<1>9. 0 \in 0 .. n /\ n \in 0 .. n
  BY <1>1
<1>10. off[0] = 0 /\ off[n] = Len(FlattenSeq(ss))
  BY <1>3, <1>4, <1>9
<1>11. \A i, j \in 0 .. n : i <= j => off[i] <= off[j]
  <2> HIDE DEF off
  <2> QED BY <1>4, <1>6, <1>7
<1>12. ASSUME NEW i \in 1 .. n
       PROVE  /\ off[i] = off[i - 1] + Len(ss[i])
              /\ \A k \in 1 .. Len(ss[i]) : FlattenSeq(ss)[off[i - 1] + k] = ss[i][k]
  <2>1. off[i] = Len(r[i]) /\ off[i - 1] = Len(r[i - 1]) /\ off[i] = off[i - 1] + Len(ss[i])
    BY <1>4, <1>5
  <2>2. ASSUME NEW k \in 1 .. Len(ss[i]) PROVE FlattenSeq(ss)[off[i - 1] + k] = ss[i][k]
    <3>1. r[i][Len(r[i - 1]) + k] = ss[i][k]
      BY <1>5
    <3>2. Len(r[i - 1]) + k \in 1 .. Len(r[i])
      <4>1. i - 1 \in 0 .. n /\ Len(r[i]) = Len(r[i - 1]) + Len(ss[i])
        BY <1>5
      <4>2. Len(r[i - 1]) \in Nat
        BY <1>4, <4>1
      <4>3. Len(ss[i]) \in Nat
        BY <1>1, <1>b
      <4>4. \A a, b \in Nat : \A m \in 1 .. b : a + m \in 1 .. a + b
        BY <1>e, Zenon
      <4> QED BY <4>1, <4>2, <4>3, <4>4
    <3>3. i \in 0 .. n /\ n \in i .. n
      BY <1>1
    <3>4. \A m \in 1 .. Len(r[i]) : r[n][m] = r[i][m]
      BY <1>6, <3>3
    <3> QED BY <1>3, <2>1, <3>1, <3>2, <3>4
  <2> QED BY <2>1, <2>2
<1>13. Places(off, ss)
  <2> HIDE DEF off
  <2> QED BY <1>d, <1>10, <1>11, <1>12 DEF Places
<1>14. FlattenSeq(ss) \in D
  BY <1>a, <1>3, <1>9
<1> HIDE DEF off
<1> QED BY <1>d, <1>8, <1>13, <1>14 DEF D

\* Its elements are those of its parts.
LEMMA FlatElements ==
  ASSUME NEW S, NEW ss \in Seq(Seq(S))
  PROVE  ToSet(FlattenSeq(ss)) = UNION {ToSet(ss[i]) : i \in 1 .. Len(ss)}
<1> DEFINE n == Len(ss)
           D == Seq(S)
<1>1. n \in Nat /\ \A i \in 1 .. n : ss[i] \in D
  OBVIOUS
<1>2. PICK r \in [0 .. n -> D] : FlatParts(r, ss)
  BY FlattenIs
<1>3. /\ r[0] = << >> /\ r[n] = FlattenSeq(ss)
      /\ \A i \in 1 .. n : r[i] = r[i - 1] \o ss[i]
  BY <1>2 DEF FlatParts
<1>a. \A s \in D : ToSet(s) = Range(s)
  BY DEF ToSet, Range
<1>b. \A s, u \in D : s \o u \in D /\ Range(s \o u) = Range(s) \cup Range(u)
  BY ConcatProperties, RangeConcatenation
<1>c. n = Len(ss) /\ \A i \in 0 .. n : r[i] \in D
  OBVIOUS
<1> HIDE DEF D, n
<1> DEFINE T == {i \in 0 .. n : ToSet(r[i]) = UNION {ToSet(ss[j]) : j \in 1 .. i}}
<1>4. 0 \in T
  <2>1. ToSet(r[0]) = {} /\ UNION {ToSet(ss[j]) : j \in 1 .. 0} = {}
    BY <1>3 DEF ToSet
  <2> QED BY <1>1, <2>1
<1>5. ASSUME NEW i \in 0 .. n - 1, i \in T PROVE i + 1 \in T
  <2>1. i + 1 \in 1 .. n /\ i + 1 \in 0 .. n /\ i \in 0 .. n /\ (i + 1) - 1 = i
    BY <1>1
  <2>2. r[i] \in D /\ ss[i + 1] \in D /\ r[i + 1] = r[i] \o ss[i + 1]
    BY <1>1, <1>3, <1>c, <2>1
  <2>3. ToSet(r[i + 1]) = ToSet(r[i]) \cup ToSet(ss[i + 1])
    BY <1>a, <1>b, <2>2
  <2>4. 1 .. i + 1 = 1 .. i \cup {i + 1}
    BY <2>1
  <2>5. ToSet(r[i]) = UNION {ToSet(ss[j]) : j \in 1 .. i}
    BY <1>5
  <2>6. UNION {ToSet(ss[j]) : j \in 1 .. i + 1} = (UNION {ToSet(ss[j]) : j \in 1 .. i}) \cup ToSet(ss[i + 1])
    <3> DEFINE V(j) == ToSet(ss[j])
    <3> HIDE DEF V
    <3>1. UNION {V(j) : j \in 1 .. i + 1} = (UNION {V(j) : j \in 1 .. i}) \cup V(i + 1)
      BY <2>4
    <3> QED BY <3>1 DEF V
  <2> QED BY <2>1, <2>3, <2>5, <2>6
<1>6. 0 .. n \subseteq T
  <2> HIDE DEF T
  <2> QED BY <1>1, <1>4, <1>5, IntervalInduction
<1>7. n \in T
  <2> HIDE DEF T
  <2> QED BY <1>1, <1>6
<1> QED BY <1>3, <1>7, <1>c

TextOk(t) == DOMAIN t \subseteq File /\ \A f \in DOMAIN t : t[f] \in Seq(Item)

\* The parts of the unfolding of f, one for each of its items.
Parts(t, n, f) ==
  [i \in DOMAIN t[f] |->
     IF t[f][i].kind = "load" THEN Unfold(t, n, t[f][i].file) ELSE <<t[f][i]>>]

\* What an item is made of, by its kind.
LEMMA Items ==
  ASSUME NEW item \in Item
  PROVE  /\ item.kind \in {"load", "use", "local", "class"}
         /\ item.kind \in {"load", "use"} => item.file \in File
         /\ item.kind = "local" => item.name \in Local /\ item.mentions \subseteq Class
         /\ item.kind = "class" => item.name \in Class /\ item.mentions \subseteq Class
<1>1. CASE item \in [kind : {"load", "use"}, file : File]
  BY <1>1
<1>2. CASE item \in [kind : {"local"}, name : Local, mentions : SUBSET Class]
  BY <1>2
<1>3. CASE item \in [kind : {"class"}, name : Class, mentions : SUBSET Class]
  BY <1>3
<1> QED BY <1>1, <1>2, <1>3 DEF Item

\* The recursive definition of the unfolding has a solution: that of a file is
\* the flat sequence of those of its items, one level less deep.
LEMMA UnfoldIs ==
  ASSUME NEW t, TextOk(t)
  PROVE  \A n \in Nat, f \in File :
           /\ Unfold(t, n, f) \in Seq(Item)
           /\ n = 0 \/ f \notin DOMAIN t => Unfold(t, n, f) = << >>
           /\ f \in DOMAIN t => /\ Parts(t, n, f) \in Seq(Seq(Item))
                                /\ Unfold(t, n + 1, f) = FlattenSeq(Parts(t, n, f))
<1> DEFINE D == Seq(Item)
           E == [File -> D]
           Row(r, f) == [i \in DOMAIN t[f] |->
                           IF t[f][i].kind = "load" THEN r[t[f][i].file] ELSE <<t[f][i]>>]
           Cell(g, m, f) == IF m = 0 \/ f \notin DOMAIN t THEN << >> ELSE FlattenSeq(Row(g[m - 1], f))
           Body(g) == [m \in Nat |-> [f \in File |-> Cell(g, m, f)]]
           W == [Nat -> E]
           F == [g \in W |-> Body(g)]
           mu == [m \in Nat |-> m]
<1>1. ASSUME NEW r \in E, NEW f \in DOMAIN t PROVE Row(r, f) \in Seq(D)
  <2>1. t[f] \in Seq(Item) /\ Len(t[f]) \in Nat /\ DOMAIN t[f] = 1 .. Len(t[f])
    BY DEF TextOk
  <2>2. ASSUME NEW i \in 1 .. Len(t[f])
        PROVE (IF t[f][i].kind = "load" THEN r[t[f][i].file] ELSE <<t[f][i]>>) \in D
    <3>1. t[f][i] \in Item
      BY <2>1
    <3>2. t[f][i].kind = "load" => t[f][i].file \in File
      BY <3>1, Items
    <3>3. <<t[f][i]>> \in D
      BY <3>1
    <3> QED BY <3>2, <3>3
  <2>3. Row(r, f) \in [1 .. Len(t[f]) -> D]
    <3> HIDE DEF D
    <3> QED BY <2>1, <2>2
  <2> HIDE DEF Row, D
  <2> QED BY <2>1, <2>3
<1>2. << >> \in D /\ E # {}
  <2>1. << >> \in D
    OBVIOUS
  <2>2. [f \in File |-> << >>] \in E
    <3> HIDE DEF D
    <3> QED BY <2>1
  <2> QED BY <2>1, <2>2
<1>3. ASSUME NEW g \in W, NEW m \in Nat, NEW f \in File PROVE Cell(g, m, f) \in D
  <2>1. CASE m = 0 \/ f \notin DOMAIN t
    BY <1>2, <2>1
  <2>2. CASE m # 0 /\ f \in DOMAIN t
    <3>1. m - 1 \in Nat
      BY <2>2
    <3>2. g[m - 1] \in E
      BY <3>1
    <3>3. Row(g[m - 1], f) \in Seq(D)
      BY <1>1, <2>2, <3>2
    <3>4. FlattenSeq(Row(g[m - 1], f)) \in D
      <4> HIDE DEF Row
      <4> QED BY <3>3, FlatPlaces
    <3> QED BY <2>2, <3>4
  <2> QED BY <2>1, <2>2
<1>4. F \in [W -> W]
  <2>1. ASSUME NEW g \in W PROVE Body(g) \in W
    <3> HIDE DEF Cell, D
    <3> QED BY <1>3
  <2> HIDE DEF Body, W
  <2> QED BY <2>1
<1>5. mu \in [Nat -> Nat] /\ LooksBelow(Nat, W, F, mu)
  <2>1. ASSUME NEW g \in W, NEW h \in W, NEW m \in Nat,
               \A j \in Nat : mu[j] < mu[m] => g[j] = h[j]
        PROVE  F[g][m] = F[h][m]
    <3>1. m # 0 => m - 1 \in Nat /\ mu[m - 1] < mu[m]
      OBVIOUS
    <3>2. m # 0 => g[m - 1] = h[m - 1]
      BY <2>1, <3>1
    <3>3. \A f \in File : Cell(g, m, f) = Cell(h, m, f)
      <4> HIDE DEF Row
      <4> QED BY <3>2
    <3>4. Body(g)[m] = Body(h)[m]
      <4> HIDE DEF Cell
      <4> QED BY <3>3
    <3> HIDE DEF Body, W
    <3> QED BY <3>4
  <2> HIDE DEF W, F
  <2> QED BY <2>1 DEF LooksBelow
<1>6. HasSolution(W, F)
  <2>1. F \in [[Nat -> E] -> [Nat -> E]] /\ LooksBelow(Nat, [Nat -> E], F, mu)
    <3> HIDE DEF F, E, mu
    <3> QED BY <1>4, <1>5
  <2> HIDE DEF F, E, mu
  <2> QED BY <1>2, <1>5, <2>1, UnboundedRecursion, Zenon
<1>7. PICK h \in W : h = F[h]
  <2> HIDE DEF W, F
  <2> QED BY <1>6 DEF HasSolution
<1>8. h = Body(h)
  <2> HIDE DEF Body, W
  <2> QED BY <1>7
<1> DEFINE nested == CHOOSE g : g = Body(g)
<1>9. nested = Body(nested)
  <2> HIDE DEF Body
  <2> QED BY <1>8, Zenon
<1>10. \A n, f : Unfold(t, n, f) = nested[n][f]
  BY DEF Unfold
<1> HIDE DEF nested
<1>11. \A m \in Nat, f \in File : nested[m][f] = Cell(nested, m, f)
  <2> HIDE DEF Cell
  <2>1. \A m \in Nat : nested[m] = [f \in File |-> Cell(nested, m, f)]
    BY <1>9
  <2> QED BY <2>1
<1>12. \A m \in Nat : nested[m] \in E
  <2> DEFINE T == {m \in Nat : nested[m] \in E}
  <2>0. \A m \in Nat : nested[m] = [f \in File |-> Cell(nested, m, f)]
    <3> HIDE DEF Cell
    <3> QED BY <1>9
  <2>1. 0 \in T
    <3>1. \A f \in File : Cell(nested, 0, f) = << >>
      OBVIOUS
    <3> HIDE DEF Cell, D
    <3> QED BY <1>2, <2>0, <3>1
  <2>2. ASSUME NEW m \in Nat, m \in T PROVE m + 1 \in T
    <3>1. m + 1 # 0 /\ m + 1 \in Nat /\ (m + 1) - 1 = m /\ nested[m] \in E
      BY <2>2
    <3>2. ASSUME NEW f \in File PROVE Cell(nested, m + 1, f) \in D
      <4>1. CASE f \in DOMAIN t
        <5>1. Row(nested[m], f) \in Seq(D)
          BY <1>1, <3>1, <4>1
        <5>2. FlattenSeq(Row(nested[m], f)) \in D
          <6> HIDE DEF Row
          <6> QED BY <5>1, FlatPlaces
        <5>3. Cell(nested, m + 1, f) = FlattenSeq(Row(nested[m], f))
          <6> HIDE DEF Row
          <6> QED BY <3>1, <4>1
        <5> QED BY <5>2, <5>3
      <4>2. CASE f \notin DOMAIN t
        BY <1>2, <4>2
      <4> QED BY <4>1, <4>2
    <3> HIDE DEF Cell, D
    <3>3. nested[m + 1] = [f \in File |-> Cell(nested, m + 1, f)]
      BY <2>0, <3>1
    <3>4. nested[m + 1] \in E
      BY <3>2, <3>3
    <3> QED BY <3>1, <3>4
  <2>3. Nat \subseteq T
    <3> HIDE DEF T
    <3> QED BY <2>1, <2>2, NumberInduction
  <2> QED BY <2>3
<1>13. ASSUME NEW n \in Nat, NEW f \in DOMAIN t PROVE Parts(t, n, f) = Row(nested[n], f)
  <2> HIDE DEF nested
  <2> QED BY <1>10, Zenon DEF Parts
<1> SUFFICES ASSUME NEW n \in Nat, NEW f \in File
             PROVE  /\ Unfold(t, n, f) \in Seq(Item)
                    /\ n = 0 \/ f \notin DOMAIN t => Unfold(t, n, f) = << >>
                    /\ f \in DOMAIN t => /\ Parts(t, n, f) \in Seq(Seq(Item))
                                         /\ Unfold(t, n + 1, f) = FlattenSeq(Parts(t, n, f))
  OBVIOUS
<1>14. Unfold(t, n, f) \in D
  <2> HIDE DEF D
  <2> QED BY <1>10, <1>12
<1>15. n = 0 \/ f \notin DOMAIN t => Unfold(t, n, f) = << >>
  <2> HIDE DEF Row
  <2> QED BY <1>10, <1>11
<1>16. ASSUME f \in DOMAIN t
       PROVE Parts(t, n, f) \in Seq(D) /\ Unfold(t, n + 1, f) = FlattenSeq(Parts(t, n, f))
  <2>1. Row(nested[n], f) \in Seq(D)
    BY <1>1, <1>12, <1>16
  <2>2. n + 1 \in Nat /\ n + 1 # 0 /\ (n + 1) - 1 = n
    OBVIOUS
  <2>3. Cell(nested, n + 1, f) = FlattenSeq(Row(nested[n], f))
    <3> HIDE DEF Row
    <3> QED BY <1>16, <2>2
  <2> HIDE DEF Row, Cell
  <2> QED BY <1>10, <1>11, <1>13, <1>16, <2>1, <2>2, <2>3
<1> QED BY <1>14, <1>15, <1>16

------------------------------------------------------------------------------
\* What a file contributes, and how deep its loads are nested.

\* The local definitions in file f and in what it loads, files nested no deeper than n.
Names(t, n, f) == {item.name : item \in {x \in ToSet(Unfold(t, n, f)) : x.kind = "local"}}

LoadedBy(t, f) == {t[f][i].file : i \in {j \in DOMAIN t[f] : t[f][j].kind = "load"}}

\* A chain of n loads begins with file f.
IsChain(t, s, n) == \A i \in 0 .. n - 1 : s[i] \in DOMAIN t /\ s[i + 1] \in LoadedBy(t, s[i])
Deep(t, n, f) == \E s \in [0 .. n -> File] : s[0] = f /\ IsChain(t, s, n)

IsLocal(item, d) == item.kind = "local" /\ item.name = d

\* What is loaded is a file.
LEMMA LoadedFiles ==
  ASSUME NEW t, TextOk(t), NEW f \in DOMAIN t
  PROVE  LoadedBy(t, f) \subseteq File
<1> SUFFICES ASSUME NEW i \in DOMAIN t[f], t[f][i].kind = "load" PROVE t[f][i].file \in File
  BY DEF LoadedBy
<1>1. t[f] \in Seq(Item)
  BY DEF TextOk
<1>2. t[f][i] \in Item
  BY <1>1
<1> QED BY <1>2, Items

\* Those of a file are its own and those of the files it loads.
LEMMA NamesIs ==
  ASSUME NEW t, TextOk(t), NEW n \in Nat, NEW f \in DOMAIN t, NEW d
  PROVE  d \in Names(t, n + 1, f) <=>
           \E i \in DOMAIN t[f] :
             \/ IsLocal(t[f][i], d)
             \/ t[f][i].kind = "load" /\ d \in Names(t, n, t[f][i].file)
<1>1. f \in File /\ t[f] \in Seq(Item)
  BY DEF TextOk
<1> DEFINE ps == Parts(t, n, f)
<1>2. ps \in Seq(Seq(Item)) /\ Unfold(t, n + 1, f) = FlattenSeq(ps)
  BY <1>1, UnfoldIs
<1>3. DOMAIN ps = DOMAIN t[f] /\ DOMAIN ps = 1 .. Len(ps)
  <2>1. DOMAIN ps = DOMAIN t[f]
    BY DEF Parts
  <2> HIDE DEF ps
  <2> QED BY <1>2, <2>1
<1>4. ToSet(Unfold(t, n + 1, f)) = UNION {ToSet(ps[i]) : i \in DOMAIN t[f]}
  <2> HIDE DEF ps
  <2> QED BY <1>2, <1>3, FlatElements
<1>5. ASSUME NEW i \in DOMAIN t[f]
      PROVE  (\E x \in ToSet(ps[i]) : IsLocal(x, d)) <=>
               \/ IsLocal(t[f][i], d)
               \/ t[f][i].kind = "load" /\ d \in Names(t, n, t[f][i].file)
  <2>1. CASE t[f][i].kind = "load"
    <3>1. ps[i] = Unfold(t, n, t[f][i].file)
      BY <2>1 DEF Parts
    <3>2. ~ IsLocal(t[f][i], d)
      BY <2>1 DEF IsLocal
    <3> HIDE DEF ps
    <3>3. d \in Names(t, n, t[f][i].file) <=> \E x \in ToSet(ps[i]) : IsLocal(x, d)
      BY <3>1 DEF Names, IsLocal
    <3> QED BY <2>1, <3>2, <3>3
  <2>2. CASE t[f][i].kind # "load"
    <3>1. ps[i] = <<t[f][i]>>
      BY <2>2 DEF Parts
    <3>2. ToSet(<<t[f][i]>>) = {t[f][i]}
      BY DEF ToSet
    <3> HIDE DEF ps
    <3> QED BY <2>2, <3>1, <3>2
  <2> QED BY <2>1, <2>2
<1>6. d \in Names(t, n + 1, f) <=> \E x \in ToSet(Unfold(t, n + 1, f)) : IsLocal(x, d)
  BY DEF Names, IsLocal
<1> HIDE DEF ps
<1>7. (\E x \in ToSet(Unfold(t, n + 1, f)) : IsLocal(x, d))
        <=> \E i \in DOMAIN t[f] : \E x \in ToSet(ps[i]) : IsLocal(x, d)
  BY <1>4
<1> QED BY <1>5, <1>6, <1>7

\* A chain begins with a file and goes on with one that it loads.
LEMMA DeepStep ==
  ASSUME NEW t, TextOk(t), NEW n \in Nat, NEW f \in File
  PROVE  Deep(t, n + 1, f) <=> f \in DOMAIN t /\ \E g \in LoadedBy(t, f) : Deep(t, n, g)
<1>1. ASSUME Deep(t, n + 1, f) PROVE f \in DOMAIN t /\ \E g \in LoadedBy(t, f) : Deep(t, n, g)
  <2>1. PICK s \in [0 .. n + 1 -> File] : s[0] = f /\ IsChain(t, s, n + 1)
    BY <1>1 DEF Deep
  <2>2. /\ f \in DOMAIN t /\ s[1] \in LoadedBy(t, f) /\ s[1] \in File
        /\ \A i \in 1 .. n : s[i] \in DOMAIN t /\ s[i + 1] \in LoadedBy(t, s[i])
    <3>1. \A i \in 0 .. n : s[i] \in DOMAIN t /\ s[i + 1] \in LoadedBy(t, s[i])
      BY <2>1 DEF IsChain
    <3>2. 0 \in 0 .. n /\ 0 + 1 = 1 /\ 1 \in 0 .. n + 1
      OBVIOUS
    <3>3. s[0] \in DOMAIN t /\ s[0 + 1] \in LoadedBy(t, s[0])
      BY <3>1, <3>2
    <3> QED BY <2>1, <3>1, <3>2, <3>3
  <2> DEFINE u == [i \in 0 .. n |-> s[i + 1]]
  <2>3. u \in [0 .. n -> File] /\ u[0] = s[1]
    OBVIOUS
  <2>4. IsChain(t, u, n)
    <3> SUFFICES ASSUME NEW i \in 0 .. n - 1 PROVE u[i] \in DOMAIN t /\ u[i + 1] \in LoadedBy(t, u[i])
      BY DEF IsChain
    <3>1. i + 1 \in 1 .. n /\ i \in 0 .. n /\ i + 1 \in 0 .. n
      OBVIOUS
    <3>2. u[i] = s[i + 1] /\ u[i + 1] = s[(i + 1) + 1]
      BY <3>1
    <3> HIDE DEF u
    <3> QED BY <2>2, <3>1, <3>2
  <2> HIDE DEF u
  <2>5. Deep(t, n, s[1])
    BY <2>3, <2>4 DEF Deep
  <2> QED BY <2>2, <2>5
<1>2. ASSUME f \in DOMAIN t, NEW g \in LoadedBy(t, f), Deep(t, n, g) PROVE Deep(t, n + 1, f)
  <2>1. PICK s \in [0 .. n -> File] : s[0] = g /\ IsChain(t, s, n)
    BY <1>2 DEF Deep
  <2> DEFINE u == [i \in 0 .. n + 1 |-> IF i = 0 THEN f ELSE s[i - 1]]
  <2>2. u \in [0 .. n + 1 -> File] /\ u[0] = f /\ \A i \in 1 .. n + 1 : u[i] = s[i - 1]
    OBVIOUS
  <2> HIDE DEF u
  <2>3. ASSUME NEW i \in 0 .. n PROVE u[i] \in DOMAIN t /\ u[i + 1] \in LoadedBy(t, u[i])
    <3>1. CASE i = 0
      <4>1. u[1] = s[0]
        <5>1. 1 \in 1 .. n + 1 /\ 1 - 1 = 0
          OBVIOUS
        <5>2. u[1] = s[1 - 1]
          BY <2>2, <5>1
        <5> QED BY <5>1, <5>2
      <4> QED BY <1>2, <2>1, <2>2, <3>1, <4>1
    <3>2. CASE i # 0
      <4>1. i \in 1 .. n + 1 /\ i + 1 \in 1 .. n + 1 /\ i - 1 \in 0 .. n - 1 /\ (i + 1) - 1 = i /\ (i - 1) + 1 = i
        BY <3>2
      <4>2. u[i] = s[i - 1] /\ u[i + 1] = s[i]
        BY <2>2, <4>1
      <4>3. s[i - 1] \in DOMAIN t /\ s[(i - 1) + 1] \in LoadedBy(t, s[i - 1])
        BY <2>1, <4>1 DEF IsChain
      <4> QED BY <4>1, <4>2, <4>3
    <3> QED BY <3>1, <3>2
  <2>4. IsChain(t, u, n + 1)
    <3>1. (n + 1) - 1 = n
      OBVIOUS
    <3> QED BY <2>3, <3>1 DEF IsChain
  <2> QED BY <2>2, <2>4 DEF Deep
<1> QED BY <1>1, <1>2

\* A file in a circle of loads begins chains of every length.
LEMMA CircleIsDeep ==
  ASSUME NEW t, TextOk(t), NEW i \in Nat, NEW j \in Nat, i < j, NEW o, o[i] = o[j],
         \A k \in i .. j : o[k] \in DOMAIN t,
         \A k \in i .. j - 1 : o[k + 1] \in LoadedBy(t, o[k])
  PROVE  \A n \in Nat : Deep(t, n, o[i])
<1> DEFINE T == {n \in Nat : \A k \in i .. j - 1 : Deep(t, n, o[k])}
<1>1. \A k \in i .. j : o[k] \in File
  BY DEF TextOk
<1>2. \A k \in i .. j - 1 : k \in i .. j /\ k + 1 \in i .. j
  OBVIOUS
<1>3. 0 \in T
  <2> SUFFICES ASSUME NEW k \in i .. j - 1 PROVE Deep(t, 0, o[k])
    OBVIOUS
  <2> DEFINE s == [m \in 0 .. 0 |-> o[k]]
  <2>1. o[k] \in File
    BY <1>1, <1>2
  <2>2. s \in [0 .. 0 -> File] /\ s[0] = o[k]
    BY <2>1
  <2>3. IsChain(t, s, 0)
    BY DEF IsChain
  <2> HIDE DEF s
  <2> QED BY <2>2, <2>3 DEF Deep
<1>4. ASSUME NEW n \in Nat, n \in T PROVE n + 1 \in T
  <2> SUFFICES ASSUME NEW k \in i .. j - 1 PROVE Deep(t, n + 1, o[k])
    OBVIOUS
  <2>1. o[k] \in File /\ o[k] \in DOMAIN t /\ o[k + 1] \in LoadedBy(t, o[k])
    BY <1>1, <1>2
  <2>2. Deep(t, n, o[k + 1])
    <3>1. CASE k + 1 = j
      <4>1. i \in i .. j - 1
        OBVIOUS
      <4>2. Deep(t, n, o[i])
        BY <1>4, <4>1
      <4> QED BY <3>1, <4>2
    <3>2. CASE k + 1 # j
      <4>1. k + 1 \in i .. j - 1
        BY <3>2
      <4> QED BY <1>4, <4>1
    <3> QED BY <3>1, <3>2
  <2> QED BY <2>1, <2>2, DeepStep
<1>5. Nat \subseteq T
  <2> HIDE DEF T
  <2> QED BY <1>3, <1>4, NumberInduction
<1>6. i \in i .. j - 1
  OBVIOUS
<1> QED BY <1>5, <1>6

------------------------------------------------------------------------------
\* The stack of open files, and what was read when each of them is at its place.

\* File i of stack o is not begun again above it.
IsLatest(o, i) == \A j \in i + 1 .. Len(o) : o[j] # o[i]

\* Stack o of files of text t, with p[f] items read of file f since it was begun.
StackOk(t, o, p) ==
  /\ o \in Seq(DOMAIN t) /\ o # << >> /\ Len(o) <= MaxOpen
  /\ p \in [File -> Nat]
  /\ \A i \in 1 .. Len(o) : p[o[i]] <= Len(t[o[i]])

\* Each file is loaded by the one below it, and that one is just there.
LoadsOpen(t, o, p) ==
  \A i \in 1 .. Len(o) - 1 :
    /\ o[i + 1] \in LoadedBy(t, o[i])
    /\ IsLatest(o, i) => /\ p[o[i]] > 0
                         /\ t[o[i]][p[o[i]]].kind = "load" /\ t[o[i]][p[o[i]]].file = o[i + 1]

\* What the definitions L have of an item that was read when n more files could
\* be open: all, and what it loads is no deeper than that.
IsRead(t, L, item, n) ==
  /\ item.kind = "local" => item.name \in L
  /\ item.kind = "load" => Names(t, n, item.file) \subseteq L /\ ~ Deep(t, n, item.file)

Below(o, p, i) == IF i = Len(o) THEN p[o[i]] ELSE p[o[i]] - 1

ItemsRead(t, o, p, L) ==
  \A i \in 1 .. Len(o) : IsLatest(o, i) =>
    \A k \in 1 .. Below(o, p, i) : IsRead(t, L, t[o[i]][k], MaxOpen - i)

\* Nothing is read that does not belong to the file at the bottom.
OpenBelongs(t, o) ==
  \A i \in 1 .. Len(o) : Names(t, MaxOpen - i + 1, o[i]) \subseteq Names(t, MaxOpen, o[1])

Stack(t, o, p, L) ==
  /\ StackOk(t, o, p) /\ LoadsOpen(t, o, p) /\ ItemsRead(t, o, p, L) /\ OpenBelongs(t, o)
  /\ L \subseteq Names(t, MaxOpen, o[1])

\* The types of what is open.
LEMMA StackFacts ==
  ASSUME NEW t, TextOk(t), NEW o, NEW p, StackOk(t, o, p)
  PROVE  /\ Len(o) \in 1 .. MaxOpen /\ Len(o) \in Nat /\ MaxOpen \in Nat
         /\ DOMAIN o = 1 .. Len(o)
         /\ \A i \in 1 .. Len(o) : /\ o[i] \in DOMAIN t /\ o[i] \in File /\ t[o[i]] \in Seq(Item)
                                   /\ Len(t[o[i]]) \in Nat /\ DOMAIN t[o[i]] = 1 .. Len(t[o[i]])
                                   /\ p[o[i]] \in Nat /\ p[o[i]] <= Len(t[o[i]])
<1>1. MaxOpen \in Nat
  BY FilesAssumption
<1>2. /\ o \in Seq(DOMAIN t) /\ o # << >> /\ Len(o) <= MaxOpen /\ p \in [File -> Nat]
      /\ \A i \in 1 .. Len(o) : p[o[i]] <= Len(t[o[i]])
  BY DEF StackOk
<1>3. Len(o) \in Nat \ {0} /\ DOMAIN o = 1 .. Len(o) /\ \A i \in 1 .. Len(o) : o[i] \in DOMAIN t
  BY <1>2, EmptySeq
<1>4. \A f \in DOMAIN t : f \in File /\ t[f] \in Seq(Item) /\ Len(t[f]) \in Nat /\ DOMAIN t[f] = 1 .. Len(t[f])
  BY LenProperties DEF TextOk
<1> QED BY <1>1, <1>2, <1>3, <1>4

\* A file is opened as the first one.
LEMMA StackBegins ==
  ASSUME NEW t, TextOk(t), NEW f \in DOMAIN t, NEW p \in [File -> Nat], p[f] = 0
  PROVE  Stack(t, <<f>>, p, {})
<1> DEFINE o == <<f>>
<1>1. o \in Seq(DOMAIN t) /\ o # << >> /\ Len(o) = 1 /\ o[1] = f
  OBVIOUS
<1> HIDE DEF o
<1>2. MaxOpen \in Nat \ {0}
  BY FilesAssumption
<1>3. t[f] \in Seq(Item) /\ 0 <= Len(t[f])
  <2>1. t[f] \in Seq(Item)
    BY DEF TextOk
  <2>2. Len(t[f]) \in Nat
    BY <2>1, LenProperties
  <2> QED BY <2>1, <2>2
<1>4. \A i \in 1 .. Len(o) : i = 1
  BY <1>1
<1>5. StackOk(t, o, p)
  BY <1>1, <1>2, <1>3, <1>4 DEF StackOk
<1>6. LoadsOpen(t, o, p)
  BY <1>1 DEF LoadsOpen
<1>7. Below(o, p, 1) = 0
  BY <1>1 DEF Below
<1>8. ItemsRead(t, o, p, {})
  BY <1>4, <1>7 DEF ItemsRead
<1>9. OpenBelongs(t, o)
  <2>1. MaxOpen - 1 + 1 = MaxOpen
    BY <1>2
  <2> QED BY <1>4, <2>1 DEF OpenBelongs
<1> QED BY <1>5, <1>6, <1>8, <1>9 DEF Stack, o

\* An item that loads nothing is read from the file on top.
LEMMA StackAdvances ==
  ASSUME NEW t, TextOk(t), NEW o, NEW p, NEW L, Stack(t, o, p, L),
         NEW top, top = o[Len(o)], p[top] < Len(t[top]),
         NEW item, item = t[top][p[top] + 1], item.kind # "load",
         NEW L2, L \subseteq L2, L2 \subseteq L \cup (IF item.kind = "local" THEN {item.name} ELSE {}),
         item.kind = "local" => item.name \in L2,
         NEW p2, p2 = [p EXCEPT ![top] = @ + 1]
  PROVE  Stack(t, o, p2, L2)
<1>1. StackOk(t, o, p) /\ LoadsOpen(t, o, p) /\ ItemsRead(t, o, p, L) /\ OpenBelongs(t, o)
      /\ L \subseteq Names(t, MaxOpen, o[1])
  BY DEF Stack
<1> DEFINE n == Len(o)
<1>2. /\ n \in 1 .. MaxOpen /\ n \in Nat /\ MaxOpen \in Nat /\ n \in 1 .. n
      /\ top \in DOMAIN t /\ top \in File /\ p[top] \in Nat /\ Len(t[top]) \in Nat
      /\ t[top] \in Seq(Item) /\ DOMAIN t[top] = 1 .. Len(t[top])
  BY <1>1, StackFacts
<1>3. /\ p2 \in [File -> Nat] /\ p2[top] = p[top] + 1
      /\ \A f \in File : f # top => p2[f] = p[f]
  BY <1>1, <1>2 DEF StackOk
<1>4. \A i \in 1 .. n : o[i] \in File /\ p[o[i]] \in Nat
  BY <1>1, StackFacts
<1>5. StackOk(t, o, p2)
  <2>1. \A i \in 1 .. n : p2[o[i]] <= Len(t[o[i]])
    <3> TAKE i \in 1 .. n
    <3>1. CASE o[i] = top
      BY <1>2, <1>3, <3>1
    <3>2. CASE o[i] # top
      BY <1>1, <1>3, <1>4, <3>2 DEF StackOk
    <3> QED BY <3>1, <3>2
  <2> HIDE DEF n
  <2> QED BY <1>1, <1>3, <2>1 DEF StackOk, n
<1>6. \A i \in 1 .. n - 1 : i \in 1 .. n /\ n \in i + 1 .. n /\ i # n
  BY <1>2
<1>7. \A i \in 1 .. n - 1 : IsLatest(o, i) => o[i] # top /\ p2[o[i]] = p[o[i]]
  BY <1>3, <1>4, <1>6 DEF IsLatest
<1> HIDE DEF n
<1>8. LoadsOpen(t, o, p2)
  BY <1>1, <1>7 DEF LoadsOpen, n
<1>9. ItemsRead(t, o, p2, L2)
  <2> SUFFICES ASSUME NEW i \in 1 .. n, IsLatest(o, i), NEW k \in 1 .. Below(o, p2, i)
               PROVE  IsRead(t, L2, t[o[i]][k], MaxOpen - i)
    BY DEF ItemsRead, n
  <2>1. ASSUME k \in 1 .. Below(o, p, i) PROVE IsRead(t, L2, t[o[i]][k], MaxOpen - i)
    <3>1. IsRead(t, L, t[o[i]][k], MaxOpen - i)
      BY <1>1, <2>1 DEF ItemsRead, n
    <3> QED BY <3>1 DEF IsRead
  <2>2. CASE i # n
    <3>1. i \in 1 .. n - 1
      BY <1>2, <2>2
    <3>2. Below(o, p2, i) = Below(o, p, i)
      BY <1>7, <2>2, <3>1 DEF Below, n
    <3> QED BY <2>1, <3>2
  <2>3. CASE i = n
    <3>1. Below(o, p, i) = p[top] /\ Below(o, p2, i) = p[top] + 1 /\ o[i] = top
      BY <1>3, <2>3 DEF Below, n
    <3>2. CASE k = p[top] + 1
      <4>1. t[o[i]][k] = item
        BY <3>1, <3>2
      <4> QED BY <4>1 DEF IsRead
    <3>3. CASE k # p[top] + 1
      <4>1. k \in 1 .. p[top]
        BY <1>2, <3>1, <3>3
      <4> QED BY <2>1, <3>1, <4>1
    <3> QED BY <3>2, <3>3
  <2> QED BY <2>2, <2>3
<1>10. L2 \subseteq Names(t, MaxOpen, o[1])
  <2> SUFFICES ASSUME item.kind = "local" PROVE item.name \in Names(t, MaxOpen, o[1])
    BY <1>1
  <2>1. MaxOpen - n \in Nat /\ MaxOpen - n + 1 = (MaxOpen - n) + 1 /\ p[top] + 1 \in DOMAIN t[top]
    BY <1>2
  <2>2. item.name \in Names(t, (MaxOpen - n) + 1, top)
    BY <1>2, <2>1, NamesIs DEF IsLocal
  <2>3. Names(t, MaxOpen - n + 1, top) \subseteq Names(t, MaxOpen, o[1])
    BY <1>1, <1>2 DEF OpenBelongs, n
  <2> QED BY <2>1, <2>2, <2>3
<1> QED BY <1>1, <1>5, <1>8, <1>9, <1>10 DEF Stack

\* There is nothing from 1 to 0.
LEMMA NoneBelow == \A k : k \notin 1 .. 0
OBVIOUS

\* One more and one less is the same.
LEMMA OneLess == \A n \in Nat : (n + 1) - 1 = n /\ n + 1 > 0
OBVIOUS

\* What is in an interval but is not its end.
LEMMA NotTheEnd ==
  \A n \in Nat : \A i \in 1 .. n :
    i # n + 1 /\ (i # n => i \in 1 .. n - 1 /\ i + 1 \in 1 .. n)
OBVIOUS

LEMMA StackGrows ==
  ASSUME NEW S, NEW o \in Seq(S), NEW f \in S
  PROVE  LET o2 == Append(o, f)
         IN /\ o2 \in Seq(S) /\ o2 # << >> /\ Len(o2) = Len(o) + 1 /\ o2[Len(o) + 1] = f
            /\ \A i \in 1 .. Len(o) : o2[i] = o[i]
BY AppendProperties

\* The places above a place of a stack.
LEMMA PlacesAbove ==
  \A n \in Nat : \A i \in 1 .. n :
    n + 1 \in i + 1 .. n + 1 /\ \A j \in i + 1 .. n : j \in i + 1 .. n + 1 /\ j \in 1 .. n
OBVIOUS

\* A file is loaded by the one on top.
LEMMA StackLoads ==
  ASSUME NEW t, TextOk(t), NEW o, NEW p, NEW L, Stack(t, o, p, L),
         NEW top, top = o[Len(o)], p[top] < Len(t[top]),
         NEW item, item = t[top][p[top] + 1], item.kind = "load",
         NEW f \in DOMAIN t, f = item.file, Len(o) < MaxOpen,
         NEW o2, o2 = Append(o, f),
         NEW p2, p2 = [p EXCEPT ![top] = @ + 1, ![f] = 0]
  PROVE  Stack(t, o2, p2, L)
<1>1. StackOk(t, o, p) /\ LoadsOpen(t, o, p) /\ ItemsRead(t, o, p, L) /\ OpenBelongs(t, o)
      /\ L \subseteq Names(t, MaxOpen, o[1])
  BY DEF Stack
<1> DEFINE n == Len(o)
<1>2. /\ n \in 1 .. MaxOpen /\ n \in Nat /\ MaxOpen \in Nat /\ n \in 1 .. n /\ n < MaxOpen /\ 1 \in 1 .. n
      /\ top \in DOMAIN t /\ top \in File /\ p[top] \in Nat /\ Len(t[top]) \in Nat /\ f \in File
      /\ t[top] \in Seq(Item) /\ DOMAIN t[top] = 1 .. Len(t[top])
  <2>1. /\ n \in 1 .. MaxOpen /\ n \in Nat /\ MaxOpen \in Nat /\ n \in 1 .. n
        /\ top \in DOMAIN t /\ top \in File /\ p[top] \in Nat /\ Len(t[top]) \in Nat
        /\ t[top] \in Seq(Item) /\ DOMAIN t[top] = 1 .. Len(t[top])
    BY <1>1, StackFacts
  <2>2. n < MaxOpen
    OBVIOUS
  <2>3. f \in File
    BY DEF TextOk
  <2>4. 1 \in 1 .. n
    BY <2>1
  <2> QED BY <2>1, <2>2, <2>3, <2>4
<1>3. /\ p2 \in [File -> Nat] /\ p2[f] = 0
      /\ top # f => p2[top] = p[top] + 1
      /\ \A g \in File : g # top /\ g # f => p2[g] = p[g]
  BY <1>1, <1>2 DEF StackOk
<1>4. \A i \in 1 .. n : o[i] \in File /\ p[o[i]] \in Nat
  BY <1>1, StackFacts
<1>5. /\ o2 \in Seq(DOMAIN t) /\ o2 # << >> /\ Len(o2) = n + 1 /\ o2[n + 1] = f
      /\ \A i \in 1 .. n : o2[i] = o[i]
  <2>1. o \in Seq(DOMAIN t)
    BY <1>1 DEF StackOk
  <2> QED BY <2>1, StackGrows
<1>6. f \in LoadedBy(t, top) /\ p[top] + 1 \in DOMAIN t[top]
  <2>1. p[top] + 1 \in DOMAIN t[top]
    BY <1>2
  <2> QED BY <2>1 DEF LoadedBy
<1>7. t[f] \in Seq(Item) /\ 0 <= Len(t[f])
  <2>1. t[f] \in Seq(Item)
    BY DEF TextOk
  <2>2. Len(t[f]) \in Nat
    BY <2>1, LenProperties
  <2> QED BY <2>1, <2>2
<1>8. \A i \in 1 .. n + 1 : i = n + 1 \/ i \in 1 .. n
  BY <1>2
<1>9. \A i \in 1 .. n : IsLatest(o2, i) => IsLatest(o, i) /\ o[i] # f
  <2> SUFFICES ASSUME NEW i \in 1 .. n, IsLatest(o2, i) PROVE IsLatest(o, i) /\ o[i] # f
    OBVIOUS
  <2>1. n \in Nat /\ n = Len(o) /\ Len(o2) = n + 1 /\ o2[n + 1] = f
    BY <1>2, <1>5
  <2> HIDE DEF n
  <2>2. n + 1 \in i + 1 .. n + 1 /\ \A j \in i + 1 .. n : j \in i + 1 .. n + 1 /\ j \in 1 .. n
    BY <2>1, PlacesAbove
  <2>3. \A j \in i + 1 .. n + 1 : o2[j] # o2[i]
    BY <2>1 DEF IsLatest
  <2>4. o2[i] = o[i] /\ \A j \in i + 1 .. n : o2[j] = o[j]
    BY <1>5, <2>2
  <2>5. o[i] # f
    BY <2>1, <2>2, <2>3, <2>4
  <2>6. \A j \in i + 1 .. n : o[j] # o[i]
    BY <2>2, <2>3, <2>4
  <2> QED BY <2>1, <2>5, <2>6 DEF IsLatest
<1>10. \A i \in 1 .. n - 1 : i \in 1 .. n /\ i + 1 \in 1 .. n /\ n \in i + 1 .. n /\ i # n
  BY <1>2
<1>11. \A i \in 1 .. n - 1 : IsLatest(o, i) => o[i] # top
  BY <1>10 DEF IsLatest
<1>12. StackOk(t, o2, p2)
  <2>1. \A i \in 1 .. n + 1 : p2[o2[i]] <= Len(t[o2[i]])
    <3> TAKE i \in 1 .. n + 1
    <3>1. CASE o2[i] = f
      BY <1>3, <1>7, <3>1
    <3>2. CASE o2[i] # f /\ o2[i] = top
      BY <1>2, <1>3, <3>2
    <3>3. CASE o2[i] # f /\ o2[i] # top
      <4>1. i \in 1 .. n /\ o2[i] = o[i]
        BY <1>5, <1>8, <3>3
      <4>2. p2[o[i]] = p[o[i]] /\ p[o[i]] <= Len(t[o[i]])
        BY <1>1, <1>3, <1>4, <3>3, <4>1 DEF StackOk
      <4> QED BY <4>1, <4>2
    <3> QED BY <3>1, <3>2, <3>3
  <2>2. n + 1 <= MaxOpen
    BY <1>2
  <2> HIDE DEF n
  <2> QED BY <1>3, <1>5, <2>1, <2>2 DEF StackOk
<1> HIDE DEF n
<1>13. LoadsOpen(t, o2, p2)
  <2> SUFFICES ASSUME NEW i \in 1 .. n
               PROVE  /\ o2[i + 1] \in LoadedBy(t, o2[i])
                      /\ IsLatest(o2, i) => /\ p2[o2[i]] > 0
                                            /\ t[o2[i]][p2[o2[i]]].kind = "load"
                                            /\ t[o2[i]][p2[o2[i]]].file = o2[i + 1]
    <3>2. Len(o2) - 1 = n
      BY <1>2, <1>5, OneLess
    <3> QED BY <3>2 DEF LoadsOpen
  <2>1. CASE i = n
    <3>1. o2[i] = top /\ o2[i + 1] = f
      BY <1>2, <1>5, <2>1 DEF n
    <3>2. IsLatest(o2, i) => top # f
      BY <1>9, <2>1 DEF n
    <3>3. IsLatest(o2, i) => p2[top] = p[top] + 1
      BY <1>3, <3>2
    <3>4. p[top] + 1 > 0
      <4>1. p[top] \in Nat
        BY <1>2
      <4> QED BY <4>1, OneLess
    <3> QED BY <1>6, <3>1, <3>3, <3>4
  <2>2. CASE i # n
    <3>0. n \in Nat
      BY <1>2
    <3>1. i \in 1 .. n - 1 /\ i + 1 \in 1 .. n
      BY <2>2, <3>0, NotTheEnd
    <3>2. o2[i] = o[i] /\ o2[i + 1] = o[i + 1]
      BY <1>5, <3>1
    <3>3. IsLatest(o2, i) => IsLatest(o, i) /\ p2[o[i]] = p[o[i]]
      BY <1>3, <1>4, <1>9, <1>11, <3>1
    <3>4. /\ o[i + 1] \in LoadedBy(t, o[i])
          /\ IsLatest(o, i) => /\ p[o[i]] > 0 /\ t[o[i]][p[o[i]]].kind = "load"
                               /\ t[o[i]][p[o[i]]].file = o[i + 1]
      BY <1>1, <3>1 DEF LoadsOpen, n
    <3> QED BY <3>2, <3>3, <3>4
  <2> QED BY <2>1, <2>2
<1>14. ItemsRead(t, o2, p2, L)
  <2> SUFFICES ASSUME NEW i \in 1 .. n + 1, IsLatest(o2, i), NEW k \in 1 .. Below(o2, p2, i)
               PROVE  IsRead(t, L, t[o2[i]][k], MaxOpen - i)
    BY <1>5 DEF ItemsRead
  <2>1. CASE i = n + 1
    <3>1. Below(o2, p2, i) = 0
      BY <1>3, <1>5, <2>1 DEF Below
    <3>2. k \in 1 .. 0
      BY <3>1
    <3> QED BY <3>2, NoneBelow
  <2>2. CASE i \in 1 .. n
    <3>1. IsLatest(o, i) /\ o[i] # f /\ o2[i] = o[i]
      BY <1>5, <1>9, <2>2
    <3>2. Below(o2, p2, i) = Below(o, p, i)
      <4>1. Below(o2, p2, i) = p2[o[i]] - 1
        <5>1. n \in Nat /\ Len(o2) = n + 1
          BY <1>2, <1>5
        <5>2. i # Len(o2)
          BY <2>2, <5>1, NotTheEnd
        <5> QED BY <3>1, <5>2 DEF Below
      <4>2. CASE i = n
        <5>1. o[i] = top
          BY <4>2 DEF n
        <5>2. p2[top] = p[top] + 1
          BY <1>3, <3>1, <5>1
        <5>3. Below(o, p, i) = p[top]
          BY <4>2, <5>1 DEF Below, n
        <5>4. p[top] \in Nat
          BY <1>2
        <5>5. (p[top] + 1) - 1 = p[top]
          BY <5>4, OneLess
        <5> QED BY <4>1, <5>1, <5>2, <5>3, <5>5
      <4>3. CASE i # n
        <5>0. n \in Nat
          BY <1>2
        <5>1. i \in 1 .. n - 1
          BY <2>2, <4>3, <5>0, NotTheEnd
        <5>2. p2[o[i]] = p[o[i]]
          BY <1>3, <1>4, <1>11, <2>2, <3>1, <5>1
        <5>3. Below(o, p, i) = p[o[i]] - 1
          BY <4>3 DEF Below, n
        <5> QED BY <4>1, <5>2, <5>3
      <4> QED BY <4>2, <4>3
    <3> QED BY <1>1, <2>2, <3>1, <3>2 DEF ItemsRead, n
  <2> QED BY <1>8, <2>1, <2>2
<1>15. OpenBelongs(t, o2)
  <2> SUFFICES ASSUME NEW i \in 1 .. n + 1
               PROVE  Names(t, MaxOpen - i + 1, o2[i]) \subseteq Names(t, MaxOpen, o2[1])
    BY <1>5 DEF OpenBelongs
  <2>0. o2[1] = o[1]
    BY <1>2, <1>5
  <2>1. CASE i \in 1 .. n
    BY <1>1, <1>5, <2>0, <2>1 DEF OpenBelongs, n
  <2>2. CASE i = n + 1
    <3>1. MaxOpen - n \in Nat /\ MaxOpen - i + 1 = MaxOpen - n /\ MaxOpen - n + 1 = (MaxOpen - n) + 1
      BY <1>2, <2>2
    <3>2. Names(t, MaxOpen - n, f) \subseteq Names(t, (MaxOpen - n) + 1, top)
      BY <1>2, <1>6, <3>1, NamesIs
    <3>3. Names(t, MaxOpen - n + 1, top) \subseteq Names(t, MaxOpen, o[1])
      BY <1>1, <1>2 DEF OpenBelongs, n
    <3> QED BY <1>5, <2>0, <2>2, <3>1, <3>2, <3>3
  <2> QED BY <1>8, <2>1, <2>2
<1>16. o2[1] = o[1]
  BY <1>2, <1>5
<1> QED BY <1>1, <1>12, <1>13, <1>14, <1>15, <1>16 DEF Stack

\* A file was read to its end, and has given L all that it has and loads: it
\* is in no circle, and nowhere below.
LEMMA TopIsRead ==
  ASSUME NEW t, TextOk(t), NEW o, NEW p, NEW L, Stack(t, o, p, L),
         NEW top, top = o[Len(o)], p[top] = Len(t[top])
  PROVE  /\ Names(t, MaxOpen - Len(o) + 1, top) \subseteq L
         /\ ~ Deep(t, MaxOpen - Len(o) + 1, top)
         /\ \A i \in 1 .. Len(o) - 1 : o[i] # top
<1>1. StackOk(t, o, p) /\ LoadsOpen(t, o, p) /\ ItemsRead(t, o, p, L)
  BY DEF Stack
<1> DEFINE n == Len(o)
           r == MaxOpen - n
<1>2. /\ n \in 1 .. MaxOpen /\ n \in Nat /\ MaxOpen \in Nat
      /\ \A i \in 1 .. n : o[i] \in DOMAIN t /\ o[i] \in File
      /\ DOMAIN t[top] = 1 .. Len(t[top])
  <2>1. /\ n \in 1 .. MaxOpen /\ n \in Nat /\ MaxOpen \in Nat
        /\ \A i \in 1 .. n : o[i] \in DOMAIN t /\ o[i] \in File /\ DOMAIN t[o[i]] = 1 .. Len(t[o[i]])
    BY <1>1, StackFacts
  <2>2. n \in 1 .. n
    BY <2>1
  <2> QED BY <2>1, <2>2
<1>3. n \in 1 .. n /\ r \in Nat /\ MaxOpen - n + 1 = r + 1
  BY <1>2
<1>4. top \in DOMAIN t /\ top \in File
  BY <1>2, <1>3
<1>5. IsLatest(o, n)
  <2>1. \A j : j \notin n + 1 .. n
    BY <1>2
  <2> QED BY <2>1 DEF IsLatest
<1>6. \A k \in DOMAIN t[top] : IsRead(t, L, t[top][k], r)
  <2>1. Below(o, p, n) = Len(t[top])
    BY DEF Below
  <2> QED BY <1>1, <1>2, <1>3, <1>5, <2>1 DEF ItemsRead
<1> HIDE DEF n, r
<1>7. Names(t, r + 1, top) \subseteq L
  <2> SUFFICES ASSUME NEW d \in Names(t, r + 1, top) PROVE d \in L
    OBVIOUS
  <2>1. PICK i \in DOMAIN t[top] :
          \/ IsLocal(t[top][i], d)
          \/ t[top][i].kind = "load" /\ d \in Names(t, r, t[top][i].file)
    BY <1>3, <1>4, NamesIs
  <2>2. IsRead(t, L, t[top][i], r)
    BY <1>6
  <2> QED BY <2>1, <2>2 DEF IsRead, IsLocal
<1>8. ~ Deep(t, r + 1, top)
  <2>1. \A g \in LoadedBy(t, top) : ~ Deep(t, r, g)
    BY <1>6 DEF LoadedBy, IsRead
  <2> QED BY <1>3, <1>4, <2>1, DeepStep
<1>9. ASSUME NEW i \in 1 .. n - 1, o[i] = top PROVE FALSE
  <2>1. i \in Nat /\ i < n /\ r + 1 \in Nat
    BY <1>2, <1>3
  <2>2. /\ \A k \in i .. n : k \in 1 .. n
        /\ \A k \in i .. n - 1 : k \in 1 .. n - 1
    BY <1>2
  <2>3. \A k \in i .. n : o[k] \in DOMAIN t
    BY <1>2, <2>2
  <2>4. \A k \in i .. n - 1 : o[k + 1] \in LoadedBy(t, o[k])
    BY <1>1, <2>2 DEF LoadsOpen, n
  <2>5. o[i] = o[n]
    BY <1>9 DEF n
  <2>6. \A m \in Nat : Deep(t, m, o[i])
    BY <1>2, <2>1, <2>3, <2>4, <2>5, CircleIsDeep
  <2> QED BY <1>8, <1>9, <2>1, <2>6
<1> QED BY <1>3, <1>7, <1>8, <1>9 DEF n

\* A sequence without its last element.
LEMMA FrontIs ==
  ASSUME NEW S, NEW s \in Seq(S), Len(s) > 1
  PROVE  /\ Front(s) \in Seq(S) /\ Len(Front(s)) = Len(s) - 1
         /\ \A i \in 1 .. Len(s) - 1 : Front(s)[i] = s[i]
<1>1. Len(s) \in Nat /\ Len(s) - 1 \in 1 .. Len(s) /\ \A i \in 1 .. Len(s) - 1 : i \in 1 .. Len(s) /\ 1 + i - 1 = i
  OBVIOUS
<1>2. Front(s) = SubSeq(s, 1, Len(s) - 1)
  BY DEF Front
<1>3. Front(s) = [i \in 1 .. Len(s) - 1 |-> s[i]]
  BY <1>1, <1>2
<1> QED BY <1>1, <1>3

\* The file on top was read to its end: the one below goes on.
LEMMA StackReturns ==
  ASSUME NEW t, TextOk(t), NEW o, NEW p, NEW L, Stack(t, o, p, L), Len(o) > 1,
         NEW top, top = o[Len(o)], p[top] = Len(t[top]),
         NEW o2, o2 = Front(o)
  PROVE  Stack(t, o2, p, L)
<1>1. StackOk(t, o, p) /\ LoadsOpen(t, o, p) /\ ItemsRead(t, o, p, L) /\ OpenBelongs(t, o)
      /\ L \subseteq Names(t, MaxOpen, o[1])
  BY DEF Stack
<1> DEFINE n == Len(o)
           m == n - 1
<1>2. /\ n \in 1 .. MaxOpen /\ n \in Nat /\ MaxOpen \in Nat /\ n > 1
      /\ \A i \in 1 .. n : o[i] \in DOMAIN t /\ o[i] \in File /\ p[o[i]] \in Nat
  BY <1>1, StackFacts
<1>3. /\ m \in Nat /\ m # 0 /\ m + 1 = n /\ m <= MaxOpen /\ MaxOpen - m = MaxOpen - n + 1
      /\ m \in 1 .. m /\ 1 \in 1 .. m /\ m \in 1 .. n - 1
      /\ \A i \in 1 .. m : i \in 1 .. n /\ i # n /\ (i = m \/ i \in 1 .. m - 1)
      /\ \A i \in 1 .. m - 1 : i \in 1 .. n - 1 /\ i + 1 \in 1 .. m /\ i # m /\ i \in 1 .. m
      /\ \A i \in 1 .. m : \A j \in i + 1 .. n : j = n \/ j \in i + 1 .. m
  BY <1>2
<1>4. /\ o2 \in Seq(DOMAIN t) /\ o2 # << >> /\ Len(o2) = m
      /\ \A i \in 1 .. m : o2[i] = o[i]
  <2>1. o \in Seq(DOMAIN t)
    BY <1>1 DEF StackOk
  <2>2. o2 \in Seq(DOMAIN t) /\ Len(o2) = m /\ \A i \in 1 .. m : o2[i] = o[i]
    BY <2>1, FrontIs
  <2> HIDE DEF m
  <2> QED BY <1>3, <2>2
<1>5. /\ Names(t, MaxOpen - n + 1, top) \subseteq L
      /\ ~ Deep(t, MaxOpen - n + 1, top)
      /\ \A i \in 1 .. m : o[i] # top
  BY TopIsRead
<1> HIDE DEF n, m
<1>6. \A i \in 1 .. m : IsLatest(o2, i) => IsLatest(o, i)
  <2> SUFFICES ASSUME NEW i \in 1 .. m, IsLatest(o2, i), NEW j \in i + 1 .. n PROVE o[j] # o[i]
    BY DEF IsLatest, n
  <2>1. CASE j = n
    BY <1>5, <2>1 DEF n
  <2>2. CASE j \in i + 1 .. m
    <3>1. o2[j] # o2[i]
      BY <1>4, <2>2 DEF IsLatest
    <3>2. j \in 1 .. m
      BY <1>3, <2>2
    <3> QED BY <1>4, <3>1, <3>2
  <2> QED BY <1>3, <2>1, <2>2
<1>7. StackOk(t, o2, p)
  <2>1. p \in [File -> Nat] /\ \A i \in 1 .. n : p[o[i]] <= Len(t[o[i]])
    BY <1>1 DEF StackOk, n
  <2> QED BY <1>3, <1>4, <2>1 DEF StackOk
<1>8. LoadsOpen(t, o2, p)
  <2> SUFFICES ASSUME NEW i \in 1 .. m - 1
               PROVE  /\ o2[i + 1] \in LoadedBy(t, o2[i])
                      /\ IsLatest(o2, i) => /\ p[o2[i]] > 0
                                            /\ t[o2[i]][p[o2[i]]].kind = "load"
                                            /\ t[o2[i]][p[o2[i]]].file = o2[i + 1]
    BY <1>4 DEF LoadsOpen
  <2>1. i \in 1 .. m /\ i \in 1 .. n - 1 /\ o2[i] = o[i] /\ o2[i + 1] = o[i + 1]
    BY <1>3, <1>4
  <2> QED BY <1>1, <1>6, <2>1 DEF LoadsOpen, n
<1>9. ItemsRead(t, o2, p, L)
  <2> SUFFICES ASSUME NEW i \in 1 .. m, IsLatest(o2, i), NEW k \in 1 .. Below(o2, p, i)
               PROVE  IsRead(t, L, t[o2[i]][k], MaxOpen - i)
    BY <1>4 DEF ItemsRead
  <2>1. IsLatest(o, i) /\ o2[i] = o[i] /\ i \in 1 .. n /\ i # n /\ p[o[i]] \in Nat
    BY <1>2, <1>3, <1>4, <1>6
  <2>2. Below(o, p, i) = p[o[i]] - 1
    BY <2>1 DEF Below, n
  <2>3. ASSUME k \in 1 .. p[o[i]] - 1 PROVE IsRead(t, L, t[o2[i]][k], MaxOpen - i)
    BY <1>1, <2>1, <2>2, <2>3 DEF ItemsRead, n
  <2>4. CASE i # m
    <3>1. Below(o2, p, i) = p[o[i]] - 1
      BY <1>4, <2>1, <2>4 DEF Below
    <3> QED BY <2>3, <3>1
  <2>5. CASE i = m
    <3>1. Below(o2, p, i) = p[o[i]]
      BY <1>4, <2>1, <2>5 DEF Below
    <3>2. CASE k = p[o[i]]
      <4>1. t[o[i]][k].kind = "load" /\ t[o[i]][k].file = top
        <5>1. o[m + 1] = top
          BY <1>3 DEF n
        <5> QED BY <1>1, <1>3, <2>1, <2>5, <3>2, <5>1 DEF LoadsOpen, n
      <4> QED BY <1>3, <1>5, <2>1, <2>5, <4>1 DEF IsRead
    <3>3. CASE k # p[o[i]]
      <4>1. k \in 1 .. p[o[i]]
        BY <3>1
      <4>2. k \in 1 .. p[o[i]] - 1
        BY <2>1, <3>3, <4>1
      <4> QED BY <2>3, <4>2
    <3> QED BY <3>2, <3>3
  <2> QED BY <2>4, <2>5
<1>10. OpenBelongs(t, o2) /\ o2[1] = o[1]
  BY <1>1, <1>3, <1>4 DEF OpenBelongs, n
<1> QED BY <1>1, <1>7, <1>8, <1>9, <1>10 DEF Stack

\* The file being compiled was read to its end: its definitions are complete.
LEMMA StackEnds ==
  ASSUME NEW t, TextOk(t), NEW o, NEW p, NEW L, Stack(t, o, p, L), Len(o) = 1,
         p[o[1]] = Len(t[o[1]])
  PROVE  L = Names(t, MaxOpen, o[1])
<1>1. MaxOpen \in Nat /\ MaxOpen - 1 + 1 = MaxOpen
  BY FilesAssumption
<1>2. Names(t, MaxOpen - Len(o) + 1, o[1]) \subseteq L
  BY TopIsRead
<1>3. L \subseteq Names(t, MaxOpen, o[1])
  BY DEF Stack
<1> QED BY <1>1, <1>2, <1>3

------------------------------------------------------------------------------
\* The steps of the reading.

\* The part of the state that the reading of a file is found with.
ReadTypes ==
  /\ TextOk(text)
  /\ pos \in [File -> Nat] /\ locals \in [File -> SUBSET Local]
  /\ pushed \subseteq DOMAIN text /\ ToSet(open) \subseteq pushed
  /\ phase = "parsed" => startstr = << >>

\* The file being compiled is at the bottom of the stack, and its definitions
\* are those of what was read since.
OpenIsRead ==
  \/ startstr = << >> /\ open = << >>
  \/ \E c \in Class : startstr = <<c>> /\ open[1] = c /\ Stack(text, open, pos, locals[c])

OthersHaveNone == \A c \in Class : locals[c] # {} => c \in pushed

CompiledAreComplete ==
  \A c \in Compiled : startstr # <<c>> => locals[c] = Names(text, MaxOpen, c)

LInv == ReadTypes /\ OpenIsRead /\ OthersHaveNone /\ CompiledAreComplete

\* At first nothing is open, and nothing is defined.
LEMMA InitHasNoLocals == Init => LInv
<1> SUFFICES ASSUME Init PROVE LInv
  OBVIOUS
<1>1. /\ prog \in Programs /\ startstr = << >> /\ open = << >> /\ pos = [f \in File |-> 0]
      /\ pushed = {} /\ locals = [f \in File |-> {}] /\ phase = "parse"
  BY DEF Init
<1>2. TextOk(text)
  BY <1>1, ProgramsAssumption DEF TextOk, text
<1>3. ToSet(open) = {}
  BY <1>1 DEF ToSet
<1>4. Class \subseteq File
  BY DEF File
<1>5. ReadTypes
  BY <1>1, <1>2, <1>3 DEF ReadTypes
<1> QED BY <1>1, <1>4, <1>5 DEF LInv, OpenIsRead, OthersHaveNone, CompiledAreComplete, Compiled

\* A step that opens and reads nothing.
LEMMA SameReading ==
  ASSUME LInv, UNCHANGED <<prog, startstr, open, pos, pushed, locals>>,
         phase' = "parsed" => startstr = << >>
  PROVE  LInv'
<1>1. text' = text
  BY DEF text
<1>2. Compiled' = Compiled
  BY <1>1 DEF Compiled, Loads
<1>3. ToSet(open)' = ToSet(open)
  OBVIOUS
<1>4. ReadTypes'
  BY <1>1, <1>3 DEF LInv, ReadTypes
<1>5. OpenIsRead'
  BY <1>1, Zenon DEF LInv, OpenIsRead
<1>6. OthersHaveNone'
  BY DEF LInv, OthersHaveNone
<1>7. CompiledAreComplete'
  BY <1>1, <1>2 DEF LInv, CompiledAreComplete
<1> QED BY <1>4, <1>5, <1>6, <1>7 DEF LInv

\* A file is opened that was not read before, so it has no definitions yet.
LEMMA CompileFileReads ==
  ASSUME IInv, LInv, CompileFile PROVE LInv'
<1> DEFINE f == Head(toCompile)
<1>1. /\ phase = "parse" /\ startstr = << >> /\ prog' = prog /\ locals' = locals
      /\ toCompile \in Seq(Class) /\ toCompile # << >> /\ f \in Class /\ text' = text
  BY HeadTailProperties DEF CompileFile, Fail, IInv, TableTypes, text
<1>2. CASE phase' # "parsed" /\ UNCHANGED <<startstr, open, pos, pushed>>
  BY <1>1, <1>2, SameReading
<1>3. CASE /\ f \notin pushed /\ Exists(f) /\ startstr' = <<f>> /\ open' = Append(open, f)
           /\ pos' = [pos EXCEPT ![f] = 0] /\ pushed' = pushed \cup {f} /\ phase' = phase
  <2>1. /\ ReadTypes /\ OpenIsRead /\ OthersHaveNone /\ CompiledAreComplete
        /\ f \in File /\ f \in DOMAIN text
    BY <1>1, <1>3 DEF LInv, File, Exists
  <2>2. open = << >>
    BY <1>1, <2>1 DEF OpenIsRead
  <2>3. open' = <<f>>
    BY <1>3, <2>2
  <2>4. pos' \in [File -> Nat] /\ pos'[f] = 0
    BY <1>3, <2>1 DEF ReadTypes
  <2>5. locals'[f] = {}
    BY <1>1, <1>3, <2>1 DEF OthersHaveNone
  <2>6. Stack(text, <<f>>, pos', {})
    BY <2>1, <2>4, StackBegins DEF ReadTypes
  <2>7. ToSet(open') = {f}
    BY <2>3 DEF ToSet
  <2>8. ReadTypes'
    BY <1>1, <1>3, <2>1, <2>4, <2>7 DEF ReadTypes
  <2>9. OpenIsRead'
    <3>1. <<f>>[1] = f
      OBVIOUS
    <3>2. /\ startstr' = <<f>> /\ open'[1] = f /\ Stack(text', open', pos', locals'[f])
      BY <1>1, <1>3, <2>3, <2>5, <2>6, <3>1
    <3> QED BY <1>1, <3>2 DEF OpenIsRead
  <2>10. OthersHaveNone'
    BY <1>1, <1>3, <2>1 DEF OthersHaveNone
  <2>11. CompiledAreComplete'
    <3> SUFFICES ASSUME NEW c \in Compiled', startstr' # <<c>>
                 PROVE  locals[c] = Names(text, MaxOpen, c)
      BY <1>1 DEF CompiledAreComplete
    <3>1. c \in Compiled
      BY <1>1, <1>3 DEF Compiled, Loads
    <3> QED BY <1>1, <2>1, <3>1 DEF CompiledAreComplete
  <2> QED BY <2>8, <2>9, <2>10, <2>11 DEF LInv
<1>4. \/ phase' # "parsed" /\ UNCHANGED <<startstr, open, pos, pushed>>
      \/ /\ f \notin pushed /\ Exists(f) /\ startstr' = <<f>> /\ open' = Append(open, f)
         /\ pos' = [pos EXCEPT ![f] = 0] /\ pushed' = pushed \cup {f} /\ phase' = phase
  BY <1>1 DEF CompileFile, Fail, CanPush, Push
<1> QED BY <1>2, <1>3, <1>4

\* The file being compiled, when an item is read, and the stack.
LEMMA WhileReading ==
  ASSUME IInv, LInv, open # << >>
  PROVE  \E c \in Class :
           /\ startstr = <<c>> /\ startstr[1] = c /\ open[1] = c /\ c \in File /\ c \in pushed
           /\ Stack(text, open, pos, locals[c]) /\ Last(open) = open[Len(open)]
           /\ Len(open) \in Nat /\ 1 <= Len(open) /\ Last(open) \in DOMAIN text /\ Last(open) \in File
<1>1. ReadTypes /\ OpenIsRead
  BY DEF LInv
<1>2. PICK c \in Class : startstr = <<c>> /\ open[1] = c /\ Stack(text, open, pos, locals[c])
  BY <1>1 DEF OpenIsRead
<1>3. TextOk(text) /\ StackOk(text, open, pos)
  BY <1>1, <1>2 DEF ReadTypes, Stack
<1>4. /\ Len(open) \in 1 .. MaxOpen /\ Len(open) \in Nat /\ DOMAIN open = 1 .. Len(open)
      /\ \A i \in 1 .. Len(open) : open[i] \in DOMAIN text /\ open[i] \in File
  BY <1>3, StackFacts
<1>5. 1 \in 1 .. Len(open) /\ Len(open) \in 1 .. Len(open) /\ 1 <= Len(open)
  BY <1>4
<1>6. c \in pushed
  BY <1>1, <1>2, <1>4, <1>5 DEF ReadTypes, ToSet
<1>7. Last(open) = open[Len(open)]
  BY DEF Last
<1>8. startstr[1] = c
  BY <1>2
<1> QED BY <1>2, <1>4, <1>5, <1>6, <1>7, <1>8 DEF File

\* A file is loaded; it counts no longer among those that are compiled alone.
LEMMA LoadReads ==
  ASSUME IInv, LInv, NEW item, Reads(item), LoadFile(item) PROVE LInv'
<1>1. /\ phase = "parse" /\ open # << >> /\ pos[Last(open)] < Len(text[Last(open)])
      /\ item = text[Last(open)][pos[Last(open)] + 1] /\ item.kind = "load"
      /\ prog' = prog /\ startstr' = startstr /\ locals' = locals /\ text' = text
  BY DEF Reads, LoadFile, text
<1>2. CASE phase' = "error" /\ UNCHANGED <<open, pos, pushed>>
  BY <1>1, <1>2, SameReading
<1>3. CASE /\ CanPush(item.file) /\ open' = Append(open, item.file)
           /\ pushed' = pushed \cup {item.file} /\ phase' = phase
           /\ pos' = [pos EXCEPT ![Last(open)] = @ + 1, ![item.file] = 0]
  <2> DEFINE f == item.file
             top == Last(open)
  <2>1. ReadTypes /\ OpenIsRead /\ OthersHaveNone /\ CompiledAreComplete /\ TextOk(text)
    BY DEF LInv, ReadTypes
  <2>2. PICK c \in Class :
          /\ startstr = <<c>> /\ open[1] = c /\ c \in pushed
          /\ Stack(text, open, pos, locals[c]) /\ top = open[Len(open)]
          /\ Len(open) \in Nat /\ 1 <= Len(open) /\ top \in DOMAIN text /\ top \in File
    BY <1>1, WhileReading
  <2>3. f \in DOMAIN text /\ Len(open) < MaxOpen
    BY <1>3 DEF CanPush, Exists
  <2>4. Stack(text, open', pos', locals[c])
    BY <1>1, <1>3, <2>1, <2>2, <2>3, StackLoads
  <2>5. StackOk(text, open', pos')
    BY <2>4 DEF Stack
  <2>6. open' # << >> /\ pos' \in [File -> Nat]
    BY <2>5 DEF StackOk
  <2>7. /\ open \in Seq(DOMAIN text) /\ Len(open') = Len(open) + 1
        /\ DOMAIN open = 1 .. Len(open) /\ DOMAIN open' = 1 .. Len(open) + 1
        /\ open'[Len(open) + 1] = f /\ \A i \in 1 .. Len(open) : open'[i] = open[i]
    <3>1. open \in Seq(DOMAIN text)
      BY <2>2 DEF Stack, StackOk
    <3> QED BY <1>3, <2>3, <3>1, AppendProperties
  <2>8. open'[1] = c
    <3>1. 1 \in 1 .. Len(open)
      BY <2>2
    <3> QED BY <2>2, <2>7, <3>1
  <2>9. ToSet(open') \subseteq ToSet(open) \cup {f}
    <3>1. \A i \in 1 .. Len(open) + 1 : i = Len(open) + 1 \/ i \in 1 .. Len(open)
      BY <2>2
    <3> QED BY <2>7, <3>1 DEF ToSet
  <2>10. ReadTypes'
    BY <1>1, <1>3, <2>1, <2>3, <2>6, <2>9 DEF ReadTypes
  <2>11. OpenIsRead'
    <3>1. startstr' = <<c>> /\ open'[1] = c /\ Stack(text', open', pos', locals'[c])
      BY <1>1, <2>2, <2>4, <2>8
    <3> QED BY <3>1 DEF OpenIsRead
  <2>12. OthersHaveNone'
    BY <1>1, <1>3, <2>1 DEF OthersHaveNone
  <2>13. CompiledAreComplete'
    <3> SUFFICES ASSUME NEW k \in Compiled', startstr' # <<k>>
                 PROVE  locals[k] = Names(text, MaxOpen, k)
      BY <1>1 DEF CompiledAreComplete
    <3>1. pos[top] + 1 \in DOMAIN text[top]
      <4>1. /\ pos[top] \in Nat /\ Len(text[top]) \in Nat /\ DOMAIN text[top] = 1 .. Len(text[top])
        <5>1. text[top] \in Seq(Item)
          BY <2>1, <2>2 DEF TextOk
        <5> QED BY <2>1, <2>2, <5>1, LenProperties DEF ReadTypes
      <4> QED BY <1>1, <4>1
    <3>2. f \in Loads(top)
      BY <1>1, <3>1 DEF Loads
    <3>3. k # f /\ k \in Compiled
      <4>1. k \in Class /\ k \in pushed' /\ k \notin UNION {Loads(g) : g \in DOMAIN text}
        BY <1>1 DEF Compiled, Loads
      <4>2. f \in UNION {Loads(g) : g \in DOMAIN text}
        BY <2>2, <3>2
      <4> QED BY <1>3, <4>1, <4>2 DEF Compiled
    <3> QED BY <1>1, <2>1, <3>3 DEF CompiledAreComplete
  <2> QED BY <2>10, <2>11, <2>12, <2>13 DEF LInv
<1>4. \/ phase' = "error" /\ UNCHANGED <<open, pos, pushed>>
      \/ /\ CanPush(item.file) /\ open' = Append(open, item.file)
         /\ pushed' = pushed \cup {item.file} /\ phase' = phase
         /\ pos' = [pos EXCEPT ![Last(open)] = @ + 1, ![item.file] = 0]
  BY DEF LoadFile
<1> QED BY <1>2, <1>3, <1>4

\* Another item is read, and a local definition put with the others.
LEMMA OtherReads ==
  ASSUME IInv, LInv, NEW item, Reads(item), UseFile(item) \/ LocalDef(item) \/ ClassDef(item)
  PROVE  LInv'
<1>1. /\ phase = "parse" /\ open # << >> /\ pos[Last(open)] < Len(text[Last(open)])
      /\ item = text[Last(open)][pos[Last(open)] + 1] /\ item.kind # "load"
      /\ prog' = prog /\ startstr' = startstr /\ open' = open /\ pushed' = pushed /\ text' = text
  BY DEF Reads, UseFile, LocalDef, ClassDef, text
<1>2. CASE phase' = "error" /\ UNCHANGED <<pos, locals>>
  BY <1>1, <1>2, SameReading
<1>3. CASE /\ phase' = phase /\ pos' = [pos EXCEPT ![Last(open)] = @ + 1]
           /\ \/ item.kind # "local" /\ locals' = locals
              \/ /\ item.kind = "local"
                 /\ locals' = [locals EXCEPT ![startstr[1]] = @ \cup {item.name}]
  <2> DEFINE top == Last(open)
  <2>1. ReadTypes /\ OpenIsRead /\ OthersHaveNone /\ CompiledAreComplete /\ TextOk(text)
    BY DEF LInv, ReadTypes
  <2>2. PICK c \in Class :
          /\ startstr = <<c>> /\ startstr[1] = c /\ open[1] = c /\ c \in File /\ c \in pushed
          /\ Stack(text, open, pos, locals[c]) /\ top = open[Len(open)]
          /\ top \in DOMAIN text /\ top \in File
    BY <1>1, WhileReading
  <2>3. item \in Item
    <3>1. /\ pos[top] \in Nat /\ Len(text[top]) \in Nat /\ DOMAIN text[top] = 1 .. Len(text[top])
          /\ text[top] \in Seq(Item)
      <4>1. text[top] \in Seq(Item)
        BY <2>1, <2>2 DEF TextOk
      <4> QED BY <2>1, <2>2, <4>1, LenProperties DEF ReadTypes
    <3>2. pos[top] + 1 \in 1 .. Len(text[top])
      BY <1>1, <3>1
    <3> QED BY <1>1, <3>1, <3>2
  <2>4. /\ locals' \in [File -> SUBSET Local]
        /\ locals'[c] = locals[c] \cup (IF item.kind = "local" THEN {item.name} ELSE {})
        /\ \A k \in Class : k # c => locals'[k] = locals[k]
    <3>1. item.kind = "local" => item.name \in Local
      BY <2>3, Items
    <3> QED BY <1>3, <2>1, <2>2, <3>1 DEF ReadTypes, File
  <2>5. Stack(text, open, pos', locals'[c])
    <3> DEFINE L2 == locals'[c]
    <3>1. /\ locals[c] \subseteq L2
          /\ L2 \subseteq locals[c] \cup (IF item.kind = "local" THEN {item.name} ELSE {})
          /\ item.kind = "local" => item.name \in L2
      BY <2>4
    <3> HIDE DEF L2
    <3>2. Stack(text, open, pos', L2)
      BY <1>1, <1>3, <2>1, <2>2, <3>1, StackAdvances
    <3> QED BY <3>2 DEF L2
  <2>6. pos' \in [File -> Nat]
    BY <1>3, <2>1, <2>2 DEF ReadTypes
  <2>7. ReadTypes'
    <3>1. ToSet(open)' = ToSet(open)
      BY <1>1
    <3> QED BY <1>1, <1>3, <2>1, <2>4, <2>6, <3>1 DEF ReadTypes
  <2>8. OpenIsRead'
    <3>1. startstr' = <<c>> /\ open'[1] = c /\ Stack(text', open', pos', locals'[c])
      BY <1>1, <2>2, <2>5
    <3> QED BY <3>1 DEF OpenIsRead
  <2>9. OthersHaveNone'
    BY <1>1, <2>1, <2>2, <2>4 DEF OthersHaveNone
  <2>10. CompiledAreComplete'
    <3> SUFFICES ASSUME NEW k \in Compiled', startstr' # <<k>>
                 PROVE  locals'[k] = Names(text, MaxOpen, k)
      BY <1>1 DEF CompiledAreComplete
    <3>1. k \in Compiled /\ k \in Class
      BY <1>1 DEF Compiled, Loads
    <3>2. k # c
      BY <1>1, <2>2
    <3> QED BY <1>1, <2>1, <2>4, <3>1, <3>2 DEF CompiledAreComplete
  <2> QED BY <2>7, <2>8, <2>9, <2>10 DEF LInv
<1>4. \/ phase' = "error" /\ UNCHANGED <<pos, locals>>
      \/ /\ phase' = phase /\ pos' = [pos EXCEPT ![Last(open)] = @ + 1]
         /\ \/ item.kind # "local" /\ locals' = locals
            \/ /\ item.kind = "local"
               /\ locals' = [locals EXCEPT ![startstr[1]] = @ \cup {item.name}]
  BY DEF UseFile, LocalDef, ClassDef, Advance
<1> QED BY <1>2, <1>3, <1>4

\* A loaded file ends.
LEMMA EndOfFileReads ==
  ASSUME IInv, LInv, EndOfFile PROVE LInv'
<1>1. /\ phase = "parse" /\ Len(open) > 1 /\ pos[Last(open)] = Len(text[Last(open)])
      /\ open' = Front(open) /\ text' = text
      /\ UNCHANGED <<prog, startstr, pos, pushed, locals, phase>>
  BY DEF EndOfFile, text
<1>2. ReadTypes /\ OpenIsRead /\ OthersHaveNone /\ CompiledAreComplete /\ TextOk(text)
  BY DEF LInv, ReadTypes
<1>3. open # << >>
  BY <1>1
<1>4. PICK c \in Class :
        /\ startstr = <<c>> /\ open[1] = c
        /\ Stack(text, open, pos, locals[c]) /\ Last(open) = open[Len(open)]
  BY <1>3, WhileReading
<1>5. Stack(text, open', pos, locals[c])
  BY <1>1, <1>2, <1>4, StackReturns
<1>6. open \in Seq(DOMAIN text)
  BY <1>4 DEF Stack, StackOk
<1>7. open'[1] = c /\ ToSet(open') \subseteq ToSet(open)
  <2>1. /\ open' \in Seq(DOMAIN text) /\ Len(open') = Len(open) - 1
        /\ \A i \in 1 .. Len(open) - 1 : open'[i] = open[i]
    BY <1>1, <1>6, FrontIs
  <2>2. /\ DOMAIN open = 1 .. Len(open) /\ DOMAIN open' = 1 .. Len(open) - 1
        /\ 1 \in 1 .. Len(open) - 1 /\ \A i \in 1 .. Len(open) - 1 : i \in 1 .. Len(open)
    <3>1. Len(open) \in Nat /\ DOMAIN open = 1 .. Len(open) /\ DOMAIN open' = 1 .. Len(open')
      BY <1>6, <2>1
    <3> QED BY <1>1, <2>1, <3>1
  <2> QED BY <1>4, <2>1, <2>2 DEF ToSet
<1>8. ReadTypes'
  BY <1>1, <1>2, <1>7 DEF ReadTypes
<1>9. OpenIsRead'
  <2>1. startstr' = <<c>> /\ open'[1] = c /\ Stack(text', open', pos', locals'[c])
    BY <1>1, <1>4, <1>5, <1>7
  <2> QED BY <2>1 DEF OpenIsRead
<1>10. OthersHaveNone' /\ CompiledAreComplete'
  <2>1. Compiled' = Compiled
    BY <1>1 DEF Compiled, Loads
  <2> QED BY <1>1, <1>2, <2>1 DEF OthersHaveNone, CompiledAreComplete
<1> QED BY <1>8, <1>9, <1>10 DEF LInv

\* The file being compiled ends, and has all its definitions.
LEMMA EndProgramReads ==
  ASSUME IInv, LInv, EndProgram PROVE LInv'
<1>1. /\ phase = "parse" /\ Len(open) = 1 /\ pos[Last(open)] = Len(text[Last(open)])
      /\ text' = text /\ UNCHANGED <<prog, pos, pushed, locals>>
  BY DEF EndProgram, text
<1>2. CASE phase' = "error" /\ UNCHANGED <<startstr, open>>
  BY <1>1, <1>2, SameReading
<1>3. CASE startstr' = << >> /\ open' = << >> /\ phase' = phase
  <2>1. ReadTypes /\ OpenIsRead /\ OthersHaveNone /\ CompiledAreComplete /\ TextOk(text)
    BY DEF LInv, ReadTypes
  <2>2. open # << >>
    BY <1>1
  <2>3. PICK c \in Class :
          /\ startstr = <<c>> /\ open[1] = c
          /\ Stack(text, open, pos, locals[c]) /\ Last(open) = open[Len(open)]
    BY <2>2, WhileReading
  <2>4. locals[c] = Names(text, MaxOpen, c)
    BY <1>1, <2>1, <2>3, StackEnds
  <2>5. ToSet(open') = {}
    BY <1>3 DEF ToSet
  <2>6. ReadTypes' /\ OpenIsRead' /\ OthersHaveNone'
    BY <1>1, <1>3, <2>1, <2>5 DEF ReadTypes, OpenIsRead, OthersHaveNone
  <2>7. CompiledAreComplete'
    <3> SUFFICES ASSUME NEW k \in Compiled PROVE locals[k] = Names(text, MaxOpen, k)
      BY <1>1 DEF CompiledAreComplete, Compiled, Loads
    <3>1. CASE k = c
      BY <2>4, <3>1
    <3>2. CASE k # c
      <4>1. startstr # <<k>>
        BY <2>3, <3>2
      <4> QED BY <2>1, <4>1 DEF CompiledAreComplete
    <3> QED BY <3>1, <3>2
  <2> QED BY <2>6, <2>7 DEF LInv
<1>4. \/ phase' = "error" /\ UNCHANGED <<startstr, open>>
      \/ startstr' = << >> /\ open' = << >> /\ phase' = phase
  BY DEF EndProgram
<1> QED BY <1>2, <1>3, <1>4

\* A step of any kind keeps the definitions as they are read.
LEMMA NextReads ==
  ASSUME IInv, LInv, [Next]_vars PROVE LInv'
<1>1. CASE NextRound
  BY <1>1, SameReading DEF NextRound
<1>2. CASE EndParsing
  BY <1>2, SameReading DEF EndParsing
<1>3. CASE Done \/ UNCHANGED vars
  <2>1. UNCHANGED vars
    BY <1>3 DEF Done
  <2>2. phase' = "parsed" => startstr = << >>
    BY <2>1 DEF vars, LInv, ReadTypes
  <2> QED BY <2>1, <2>2, SameReading DEF vars
<1>4. ASSUME NEW item, ParseItem(item) PROVE LInv'
  BY <1>4, LoadReads, OtherReads DEF ParseItem
<1> QED
  BY <1>1, <1>2, <1>3, <1>4, CompileFileReads, EndOfFileReads, EndProgramReads DEF Next

\* When the reading is done, the local definitions in the scope of a file that
\* was compiled are those of it and of the files it loads, all of them and no
\* others: what is loaded twice, in one file or by several, is read each time.
THEOREM LocalsComplete == Spec => []LocalsAreComplete
<1>1. LInv => LocalsAreComplete
  <2> SUFFICES ASSUME LInv, phase = "parsed", NEW c \in Compiled
               PROVE  locals[c] = {item.name : item \in {i \in ToSet(Expansion(c)) : i.kind = "local"}}
    BY DEF LocalsAreComplete
  <2>1. startstr # <<c>>
    BY DEF LInv, ReadTypes
  <2>2. locals[c] = Names(text, MaxOpen, c)
    BY <2>1 DEF LInv, CompiledAreComplete
  <2> QED BY <2>2 DEF Names, Expansion
<1>2. Init => IInv /\ LInv
  BY InitHasNoneUnseen, InitHasNoLocals
<1>3. IInv /\ LInv /\ [Next]_vars => IInv' /\ LInv'
  BY NextKeeps, NextReads
<1> QED BY <1>1, <1>2, <1>3, PTL DEF Spec

------------------------------------------------------------------------------
\* A local definition that is in one place only.

OnlyOnce(s, d) == \A i, j \in DOMAIN s : IsLocal(s[i], d) /\ IsLocal(s[j], d) => i = j

\* A place in a part, counted from the beginning.
LEMMA WithinPart ==
  \A a, b, c, z \in Nat : c = a + b /\ c <= z =>
    \A k \in 1 .. b : a + k \in Nat /\ a + k \in 1 .. z /\ a + k > a /\ a + k <= c
OBVIOUS

\* Numbers on the two sides of others differ.
LEMMA PartsApart ==
  \A a, b, c \in Nat : b <= c => \A x, y \in Nat : x <= b /\ y > c => x # y
OBVIOUS

\* Two places in the parts of a flat sequence are apart in it.
LEMMA PartsOnce ==
  ASSUME NEW S, NEW ss \in Seq(Seq(S)), NEW d, OnlyOnce(FlattenSeq(ss), d)
  PROVE  \A i, j \in DOMAIN ss : \A k \in DOMAIN ss[i], l \in DOMAIN ss[j] :
           IsLocal(ss[i][k], d) /\ IsLocal(ss[j][l], d) => i = j /\ k = l
<1> DEFINE n == Len(ss)
           flat == FlattenSeq(ss)
<1>1. PICK off \in [0 .. n -> Nat] : Places(off, ss)
  BY FlatPlaces
<1>2. flat \in Seq(S)
  BY FlatPlaces
<1>3. /\ n \in Nat /\ DOMAIN ss = 1 .. n
      /\ \A i \in 1 .. n : Len(ss[i]) \in Nat /\ DOMAIN ss[i] = 1 .. Len(ss[i])
  <2>1. \A i \in 1 .. n : ss[i] \in Seq(S)
    OBVIOUS
  <2>2. \A s \in Seq(S) : Len(s) \in Nat /\ DOMAIN s = 1 .. Len(s)
    OBVIOUS
  <2>3. n \in Nat /\ DOMAIN ss = 1 .. n
    OBVIOUS
  <2> QED BY <2>1, <2>2, <2>3
<1>4. DOMAIN flat = 1 .. Len(flat) /\ Len(flat) \in Nat
  BY <1>2
<1>5. /\ off[n] = Len(flat)
      /\ \A i, j \in 0 .. n : i <= j => off[i] <= off[j]
      /\ \A i \in 1 .. n : /\ off[i] = off[i - 1] + Len(ss[i])
                           /\ \A k \in 1 .. Len(ss[i]) : flat[off[i - 1] + k] = ss[i][k]
  BY <1>1 DEF Places
<1> HIDE DEF n, flat
<1>6. \A i \in 1 .. n : i \in 0 .. n /\ i - 1 \in 0 .. n /\ i <= n /\ n \in 0 .. n
  BY <1>3
<1>7. ASSUME NEW i \in 1 .. n, NEW k \in 1 .. Len(ss[i])
      PROVE  /\ off[i - 1] + k \in DOMAIN flat /\ off[i - 1] + k \in Nat
             /\ off[i - 1] + k > off[i - 1] /\ off[i - 1] + k <= off[i]
  <2>1. off[i - 1] \in Nat /\ off[i] \in Nat /\ off[n] \in Nat /\ off[i] <= off[n] /\ Len(ss[i]) \in Nat
    BY <1>3, <1>5, <1>6
  <2>2. off[i] = off[i - 1] + Len(ss[i])
    BY <1>5
  <2>3. off[n] = Len(flat)
    BY <1>5
  <2> QED BY <1>4, <2>1, <2>2, <2>3, WithinPart
<1>8. \A i, j \in 1 .. n : \A k \in 1 .. Len(ss[i]), l \in 1 .. Len(ss[j]) :
        off[i - 1] + k = off[j - 1] + l => ~ (i < j)
  <2> SUFFICES ASSUME NEW i \in 1 .. n, NEW j \in 1 .. n, NEW k \in 1 .. Len(ss[i]), NEW l \in 1 .. Len(ss[j]),
                      off[i - 1] + k = off[j - 1] + l, i < j
               PROVE  FALSE
    OBVIOUS
  <2>1. i <= j - 1
    OBVIOUS
  <2>2. off[i] <= off[j - 1]
    BY <1>5, <1>6, <2>1
  <2>3. off[i] \in Nat /\ off[j - 1] \in Nat
    BY <1>6
  <2>4. off[i - 1] + k <= off[i] /\ off[j - 1] + l > off[j - 1]
    BY <1>7
  <2>5. off[i - 1] + k \in Nat /\ off[j - 1] + l \in Nat
    BY <1>7
  <2> QED BY <2>2, <2>3, <2>4, <2>5, PartsApart
<1>9. ASSUME NEW i \in 1 .. n, NEW j \in 1 .. n, NEW k \in 1 .. Len(ss[i]), NEW l \in 1 .. Len(ss[j]),
             IsLocal(ss[i][k], d), IsLocal(ss[j][l], d)
      PROVE  i = j /\ k = l
  <2>1. off[i - 1] + k = off[j - 1] + l
    <3>1. flat[off[i - 1] + k] = ss[i][k] /\ flat[off[j - 1] + l] = ss[j][l]
      BY <1>5
    <3>2. off[i - 1] + k \in DOMAIN flat /\ off[j - 1] + l \in DOMAIN flat
      BY <1>7
    <3> QED BY <1>9, <3>1, <3>2 DEF OnlyOnce, flat
  <2>2. i = j
    <3>1. ~ (i < j) /\ ~ (j < i)
      BY <1>8, <2>1
    <3> QED BY <1>3, <3>1
  <2>3. k = l
    <3>1. off[i - 1] \in Nat
      BY <1>6
    <3> QED BY <2>1, <2>2, <3>1
  <2> QED BY <2>2, <2>3
<1>10. \A i \in DOMAIN ss : i \in 1 .. n /\ DOMAIN ss[i] = 1 .. Len(ss[i])
  BY <1>3
<1> SUFFICES ASSUME NEW i \in DOMAIN ss, NEW j \in DOMAIN ss, NEW k \in DOMAIN ss[i], NEW l \in DOMAIN ss[j],
                    IsLocal(ss[i][k], d), IsLocal(ss[j][l], d)
             PROVE  i = j /\ k = l
  OBVIOUS
<1>11. i \in 1 .. n /\ j \in 1 .. n /\ k \in 1 .. Len(ss[i]) /\ l \in 1 .. Len(ss[j])
  <2>1. k \in DOMAIN ss[i] /\ l \in DOMAIN ss[j]
    OBVIOUS
  <2> QED BY <1>10, <2>1, Zenon
<1> QED BY <1>9, <1>11, Zenon

\* Item item is local definition d, or loads a file where it is.
HasLocal(t, item, d) ==
  \/ IsLocal(item, d)
  \/ item.kind = "load" /\ \E k \in DOMAIN t[item.file] : IsLocal(t[item.file][k], d)

IsFlat(t, f) ==
  \A i \in DOMAIN t[f] : t[f][i].kind = "load" =>
    /\ t[f][i].file \in DOMAIN t
    /\ \A k \in DOMAIN t[t[f][i].file] : t[t[f][i].file][k].kind # "load"

\* A local definition that the unfolding has once is in one place of a file,
\* or in one place of one file that it loads.
LEMMA OnePlace ==
  ASSUME NEW t, TextOk(t), NEW m \in Nat, NEW f \in DOMAIN t, IsFlat(t, f),
         NEW d, OnlyOnce(Unfold(t, (m + 1) + 1, f), d)
  PROVE  /\ \A i, j \in DOMAIN t[f] :
              HasLocal(t, t[f][i], d) /\ HasLocal(t, t[f][j], d) => i = j
         /\ \A i \in DOMAIN t[f] : t[f][i].kind = "load" => OnlyOnce(t[t[f][i].file], d)
<1> DEFINE M == m + 1
           ps == Parts(t, M, f)
<1>1. M \in Nat /\ f \in File
  BY DEF TextOk
<1>2. ps \in Seq(Seq(Item)) /\ Unfold(t, M + 1, f) = FlattenSeq(ps)
  BY <1>1, UnfoldIs
<1>3. \A i, j \in DOMAIN ps : \A k \in DOMAIN ps[i], l \in DOMAIN ps[j] :
        IsLocal(ps[i][k], d) /\ IsLocal(ps[j][l], d) => i = j /\ k = l
  <2>1. OnlyOnce(FlattenSeq(ps), d)
    BY <1>2
  <2> HIDE DEF ps
  <2> QED BY <1>2, <2>1, PartsOnce
<1>4. DOMAIN ps = DOMAIN t[f]
  BY DEF Parts
<1>5. ASSUME NEW i \in DOMAIN t[f], HasLocal(t, t[f][i], d)
      PROVE  \E k \in DOMAIN ps[i] : IsLocal(ps[i][k], d)
  <2>1. CASE t[f][i].kind = "load"
    <3> DEFINE g == t[f][i].file
    <3>1. ps[i] = Unfold(t, M, g) /\ g \in DOMAIN t
      BY <2>1 DEF Parts, IsFlat
    <3>2. PICK k \in DOMAIN t[g] : IsLocal(t[g][k], d)
      BY <1>5, <2>1 DEF HasLocal, IsLocal
    <3>3. d \in Names(t, m + 1, g)
      BY <3>1, <3>2, NamesIs
    <3>4. \E x \in ToSet(Unfold(t, m + 1, g)) : IsLocal(x, d)
      BY <3>3 DEF Names, IsLocal
    <3> HIDE DEF ps
    <3> QED BY <3>1, <3>4 DEF ToSet
  <2>2. CASE t[f][i].kind # "load"
    <3>1. ps[i] = <<t[f][i]>> /\ IsLocal(t[f][i], d)
      BY <1>5, <2>2 DEF Parts, HasLocal
    <3>2. 1 \in DOMAIN <<t[f][i]>> /\ <<t[f][i]>>[1] = t[f][i]
      OBVIOUS
    <3> HIDE DEF ps
    <3> QED BY <3>1, <3>2
  <2> QED BY <2>1, <2>2
<1>6. ASSUME NEW i \in DOMAIN t[f], t[f][i].kind = "load" PROVE OnlyOnce(t[t[f][i].file], d)
  <2> DEFINE g == t[f][i].file
             qs == Parts(t, m, g)
  <2>1. g \in DOMAIN t /\ g \in File /\ \A k \in DOMAIN t[g] : t[g][k].kind # "load"
    BY <1>6 DEF IsFlat, TextOk
  <2>2. qs \in Seq(Seq(Item)) /\ Unfold(t, M, g) = FlattenSeq(qs)
    BY <2>1, UnfoldIs
  <2>3. ps[i] = FlattenSeq(qs)
    BY <1>6, <2>2 DEF Parts
  <2>4. OnlyOnce(FlattenSeq(qs), d)
    <3> HIDE DEF ps, qs
    <3> QED BY <1>3, <1>4, <2>3 DEF OnlyOnce
  <2>5. \A k, l \in DOMAIN qs : \A x \in DOMAIN qs[k], y \in DOMAIN qs[l] :
          IsLocal(qs[k][x], d) /\ IsLocal(qs[l][y], d) => k = l /\ x = y
    <3> HIDE DEF qs
    <3> QED BY <2>2, <2>4, PartsOnce
  <2>6. DOMAIN qs = DOMAIN t[g] /\ \A k \in DOMAIN t[g] : qs[k] = <<t[g][k]>>
    BY <2>1, Zenon DEF Parts
  <2>7. \A x : 1 \in DOMAIN <<x>> /\ <<x>>[1] = x
    OBVIOUS
  <2> HIDE DEF qs
  <2> SUFFICES ASSUME NEW k \in DOMAIN t[g], NEW l \in DOMAIN t[g],
                      IsLocal(t[g][k], d), IsLocal(t[g][l], d)
               PROVE  k = l
    BY DEF OnlyOnce
  <2>8. 1 \in DOMAIN qs[k] /\ 1 \in DOMAIN qs[l] /\ qs[k][1] = t[g][k] /\ qs[l][1] = t[g][l]
    BY <2>6, <2>7
  <2> HIDE DEF g
  <2> QED BY <2>5, <2>6, <2>8
<1> HIDE DEF ps
<1> QED BY <1>3, <1>4, <1>5, <1>6

------------------------------------------------------------------------------
\* A program of the usual form, while it is read.

\* The files that are left to compile are there, and no load is nested.
FilesAreThere == ToSet(toCompile) \subseteq DOMAIN text
StackIsFlat == Len(open) <= 2 /\ (Len(open) = 2 => open[2] \in Text)

\* A class is seen in its own file, no sooner and no later than its item is read.
ClassIsRead(f) == \E i \in 1 .. pos[f] : text[f][i].kind = "class"
SeenAreRead ==
  \A f \in Class :
    /\ f \in DOMAIN text /\ table[f] = "seen" => f \in pushed /\ (startstr = <<f>> => ClassIsRead(f))
    /\ f \in pushed /\ (startstr # <<f>> \/ ClassIsRead(f)) => table[f] = "seen"

\* Local definition d was read, in the file being compiled or in one that it loads.
WasRead(t, o, p, f, d) ==
  \E i \in 1 .. p[f] :
    \/ IsLocal(t[f][i], d)
    \/ /\ t[f][i].kind = "load"
       /\ \E k \in DOMAIN t[t[f][i].file] :
            /\ IsLocal(t[t[f][i].file][k], d)
            /\ i = p[f] /\ Len(o) = 2 => k <= p[t[f][i].file]

LocalsWereRead ==
  \A c \in Class : startstr = <<c>> => \A d \in locals[c] : WasRead(text, open, pos, c, d)

Accepted == phase # "error" /\ FilesAreThere /\ StackIsFlat /\ SeenAreRead /\ LocalsWereRead

\* What Conventional says of a text when three files can be open.
LEMMA ConventionalText ==
  ASSUME TextOk(text), Conventional, MaxOpen >= 3, NEW f \in DOMAIN text
  PROVE  /\ \A i \in DOMAIN text[f] :
              /\ text[f][i].kind = "load" =>
                   text[f][i].file \in DOMAIN text /\ text[f][i].file \in Text /\ f \in Class
              /\ text[f][i].kind = "use" => text[f][i].file \in DOMAIN text
              /\ text[f][i].kind = "class" => text[f][i].name = f /\ f \in Class
         /\ f \in Class => \E i \in DOMAIN text[f] : text[f][i].kind = "class"
         /\ \A i, j \in DOMAIN text[f] :
              text[f][i].kind = "class" /\ text[f][j].kind = "class" => i = j
         /\ \A d : \A i, j \in DOMAIN text[f] :
              HasLocal(text, text[f][i], d) /\ HasLocal(text, text[f][j], d) => i = j
         /\ \A d : \A i \in DOMAIN text[f] :
              text[f][i].kind = "load" => OnlyOnce(text[text[f][i].file], d)
<1>1. \A g \in DOMAIN text : \A i \in DOMAIN text[g] :
        /\ text[g][i].kind \in {"load", "use"} => text[g][i].file \in DOMAIN text
        /\ text[g][i].kind = "load" => text[g][i].file \in Text /\ g \in Class
        /\ text[g][i].kind = "class" => text[g][i].name = g
  BY DEF Conventional, Exists
<1>2. \A i \in DOMAIN text[f] : text[f][i] \in Item
  BY DEF TextOk
<1>3. \A i \in DOMAIN text[f] : text[f][i].kind = "class" => f \in Class
  BY <1>1, <1>2, Items
<1>4. f \in Class =>
        \E i \in DOMAIN text[f] : \A j \in DOMAIN text[f] : text[f][j].kind = "class" <=> i = j
  BY DEF Conventional
<1>5. Class \cap Text = {}
  BY FilesAssumption
<1>6. IsFlat(text, f)
  <2> SUFFICES ASSUME NEW i \in DOMAIN text[f], text[f][i].kind = "load"
               PROVE  /\ text[f][i].file \in DOMAIN text
                      /\ \A k \in DOMAIN text[text[f][i].file] : text[text[f][i].file][k].kind # "load"
    BY DEF IsFlat
  <2>1. text[f][i].file \in DOMAIN text /\ text[f][i].file \in Text
    BY <1>1
  <2> QED BY <1>1, <1>5, <2>1
<1> DEFINE m == MaxOpen - 2
<1>7. m \in Nat /\ (m + 1) + 1 = MaxOpen
  BY FilesAssumption
<1>8. ASSUME NEW d PROVE OnlyOnce(Unfold(text, (m + 1) + 1, f), d)
  BY <1>7 DEF Conventional, OnlyOnce, IsLocal, Expansion
<1> HIDE DEF m
<1>9. \A d : /\ \A i, j \in DOMAIN text[f] :
                  HasLocal(text, text[f][i], d) /\ HasLocal(text, text[f][j], d) => i = j
             /\ \A i \in DOMAIN text[f] : text[f][i].kind = "load" => OnlyOnce(text[text[f][i].file], d)
  BY <1>6, <1>7, <1>8, OnePlace
<1> QED BY <1>1, <1>3, <1>4, <1>9

\* A stack that is not empty and no higher than two.
LEMMA OneOrTwo == \A n \in Nat : 1 <= n /\ n <= 2 => n = 1 \/ n = 2
OBVIOUS

\* While something is read it is the file being compiled, or one that it loads.
LEMMA TopIs ==
  ASSUME IInv, LInv, StackIsFlat, open # << >>
  PROVE  \E c \in Class :
           /\ startstr = <<c>> /\ startstr[1] = c /\ c \in File /\ c \in DOMAIN text /\ c \in pushed
           /\ Last(open) \in DOMAIN text /\ Last(open) \in File
           /\ \A f \in {c, Last(open)} : /\ pos[f] \in Nat /\ Len(text[f]) \in Nat /\ pos[f] <= Len(text[f])
                                         /\ DOMAIN text[f] = 1 .. Len(text[f])
                                         /\ \A i \in 1 .. pos[f] : i \in DOMAIN text[f]
           /\ \/ Len(open) = 1 /\ Last(open) = c
              \/ /\ Len(open) = 2 /\ Last(open) \in Text /\ Last(open) # c /\ pos[c] \in 1 .. pos[c]
                 /\ text[c][pos[c]].kind = "load" /\ text[c][pos[c]].file = Last(open)
<1>1. ReadTypes /\ TextOk(text)
  BY DEF LInv, ReadTypes
<1>2. PICK c \in Class :
        /\ startstr = <<c>> /\ startstr[1] = c /\ open[1] = c /\ c \in File /\ c \in pushed
        /\ Stack(text, open, pos, locals[c]) /\ Last(open) = open[Len(open)]
        /\ Len(open) \in Nat /\ 1 <= Len(open) /\ Last(open) \in DOMAIN text /\ Last(open) \in File
  BY WhileReading
<1>3. StackOk(text, open, pos) /\ LoadsOpen(text, open, pos)
  BY <1>2 DEF Stack
<1>4. \A i \in 1 .. Len(open) : /\ open[i] \in DOMAIN text /\ Len(text[open[i]]) \in Nat
                                /\ DOMAIN text[open[i]] = 1 .. Len(text[open[i]])
                                /\ pos[open[i]] \in Nat /\ pos[open[i]] <= Len(text[open[i]])
  BY <1>1, <1>3, StackFacts
<1>5. 1 \in 1 .. Len(open) /\ Len(open) \in 1 .. Len(open)
  BY <1>2
<1>6. ASSUME NEW f \in {c, Last(open)}
      PROVE  /\ pos[f] \in Nat /\ Len(text[f]) \in Nat /\ pos[f] <= Len(text[f])
             /\ DOMAIN text[f] = 1 .. Len(text[f])
             /\ \A i \in 1 .. pos[f] : i \in DOMAIN text[f]
  <2>1. /\ pos[f] \in Nat /\ Len(text[f]) \in Nat /\ pos[f] <= Len(text[f])
        /\ DOMAIN text[f] = 1 .. Len(text[f])
    BY <1>2, <1>4, <1>5
  <2>2. \A a, b \in Nat : a <= b => \A i \in 1 .. a : i \in 1 .. b
    OBVIOUS
  <2> QED BY <2>1, <2>2
<1>7. c \in DOMAIN text
  BY <1>2, <1>4, <1>5
<1>8. Len(open) \in {1, 2} /\ (Len(open) = 2 => open[2] \in Text)
  <2>1. Len(open) <= 2 /\ (Len(open) = 2 => open[2] \in Text)
    BY DEF StackIsFlat
  <2> QED BY <1>2, <2>1, OneOrTwo
<1>9. CASE Len(open) = 1
  BY <1>2, <1>6, <1>7, <1>9
<1>10. CASE Len(open) = 2
  <2>1. Last(open) = open[2] /\ open[2] \in Text /\ open[2] # c
    BY <1>2, <1>8, <1>10, FilesAssumption
  <2>2. IsLatest(open, 1)
    <3>1. \A j \in 1 + 1 .. 2 : j = 2
      OBVIOUS
    <3> QED BY <1>2, <1>10, <2>1, <3>1 DEF IsLatest
  <2>3. /\ pos[open[1]] > 0 /\ text[open[1]][pos[open[1]]].kind = "load"
        /\ text[open[1]][pos[open[1]]].file = open[1 + 1]
    <3>1. 1 \in 1 .. Len(open) - 1
      BY <1>10
    <3> QED BY <1>3, <2>2, <3>1 DEF LoadsOpen
  <2>4. 1 + 1 = 2 /\ pos[c] \in Nat
    BY <1>6
  <2>5. pos[c] > 0 /\ text[c][pos[c]].kind = "load" /\ text[c][pos[c]].file = open[2]
    BY <1>2, <2>3, <2>4
  <2>6. pos[c] \in 1 .. pos[c]
    BY <2>4, <2>5
  <2> QED BY <1>2, <1>6, <1>7, <1>10, <2>1, <2>5, <2>6
<1> QED BY <1>8, <1>9, <1>10

\* Nothing changes but what is open and read, and the classes stay as seen as they were.
LEMMA SeenKept ==
  ASSUME SeenAreRead, text' = text, startstr' = startstr,
         \A f \in Class : /\ f \in pushed' <=> f \in pushed
                          /\ table'[f] = "seen" <=> table[f] = "seen"
                          /\ ClassIsRead(f)' <=> ClassIsRead(f)
  PROVE  SeenAreRead'
<1> SUFFICES ASSUME NEW f \in Class
             PROVE  /\ f \in DOMAIN text /\ table'[f] = "seen" => f \in pushed' /\ (startstr = <<f>> => ClassIsRead(f)')
                    /\ f \in pushed' /\ (startstr # <<f>> \/ ClassIsRead(f)') => table'[f] = "seen"
  BY Zenon DEF SeenAreRead
<1> QED BY Zenon DEF SeenAreRead

\* One more item is read of file top.
LEMMA ClassesRead ==
  ASSUME text' = text, NEW top, NEW item, item = text[top][pos[top] + 1],
         NEW f, pos[f] \in Nat, pos'[f] = IF f = top THEN pos[f] + 1 ELSE pos[f]
  PROVE  ClassIsRead(f)' <=> ClassIsRead(f) \/ (f = top /\ item.kind = "class")
<1>1. CASE f # top
  <2>1. pos'[f] = pos[f]
    BY <1>1
  <2> QED BY <1>1, <2>1 DEF ClassIsRead
<1>2. CASE f = top
  <2>1. pos'[f] = pos[f] + 1
    BY <1>2
  <2>2. \A i : i \in 1 .. pos[f] + 1 <=> i \in 1 .. pos[f] \/ i = pos[f] + 1
    OBVIOUS
  <2>3. ClassIsRead(f)' <=> \E i \in 1 .. pos[f] + 1 : text[f][i].kind = "class"
    BY <2>1 DEF ClassIsRead
  <2> QED BY <1>2, <2>2, <2>3 DEF ClassIsRead
<1> QED BY <1>1, <1>2

\* To mention a class does not show it.
LEMMA MentionedSeen ==
  ASSUME NEW M, NEW t, NEW c \in Class PROVE Mention(M, t)[c] = "seen" <=> t[c] = "seen"
BY DEF Mention

\* A local definition that is read was not read before.
LEMMA LocalIsNew ==
  ASSUME IInv, LInv, Accepted, Conventional, MaxOpen >= 3,
         NEW item, Reads(item), item.kind = "local"
  PROVE  item.name \notin locals[startstr[1]]
<1> DEFINE top == Last(open)
           d == item.name
<1>1. open # << >> /\ pos[top] < Len(text[top]) /\ item = text[top][pos[top] + 1] /\ IsLocal(item, d)
  BY DEF Reads, IsLocal
<1>2. TextOk(text) /\ StackIsFlat /\ LocalsWereRead
  BY DEF LInv, ReadTypes, Accepted
<1>3. PICK c \in Class :
        /\ startstr = <<c>> /\ startstr[1] = c /\ c \in DOMAIN text /\ top \in DOMAIN text
        /\ \A f \in {c, top} : /\ pos[f] \in Nat /\ Len(text[f]) \in Nat
                               /\ DOMAIN text[f] = 1 .. Len(text[f])
                               /\ \A i \in 1 .. pos[f] : i \in DOMAIN text[f]
        /\ \/ Len(open) = 1 /\ top = c
           \/ /\ Len(open) = 2 /\ pos[c] \in 1 .. pos[c]
              /\ text[c][pos[c]].kind = "load" /\ text[c][pos[c]].file = top
  BY <1>1, <1>2, TopIs
<1> SUFFICES ASSUME d \in locals[c] PROVE FALSE
  BY <1>3
<1>4. PICK i \in 1 .. pos[c] :
        \/ IsLocal(text[c][i], d)
        \/ /\ text[c][i].kind = "load"
           /\ \E k \in DOMAIN text[text[c][i].file] :
                /\ IsLocal(text[text[c][i].file][k], d)
                /\ i = pos[c] /\ Len(open) = 2 => k <= pos[text[c][i].file]
  BY <1>2, <1>3 DEF LocalsWereRead, WasRead
<1>5. HasLocal(text, text[c][i], d) /\ i \in DOMAIN text[c]
  BY <1>3, <1>4 DEF HasLocal
<1>6. pos[top] + 1 \in DOMAIN text[top] /\ pos[top] + 1 \notin 1 .. pos[top]
  BY <1>1, <1>3
<1> HIDE DEF d, top
<1>7. CASE Len(open) = 1 /\ top = c
  <2>1. HasLocal(text, text[c][pos[top] + 1], d) /\ pos[top] + 1 \in DOMAIN text[c]
    BY <1>1, <1>6, <1>7 DEF HasLocal
  <2>2. i = pos[top] + 1
    BY <1>2, <1>3, <1>5, <2>1, ConventionalText
  <2> QED BY <1>6, <1>7, <2>2
<1>8. CASE Len(open) = 2 /\ pos[c] \in 1 .. pos[c] /\ text[c][pos[c]].kind = "load" /\ text[c][pos[c]].file = top
  <2>1. HasLocal(text, text[c][pos[c]], d) /\ pos[c] \in DOMAIN text[c]
    BY <1>1, <1>3, <1>6, <1>8 DEF HasLocal
  <2>2. i = pos[c]
    BY <1>2, <1>3, <1>5, <2>1, ConventionalText
  <2>3. PICK k \in DOMAIN text[top] : IsLocal(text[top][k], d) /\ k <= pos[top]
    BY <1>4, <1>8, <2>2 DEF IsLocal
  <2>4. OnlyOnce(text[top], d)
    BY <1>2, <1>3, <1>8, <2>1, ConventionalText
  <2>5. k = pos[top] + 1
    BY <1>1, <1>6, <2>3, <2>4 DEF OnlyOnce
  <2> QED BY <1>3, <2>3, <2>5
<1> QED BY <1>3, <1>7, <1>8

\* A class is defined in the file being compiled, and was not seen before.
LEMMA ClassIsNew ==
  ASSUME IInv, LInv, Accepted, Conventional, MaxOpen >= 3,
         NEW item, Reads(item), item.kind = "class"
  PROVE  item.name \in Class /\ item.name = Last(open) /\ startstr = <<item.name>> /\ table[item.name] # "seen"
<1> DEFINE top == Last(open)
<1>1. open # << >> /\ pos[top] < Len(text[top]) /\ item = text[top][pos[top] + 1]
  BY DEF Reads
<1>2. TextOk(text) /\ StackIsFlat /\ SeenAreRead
  BY DEF LInv, ReadTypes, Accepted
<1>3. PICK c \in Class :
        /\ startstr = <<c>> /\ c \in DOMAIN text /\ top \in DOMAIN text
        /\ \A f \in {c, top} : /\ pos[f] \in Nat /\ Len(text[f]) \in Nat
                               /\ DOMAIN text[f] = 1 .. Len(text[f])
                               /\ \A i \in 1 .. pos[f] : i \in DOMAIN text[f]
        /\ top = c \/ top \in Text
  BY <1>1, <1>2, TopIs
<1>4. pos[top] + 1 \in DOMAIN text[top] /\ pos[top] + 1 \notin 1 .. pos[top]
  BY <1>1, <1>3
<1>5. item.name = top /\ top \in Class
  BY <1>1, <1>2, <1>3, <1>4, ConventionalText
<1>6. top = c
  BY <1>3, <1>5, FilesAssumption
<1> SUFFICES ASSUME table[c] = "seen" PROVE FALSE
  BY <1>3, <1>5, <1>6
<1>7. ClassIsRead(c)
  BY <1>2, <1>3 DEF SeenAreRead
<1>8. PICK i \in 1 .. pos[c] : text[c][i].kind = "class"
  BY <1>7 DEF ClassIsRead
<1>9. i = pos[top] + 1
  BY <1>1, <1>2, <1>3, <1>4, <1>6, <1>8, ConventionalText
<1> QED BY <1>4, <1>6, <1>9

\* A sequence of one element is not empty.
LEMMA OneIsSome == \A s : Len(s) = 1 => s # << >>
OBVIOUS

\* The class of the file is seen when all of it was read.
LEMMA ClassIsSeen ==
  ASSUME IInv, LInv, Accepted, Conventional, MaxOpen >= 3,
         Len(open) = 1, pos[Last(open)] = Len(text[Last(open)])
  PROVE  \E c \in Class : startstr = <<c>> /\ startstr[1] = c /\ table[c] = "seen" /\ c \in pushed
<1>1. open # << >>
  BY OneIsSome
<1>2. TextOk(text) /\ StackIsFlat /\ SeenAreRead
  BY DEF LInv, ReadTypes, Accepted
<1>3. PICK c \in Class :
        /\ startstr = <<c>> /\ startstr[1] = c /\ c \in DOMAIN text /\ c \in pushed /\ Last(open) = c
        /\ DOMAIN text[c] = 1 .. Len(text[c])
  BY <1>1, <1>2, TopIs
<1>4. \E i \in DOMAIN text[c] : text[c][i].kind = "class"
  BY <1>2, <1>3, ConventionalText
<1>5. ClassIsRead(c)
  BY <1>3, <1>4 DEF ClassIsRead
<1> QED BY <1>2, <1>3, <1>5 DEF SeenAreRead

\* At first nothing is wrong.
LEMMA InitAccepts == Init /\ Conventional => Accepted
<1> SUFFICES ASSUME Init, Conventional PROVE Accepted
  OBVIOUS
<1>1. /\ toCompile = prog.given /\ startstr = << >> /\ open = << >> /\ pushed = {}
      /\ table = [c \in Class |-> "unknown"] /\ phase = "parse"
  BY DEF Init
<1>2. Len(open) = 0
  BY <1>1
<1>3. FilesAreThere /\ StackIsFlat
  BY <1>1, <1>2 DEF Conventional, FilesAreThere, StackIsFlat
<1>4. SeenAreRead /\ LocalsWereRead
  <2>1. \A c : << >> # <<c>>
    OBVIOUS
  <2> QED BY <1>1, <2>1 DEF SeenAreRead, LocalsWereRead
<1> QED BY <1>1, <1>3, <1>4 DEF Accepted

\* A file to compile is there; if it was read before its class was seen.
LEMMA CompileFileAccepts ==
  ASSUME IInv, LInv, Accepted, Conventional, MaxOpen >= 3, CompileFile PROVE Accepted'
<1> DEFINE f == Head(toCompile)
<1>1. /\ phase = "parse" /\ startstr = << >> /\ toCompile # << >> /\ toCompile \in Seq(Class)
      /\ f \in Class /\ text' = text /\ table' = table /\ locals' = locals
  BY HeadTailProperties DEF CompileFile, Fail, IInv, TableTypes, text
<1>2. FilesAreThere /\ StackIsFlat /\ SeenAreRead /\ LocalsWereRead /\ OthersHaveNone /\ OpenIsRead /\ ReadTypes
  BY DEF Accepted, LInv
<1>3. open = << >> /\ Len(open) = 0 /\ Exists(f)
  <2>1. open = << >>
    BY <1>1, <1>2 DEF OpenIsRead
  <2>2. f \in ToSet(toCompile)
    BY <1>1, HeadAndTail
  <2> QED BY <1>2, <2>1, <2>2 DEF FilesAreThere, Exists
<1>4. f \notin pushed => CanPush(f)
  BY <1>3, FilesAssumption DEF CanPush
<1>5. f \in pushed => table[f] = "seen"
  <2>1. startstr # <<f>>
    BY <1>1
  <2> QED BY <1>1, <1>2, <2>1 DEF SeenAreRead
<1>6. /\ phase' = "parse" /\ toCompile' = Tail(toCompile)
      /\ \/ UNCHANGED <<startstr, open, pos, pushed>>
         \/ /\ f \notin pushed /\ startstr' = <<f>> /\ open' = Append(open, f)
            /\ pos' = [pos EXCEPT ![f] = 0] /\ pushed' = pushed \cup {f}
  BY <1>1, <1>4, <1>5 DEF CompileFile, Push
<1>7. FilesAreThere'
  <2>1. ToSet(Tail(toCompile)) \subseteq ToSet(toCompile)
    BY <1>1, HeadAndTail
  <2> QED BY <1>1, <1>2, <1>6, <2>1 DEF FilesAreThere
<1>8. CASE UNCHANGED <<startstr, open, pos, pushed>>
  <2>1. StackIsFlat'
    BY <1>2, <1>8 DEF StackIsFlat
  <2>2. \A c \in Class : ClassIsRead(c)' <=> ClassIsRead(c)
    BY <1>1, <1>8 DEF ClassIsRead
  <2>3. SeenAreRead'
    BY <1>1, <1>2, <1>8, <2>2, SeenKept
  <2>4. LocalsWereRead'
    BY <1>1, <1>2, <1>8, Zenon DEF LocalsWereRead
  <2> QED BY <1>6, <1>7, <2>1, <2>3, <2>4 DEF Accepted
<1>9. CASE /\ f \notin pushed /\ startstr' = <<f>> /\ open' = Append(open, f)
           /\ pos' = [pos EXCEPT ![f] = 0] /\ pushed' = pushed \cup {f}
  <2>1. StackIsFlat'
    <3>1. open' = <<f>>
      BY <1>3, <1>9
    <3>2. Len(open') = 1
      BY <3>1
    <3> QED BY <3>2 DEF StackIsFlat
  <2>2. \A c \in Class : pos'[c] = IF c = f THEN 0 ELSE pos[c]
    BY <1>2, <1>9 DEF ReadTypes, File
  <2>3. \A c \in Class : ClassIsRead(c)' <=> c # f /\ ClassIsRead(c)
    <3>1. \A i : i \notin 1 .. 0
      BY NoneBelow
    <3> QED BY <1>1, <2>2, <3>1 DEF ClassIsRead
  <2>4. SeenAreRead'
    <3> SUFFICES ASSUME NEW c \in Class
                 PROVE  /\ c \in DOMAIN text /\ table[c] = "seen" =>
                             c \in pushed' /\ (startstr' = <<c>> => ClassIsRead(c)')
                        /\ c \in pushed' /\ (startstr' # <<c>> \/ ClassIsRead(c)') => table[c] = "seen"
      BY <1>1, Zenon DEF SeenAreRead
    <3>1. startstr' = <<c>> <=> c = f
      BY <1>9
    <3>2. startstr # <<c>>
      BY <1>1
    <3>3. /\ c \in DOMAIN text /\ table[c] = "seen" => c \in pushed
          /\ c \in pushed => table[c] = "seen"
      BY <1>2, <3>2, Zenon DEF SeenAreRead
    <3> QED BY <1>9, <2>3, <3>1, <3>3
  <2>5. LocalsWereRead'
    <3>1. locals[f] = {}
      BY <1>1, <1>2, <1>9 DEF OthersHaveNone
    <3>2. \A c : <<f>> = <<c>> => c = f
      OBVIOUS
    <3> QED BY <1>1, <1>9, <3>1, <3>2 DEF LocalsWereRead
  <2> QED BY <1>6, <1>7, <2>1, <2>4, <2>5 DEF Accepted
<1> QED BY <1>6, <1>8, <1>9

\* What is there to load can be, and it is no class.
LEMMA LoadAccepts ==
  ASSUME IInv, LInv, Accepted, Conventional, MaxOpen >= 3,
         NEW item, Reads(item), LoadFile(item)
  PROVE  Accepted'
<1> DEFINE top == Last(open)
           g == item.file
<1>1. /\ phase = "parse" /\ open # << >> /\ pos[top] < Len(text[top]) /\ item = text[top][pos[top] + 1]
      /\ item.kind = "load" /\ text' = text /\ UNCHANGED <<toCompile, startstr, table, locals>>
  BY DEF Reads, LoadFile, text
<1>2. /\ FilesAreThere /\ StackIsFlat /\ SeenAreRead /\ LocalsWereRead /\ OpenIsRead /\ ReadTypes
      /\ TextOk(text)
  BY DEF Accepted, LInv, ReadTypes
<1>3. PICK c \in Class :
        /\ startstr = <<c>> /\ c \in File /\ c \in DOMAIN text /\ top \in DOMAIN text /\ top \in File
        /\ \A f \in {c, top} : /\ pos[f] \in Nat /\ Len(text[f]) \in Nat
                               /\ DOMAIN text[f] = 1 .. Len(text[f])
                               /\ \A i \in 1 .. pos[f] : i \in DOMAIN text[f]
        /\ (Len(open) = 1 /\ top = c) \/ top \in Text
  BY <1>1, <1>2, TopIs
<1>4. pos[top] + 1 \in DOMAIN text[top]
  BY <1>1, <1>3
<1>5. g \in DOMAIN text /\ g \in Text /\ top \in Class
  BY <1>1, <1>2, <1>3, <1>4, ConventionalText
<1>6. Len(open) = 1 /\ top = c /\ g \notin Class
  BY <1>3, <1>5, FilesAssumption
<1>7. CanPush(g)
  <2>1. Len(open) < MaxOpen
    BY <1>6, FilesAssumption
  <2> QED BY <1>5, <2>1 DEF CanPush, Exists
<1>8. /\ open' = Append(open, g) /\ pushed' = pushed \cup {g} /\ phase' = phase
      /\ pos' = [pos EXCEPT ![top] = @ + 1, ![g] = 0]
  BY <1>7 DEF LoadFile
<1>9. FilesAreThere'
  <2>1. ToSet(toCompile)' = ToSet(toCompile)
    BY <1>1
  <2> QED BY <1>1, <1>2, <2>1 DEF FilesAreThere
<1>10. Len(open') = 2 /\ open'[2] = g
  <2>1. open \in Seq(DOMAIN text)
    BY <1>1, WhileReading DEF Stack, StackOk
  <2>2. Len(open') = Len(open) + 1 /\ open'[Len(open) + 1] = g
    BY <1>5, <1>8, <2>1, AppendProperties
  <2>3. Len(open) + 1 = 2
    BY <1>6
  <2> QED BY <2>2, <2>3
<1>11. StackIsFlat'
  BY <1>5, <1>10 DEF StackIsFlat
<1>12. \A f \in Class : pos[f] \in Nat /\ pos'[f] = IF f = top THEN pos[f] + 1 ELSE pos[f]
  BY <1>2, <1>6, <1>8 DEF ReadTypes, File
<1>13. SeenAreRead'
  <2>1. \A f \in Class : ClassIsRead(f)' <=> ClassIsRead(f)
    <3> TAKE f \in Class
    <3>1. ClassIsRead(f)' <=> ClassIsRead(f) \/ (f = top /\ item.kind = "class")
      BY <1>1, <1>12, ClassesRead
    <3> QED BY <1>1, <3>1
  <2>2. \A f \in Class : f \in pushed' <=> f \in pushed
    BY <1>6, <1>8
  <2> QED BY <1>1, <1>2, <2>1, <2>2, SeenKept
<1>14. LocalsWereRead'
  <2> SUFFICES ASSUME NEW d \in locals[c] PROVE WasRead(text, open', pos', c, d)
    <3>1. \A k : <<c>> = <<k>> => k = c
      OBVIOUS
    <3> QED BY <1>1, <1>3, <3>1 DEF LocalsWereRead
  <2>1. PICK i \in 1 .. pos[c] :
          \/ IsLocal(text[c][i], d)
          \/ /\ text[c][i].kind = "load"
             /\ \E k \in DOMAIN text[text[c][i].file] : IsLocal(text[text[c][i].file][k], d)
    BY <1>2, <1>3 DEF LocalsWereRead, WasRead
  <2>2. pos'[c] = pos[c] + 1 /\ pos[c] \in Nat
    BY <1>3, <1>6, <1>12
  <2>3. i \in 1 .. pos'[c] /\ i # pos'[c]
    BY <2>2
  <2> QED BY <2>1, <2>3 DEF WasRead
<1> QED BY <1>1, <1>8, <1>9, <1>11, <1>13, <1>14 DEF Accepted

\* The next number follows those before.
LEMMA NextOne == \A n \in Nat : n + 1 \in 1 .. n + 1 /\ \A i \in 1 .. n : i \in 1 .. n + 1
OBVIOUS

\* Less than a number is less than the next.
LEMMA NoLater == \A k, n \in Nat : k <= n => k <= n + 1
OBVIOUS

\* What was read stays read, and one item more.
LEMMA LocalsStayRead ==
  ASSUME IInv, LInv, Accepted, NEW item, Reads(item), item.kind # "load",
         text' = text, startstr' = startstr, open' = open,
         pos' = [pos EXCEPT ![Last(open)] = @ + 1],
         \A c \in Class : startstr = <<c>> =>
           \A d \in locals'[c] : d \in locals[c] \/ IsLocal(item, d)
  PROVE  LocalsWereRead'
<1> DEFINE top == Last(open)
<1>1. open # << >> /\ pos[top] < Len(text[top]) /\ item = text[top][pos[top] + 1]
  BY DEF Reads
<1>2. StackIsFlat /\ LocalsWereRead /\ ReadTypes /\ TextOk(text)
  BY DEF Accepted, LInv, ReadTypes
<1>3. PICK c \in Class :
        /\ startstr = <<c>> /\ c \in File /\ c \in DOMAIN text /\ top \in DOMAIN text /\ top \in File
        /\ \A f \in {c, top} : /\ pos[f] \in Nat /\ Len(text[f]) \in Nat
                               /\ DOMAIN text[f] = 1 .. Len(text[f])
        /\ \/ Len(open) = 1 /\ top = c
           \/ /\ Len(open) = 2 /\ top # c /\ pos[c] \in 1 .. pos[c]
              /\ text[c][pos[c]].kind = "load" /\ text[c][pos[c]].file = top
  BY <1>1, <1>2, TopIs
<1>4. pos[top] + 1 \in DOMAIN text[top]
  BY <1>1, <1>3
<1>5. pos'[top] = pos[top] + 1 /\ (c # top => pos'[c] = pos[c]) /\ pos[c] \in Nat /\ pos[top] \in Nat
      /\ \A f \in File : f # top => pos'[f] = pos[f]
  BY <1>2, <1>3 DEF ReadTypes
<1> HIDE DEF top
<1> SUFFICES ASSUME NEW d \in locals'[c] PROVE WasRead(text, open, pos', c, d)
  <2>1. \A k : <<c>> = <<k>> => k = c
    OBVIOUS
  <2> QED BY <1>3, <2>1 DEF LocalsWereRead
<1>6. CASE d \in locals[c]
  <2>1. PICK i \in 1 .. pos[c] :
          \/ IsLocal(text[c][i], d)
          \/ /\ text[c][i].kind = "load"
             /\ \E k \in DOMAIN text[text[c][i].file] :
                  /\ IsLocal(text[text[c][i].file][k], d)
                  /\ i = pos[c] /\ Len(open) = 2 => k <= pos[text[c][i].file]
    BY <1>2, <1>3, <1>6 DEF LocalsWereRead, WasRead
  <2>2. CASE Len(open) = 1 /\ top = c
    <3>1. i \in 1 .. pos'[c]
      BY <1>5, <2>2, NextOne
    <3> QED BY <2>1, <2>2, <3>1 DEF WasRead
  <2>3. CASE /\ Len(open) = 2 /\ top # c
             /\ text[c][pos[c]].kind = "load" /\ text[c][pos[c]].file = top
    <3>1. i \in 1 .. pos'[c]
      BY <1>5, <2>3
    <3>2. CASE IsLocal(text[c][i], d)
      BY <3>1, <3>2 DEF WasRead
    <3>3. CASE ~ IsLocal(text[c][i], d)
      <4>1. PICK k \in DOMAIN text[text[c][i].file] :
              /\ IsLocal(text[text[c][i].file][k], d)
              /\ i = pos[c] => k <= pos[text[c][i].file]
        BY <2>1, <2>3, <3>3
      <4>2. i = pos'[c] => k <= pos'[text[c][i].file]
        <5> SUFFICES ASSUME i = pos'[c] PROVE k <= pos'[text[c][i].file]
          OBVIOUS
        <5>1. i = pos[c] /\ text[c][i].file = top
          BY <1>5, <2>3
        <5>2. k <= pos[top] /\ k \in DOMAIN text[top]
          BY <4>1, <5>1
        <5>3. k \in Nat
          BY <1>3, <5>2
        <5> QED BY <1>5, <5>1, <5>2, <5>3, NoLater
      <4> QED BY <2>1, <3>1, <3>3, <4>1, <4>2 DEF WasRead
    <3> QED BY <3>2, <3>3
  <2> QED BY <1>3, <2>2, <2>3
<1>7. CASE d \notin locals[c]
  <2>1. IsLocal(text[top][pos[top] + 1], d)
    BY <1>1, <1>3, <1>7
  <2>2. CASE top = c
    <3>1. pos[c] + 1 \in 1 .. pos'[c]
      BY <1>5, <2>2, NextOne
    <3> QED BY <2>1, <2>2, <3>1 DEF WasRead
  <2>3. CASE top # c
    <3>1. /\ pos[c] \in 1 .. pos'[c] /\ text[c][pos[c]].kind = "load" /\ text[c][pos[c]].file = top
          /\ pos[top] + 1 <= pos'[top]
      BY <1>3, <1>5, <2>3
    <3> QED BY <1>4, <2>1, <3>1 DEF WasRead
  <2> QED BY <2>2, <2>3
<1> QED BY <1>6, <1>7

\* Any other item is accepted as well.
LEMMA OtherAccepts ==
  ASSUME IInv, LInv, Accepted, Conventional, MaxOpen >= 3,
         NEW item, Reads(item), UseFile(item) \/ LocalDef(item) \/ ClassDef(item)
  PROVE  Accepted'
<1> DEFINE top == Last(open)
<1>1. /\ phase = "parse" /\ open # << >> /\ pos[top] < Len(text[top]) /\ item = text[top][pos[top] + 1]
      /\ item.kind \in {"use", "local", "class"} /\ text' = text
      /\ UNCHANGED <<toCompile, startstr, open, pushed>>
  BY DEF Reads, UseFile, LocalDef, ClassDef, text
<1>2. /\ FilesAreThere /\ StackIsFlat /\ SeenAreRead /\ ReadTypes /\ TextOk(text) /\ TableTypes
  BY DEF Accepted, LInv, IInv, ReadTypes
<1>3. PICK c \in Class :
        /\ startstr = <<c>> /\ startstr[1] = c /\ c \in pushed /\ top \in DOMAIN text /\ top \in File
        /\ pos[top] \in Nat /\ Len(text[top]) \in Nat /\ DOMAIN text[top] = 1 .. Len(text[top])
        /\ Len(open) = 1 \/ Len(open) = 2
  BY <1>1, <1>2, TopIs
<1>4. pos[top] + 1 \in DOMAIN text[top]
  BY <1>1, <1>3
<1>5. /\ phase' = phase /\ pos' = [pos EXCEPT ![top] = @ + 1]
      /\ \/ item.kind = "use" /\ table' = table /\ locals' = locals
         \/ /\ item.kind = "local" /\ table' = Mention(item.mentions, table)
            /\ locals' = [locals EXCEPT ![c] = @ \cup {item.name}]
         \/ /\ item.kind = "class" /\ locals' = locals
            /\ table' = Mention(item.mentions, [table EXCEPT ![item.name] = "seen"])
  <2>1. CASE UseFile(item)
    <3>1. item.file \in DOMAIN text
      BY <1>1, <1>2, <1>3, <1>4, <2>1, ConventionalText DEF UseFile
    <3>2. Len(open) < MaxOpen
      <4>1. \A n \in {1, 2} : n < MaxOpen
        BY FilesAssumption
      <4> QED BY <1>3, <4>1
    <3> QED BY <2>1, <3>1, <3>2 DEF UseFile, CanPush, Exists, Advance
  <2>2. CASE LocalDef(item)
    <3>1. item.name \notin locals[startstr[1]]
      BY <2>2, LocalIsNew DEF LocalDef
    <3> QED BY <1>3, <2>2, <3>1 DEF LocalDef, Advance
  <2>3. CASE ClassDef(item)
    <3>1. table[item.name] # "seen"
      BY <2>3, ClassIsNew DEF ClassDef
    <3> QED BY <2>3, <3>1 DEF ClassDef, Advance
  <2> QED BY <2>1, <2>2, <2>3
<1>6. FilesAreThere' /\ StackIsFlat'
  <2>1. ToSet(toCompile)' = ToSet(toCompile)
    BY <1>1
  <2> QED BY <1>1, <1>2, <2>1 DEF FilesAreThere, StackIsFlat
<1>7. LocalsWereRead'
  <2>1. \A k \in Class : startstr = <<k>> => \A d \in locals'[k] : d \in locals[k] \/ IsLocal(item, d)
    BY <1>2, <1>5 DEF IsLocal, ReadTypes, File
  <2> QED BY <1>1, <1>5, <2>1, LocalsStayRead
<1>8. \A f \in Class : ClassIsRead(f)' <=> ClassIsRead(f) \/ (f = top /\ item.kind = "class")
  <2> TAKE f \in Class
  <2>1. pos[f] \in Nat /\ pos'[f] = IF f = top THEN pos[f] + 1 ELSE pos[f]
    BY <1>2, <1>3, <1>5 DEF ReadTypes, File
  <2> QED BY <1>1, <2>1, ClassesRead
<1>9. SeenAreRead'
  <2>1. CASE item.kind # "class"
    <3>1. \A f \in Class : table'[f] = "seen" <=> table[f] = "seen"
      BY <1>5, <2>1, MentionedSeen
    <3>2. \A f \in Class : ClassIsRead(f)' <=> ClassIsRead(f)
      BY <1>8, <2>1
    <3>3. \A f \in Class : f \in pushed' <=> f \in pushed
      BY <1>1
    <3> QED BY <1>1, <1>2, <3>1, <3>2, <3>3, SeenKept
  <2>2. CASE item.kind = "class"
    <3>1. item.name \in Class /\ item.name = top /\ startstr = <<item.name>>
      BY <2>2, ClassIsNew
    <3>2. item.name = c
      <4>1. \A k : <<c>> = <<k>> => k = c
        OBVIOUS
      <4> QED BY <1>3, <3>1, <4>1
    <3> DEFINE seen == [table EXCEPT ![item.name] = "seen"]
    <3>3. \A f \in Class : seen[f] = "seen" <=> table[f] = "seen" \/ f = c
      BY <1>2, <3>2 DEF TableTypes
    <3> HIDE DEF seen
    <3>4. table' = Mention(item.mentions, seen)
      BY <1>5, <2>2 DEF seen
    <3>5. \A f \in Class : table'[f] = "seen" <=> table[f] = "seen" \/ f = c
      BY <3>3, <3>4, MentionedSeen
    <3>6. \A f \in Class : ClassIsRead(f)' <=> ClassIsRead(f) \/ f = c
      BY <1>8, <2>2, <3>1, <3>2
    <3> SUFFICES ASSUME NEW f \in Class
                 PROVE  /\ f \in DOMAIN text /\ table'[f] = "seen" =>
                             f \in pushed /\ (startstr = <<f>> => ClassIsRead(f)')
                        /\ f \in pushed /\ (startstr # <<f>> \/ ClassIsRead(f)') => table'[f] = "seen"
      BY <1>1, Zenon DEF SeenAreRead
    <3>7. /\ f \in DOMAIN text /\ table[f] = "seen" => f \in pushed /\ (startstr = <<f>> => ClassIsRead(f))
          /\ f \in pushed /\ (startstr # <<f>> \/ ClassIsRead(f)) => table[f] = "seen"
      BY <1>2, Zenon DEF SeenAreRead
    <3> QED BY <1>3, <3>5, <3>6, <3>7, Zenon
  <2> QED BY <2>1, <2>2
<1> QED BY <1>1, <1>5, <1>6, <1>7, <1>9 DEF Accepted

\* A loaded file ends, all of it is read.
LEMMA EndOfFileAccepts ==
  ASSUME IInv, LInv, Accepted, EndOfFile PROVE Accepted'
<1>1. /\ phase = "parse" /\ Len(open) > 1 /\ open' = Front(open) /\ text' = text
      /\ UNCHANGED <<toCompile, startstr, pos, pushed, table, locals, phase>>
  BY DEF EndOfFile, text
<1>2. /\ FilesAreThere /\ StackIsFlat /\ SeenAreRead /\ LocalsWereRead /\ phase # "error"
  BY DEF Accepted
<1>3. Len(open') = 1
  <2>1. open # << >>
    BY <1>1
  <2>2. open \in Seq(DOMAIN text)
    BY <2>1, WhileReading DEF Stack, StackOk
  <2>3. Len(open') = Len(open) - 1
    BY <1>1, <2>2, FrontIs
  <2>4. Len(open) \in Nat /\ Len(open) <= 2
    BY <1>2, <2>2, LenProperties DEF StackIsFlat
  <2>5. \A n \in Nat : n > 1 /\ n <= 2 => n - 1 = 1
    OBVIOUS
  <2> QED BY <1>1, <2>3, <2>4, <2>5
<1>4. FilesAreThere' /\ StackIsFlat'
  <2>1. ToSet(toCompile)' = ToSet(toCompile)
    BY <1>1
  <2> QED BY <1>1, <1>2, <1>3, <2>1 DEF FilesAreThere, StackIsFlat
<1>5. SeenAreRead'
  <2>1. \A f \in Class : ClassIsRead(f)' <=> ClassIsRead(f)
    BY <1>1 DEF ClassIsRead
  <2> QED BY <1>1, <1>2, <2>1, SeenKept
<1>6. LocalsWereRead'
  <2> SUFFICES ASSUME NEW c \in Class, startstr = <<c>>, NEW d \in locals[c]
               PROVE  WasRead(text, open', pos, c, d)
    BY <1>1, Zenon DEF LocalsWereRead
  <2>1. WasRead(text, open, pos, c, d)
    BY <1>2, Zenon DEF LocalsWereRead
  <2> QED BY <1>3, <2>1 DEF WasRead
<1> QED BY <1>1, <1>2, <1>4, <1>5, <1>6 DEF Accepted

\* A file ends whose class was seen.
LEMMA EndProgramAccepts ==
  ASSUME IInv, LInv, Accepted, Conventional, MaxOpen >= 3, EndProgram PROVE Accepted'
<1>1. /\ phase = "parse" /\ Len(open) = 1 /\ pos[Last(open)] = Len(text[Last(open)]) /\ text' = text
      /\ UNCHANGED <<toCompile, pos, pushed, table, locals>>
  BY DEF EndProgram, text
<1>2. /\ FilesAreThere /\ StackIsFlat /\ SeenAreRead
  BY DEF Accepted
<1>3. PICK c \in Class : startstr = <<c>> /\ startstr[1] = c /\ table[c] = "seen" /\ c \in pushed
  BY <1>1, ClassIsSeen
<1>4. startstr' = << >> /\ open' = << >> /\ phase' = phase
  BY <1>3 DEF EndProgram
<1>5. FilesAreThere' /\ StackIsFlat'
  <2>1. ToSet(toCompile)' = ToSet(toCompile)
    BY <1>1
  <2>2. Len(open') = 0
    BY <1>4
  <2> QED BY <1>1, <1>2, <2>1, <2>2 DEF FilesAreThere, StackIsFlat
<1>6. SeenAreRead'
  <2> SUFFICES ASSUME NEW f \in Class
               PROVE  /\ f \in DOMAIN text /\ table[f] = "seen" =>
                           f \in pushed /\ (startstr' = <<f>> => ClassIsRead(f)')
                      /\ f \in pushed /\ (startstr' # <<f>> \/ ClassIsRead(f)') => table[f] = "seen"
    BY <1>1, Zenon DEF SeenAreRead
  <2>1. startstr' # <<f>> /\ (f # c => startstr # <<f>>)
    BY <1>3, <1>4
  <2>2. /\ f \in DOMAIN text /\ table[f] = "seen" => f \in pushed /\ (startstr = <<f>> => ClassIsRead(f))
        /\ f \in pushed /\ (startstr # <<f>> \/ ClassIsRead(f)) => table[f] = "seen"
    BY <1>2, Zenon DEF SeenAreRead
  <2> QED BY <1>3, <2>1, <2>2, Zenon
<1>7. LocalsWereRead'
  <2>1. \A c2 : << >> # <<c2>>
    OBVIOUS
  <2> QED BY <1>4, <2>1 DEF LocalsWereRead
<1> QED BY <1>1, <1>4, <1>5, <1>6, <1>7 DEF Accepted

\* A step that neither opens nor reads: the files of the next round are there.
LEMMA RestAccepts ==
  ASSUME Accepted, UNCHANGED <<prog, startstr, open, pos, pushed, table, locals>>,
         ToSet(toCompile') \subseteq DOMAIN text, phase' # "error"
  PROVE  Accepted'
<1>1. text' = text
  BY DEF text
<1>2. FilesAreThere' /\ StackIsFlat'
  BY <1>1 DEF Accepted, FilesAreThere, StackIsFlat
<1>3. SeenAreRead'
  <2>1. \A f \in Class : ClassIsRead(f)' <=> ClassIsRead(f)
    BY <1>1 DEF ClassIsRead
  <2> QED BY <1>1, <2>1, SeenKept DEF Accepted
<1>4. LocalsWereRead'
  BY <1>1, Zenon DEF Accepted, LocalsWereRead
<1> QED BY <1>2, <1>3, <1>4 DEF Accepted

\* No step rejects a program of the usual form.
LEMMA NextAccepts ==
  ASSUME IInv, LInv, Accepted, Conventional, MaxOpen >= 3, [Next]_vars PROVE Accepted'
<1>1. FilesAreThere /\ phase # "error" /\ pushed \subseteq DOMAIN text
  BY DEF Accepted, LInv, ReadTypes
<1>2. CASE NextRound
  <2> DEFINE found == {c \in unseenIds : c \in pushed \/ Exists(c)}
  <2>1. IsFiniteSet(found)
    BY FilesAssumption, FS_Subset DEF IInv, TableTypes
  <2>2. ToSet(toCompile') = found
    BY <1>2, <2>1, OrderedSet DEF NextRound
  <2>3. found \subseteq DOMAIN text
    BY <1>1 DEF Exists
  <2> HIDE DEF found
  <2> QED BY <1>1, <1>2, <2>2, <2>3, RestAccepts DEF NextRound
<1>3. CASE EndParsing \/ Done \/ UNCHANGED vars
  <2>1. UNCHANGED <<prog, startstr, open, pos, pushed, table, locals, toCompile>> /\ phase' # "error"
    BY <1>1, <1>3 DEF EndParsing, Done, vars
  <2>2. ToSet(toCompile') = ToSet(toCompile)
    BY <2>1
  <2> QED BY <1>1, <2>1, <2>2, RestAccepts DEF FilesAreThere
<1>4. ASSUME NEW item, ParseItem(item) PROVE Accepted'
  BY <1>4, LoadAccepts, OtherAccepts DEF ParseItem
<1> QED
  BY <1>2, <1>3, <1>4, CompileFileAccepts, EndOfFileAccepts, EndProgramAccepts DEF Next

\* A program of the usual form is not rejected while it is read, in whatever
\* order its files are given, found and mention each other, if three files can
\* be open at a time.
THEOREM NothingRejected == Spec => []NoFalseRejection
<1> DEFINE AInv == MaxOpen >= 3 /\ Conventional => Accepted
<1>1. AInv => NoFalseRejection
  BY FilesAssumption DEF NoFalseRejection, Accepted
<1>2. Init => IInv /\ LInv /\ AInv
  BY InitHasNoneUnseen, InitHasNoLocals, InitAccepts
<1>3. IInv /\ LInv /\ AInv /\ [Next]_vars => IInv' /\ LInv' /\ AInv'
  <2> SUFFICES ASSUME IInv, LInv, AInv, [Next]_vars PROVE AInv'
    BY NextKeeps, NextReads
  <2> SUFFICES ASSUME MaxOpen >= 3, Conventional' PROVE Accepted'
    OBVIOUS
  <2>1. prog' = prog
    BY DEF Next, vars, CompileFile, ParseItem, LoadFile, UseFile, LocalDef, ClassDef, EndOfFile,
           EndProgram, NextRound, EndParsing, Done, Fail
  <2>2. text' = text
    BY <2>1 DEF text
  <2>3. Conventional
    BY <2>1, <2>2 DEF Conventional, Exists, Expansion
  <2> QED BY <2>3, NextAccepts
<1> QED BY <1>1, <1>2, <1>3, PTL DEF Spec

===============================================================================
