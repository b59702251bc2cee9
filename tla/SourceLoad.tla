----------------------------- MODULE SourceLoad -----------------------------
(***************************************************************************)
(* How the text of a program is found and read.  compileFiles parses the   *)
(* files it is given and then, in rounds, the files of the classes that    *)
(* were mentioned and not seen.  Within a file, load suspends it and reads *)
(* another one, as often as it is asked to; use only looks for a file.     *)
(* Local definitions belong to the file that is being compiled, wherever   *)
(* they are read.                                                          *)
(* A file is a sequence of items, each read and parsed in one step: a load *)
(* inside a class is not modelled.  The first error ends the compilation;  *)
(* the code reads on for the sake of further messages.                     *)
(***************************************************************************)
EXTENDS Naturals, SequencesExt, FiniteSetsExt

CONSTANTS
  Class,      \* the names of classes; the file of class c is c too
  Text,       \* the other files
  Local,      \* the names of local definitions
  Programs,   \* the programs to try: files' text and the files given
  MaxOpen     \* how many files can be open

File == Class \cup Text

\* An item, with the classes that it mentions.
Load(f) == [kind |-> "load", file |-> f]
Use(f) == [kind |-> "use", file |-> f]
Locally(d, mentions) == [kind |-> "local", name |-> d, mentions |-> mentions]
Define(c, mentions) == [kind |-> "class", name |-> c, mentions |-> mentions]

ASSUME FilesAssumption == Class \cap Text = {} /\ IsFiniteSet(Class) /\ MaxOpen \in Nat \ {0}
Item ==
  [kind : {"load", "use"}, file : File]
    \cup [kind : {"local"}, name : Local, mentions : SUBSET Class]
    \cup [kind : {"class"}, name : Class, mentions : SUBSET Class]

ASSUME ProgramsAssumption ==
  \A p \in Programs :
    /\ DOMAIN p.text \subseteq File /\ \A f \in DOMAIN p.text : p.text[f] \in Seq(Item)
    /\ p.given \in Seq(Class)

VARIABLES
  prog,       \* the program
  toCompile,  \* the files of this round that are not compiled yet
  startstr,   \* the file being compiled, if any: << >> or one file
  open,       \* m_openFilesStack
  pos,        \* the items read of each file since it was opened
  pushed,     \* m_registeredFilenames
  table,      \* whether each class is "unknown", "unseen" or "seen"
  unseenIds,  \* m_unseenClasses
  locals,     \* the local definitions of each file
  phase       \* "parse", then "parsed" or "error"

vars == <<prog, toCompile, startstr, open, pos, pushed, table, unseenIds, locals, phase>>

text == prog.text
Exists(f) == f \in DOMAIN text

Init ==
  /\ prog \in Programs
  /\ toCompile = prog.given /\ startstr = << >>
  /\ open = << >> /\ pos = [f \in File |-> 0] /\ pushed = {}
  /\ table = [c \in Class |-> "unknown"] /\ unseenIds = {}
  /\ locals = [f \in File |-> {}]
  /\ phase = "parse"

Fail ==
  /\ phase' = "error"
  /\ UNCHANGED <<prog, toCompile, startstr, open, pos, pushed, table, unseenIds, locals>>

-----------------------------------------------------------------------------
\* SourceStream::push: a file that was read before is read again, from its
\* beginning.
Push(f) ==
  /\ open' = Append(open, f)
  /\ pos' = [pos EXCEPT ![f] = 0]
  /\ pushed' = pushed \cup {f}

\* FileManagerStdio::open can fail on any file that does not exist, and on
\* each when too many are open.
CanPush(f) == Exists(f) /\ Len(open) < MaxOpen

\* Mutant: a file that was pushed before is taken for parsed.
BugPushedIsDone ==
  /\ phase = "parse" /\ startstr = << >> /\ toCompile # << >>
  /\ LET f == Head(toCompile)
     IN  \/ /\ f \in pushed
            /\ toCompile' = Tail(toCompile)
            /\ UNCHANGED <<prog, startstr, open, pos, pushed, table, unseenIds, locals, phase>>
         \/ /\ f \notin pushed /\ CanPush(f)
            /\ Push(f)
            /\ startstr' = <<f>> /\ toCompile' = Tail(toCompile)
            /\ UNCHANGED <<prog, table, unseenIds, locals, phase>>
         \/ f \notin pushed /\ ~ CanPush(f) /\ Fail

\* compileFile: a file that was loaded before is not parsed again, if that
\* has shown its class.
CompileFile ==
  /\ phase = "parse" /\ startstr = << >> /\ toCompile # << >>
  /\ LET f == Head(toCompile)
     IN  \/ /\ f \in pushed /\ table[f] # "unseen"
            /\ toCompile' = Tail(toCompile)
            /\ UNCHANGED <<prog, startstr, open, pos, pushed, table, unseenIds, locals, phase>>
         \/ /\ f \notin pushed /\ CanPush(f)
            /\ Push(f)
            /\ startstr' = <<f>> /\ toCompile' = Tail(toCompile)
            /\ UNCHANGED <<prog, table, unseenIds, locals, phase>>
         \/ f \in pushed /\ table[f] = "unseen" /\ Fail
         \/ f \notin pushed /\ ~ CanPush(f) /\ Fail

\* The next item of the file on top of the stack is item.
Reads(item) ==
  /\ phase = "parse" /\ open # << >> /\ pos[Last(open)] < Len(text[Last(open)])
  /\ item = text[Last(open)][pos[Last(open)] + 1]

Advance == pos' = [pos EXCEPT ![Last(open)] = @ + 1]

\* Mutant: a file is loaded only once.
BugLoadOnce(item) ==
  /\ item.kind = "load"
  /\ LET f == item.file
     IN  \/ f \in pushed /\ Advance /\ UNCHANGED <<open, pushed, phase>>
         \/ /\ f \notin pushed /\ CanPush(f)
            /\ open' = Append(open, f) /\ pushed' = pushed \cup {f}
            /\ pos' = [pos EXCEPT ![Last(open)] = @ + 1, ![f] = 0]
            /\ UNCHANGED phase
         \/ f \notin pushed /\ ~ CanPush(f) /\ phase' = "error" /\ UNCHANGED <<open, pos, pushed>>
  /\ UNCHANGED <<prog, toCompile, startstr, table, unseenIds, locals>>

\* preparseKeywordLoad: one that loads itself begins again, until no more
\* files can be opened.
LoadFile(item) ==
  /\ item.kind = "load"
  /\ LET f == item.file
     IN  \/ /\ CanPush(f)
            /\ open' = Append(open, f) /\ pushed' = pushed \cup {f}
            /\ pos' = [pos EXCEPT ![Last(open)] = @ + 1, ![f] = 0]
            /\ UNCHANGED phase
         \/ ~ CanPush(f) /\ phase' = "error" /\ UNCHANGED <<open, pos, pushed>>
  /\ UNCHANGED <<prog, toCompile, startstr, table, unseenIds, locals>>

\* preparseKeywordUse
UseFile(item) ==
  /\ item.kind = "use"
  /\ \/ (item.file \in pushed \/ CanPush(item.file)) /\ Advance /\ UNCHANGED phase
     \/ ~ (item.file \in pushed \/ CanPush(item.file)) /\ phase' = "error" /\ UNCHANGED pos
  /\ UNCHANGED <<prog, toCompile, startstr, open, pushed, table, unseenIds, locals>>

\* addIncompleteClassSymbolToProgramTable, for the classes of M that are not in t.
Mention(M, t) == [c \in Class |-> IF c \in M /\ t[c] = "unknown" THEN "unseen" ELSE t[c]]

\* parseLocalDef, in the scope of the file being compiled.
LocalDef(item) ==
  /\ item.kind = "local"
  /\ \/ /\ item.name \notin locals[startstr[1]]
        /\ locals' = [locals EXCEPT ![startstr[1]] = @ \cup {item.name}]
        /\ table' = Mention(item.mentions, table)
        /\ unseenIds' = unseenIds \cup {c \in Class : table[c] # table'[c]}
        /\ Advance
        /\ UNCHANGED phase
     \/ /\ item.name \in locals[startstr[1]]
        /\ phase' = "error" /\ UNCHANGED <<pos, table, unseenIds, locals>>
  /\ UNCHANGED <<prog, toCompile, startstr, open, pushed>>

\* parseThisClass: the class is seen, and no longer among the unseen ones.
ClassDef(item) ==
  /\ item.kind = "class"
  /\ \/ /\ table[item.name] # "seen"
        /\ table' = Mention(item.mentions, [table EXCEPT ![item.name] = "seen"])
        /\ unseenIds' = (unseenIds \cup {c \in Class : table[c] # table'[c]}) \ {item.name}
        /\ Advance
        /\ UNCHANGED phase
     \/ table[item.name] = "seen" /\ phase' = "error" /\ UNCHANGED <<pos, table, unseenIds>>
  /\ UNCHANGED <<prog, toCompile, startstr, open, pushed, locals>>

ParseItem(item) ==
  Reads(item) /\ (LoadFile(item) \/ UseFile(item) \/ LocalDef(item) \/ ClassDef(item))

\* SourceStream::read at the end of a file: the one that loaded it goes on.
EndOfFile ==
  /\ phase = "parse" /\ Len(open) > 1 /\ pos[Last(open)] = Len(text[Last(open)])
  /\ open' = Front(open)
  /\ UNCHANGED <<prog, toCompile, startstr, pos, pushed, table, unseenIds, locals, phase>>

\* The end of parseProgram: its own class must have been seen.
EndProgram ==
  /\ phase = "parse" /\ Len(open) = 1 /\ pos[Last(open)] = Len(text[Last(open)])
  /\ \/ table[startstr[1]] = "seen" /\ startstr' = << >> /\ open' = << >> /\ UNCHANGED phase
     \/ table[startstr[1]] # "seen" /\ phase' = "error" /\ UNCHANGED <<startstr, open>>
  /\ UNCHANGED <<prog, toCompile, pos, pushed, table, unseenIds, locals>>

\* Mutant: the unseen classes are kept for the next round.
BugKeepsUnseen ==
  /\ phase = "parse" /\ startstr = << >> /\ toCompile = << >> /\ unseenIds # {}
  /\ toCompile' \in SetToSeqs({c \in unseenIds : c \in pushed \/ Exists(c)})
  /\ UNCHANGED <<prog, startstr, open, pos, pushed, table, unseenIds, locals, phase>>

\* Mutant: a class without a file of its own is looked for there.
BugExpectsFile ==
  /\ phase = "parse" /\ startstr = << >> /\ toCompile = << >> /\ unseenIds # {}
  /\ toCompile' \in SetToSeqs(unseenIds)
  /\ unseenIds' = {}
  /\ UNCHANGED <<prog, startstr, open, pos, pushed, table, locals, phase>>

\* Another round of compileFiles, with the files that exist of the classes
\* that are unseen; their order is that of the string pool, here any.
NextRound ==
  /\ phase = "parse" /\ startstr = << >> /\ toCompile = << >> /\ unseenIds # {}
  /\ toCompile' \in SetToSeqs({c \in unseenIds : c \in pushed \/ Exists(c)})
  /\ unseenIds' = {}
  /\ UNCHANGED <<prog, startstr, open, pos, pushed, table, locals, phase>>

EndParsing ==
  /\ phase = "parse" /\ startstr = << >> /\ toCompile = << >> /\ unseenIds = {}
  /\ phase' = "parsed"
  /\ UNCHANGED <<prog, toCompile, startstr, open, pos, pushed, table, unseenIds, locals>>

Done == phase # "parse" /\ UNCHANGED vars

Next ==
  \/ CompileFile
  \/ \E item \in UNION {ToSet(text[f]) : f \in DOMAIN text} : ParseItem(item)
  \/ EndOfFile \/ EndProgram
  \/ NextRound \/ EndParsing
  \/ Done

Spec == Init /\ [][Next]_vars /\ WF_vars(Next)

-----------------------------------------------------------------------------
\* The items of file f of text t with those of the files it loads in their
\* places, files nested no deeper than n.
Unfold(t, n, f) ==
  LET nested[m \in Nat] ==
        [g \in File |->
           IF m = 0 \/ g \notin DOMAIN t THEN << >>
           ELSE FlattenSeq([i \in DOMAIN t[g] |->
                  IF t[g][i].kind = "load" THEN nested[m - 1][t[g][i].file] ELSE <<t[g][i]>>])]
  IN  nested[n][f]

Expansion(f) == Unfold(text, MaxOpen, f)

\* The files that were compiled: when the reading succeeds, every file of a
\* class that was pushed was, unless some file loads it.
Loads(f) == {text[f][i].file : i \in {j \in DOMAIN text[f] : text[f][j].kind = "load"}}
Compiled == {c \in Class \cap pushed : c \notin UNION {Loads(f) : f \in DOMAIN text}}

\* No class whose file exists is left unseen, however late it is mentioned,
\* and though its file may have been read before for another reason.
NoFileForgotten ==
  phase = "parsed" => \A c \in Class : table[c] = "unseen" => ~ Exists(c)

\* A local definition that files share by loading it is in the scope of each
\* of them, and nothing else is.
LocalsAreComplete ==
  phase = "parsed" =>
    \A c \in Compiled :
      locals[c] = {item.name : item \in {i \in ToSet(Expansion(c)) : i.kind = "local"}}

\* Each class is in its own file, nothing loads one, and each thing to load or
\* use exists and has no loads; no file has a local definition twice.
Conventional ==
  /\ ToSet(prog.given) \subseteq DOMAIN text
  /\ \A f \in DOMAIN text :
       /\ \A i \in DOMAIN text[f] :
            /\ text[f][i].kind \in {"load", "use"} => Exists(text[f][i].file)
            /\ text[f][i].kind = "load" => text[f][i].file \in Text /\ f \in Class
            /\ text[f][i].kind = "class" => text[f][i].name = f
       /\ f \in Class =>
            \E i \in DOMAIN text[f] : \A j \in DOMAIN text[f] : text[f][j].kind = "class" <=> i = j
       /\ \A i, j \in DOMAIN Expansion(f) :
            /\ Expansion(f)[i].kind = "local" /\ Expansion(f)[j].kind = "local"
            /\ Expansion(f)[i].name = Expansion(f)[j].name
            => i = j

\* Such a program is never rejected here, in whatever order its files are
\* given, found and mention each other, with or without a file for each name,
\* if three files can be open: one, one that it loads, and one that this uses.
NoFalseRejection == phase = "error" => MaxOpen < 3 \/ ~ Conventional

\* The reading ends, though files may load each other and classes may be
\* mentioned that have no file.
ReadingEnds == <>(phase # "parse")
=============================================================================
